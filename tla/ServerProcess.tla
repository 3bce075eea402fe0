--------------------------- MODULE ServerProcess ---------------------------
(***************************************************************************)
(* The life of the server process: main() loads the configuration, opens   *)
(* and migrates the database, and starts two subsystems, the DNS server    *)
(* and the RPC server, under the Toplevel of tokio-graceful-shutdown; the  *)
(* service manager starts the process again when it exits with an error    *)
(* (Restart = "on-failure").                                               *)
(*                                                                         *)
(* Subsystems can fail in two ways that the code treats differently: an    *)
(* error that run() returns is dropped, so that the subsystem ends as if   *)
(* all were well; an error before run(), or a panic, is seen by Toplevel.  *)
(***************************************************************************)
EXTENDS Naturals

CONSTANT MaxFaults     \* bound on things that go wrong

ASSUME MaxFaultsAssumption == MaxFaults \in Nat

Subsystems == {"DnsServer", "RpcServer"}

VARIABLES
    phase,     \* where main() is; "exited" when the process is gone
    sub,       \* state of each subsystem
    shutdown,  \* Toplevel has been asked, or has decided, to shut down
    stopped,   \* the operator has stopped the service
    status,    \* exit status
    migrated,  \* the schema exists on disk
    faults

vars == <<phase, sub, shutdown, stopped, status, migrated, faults>>

Phases == {"config", "open", "migrate", "running", "exited"}

\* "ended" is a return of Ok(()), "failed" an error or a panic, "stalled" a call
\* that does not return.
TypeOK ==
    /\ phase \in Phases
    /\ sub \in [Subsystems -> {"none", "starting", "serving", "stalled", "ended", "failed"}]
    /\ shutdown \in BOOLEAN /\ stopped \in BOOLEAN /\ migrated \in BOOLEAN
    /\ status \in {"none", "ok", "err"}
    /\ faults \in 0..MaxFaults

None == [s \in Subsystems |-> "none"]

Init ==
    /\ phase = "config" /\ sub = None
    /\ shutdown = FALSE /\ stopped = FALSE /\ migrated = FALSE
    /\ status = "none"
    /\ faults = 0

Fault == faults < MaxFaults /\ faults' = faults + 1

-----------------------------------------------------------------------------
\* The steps of main() before the subsystems; `?' ends it with an error.
Step(from, to) ==
    /\ phase = from
    /\ \/ phase' = to /\ UNCHANGED <<status, faults>>
       \/ Fault /\ phase' = "exited" /\ status' = "err"
    /\ UNCHANGED <<sub, shutdown, stopped>>

LoadConfig == Step("config", "open") /\ UNCHANGED migrated

OpenDatabase == Step("open", "migrate") /\ UNCHANGED migrated

\* The migration; then Toplevel starts both subsystems.
Migrate ==
    /\ phase = "migrate"
    /\ \/ /\ phase' = "running" /\ migrated' = TRUE
          /\ sub' = [s \in Subsystems |-> "starting"]
          /\ UNCHANGED <<status, faults>>
       \/ /\ Fault
          /\ phase' = "exited" /\ status' = "err"
          /\ UNCHANGED <<sub, migrated>>
    /\ UNCHANGED <<shutdown, stopped>>

Become(s, from, to) == sub[s] \in from /\ sub' = [sub EXCEPT ![s] = to]

Serve(s) ==
    /\ Become(s, {"starting"}, "serving")
    /\ UNCHANGED <<phase, shutdown, stopped, status, migrated, faults>>

\* run() returns an error (an address in use, a record that does not parse, a
\* broken socket): cancel_on_shutdown wraps it in Ok, and `if let Err(_)'
\* passes it over.
RunReturnsError(s) ==
    /\ Fault
    /\ Become(s, {"starting", "serving"}, "ended")
    /\ UNCHANGED <<phase, shutdown, stopped, status, migrated>>

\* Mutant: a failed subsystem is forgotten.
NoticeForgotten == UNCHANGED shutdown

\* Toplevel sees that a subsystem has failed, and shuts everything down.
Notice == shutdown' = TRUE

\* An error before run() (get_socket_addr of the RPC server) or a panic in the
\* subsystem.
Fail(s) ==
    /\ Fault
    /\ Become(s, {"starting"}, "failed")
    /\ Notice
    /\ UNCHANGED <<phase, stopped, status, migrated>>

\* The subsystem does not yield to the runtime: get_socket_addr lists the
\* interfaces in a blocking call, or the machine starves the thread.
Stall(s) ==
    /\ Fault
    /\ Become(s, {"starting", "serving"}, "stalled")
    /\ UNCHANGED <<phase, shutdown, stopped, status, migrated>>

\* Mutant: the run() of the RPC server is awaited without cancel_on_shutdown.
CancellableDns(s) == shutdown /\ s = "DnsServer" /\ sub[s] \in {"starting", "serving"}

Cancellable(s) == shutdown /\ sub[s] \in {"starting", "serving"}

\* cancel_on_shutdown drops run().
Cancel(s) ==
    /\ Cancellable(s)
    /\ sub' = [sub EXCEPT ![s] = "ended"]
    /\ UNCHANGED <<phase, shutdown, stopped, status, migrated, faults>>

\* Mutant: the process reports success whatever happened.
ExitStatusOk == "ok"

ExitStatus == IF \E s \in Subsystems : sub[s] = "failed" THEN "err" ELSE "ok"

\* Toplevel returns when all subsystems are gone, shut down or not.
ToplevelReturns ==
    /\ phase = "running"
    /\ \A s \in Subsystems : sub[s] \in {"ended", "failed"}
    /\ phase' = "exited"
    /\ status' = ExitStatus
    /\ UNCHANGED <<sub, shutdown, stopped, migrated, faults>>

\* handle_shutdown_requests waits a second, in which every subsystem that can be
\* cancelled is; for another one it returns an error.
ShutdownTimesOut ==
    /\ phase = "running"
    /\ shutdown
    /\ \A s \in Subsystems : ~Cancellable(s)
    /\ \E s \in Subsystems : sub[s] \notin {"ended", "failed"}
    /\ phase' = "exited"
    /\ status' = "err"
    /\ UNCHANGED <<sub, shutdown, stopped, migrated, faults>>

-----------------------------------------------------------------------------
\* The operator stops the service: a signal that Toplevel catches.
Stop ==
    /\ phase = "running"
    /\ ~stopped
    /\ stopped' = TRUE
    /\ shutdown' = TRUE
    /\ UNCHANGED <<phase, sub, status, migrated, faults>>

\* Restart = "on-failure".
WantsRestart == status = "err" /\ ~stopped

\* The service manager.
Restart ==
    /\ phase = "exited"
    /\ WantsRestart
    /\ phase' = "config" /\ sub' = None /\ shutdown' = FALSE /\ status' = "none"
    /\ UNCHANGED <<stopped, migrated, faults>>

Progress ==
    \/ LoadConfig \/ OpenDatabase \/ Migrate
    \/ ToplevelReturns \/ ShutdownTimesOut \/ Restart

Next ==
    \/ Progress
    \/ \E s \in Subsystems :
          Serve(s) \/ RunReturnsError(s) \/ Fail(s) \/ Stall(s) \/ Cancel(s)
    \/ Stop

\* main(), the runtime and the service manager do not stop by themselves.
Spec ==
    /\ Init
    /\ [][Next]_vars
    /\ WF_vars(Progress)
    /\ \A s \in Subsystems : WF_vars(Serve(s)) /\ WF_vars(Cancel(s))

-----------------------------------------------------------------------------
(* An exit with success hides no failure that Toplevel saw, and leaves no   *)
(* server running.                                                          *)
ExitOkIsClean ==
    status = "ok" => \A s \in Subsystems : sub[s] = "ended"

(* A subsystem that fails takes the other one down with it: the process     *)
(* exits with an error, for the service manager to see.                     *)
FailureEndsProcess ==
    \A s \in Subsystems : sub[s] = "failed" ~> (phase = "exited" /\ status = "err")

(* A service that is stopped goes away, however far its servers have come,  *)
(* and with success: an error status comes from a server that had failed,   *)
(* or that did not yield, and never from one that was only serving.         *)
StopEnds ==
    stopped ~> /\ phase = "exited"
               /\ status = "ok" \/ \E s \in Subsystems : sub[s] \in {"failed", "stalled"}

(* "the server should start running", and `Restart = "on-failure"': after   *)
(* the last fault a service that nobody stops, and that does not stall,     *)
(* serves DNS.                                                              *)
DnsComesUp ==
    [](~stopped /\ \A s \in Subsystems : sub[s] # "stalled")
        => <>[](sub["DnsServer"] = "serving")

(* The inductive invariant: subsystems are started after the migration,     *)
(* which stays on disk; the exit status is set when main() returns, leaves  *)
(* none of them running unless it could not be cancelled, and is true of    *)
(* them.                                                                    *)
ProcessInv ==
    /\ TypeOK
    /\ phase \notin {"running", "exited"} => sub = None
    /\ sub # None => migrated
    /\ phase = "exited" => \A s \in Subsystems : sub[s] \notin {"starting", "serving"}
    /\ status # "none" => phase = "exited"
    /\ ExitOkIsClean
=============================================================================
