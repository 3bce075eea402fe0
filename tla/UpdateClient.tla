---------------------------- MODULE UpdateClient ----------------------------
(***************************************************************************)
(* The update client of one machine: update_in_loop runs update_records on *)
(* a schedule, or main runs it once; update_records sends one record after *)
(* the other; update_record reads the address of the machine, puts it in a *)
(* message, and sends that message until a server acknowledges it or the   *)
(* retry policy gives up.                                                  *)
(*                                                                         *)
(* The server is the row of each record; the machine is its only writer.   *)
(* Connections fail, requests and replies are lost, and a request whose    *)
(* client has given up may still be applied later: the server does not     *)
(* know that the client has left.  There is no timeout on an answer: a     *)
(* server that stays silent keeps the client waiting.                      *)
(***************************************************************************)
EXTENDS Integers

CONSTANTS
    NumRecords,  \* number of configured records; record i is the i-th of them
    Addrs,       \* addresses the machine may have
    NoAddr,      \* no address: the interface is missing; or no row
    MaxChanges   \* bound on changes of the machine's addresses

ASSUME NumRecordsAssumption == NumRecords \in Nat
ASSUME NoAddrAssumption == NoAddr \notin Addrs
ASSUME BoundsAssumption == MaxChanges \in Nat

Records == 1..NumRecords
Content == Addrs \cup {NoAddr}

\* FibonacciBackoff ... take(5): one attempt and five more.
Retries == 5

VARIABLES
    mode,       \* "loop" with --schedule, "once" without
    schedule,   \* the schedule parses
    shutdown,   \* a signal has asked for shutdown
    pc,         \* where the client is
    result,     \* how update_records ended: "none", "ok", "err", "cancelled"
    status,     \* exit status of the process: "none", "ok", "err"
    next,       \* the record update_records is at
    errors,     \* its count of failed records
    message,    \* the address in the message of the current record
    attempts,   \* failed attempts to send it
    arrived,    \* the request in flight has been applied
    lost,       \* requests without a client that may still be applied
    addr,       \* the machine's address for each record
    table,      \* the server's row for each record
    changes,
    \* History variables, since the last cycle began.
    held,       \* addresses the machine has had for each record
    acked,      \* the address acknowledged for each record
    late        \* records written by a late request

client == <<pc, result, status, next, errors, message, attempts, arrived>>
world == <<addr, table, changes>>
history == <<held, acked, late>>
fixed == <<mode, schedule>>
vars == <<fixed, shutdown, client, lost, world, history>>

TypeOK ==
    /\ mode \in {"loop", "once"} /\ schedule \in BOOLEAN /\ shutdown \in BOOLEAN
    /\ pc \in {"top", "update", "connect", "waiting", "schedule", "sleep", "exited"}
    /\ result \in {"none", "ok", "err", "cancelled"}
    /\ status \in {"none", "ok", "err"}
    /\ next \in 1..(NumRecords + 1)
    /\ errors \in 0..NumRecords
    /\ message \in Content
    /\ attempts \in 0..Retries
    /\ arrived \in BOOLEAN
    /\ lost \subseteq [rec : Records, addr : Addrs]
    /\ addr \in [Records -> Content]
    /\ table \in [Records -> Content]
    /\ changes \in 0..MaxChanges
    /\ held \in [Records -> SUBSET Content]
    /\ acked \in [Records -> Content]
    /\ late \subseteq Records

Init ==
    /\ mode \in {"loop", "once"} /\ schedule \in BOOLEAN /\ shutdown = FALSE
    /\ pc = "top" /\ result = "none" /\ status = "none"
    /\ next = 1 /\ errors = 0 /\ message = NoAddr /\ attempts = 0 /\ arrived = FALSE
    /\ lost = {}
    /\ addr \in [Records -> Content]
    /\ table = [r \in Records |-> NoAddr]
    /\ changes = 0
    /\ held = [r \in Records |-> {}]
    /\ acked = [r \in Records |-> NoAddr]
    /\ late = {}

-----------------------------------------------------------------------------
(***************************************************************************)
(* update_records and update_record.                                       *)
(***************************************************************************)
\* The loop checks for shutdown and calls update_records.
BeginCycle ==
    /\ pc = "top"
    /\ ~shutdown
    /\ pc' = "update" /\ result' = "none" /\ next' = 1 /\ errors' = 0
    /\ held' = [r \in Records |-> {addr[r]}]
    /\ acked' = [r \in Records |-> NoAddr]
    /\ late' = {}
    /\ UNCHANGED <<fixed, shutdown, status, message, attempts, arrived, lost, world>>

\* Mutant: a failed record ends the loop over the records.
RecordFailedStops ==
    /\ errors' = errors
    /\ next' = NumRecords + 1
    /\ pc' = "update"

\* update_record returned an error: it is counted, and the loop goes on.
RecordFailed ==
    /\ errors' = errors + 1
    /\ next' = next + 1
    /\ pc' = "update"

\* get_iface_addr returns an error.
NoAddress == addr[next] = NoAddr /\ RecordFailed /\ UNCHANGED <<message, attempts>>

\* Mutant: the client keeps the address it read first.
FreshAddressCached == IF message = NoAddr THEN addr[next] ELSE message

FreshAddress == addr[next]

\* update_record: the address is read once, for all attempts to send it.
ReadAddress ==
    /\ pc = "update"
    /\ next <= NumRecords
    /\ \/ NoAddress
       \/ /\ addr[next] # NoAddr
          /\ message' = FreshAddress
          /\ attempts' = 0
          /\ pc' = "connect"
          /\ UNCHANGED <<next, errors>>
    /\ UNCHANGED <<fixed, shutdown, result, status, arrived, lost, world, history>>

\* get_iface_addr cannot list the interfaces: unwrap() panics.  A single run dies
\* of it; in the loop it is a failed subsystem, which ends the process.
ListPanics ==
    /\ pc = "update"
    /\ next <= NumRecords
    /\ pc' = "exited" /\ status' = "err"
    /\ UNCHANGED <<fixed, shutdown, result, next, errors, message, attempts, arrived,
                   lost, world, history>>

\* client_upsert: connected, and the request is sent.
SendRequest ==
    /\ pc = "connect"
    /\ pc' = "waiting"
    /\ arrived' = FALSE
    /\ UNCHANGED <<fixed, shutdown, result, status, next, errors, message, attempts,
                   lost, world, history>>

MayRetry == attempts < Retries

\* Mutant: the retry policy has no end.
AttemptFailedForever == pc' = "connect" /\ UNCHANGED <<attempts, next, errors>>

\* The attempt failed: Retry::spawn tries again until the policy is exhausted.
AttemptFailed ==
    \/ /\ MayRetry
       /\ attempts' = attempts + 1
       /\ pc' = "connect"
       /\ UNCHANGED <<next, errors>>
    \/ /\ ~MayRetry
       /\ attempts' = 0
       /\ RecordFailed

ConnectFails ==
    /\ pc = "connect"
    /\ AttemptFailed
    /\ UNCHANGED <<fixed, shutdown, result, status, message, arrived, lost,
                   world, history>>

InFlight == [rec |-> next, addr |-> message]

\* The client stops waiting; a request not yet applied is dropped on the way,
\* or reaches the server all the same.
Abandon == lost' = lost \/ (~arrived /\ lost' = lost \cup {InFlight})

\* The connection breaks, or the server answers with an error.
ConnectionBreaks ==
    /\ pc = "waiting"
    /\ AttemptFailed
    /\ Abandon
    /\ UNCHANGED <<fixed, shutdown, result, status, message, arrived, world, history>>

\* Mutant: the reply is not waited for.
AnsweredUnchecked == TRUE

Answered == arrived

\* The reply: this record is done.
Reply ==
    /\ pc = "waiting"
    /\ Answered
    /\ acked' = [acked EXCEPT ![next] = message]
    /\ next' = next + 1
    /\ pc' = "update"
    /\ UNCHANGED <<fixed, shutdown, result, status, errors, message, attempts, arrived,
                   lost, world, held, late>>

\* Mutant: main() drops the error of a single run.
ExitStatusOk(outcome) == "ok"

ExitStatus(outcome) == outcome

\* update_records returns: an error if any record failed.  A single run exits
\* with it, the loop only logs it.
EndCycle ==
    /\ pc = "update"
    /\ next > NumRecords
    /\ result' = IF errors > 0 THEN "err" ELSE "ok"
    /\ \/ mode = "once" /\ pc' = "exited" /\ status' = ExitStatus(result')
       \/ mode = "loop" /\ pc' = "schedule" /\ UNCHANGED status
    /\ UNCHANGED <<fixed, shutdown, next, errors, message, attempts, arrived, lost,
                   world, history>>

-----------------------------------------------------------------------------
(***************************************************************************)
(* update_in_loop.                                                         *)
(***************************************************************************)
Updating == pc \in {"update", "connect", "waiting"}

\* Shutdown drops update_records where it stands, and the loop goes on to the
\* schedule.
Cancel ==
    /\ mode = "loop"
    /\ shutdown
    /\ Updating
    /\ result' = "cancelled"
    /\ pc' = "schedule"
    /\ IF pc = "waiting" THEN Abandon ELSE UNCHANGED lost
    /\ UNCHANGED <<fixed, shutdown, status, next, errors, message, attempts, arrived,
                   world, history>>

\* The time to the next update; none left is no sleep.  A schedule that does
\* not parse is a panic in unwrap(), which ends the process with an error.
NextUpdate ==
    /\ pc = "schedule"
    /\ \/ /\ schedule
          /\ pc' \in {"sleep", "top"}
          /\ UNCHANGED status
       \/ /\ ~schedule
          /\ pc' = "exited" /\ status' = "err"
    /\ UNCHANGED <<fixed, shutdown, result, next, errors, message, attempts, arrived,
                   lost, world, history>>

Wake ==
    /\ pc = "sleep"
    /\ pc' = "top"
    /\ UNCHANGED <<fixed, shutdown, result, status, next, errors, message, attempts,
                   arrived, lost, world, history>>

\* Mutant: shutdown is only noticed in the sleep.
NoticesOnlyInSleep == pc = "sleep"

Notices == pc \in {"top", "sleep"}

\* Shutdown ends the loop at its top, or in its sleep.
Exit ==
    /\ shutdown
    /\ mode = "loop"
    /\ Notices
    /\ pc' = "exited" /\ status' = "ok"
    /\ UNCHANGED <<fixed, shutdown, result, next, errors, message, attempts, arrived,
                   lost, world, history>>

\* The loop has not ended a second after the request: Toplevel gives up waiting.
ShutdownTimesOut ==
    /\ shutdown
    /\ pc # "exited"
    /\ pc' = "exited" /\ status' = "err"
    /\ IF pc = "waiting" THEN Abandon ELSE UNCHANGED lost
    /\ UNCHANGED <<fixed, shutdown, result, next, errors, message, attempts, arrived,
                   world, history>>

RequestShutdown ==
    /\ mode = "loop"
    /\ ~shutdown
    /\ shutdown' = TRUE
    /\ UNCHANGED <<fixed, client, lost, world, history>>

-----------------------------------------------------------------------------
(***************************************************************************)
(* The server and the machine.                                             *)
(***************************************************************************)
Apply ==
    /\ pc = "waiting"
    /\ ~arrived
    /\ arrived' = TRUE
    /\ table' = [table EXCEPT ![next] = message]
    /\ late' = late \ {next}
    /\ UNCHANGED <<fixed, shutdown, pc, result, status, next, errors, message, attempts,
                   lost, addr, changes, held, acked>>

\* A request whose client has given up is applied after all.
ApplyLate(m) ==
    /\ lost' = lost \ {m}
    /\ table' = [table EXCEPT ![m.rec] = m.addr]
    /\ late' = late \cup {m.rec}
    /\ UNCHANGED <<fixed, shutdown, client, addr, changes, held, acked>>

ChangeAddress(r, a) ==
    /\ changes < MaxChanges
    /\ a # addr[r]
    /\ changes' = changes + 1
    /\ addr' = [addr EXCEPT ![r] = a]
    /\ held' = [held EXCEPT ![r] = @ \cup {a}]
    /\ UNCHANGED <<fixed, shutdown, client, lost, table, acked, late>>

\* What the client does by itself, and how a connection attempt ends.
ClientStep ==
    \/ BeginCycle \/ ReadAddress \/ EndCycle
    \/ Cancel \/ NextUpdate \/ Wake \/ Exit
Connect == SendRequest \/ ConnectFails

Next ==
    \/ ClientStep \/ Connect
    \/ ListPanics \/ ConnectionBreaks \/ Reply
    \/ RequestShutdown \/ ShutdownTimesOut
    \/ Apply
    \/ \E m \in lost : ApplyLate(m)
    \/ \E r \in Records, a \in Content : ChangeAddress(r, a)

Spec == Init /\ [][Next]_vars

\* The runtime polls the client, and the system ends an attempt to connect;
\* shutdown is noticed at the next `.await'.  Nothing makes a server answer, or
\* the connection to a silent one break.
FairSpec ==
    /\ Spec
    /\ WF_vars(ClientStep \/ Connect)
    /\ WF_vars(Cancel \/ Exit)

-----------------------------------------------------------------------------
(***************************************************************************)
(* Properties.                                                             *)
(***************************************************************************)
(* What update_records reports is true: success means that each record was  *)
(* acknowledged in this cycle with an address the machine had in this       *)
(* cycle, although addresses are read once and sent up to six times; an     *)
(* error means that some record was not acknowledged.                       *)
ReportIsTrue ==
    /\ result = "ok" => \A r \in Records : acked[r] # NoAddr /\ acked[r] \in held[r]
    /\ result = "err" => \E r \in Records : acked[r] = NoAddr

(* An acknowledged record is in the table, unless a request that an earlier *)
(* attempt, or an earlier cycle, had given up came late and overwrote it.   *)
OnlyLateRequestsOverwrite ==
    \A r \in Records : (acked[r] # NoAddr /\ table[r] # acked[r]) => r \in late

(* What the exit status tells: a single run succeeds exactly if all its     *)
(* records were acknowledged; a loop succeeds only if it was asked to shut  *)
(* down, and one that was not fails only over a schedule that does not      *)
(* parse, or in the middle of a cycle, with records still to be updated     *)
(* (the panic of get_iface_addr): failed updates never end it.              *)
ExitStatusIsTrue ==
    /\ (mode = "once" /\ pc = "exited") =>
          (status = "ok" <=> \A r \in Records : acked[r] # NoAddr)
    /\ (mode = "loop" /\ status = "ok") => shutdown
    /\ (mode = "loop" /\ status = "err" /\ schedule /\ ~shutdown) =>
          result = "none" /\ \E r \in Records : acked[r] = NoAddr

(* Shutdown ends the client, wherever it is.                                *)
ShutdownEnds == shutdown ~> pc = "exited"

(* A run without schedule ends, however often connections fail or break;    *)
(* only a server that accepts a request and stays silent keeps it waiting,  *)
(* for ever: neither connect nor upsert has a timeout.                      *)
OnceEnds == mode = "once" => <>(pc = "exited") \/ <>[](pc = "waiting")

-----------------------------------------------------------------------------
(***************************************************************************)
(* The inductive invariant behind the safety properties.                   *)
(***************************************************************************)
\* The loop over the records: those before next are acknowledged or counted.
LoopInv ==
    /\ errors < next
    /\ \A r \in Records : acked[r] # NoAddr => r < next /\ acked[r] \in held[r]
    /\ errors = 0 => \A r \in Records : r < next => acked[r] # NoAddr
    /\ errors > 0 => \E r \in Records : acked[r] = NoAddr /\ r < next
    /\ Updating => \A r \in Records : addr[r] \in held[r]
    /\ pc \in {"connect", "waiting"} =>
          next <= NumRecords /\ message \in Addrs /\ message \in held[next]

\* What result and status stand for.
ExitInv ==
    /\ Updating => result = "none"
    /\ result \in {"ok", "err"} => next = NumRecords + 1 /\ (result = "err" <=> errors > 0)
    /\ shutdown => mode = "loop"
    /\ mode = "once" => pc \notin {"schedule", "sleep"}
    /\ pc # "exited" => status = "none"
    /\ (mode = "once" /\ pc = "exited") =>
          \/ result = status /\ result # "none"
          \/ result = "none" /\ status = "err" /\ \E r \in Records : acked[r] = NoAddr

\* An acknowledged row, or one whose reply is on its way, is in the table.
RowInv ==
    /\ \A r \in Records : acked[r] # NoAddr => table[r] = acked[r] \/ r \in late
    /\ (pc = "waiting" /\ arrived) => table[next] = message \/ next \in late

(* The inductive invariant of the update client.                            *)
ClientInv == TypeOK /\ LoopInv /\ ExitInv /\ RowInv /\ ExitStatusIsTrue
=============================================================================
