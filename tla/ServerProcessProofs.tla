------------------------- MODULE ServerProcessProofs -------------------------
(***************************************************************************)
(* Safety of the server process for every bound on faults.  The exit       *)
(* status needs to know where main() is: the subsystems exist from the     *)
(* migration on, and the status is set only at the end.                    *)
(***************************************************************************)
EXTENDS ServerProcess, TLAPS

(* ProcessInv holds initially.                                              *)
LEMMA InitProcessInv == Init => ProcessInv
<1> SUFFICES ASSUME Init PROVE ProcessInv
  OBVIOUS
<1>1. faults \in 0..MaxFaults
  BY MaxFaultsAssumption DEF Init
<1>2. sub \in [Subsystems -> {"none", "starting", "serving", "stalled", "ended", "failed"}]
  BY DEF Init, None
<1>3. TypeOK
  BY <1>1, <1>2, Zenon DEF Init, TypeOK, Phases
<1> QED BY <1>3 DEF Init, ProcessInv, ExitOkIsClean

(* Every step of main(), of a subsystem, of the operator and of the service *)
(* manager keeps the types.                                                 *)
LEMMA NextTypeOK == TypeOK /\ [Next]_vars => TypeOK'
<1> SUFFICES ASSUME TypeOK, [Next]_vars PROVE TypeOK'
  OBVIOUS
<1>f. Fault => faults' \in 0..MaxFaults
  BY MaxFaultsAssumption DEF Fault, TypeOK
<1>1. CASE LoadConfig \/ OpenDatabase
  BY <1>1, <1>f DEF LoadConfig, OpenDatabase, Step, TypeOK, Phases
<1>2. CASE Migrate
  BY <1>2, <1>f DEF Migrate, TypeOK, Phases, Subsystems
<1>3. CASE ToplevelReturns \/ ShutdownTimesOut
  BY <1>3 DEF ToplevelReturns, ShutdownTimesOut, Cancellable, ExitStatus, TypeOK, Phases
<1>4. CASE Restart
  BY <1>4 DEF Restart, TypeOK, Phases, None
<1>5. CASE \E s \in Subsystems : Serve(s) \/ RunReturnsError(s) \/ Fail(s) \/ Stall(s) \/ Cancel(s)
  BY <1>5, <1>f DEF Serve, RunReturnsError, Fail, Stall, Cancel, Cancellable, Become, Notice, TypeOK
<1>6. CASE Stop
  BY <1>6 DEF Stop, TypeOK
<1>7. CASE UNCHANGED vars
  BY <1>7 DEF vars, TypeOK
<1> QED BY <1>1, <1>2, <1>3, <1>4, <1>5, <1>6, <1>7 DEF Next, Progress

(* ... and the rest of the invariant.                                       *)
LEMMA NextProcessInv == ProcessInv /\ [Next]_vars => ProcessInv'
<1> SUFFICES ASSUME ProcessInv, [Next]_vars PROVE ProcessInv'
  OBVIOUS
<1>t. TypeOK'
  BY NextTypeOK DEF ProcessInv
<1>1. CASE LoadConfig \/ OpenDatabase
  <2>1. sub' = None /\ \A s \in Subsystems : sub'[s] = "none"
    BY <1>1 DEF LoadConfig, OpenDatabase, Step, ProcessInv, None
  <2>2. status' = "none" \/ (status' = "err" /\ phase' = "exited")
    BY <1>1 DEF LoadConfig, OpenDatabase, Step, ProcessInv, TypeOK
  <2>3. ExitOkIsClean'
    BY <2>2 DEF ExitOkIsClean
  <2> QED BY <1>t, <2>1, <2>2, <2>3 DEF ProcessInv
<1>2. CASE Migrate
  <2>1. sub = None /\ status = "none"
    BY <1>2 DEF Migrate, ProcessInv
  <2>2. CASE phase' = "running"
    BY <1>2, <1>t, <2>1, <2>2 DEF Migrate, ProcessInv, ExitOkIsClean
  <2>3. CASE phase' = "exited"
    BY <1>2, <1>t, <2>1, <2>3 DEF Migrate, ProcessInv, ExitOkIsClean, None
  <2> QED BY <1>2, <2>2, <2>3 DEF Migrate
<1>3. CASE ToplevelReturns \/ ShutdownTimesOut
  BY <1>3, <1>t DEF ToplevelReturns, ShutdownTimesOut, Cancellable, ExitStatus, ProcessInv, ExitOkIsClean
<1>4. CASE Restart
  BY <1>4, <1>t DEF Restart, ProcessInv, ExitOkIsClean
<1>5. ASSUME NEW s \in Subsystems,
             Serve(s) \/ RunReturnsError(s) \/ Fail(s) \/ Stall(s) \/ Cancel(s)
      PROVE  ProcessInv'
  <2>1. sub # None /\ status = "none" /\ phase = "running"
    BY <1>5 DEF Serve, RunReturnsError, Fail, Stall, Cancel, Cancellable, Become, ProcessInv, None,
                TypeOK, Phases, ExitOkIsClean
  <2> QED BY <1>5, <1>t, <2>1
          DEF Serve, RunReturnsError, Fail, Stall, Cancel, Cancellable, Become, ProcessInv, ExitOkIsClean
<1>6. CASE Stop
  BY <1>6, <1>t DEF Stop, ProcessInv, ExitOkIsClean
<1>7. CASE UNCHANGED vars
  BY <1>7, <1>t DEF vars, ProcessInv, ExitOkIsClean
<1> QED BY <1>1, <1>2, <1>3, <1>4, <1>5, <1>6, <1>7 DEF Next, Progress

(* ProcessInv holds in every reachable state.                               *)
THEOREM ProcessInvariant == Spec => []ProcessInv
BY InitProcessInv, NextProcessInv, PTL DEF Spec

(* Type correctness of the server process.                                  *)
THEOREM ProcessTypeCorrect == Spec => []TypeOK
<1>1. ProcessInv => TypeOK
  BY DEF ProcessInv
<1> QED BY <1>1, ProcessInvariant, PTL

(* The process exits with success only if both subsystems ended without an  *)
(* error that Toplevel saw.                                                 *)
THEOREM CleanExit == Spec => []ExitOkIsClean
<1>1. ProcessInv => ExitOkIsClean
  BY DEF ProcessInv
<1> QED BY <1>1, ProcessInvariant, PTL
=============================================================================
