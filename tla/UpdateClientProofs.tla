-------------------------- MODULE UpdateClientProofs --------------------------
(***************************************************************************)
(* Proofs about the update client, for any number of records, any set of   *)
(* addresses, any faults, and any bound on changes of address.             *)
(***************************************************************************)
EXTENDS UpdateClient, TLAPS

(* The client starts in a state of the invariant.                           *)
LEMMA ClientInit == Init => ClientInv
<1> SUFFICES ASSUME Init PROVE ClientInv
  OBVIOUS
<1> USE NumRecordsAssumption, BoundsAssumption
<1>1. TypeOK
  <2>1. /\ mode \in {"loop", "once"} /\ schedule \in BOOLEAN /\ shutdown \in BOOLEAN
        /\ arrived \in BOOLEAN /\ message \in Content
        /\ lost \subseteq [rec : Records, addr : Addrs] /\ late \subseteq Records
        /\ addr \in [Records -> Content] /\ table \in [Records -> Content]
        /\ held \in [Records -> SUBSET Content] /\ acked \in [Records -> Content]
    BY DEF Init, Content
  <2>2. /\ next \in 1..(NumRecords + 1) /\ errors \in 0..NumRecords
        /\ attempts \in 0..Retries /\ changes \in 0..MaxChanges
    BY DEF Init, Retries
  <2> QED BY <2>1, <2>2 DEF Init, TypeOK
<1>2. LoopInv /\ ExitInv /\ RowInv
  BY DEF Init, LoopInv, ExitInv, RowInv, Records, Updating
<1>3. ExitStatusIsTrue
  BY DEF Init, ExitStatusIsTrue
<1> QED BY <1>1, <1>2, <1>3 DEF ClientInv

(* A failed record is counted, and has no acknowledgement.                  *)
LEMMA RecordFailedKeepsLoop ==
    ASSUME TypeOK, LoopInv, RecordFailed, next <= NumRecords,
           UNCHANGED <<acked, held, addr>>, Updating
    PROVE  LoopInv' /\ next' \in 1..(NumRecords + 1) /\ errors' \in 0..NumRecords
<1> USE NumRecordsAssumption DEF Records
<1>1. /\ next' = next + 1 /\ errors' = errors + 1 /\ pc' = "update"
      /\ next \in 1..(NumRecords + 1) /\ errors \in 0..NumRecords /\ errors < next
      /\ next \in Records
  BY DEF RecordFailed, TypeOK, LoopInv
<1>2. acked[next] = NoAddr
  BY <1>1 DEF LoopInv
<1>3. \E r \in Records : acked'[r] = NoAddr /\ r < next'
  BY <1>1, <1>2
<1>4. \A r \in Records : acked'[r] # NoAddr => r < next' /\ acked'[r] \in held'[r]
  BY <1>1 DEF LoopInv
<1> QED BY <1>1, <1>3, <1>4 DEF LoopInv, Updating

(* A failed attempt is retried, or fails the record.                        *)
LEMMA AttemptFailedKeepsLoop ==
    ASSUME TypeOK, LoopInv, AttemptFailed, pc \in {"connect", "waiting"},
           UNCHANGED <<acked, held, addr, message>>
    PROVE  /\ LoopInv' /\ next' \in 1..(NumRecords + 1) /\ errors' \in 0..NumRecords
           /\ attempts' \in 0..Retries
           /\ pc' \in {"connect", "update"}
<1>2. next <= NumRecords
  BY DEF LoopInv
<1>3. CASE attempts < Retries
  <2>1. attempts' = attempts + 1 /\ pc' = "connect" /\ UNCHANGED <<next, errors>>
    BY <1>3 DEF AttemptFailed, MayRetry, Retries
  <2>2. LoopInv'
    BY <2>1 DEF LoopInv, Updating
  <2> QED BY <1>3, <2>1, <2>2 DEF TypeOK, Retries
<1>4. CASE attempts = Retries
  <2>1. attempts' = 0 /\ RecordFailed
    BY <1>4 DEF AttemptFailed, MayRetry, Retries
  <2> QED BY <1>2, <2>1, RecordFailedKeepsLoop DEF RecordFailed, Retries, Updating
<1> QED BY <1>3, <1>4 DEF TypeOK, Retries

(* Every step keeps the invariant.                                          *)
LEMMA ClientInvStep == ClientInv /\ [Next]_vars => ClientInv'
<1> SUFFICES ASSUME ClientInv, [Next]_vars PROVE ClientInv'
  OBVIOUS
<1> USE NumRecordsAssumption, BoundsAssumption, NoAddrAssumption
<1>0. TypeOK /\ LoopInv /\ ExitInv /\ RowInv /\ ExitStatusIsTrue
  BY DEF ClientInv
<1>l. ASSUME pc \in {"connect", "waiting"}
      PROVE  /\ InFlight \in [rec : Records, addr : Addrs]
             /\ next \in Records /\ acked[next] = NoAddr
  <2>1. next \in Records /\ message \in Addrs
    BY <1>0, <1>l DEF LoopInv, TypeOK, Records
  <2>2. InFlight \in [rec : Records, addr : Addrs]
    BY <2>1 DEF InFlight
  <2>3. acked[next] = NoAddr
    BY <1>0, <2>1 DEF LoopInv, TypeOK, Records
  <2> QED BY <2>1, <2>2, <2>3
<1>1. CASE BeginCycle
  <2>1. TypeOK'
    BY <1>0, <1>1 DEF BeginCycle, TypeOK, fixed, world, Records, Content
  <2>2. LoopInv'
    BY <1>0, <1>1 DEF BeginCycle, LoopInv, Records, world
  <2>3. ExitInv' /\ RowInv' /\ ExitStatusIsTrue'
    BY <1>0, <1>1 DEF BeginCycle, ExitInv, RowInv, ExitStatusIsTrue, Updating, fixed, world
  <2> QED BY <2>1, <2>2, <2>3 DEF ClientInv
<1>2. CASE ReadAddress
  <2>0. UNCHANGED <<fixed, shutdown, result, status, arrived, lost, world, history>>
    BY <1>2 DEF ReadAddress, NoAddress, FreshAddress
  <2>1. CASE addr[next] = NoAddr
    <3>1. RecordFailed /\ UNCHANGED <<message, attempts>> /\ next <= NumRecords
      BY <1>2, <2>1 DEF ReadAddress, NoAddress, FreshAddress
    <3>2. LoopInv' /\ next' \in 1..(NumRecords + 1) /\ errors' \in 0..NumRecords
      BY <1>0, <1>2, <2>0, <3>1, RecordFailedKeepsLoop DEF ReadAddress, NoAddress, FreshAddress, Updating, history, world
    <3>3. TypeOK'
      BY <1>0, <2>0, <3>1, <3>2 DEF TypeOK, RecordFailed, fixed, world, history
    <3>4. ExitInv' /\ RowInv' /\ ExitStatusIsTrue'
      BY <1>0, <1>2, <2>0, <3>1
         DEF ReadAddress, NoAddress, FreshAddress, RecordFailed, ExitInv, RowInv, ExitStatusIsTrue, Updating,
             fixed, world, history
    <3> QED BY <3>2, <3>3, <3>4 DEF ClientInv
  <2>2. CASE addr[next] # NoAddr
    <3>1. /\ pc = "update" /\ next <= NumRecords /\ pc' = "connect" /\ attempts' = 0
          /\ message' = addr[next] /\ UNCHANGED <<next, errors>>
      BY <1>2, <2>2 DEF ReadAddress, NoAddress, FreshAddress
    <3>2. next \in Records /\ message' \in Addrs
      BY <1>0, <2>2, <3>1 DEF TypeOK, Records, Content
    <3>3. TypeOK'
      BY <1>0, <2>0, <3>1, <3>2 DEF TypeOK, Content, Retries, fixed, world, history
    <3>4. message' \in held'[next]
      BY <1>0, <2>0, <3>1, <3>2 DEF LoopInv, Updating, history
    <3>5. LoopInv'
      BY <1>0, <2>0, <3>1, <3>2, <3>4 DEF LoopInv, Updating, history, world
    <3>6. ExitInv' /\ RowInv' /\ ExitStatusIsTrue'
      BY <1>0, <2>0, <3>1
         DEF ExitInv, RowInv, ExitStatusIsTrue, Updating, fixed, world, history
    <3> QED BY <3>3, <3>5, <3>6 DEF ClientInv
  <2> QED BY <2>1, <2>2
<1>3. CASE SendRequest
  <2>1. TypeOK'
    BY <1>0, <1>3 DEF SendRequest, TypeOK, fixed, world, history
  <2>2. LoopInv'
    BY <1>0, <1>3 DEF SendRequest, LoopInv, Updating, world, history
  <2>3. ExitInv' /\ RowInv' /\ ExitStatusIsTrue'
    BY <1>0, <1>3 DEF SendRequest, ExitInv, RowInv, ExitStatusIsTrue, Updating, fixed,
                      world, history
  <2> QED BY <2>1, <2>2, <2>3 DEF ClientInv
<1>4. CASE ConnectFails \/ ConnectionBreaks
  <2>1. /\ AttemptFailed /\ pc \in {"connect", "waiting"}
        /\ UNCHANGED <<fixed, shutdown, result, status, message, arrived, world, history>>
    BY <1>4 DEF ConnectFails, ConnectionBreaks
  <2>2. /\ LoopInv' /\ next' \in 1..(NumRecords + 1) /\ errors' \in 0..NumRecords
        /\ attempts' \in 0..Retries
        /\ pc' \in {"connect", "update"}
    BY <1>0, <2>1, AttemptFailedKeepsLoop DEF history, world
  <2>3. lost' \subseteq [rec : Records, addr : Addrs]
    BY <1>0, <1>4, <1>l, <2>1 DEF ConnectFails, ConnectionBreaks, Abandon, TypeOK
  <2>4. TypeOK'
    BY <1>0, <2>1, <2>2, <2>3 DEF TypeOK, fixed, world, history
  <2>5. ExitInv' /\ RowInv' /\ ExitStatusIsTrue'
    BY <1>0, <2>1, <2>2 DEF ExitInv, RowInv, ExitStatusIsTrue, Updating, fixed, world, history
  <2> QED BY <2>2, <2>4, <2>5 DEF ClientInv
<1>5. CASE Reply
  <2>0. /\ pc = "waiting" /\ arrived /\ next \in Records /\ acked[next] = NoAddr
        /\ message \in Addrs /\ message \in held[next]
        /\ acked' = [acked EXCEPT ![next] = message]
        /\ next' = next + 1 /\ pc' = "update"
        /\ UNCHANGED <<fixed, shutdown, result, status, errors, message, attempts,
                       arrived, lost, world, held, late>>
    BY <1>0, <1>5, <1>l DEF Reply, Answered, LoopInv
  <2>1. TypeOK'
    BY <1>0, <2>0 DEF TypeOK, Records, Content, fixed, world
  <2>a. \A r \in Records : acked'[r] = IF r = next THEN message ELSE acked[r]
    BY <1>0, <2>0 DEF TypeOK
  <2>2. LoopInv'
    <3>1. errors' < next'
      BY <1>0, <2>0 DEF LoopInv, TypeOK
    <3>2. \A r \in Records : acked'[r] # NoAddr => r < next' /\ acked'[r] \in held'[r]
      BY <1>0, <2>0, <2>a DEF LoopInv, TypeOK, Records
    <3>3. errors' = 0 => \A r \in Records : r < next' => acked'[r] # NoAddr
      BY <1>0, <2>0, <2>a DEF LoopInv, TypeOK, Records
    <3>4. errors' > 0 => \E r \in Records : acked'[r] = NoAddr /\ r < next'
      BY <1>0, <2>0, <2>a DEF LoopInv, TypeOK, Records
    <3>5. Updating' => \A r \in Records : addr'[r] \in held'[r]
      BY <1>0, <2>0 DEF LoopInv, Updating, world
    <3> QED BY <2>0, <3>1, <3>2, <3>3, <3>4, <3>5 DEF LoopInv
  <2>3. RowInv'
    BY <1>0, <2>0, <2>a DEF RowInv, world
  <2>4. ExitInv' /\ ExitStatusIsTrue'
    BY <1>0, <2>0 DEF ExitInv, ExitStatusIsTrue, Updating, fixed
  <2> QED BY <2>1, <2>2, <2>3, <2>4 DEF ClientInv
<1>6. CASE EndCycle
  <2>0. /\ pc = "update" /\ next = NumRecords + 1
        /\ result' = IF errors > 0 THEN "err" ELSE "ok"
        /\ \/ mode = "once" /\ pc' = "exited" /\ status' = result'
           \/ mode = "loop" /\ pc' = "schedule" /\ UNCHANGED status
        /\ UNCHANGED <<fixed, shutdown, next, errors, message, attempts, arrived, lost,
                       world, history>>
    BY <1>0, <1>6 DEF EndCycle, ExitStatus, TypeOK
  <2>1. TypeOK'
    BY <1>0, <2>0 DEF TypeOK, fixed, world, history
  <2>2. LoopInv' /\ RowInv'
    BY <1>0, <2>0 DEF LoopInv, RowInv, Updating, world, history
  <2>3. ExitInv'
    BY <1>0, <2>0 DEF ExitInv, Updating, fixed
  <2>4. ExitStatusIsTrue'
    <3>1. CASE mode = "once"
      <4>1. status' = (IF errors > 0 THEN "err" ELSE "ok") /\ errors \in Nat
        BY <1>0, <2>0, <3>1 DEF TypeOK
      <4>2. errors = 0 => \A r \in Records : acked[r] # NoAddr
        BY <1>0, <2>0 DEF LoopInv, Records
      <4>3. errors > 0 => \E r \in Records : acked[r] = NoAddr
        BY <1>0 DEF LoopInv
      <4>4. status' = "ok" <=> \A r \in Records : acked[r] # NoAddr
        BY <4>1, <4>2, <4>3
      <4> QED BY <2>0, <3>1, <4>4 DEF ExitStatusIsTrue, fixed, history
    <3>2. CASE mode = "loop"
      <4>1. status' = "none"
        BY <1>0, <2>0, <3>2 DEF ExitInv
      <4> QED BY <2>0, <3>2, <4>1 DEF ExitStatusIsTrue, fixed
    <3> QED BY <1>0, <3>1, <3>2 DEF TypeOK
  <2> QED BY <2>1, <2>2, <2>3, <2>4 DEF ClientInv
<1>7. CASE Cancel
  <2>0. /\ mode = "loop" /\ shutdown /\ Updating /\ result' = "cancelled" /\ pc' = "schedule"
        /\ UNCHANGED <<fixed, shutdown, status, next, errors, message, attempts, arrived,
                       world, history>>
    BY <1>7 DEF Cancel
  <2>1. lost' \subseteq [rec : Records, addr : Addrs]
    BY <1>0, <1>7, <1>l DEF Cancel, Abandon, TypeOK
  <2>2. TypeOK'
    BY <1>0, <2>0, <2>1 DEF TypeOK, fixed, world, history
  <2>3. LoopInv' /\ RowInv'
    BY <1>0, <2>0 DEF LoopInv, RowInv, Updating, world, history
  <2>4. ExitInv' /\ ExitStatusIsTrue'
    BY <1>0, <2>0 DEF ExitInv, ExitStatusIsTrue, Updating, fixed, history
  <2> QED BY <2>2, <2>3, <2>4 DEF ClientInv
<1>7a. CASE ListPanics
  <2>0. /\ pc = "update" /\ next \in Records /\ pc' = "exited" /\ status' = "err"
        /\ UNCHANGED <<fixed, shutdown, result, next, errors, message, attempts, arrived,
                       lost, world, history>>
    BY <1>0, <1>7a DEF ListPanics, TypeOK, Records
  <2>1. result = "none" /\ acked[next] = NoAddr
    BY <1>0, <2>0 DEF ExitInv, LoopInv, Updating, TypeOK, Records
  <2>2. TypeOK'
    BY <1>0, <2>0 DEF TypeOK, fixed, world, history
  <2>3. LoopInv' /\ RowInv'
    BY <1>0, <2>0 DEF LoopInv, RowInv, Updating, world, history
  <2>4. ExitInv' /\ ExitStatusIsTrue'
    BY <1>0, <2>0, <2>1 DEF ExitInv, ExitStatusIsTrue, Updating, fixed, history
  <2> QED BY <2>2, <2>3, <2>4 DEF ClientInv
<1>7b. CASE ShutdownTimesOut
  <2>0. /\ shutdown /\ mode = "loop" /\ pc' = "exited" /\ status' = "err"
        /\ UNCHANGED <<fixed, shutdown, result, next, errors, message, attempts, arrived,
                       world, history>>
    BY <1>0, <1>7b DEF ShutdownTimesOut, ExitInv
  <2>1. lost' \subseteq [rec : Records, addr : Addrs]
    BY <1>0, <1>7b, <1>l DEF ShutdownTimesOut, Abandon, TypeOK
  <2>2. TypeOK'
    BY <1>0, <2>0, <2>1 DEF TypeOK, fixed, world, history
  <2>3. LoopInv' /\ RowInv'
    BY <1>0, <2>0 DEF LoopInv, RowInv, Updating, world, history
  <2>4. ExitInv' /\ ExitStatusIsTrue'
    BY <1>0, <2>0 DEF ExitInv, ExitStatusIsTrue, Updating, fixed, history
  <2> QED BY <2>2, <2>3, <2>4 DEF ClientInv
<1>8. CASE NextUpdate \/ Wake \/ Exit
  <2>0. /\ UNCHANGED <<fixed, shutdown, result, next, errors, message, attempts, arrived,
                       lost, world, history>>
        /\ pc \in {"schedule", "sleep", "top"} /\ pc' \in {"sleep", "top", "exited"}
        /\ \/ pc' # "exited" /\ UNCHANGED status /\ pc # "top"
           \/ pc' = "exited" /\ status' = "err" /\ ~schedule /\ pc = "schedule"
           \/ pc' = "exited" /\ status' = "ok" /\ shutdown /\ mode = "loop"
    BY <1>8 DEF NextUpdate, Wake, Exit, Notices
  <2>1. TypeOK'
    BY <1>0, <2>0 DEF TypeOK, fixed, world, history
  <2>2. LoopInv' /\ RowInv'
    BY <1>0, <2>0 DEF LoopInv, RowInv, Updating, world, history
  <2>3. ExitInv' /\ ExitStatusIsTrue'
    BY <1>0, <2>0 DEF ExitInv, ExitStatusIsTrue, Updating, fixed, history, TypeOK
  <2> QED BY <2>1, <2>2, <2>3 DEF ClientInv
<1>9. CASE RequestShutdown
  <2>1. TypeOK' /\ LoopInv' /\ RowInv'
    BY <1>0, <1>9 DEF RequestShutdown, TypeOK, LoopInv, RowInv, Updating, fixed, client,
                      world, history
  <2>2. ExitInv' /\ ExitStatusIsTrue'
    BY <1>0, <1>9 DEF RequestShutdown, ExitInv, ExitStatusIsTrue, Updating, fixed, client,
                      history
  <2> QED BY <2>1, <2>2 DEF ClientInv
<1>10. CASE Apply
  <2>0. /\ pc = "waiting" /\ next \in Records /\ acked[next] = NoAddr /\ message \in Addrs
        /\ table' = [table EXCEPT ![next] = message] /\ late' = late \ {next}
        /\ arrived' = TRUE
        /\ UNCHANGED <<fixed, shutdown, pc, result, status, next, errors, message,
                       attempts, lost, addr, changes, held, acked>>
    BY <1>0, <1>10, <1>l DEF Apply, LoopInv
  <2>1. TypeOK'
    BY <1>0, <2>0 DEF TypeOK, Content, fixed
  <2>2. LoopInv'
    BY <1>0, <2>0 DEF LoopInv, Updating
  <2>3. RowInv'
    BY <1>0, <2>0 DEF RowInv, TypeOK
  <2>4. ExitInv' /\ ExitStatusIsTrue'
    BY <1>0, <2>0 DEF ExitInv, ExitStatusIsTrue, Updating, fixed
  <2> QED BY <2>1, <2>2, <2>3, <2>4 DEF ClientInv
<1>11. ASSUME NEW m \in lost, ApplyLate(m) PROVE ClientInv'
  <2>0. /\ m.rec \in Records /\ m.addr \in Addrs
        /\ lost' = lost \ {m} /\ table' = [table EXCEPT ![m.rec] = m.addr]
        /\ late' = late \cup {m.rec}
        /\ UNCHANGED <<fixed, shutdown, client, addr, changes, held, acked>>
    BY <1>0, <1>11 DEF ApplyLate, TypeOK
  <2>1. TypeOK'
    BY <1>0, <2>0 DEF TypeOK, Content, fixed, client
  <2>2. LoopInv'
    BY <1>0, <2>0 DEF LoopInv, Updating, client
  <2>3. RowInv'
    <3>1. \A r \in Records : table'[r] = table[r] \/ r \in late'
      BY <1>0, <2>0 DEF TypeOK
    <3>2. pc = "waiting" => next \in Records
      BY <1>l
    <3> QED BY <1>0, <2>0, <3>1, <3>2 DEF RowInv, client
  <2>4. ExitInv' /\ ExitStatusIsTrue'
    BY <1>0, <2>0 DEF ExitInv, ExitStatusIsTrue, Updating, fixed, client
  <2> QED BY <2>1, <2>2, <2>3, <2>4 DEF ClientInv
<1>12. ASSUME NEW r \in Records, NEW a \in Content, ChangeAddress(r, a) PROVE ClientInv'
  <2>0. /\ changes' = changes + 1 /\ changes < MaxChanges
        /\ addr' = [addr EXCEPT ![r] = a]
        /\ held' = [held EXCEPT ![r] = held[r] \cup {a}]
        /\ UNCHANGED <<fixed, shutdown, client, lost, table, acked, late>>
    BY <1>12 DEF ChangeAddress
  <2>1. TypeOK'
    BY <1>0, <2>0 DEF TypeOK, fixed, client
  <2>2. \A s \in Records : held[s] \subseteq held'[s] /\ (addr'[s] = addr[s] \/ addr'[s] \in held'[s])
    BY <1>0, <2>0 DEF TypeOK
  <2>3. LoopInv'
    <3>1. pc \in {"connect", "waiting"} => next \in Records
      BY <1>l
    <3> QED BY <1>0, <2>0, <2>2, <3>1 DEF LoopInv, Updating, client
  <2>4. RowInv' /\ ExitInv' /\ ExitStatusIsTrue'
    BY <1>0, <2>0 DEF RowInv, ExitInv, ExitStatusIsTrue, Updating, fixed, client
  <2> QED BY <2>1, <2>3, <2>4 DEF ClientInv
<1>13. CASE UNCHANGED vars
  <2>1. TypeOK' /\ LoopInv' /\ RowInv'
    BY <1>0, <1>13 DEF vars, TypeOK, LoopInv, RowInv, Updating, fixed, client, world, history
  <2>2. ExitInv' /\ ExitStatusIsTrue'
    BY <1>0, <1>13 DEF vars, ExitInv, ExitStatusIsTrue, Updating, fixed, client, world, history
  <2> QED BY <2>1, <2>2 DEF ClientInv
<1> QED BY <1>1, <1>2, <1>3, <1>4, <1>5, <1>6, <1>7, <1>7a, <1>7b, <1>8, <1>9, <1>10,
            <1>11, <1>12, <1>13
        DEF Next, ClientStep, Connect

(* ClientInv holds in every reachable state of the update client.           *)
THEOREM ClientInvariant == Spec => []ClientInv
BY ClientInit, ClientInvStep, PTL DEF Spec

(* Type correctness of the client; no more than five retries is part of it. *)
THEOREM ClientTypeCorrect == Spec => []TypeOK
<1>1. ClientInv => TypeOK
  BY DEF ClientInv
<1> QED BY <1>1, ClientInvariant, PTL

(* What update_records reports is true: see ReportIsTrue.                   *)
THEOREM TrueReports == Spec => []ReportIsTrue
<1>1. ClientInv => ReportIsTrue
  <2> SUFFICES ASSUME ClientInv PROVE ReportIsTrue
    OBVIOUS
  <2>1. TypeOK /\ LoopInv /\ ExitInv
    BY DEF ClientInv
  <2>2. result = "ok" => \A r \in Records : acked[r] # NoAddr
    BY <2>1, NumRecordsAssumption DEF ExitInv, LoopInv, TypeOK, Records
  <2>3. result = "err" => \E r \in Records : acked[r] = NoAddr
    BY <2>1 DEF ExitInv, LoopInv
  <2> QED BY <2>1, <2>2, <2>3 DEF ReportIsTrue, LoopInv
<1> QED BY <1>1, ClientInvariant, PTL

(* Acknowledged rows are only overwritten by late requests: see             *)
(* OnlyLateRequestsOverwrite.                                               *)
THEOREM AcknowledgedRowsStay == Spec => []OnlyLateRequestsOverwrite
<1>1. ClientInv => OnlyLateRequestsOverwrite
  BY DEF ClientInv, RowInv, OnlyLateRequestsOverwrite
<1> QED BY <1>1, ClientInvariant, PTL

(* The exit status of the client is true: see ExitStatusIsTrue.             *)
THEOREM TrueExitStatus == Spec => []ExitStatusIsTrue
<1>1. ClientInv => ExitStatusIsTrue
  BY DEF ClientInv
<1> QED BY <1>1, ClientInvariant, PTL
=============================================================================
