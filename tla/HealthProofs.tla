---------------------------- MODULE HealthProofs ----------------------------
(***************************************************************************)
(* The health of records, for any number of records and of requests on     *)
(* their way, all periods and delays, and cycles and statements of any     *)
(* length.                                                                 *)
(***************************************************************************)
EXTENDS Health, TLAPS

(* The schedule's next time is after t, by one period at most.              *)
LEMMA NextTickBound ==
    ASSUME NEW t \in Nat
    PROVE  NextTick(t) \in Nat /\ t < NextTick(t) /\ NextTick(t) <= t + Period
<1>1. Period \in Nat /\ Period > 0
  BY TimesAssumption
<1>2. t % Period \in 0..(Period - 1)
  BY <1>1
<1> QED
  BY <1>1, <1>2 DEF NextTick

(* The gap between the starts of two cycles covers the first of them.       *)
LEMMA GapBound ==
    ASSUME TypeOK
    PROVE  Gap \in Nat /\ took <= Gap
  BY TimesAssumption DEF TypeOK, Gap

LEMMA HealthInit == Init => HealthInv
<1>1. SUFFICES ASSUME Init PROVE HealthInv
  OBVIOUS
<1>2. 1 \in 1..(NumRecords + 1) /\ 0 \in 0..NumRecords
  BY TimesAssumption
<1>3. TypeOK
  BY <1>1, <1>2 DEF Init, TypeOK
<1>4. StampInv /\ CallInv /\ RenewedInv
  BY <1>1 DEF Init, StampInv, CallInv, RenewedInv, Gone
<1>5. CycleInv
  BY <1>1, <1>3, GapBound DEF Init, CycleInv
<1> QED
  BY <1>3, <1>4, <1>5 DEF HealthInv

(* Requests that end or are stamped leave the client's cycle alone.         *)
LEMMA CycleKept ==
    ASSUME CycleInv, UNCHANGED <<clock, cycle, took>>
    PROVE  CycleInv'
  BY DEF CycleInv, cycle, Gap

LEMMA BeginCycleStep == HealthInv /\ BeginCycle => HealthInv'
<1> SUFFICES ASSUME HealthInv, BeginCycle PROVE HealthInv'
  OBVIOUS
<1> USE TimesAssumption
<1>1. TypeOK'
  <2>1. next' \in 1..(NumRecords + 1)
    BY DEF BeginCycle
  <2>2. errors' \in BOOLEAN /\ client' \in {"waiting", "updating", "dead"}
    BY DEF BeginCycle
  <2> QED
    BY <2>1, <2>2 DEF HealthInv, BeginCycle, TypeOK, requests, row
<1>2. StampInv'
  BY DEF HealthInv, BeginCycle, TypeOK, StampInv, requests, row, Gone
<1>3. CycleInv'
  BY <1>1 DEF BeginCycle, TypeOK, CycleInv
<1>4. CallInv'
  BY DEF HealthInv, BeginCycle, CallInv, requests
<1>5. clock - Gap <= started /\ Gap' = Gap
  BY GapBound DEF HealthInv, BeginCycle, TypeOK, CycleInv, Gap
<1>6. ~arrived
  BY DEF HealthInv, BeginCycle, CallInv
<1>7. RenewedInv'
  <2> SUFFICES ASSUME NEW r \in renewed PROVE updated_at[r] + waited[r] >= clock - Gap
    BY <1>5, <1>6 DEF HealthInv, BeginCycle, TypeOK, RenewedInv, row, Records
  <2>1. updated_at[r] \in Nat /\ waited[r] \in Nat /\ updated_at[r] + waited[r] >= started
    BY DEF HealthInv, BeginCycle, TypeOK, RenewedInv
  <2> QED
    BY <2>1, <1>5, GapBound DEF HealthInv, TypeOK
<1> QED
  BY <1>1, <1>2, <1>3, <1>4, <1>7 DEF HealthInv

LEMMA SendStep ==
    ASSUME HealthInv, NEW c \in Calls, Send(c)
    PROVE  HealthInv'
<1> USE TimesAssumption
<1>1. next \in Records /\ next \in 0..NumRecords
  BY DEF HealthInv, Send, TypeOK, Records
<1>2. TypeOK'
  BY <1>1 DEF HealthInv, Send, TypeOK, cycle, row
<1>3. StampInv'
  <2>1. ~Gone'
    BY DEF HealthInv, Send, TypeOK, Gone, cycle
  <2> QED
    BY <2>1 DEF HealthInv, Send, TypeOK, StampInv, row
<1>4. CallInv'
  BY <1>1, NoCallAssumption DEF HealthInv, Send, TypeOK, CallInv, cycle
<1>5. CycleInv'
  BY CycleKept DEF HealthInv, Send
<1>6. RenewedInv'
  BY DEF HealthInv, Send, RenewedInv, cycle, row, Gap
<1> QED
  BY <1>2, <1>3, <1>4, <1>5, <1>6 DEF HealthInv

LEMMA AttemptFailsStep == HealthInv /\ AttemptFails => HealthInv'
<1> SUFFICES ASSUME HealthInv, AttemptFails PROVE HealthInv'
  OBVIOUS
<1>1. TypeOK'
  BY DEF HealthInv, AttemptFails, TypeOK, cycle, requests, row
<1>2. StampInv' /\ CallInv'
  BY DEF HealthInv, AttemptFails, StampInv, CallInv, cycle, requests, row, Gone
<1>3. CycleInv'
  BY CycleKept DEF HealthInv, AttemptFails
<1>4. RenewedInv'
  BY DEF HealthInv, AttemptFails, RenewedInv, cycle, row, Gap
<1> QED
  BY <1>1, <1>2, <1>3, <1>4 DEF HealthInv

LEMMA RecordDoneStep == HealthInv /\ RecordDone => HealthInv'
<1> SUFFICES ASSUME HealthInv, RecordDone PROVE HealthInv'
  OBVIOUS
<1> USE TimesAssumption
<1>1. next \in Records /\ next' = next + 1
  BY DEF HealthInv, RecordDone, TypeOK, Records
<1>2. TypeOK'
  <2>1. next' \in 1..(NumRecords + 1)
    BY <1>1 DEF Records
  <2>2. errors' \in BOOLEAN /\ arrived' \in BOOLEAN
    BY DEF HealthInv, RecordDone, TypeOK
  <2>3. renewed' \subseteq Records
    BY <1>1 DEF HealthInv, RecordDone, TypeOK
  <2> QED
    BY <2>1, <2>2, <2>3 DEF HealthInv, RecordDone, TypeOK, requests, row
<1>3. StampInv' /\ CycleInv'
  BY DEF HealthInv, RecordDone, StampInv, CycleInv, requests, row, Gone, Gap
<1>4. mine = NoCall
  BY DEF HealthInv, RecordDone, CallInv
<1>5. CallInv'
  BY <1>4 DEF HealthInv, RecordDone, CallInv, requests
<1>6. RenewedInv'
  <2> SUFFICES ASSUME NEW r \in renewed'
               PROVE  updated_at[r] + waited[r] >=
                          IF r >= next + 1 THEN started - Gap ELSE started
    BY <1>1 DEF RecordDone, RenewedInv, row, Gap
  <2>1. r \in Records /\ updated_at[r] \in Nat /\ waited[r] \in Nat
    BY <1>2 DEF HealthInv, TypeOK
  <2>2. CASE r = next
    <3>1. arrived
      BY <2>2 DEF RecordDone
    <3> QED
      BY <2>1, <2>2, <3>1, <1>1 DEF HealthInv, RecordDone, RenewedInv, Records
  <2>3. CASE r # next
    <3>1. r \in renewed
      BY <2>3 DEF RecordDone
    <3> QED
      BY <2>1, <2>3, <3>1, <1>1 DEF HealthInv, RecordDone, RenewedInv, Records
  <2> QED
    BY <2>2, <2>3
<1> QED
  BY <1>2, <1>3, <1>5, <1>6 DEF HealthInv

LEMMA EndCycleStep == HealthInv /\ EndCycle => HealthInv'
<1> SUFFICES ASSUME HealthInv, EndCycle PROVE HealthInv'
  OBVIOUS
<1> USE TimesAssumption
<1>1. clock \in Nat /\ started \in Nat /\ started <= clock /\ took' = clock - started
  BY DEF HealthInv, EndCycle, TypeOK, CycleInv
<1>2. due' \in Nat /\ latest' \in Nat /\ latest' <= started + Gap'
  <2>1. CASE mode = "loop"
    BY <1>1, <2>1, NextTickBound DEF EndCycle, Gap
  <2>2. CASE mode # "loop"
    BY <1>1, <2>2 DEF EndCycle, Gap, TimerDue
  <2> QED
    BY <2>1, <2>2
<1>3. TypeOK'
  BY <1>1, <1>2 DEF HealthInv, EndCycle, TypeOK, requests, row
<1>4. StampInv'
  BY DEF HealthInv, EndCycle, StampInv, requests, row, Gone
<1>5. CycleInv'
  BY <1>1, <1>2 DEF EndCycle, CycleInv
<1>6. next \notin Records
  BY DEF HealthInv, EndCycle, TypeOK, Records
<1>7. CallInv' /\ ~arrived
  BY <1>6 DEF HealthInv, EndCycle, CallInv, TypeOK, requests
<1>8. RenewedInv'
  <2> SUFFICES ASSUME NEW r \in renewed PROVE updated_at[r] + waited[r] >= started
    BY <1>7 DEF EndCycle, RenewedInv, row
  <2>1. r < next
    BY <1>6 DEF HealthInv, EndCycle, TypeOK, Records
  <2> QED
    BY <2>1 DEF HealthInv, EndCycle, TypeOK, RenewedInv, Records
<1> QED
  BY <1>3, <1>4, <1>5, <1>7, <1>8 DEF HealthInv

LEMMA DieStep == HealthInv /\ Die => HealthInv'
<1> SUFFICES ASSUME HealthInv, Die PROVE HealthInv'
  OBVIOUS
<1> USE TimesAssumption
<1>1. TypeOK'
  <2>1. next' \in 1..(NumRecords + 1) /\ quiet' \in Nat
    BY DEF HealthInv, TypeOK, Die, NoteQuiet
  <2>2. errors' \in BOOLEAN /\ arrived' \in BOOLEAN /\ client' \in {"waiting", "updating", "dead"}
    BY DEF Die
  <2> QED
    BY <2>1, <2>2 DEF HealthInv, Die, TypeOK, requests, row
<1>2. ~Gone /\ (Gone' => quiet' = clock)
  BY DEF Die, NoteQuiet, Gone
<1>3. StampInv'
  BY <1>2 DEF HealthInv, Die, TypeOK, StampInv, requests, row
<1>4. CycleInv' /\ CallInv' /\ RenewedInv'
  BY DEF HealthInv, Die, TypeOK, CycleInv, CallInv, RenewedInv, requests
<1> QED
  BY <1>1, <1>3, <1>4 DEF HealthInv

LEMMA StampStep ==
    ASSUME HealthInv, NEW c \in Calls, Stamp(c)
    PROVE  HealthInv'
<1>1. TypeOK'
  BY DEF HealthInv, Stamp, TypeOK, NoteQuiet, cycle, row
<1>2. ~Gone /\ (Gone' => quiet' = clock)
  BY DEF Stamp, NoteQuiet, Gone
<1>3. StampInv'
  BY <1>2 DEF HealthInv, Stamp, TypeOK, StampInv, row
<1>4. CallInv'
  BY DEF HealthInv, Stamp, TypeOK, CallInv, cycle
<1>5. CycleInv'
  BY CycleKept DEF HealthInv, Stamp
<1>6. RenewedInv'
  BY DEF HealthInv, Stamp, RenewedInv, cycle, row, Gap
<1> QED
  BY <1>1, <1>3, <1>4, <1>5, <1>6 DEF HealthInv

LEMMA DropStep ==
    ASSUME HealthInv, NEW c \in Calls, Drop(c)
    PROVE  HealthInv'
<1>1. TypeOK'
  BY TimesAssumption DEF HealthInv, Drop, Release, TypeOK, NoteQuiet, cycle, row
<1>2. \/ Gone' /\ ~Gone /\ quiet' = clock
      \/ (Gone' => Gone) /\ quiet' = quiet
  BY DEF Drop, NoteQuiet
<1>3. StampInv'
  BY <1>2 DEF HealthInv, Drop, Release, TypeOK, StampInv, row
<1>4. CallInv'
  BY DEF HealthInv, Drop, Release, TypeOK, CallInv, cycle
<1>5. CycleInv'
  BY CycleKept DEF HealthInv, Drop
<1>6. RenewedInv'
  BY DEF HealthInv, Drop, RenewedInv, cycle, row, Gap
<1> QED
  BY <1>1, <1>3, <1>4, <1>5, <1>6 DEF HealthInv

LEMMA CommitStep ==
    ASSUME HealthInv, NEW c \in Calls, Commit(c)
    PROVE  HealthInv'
<1> USE TimesAssumption
<1>0. /\ rec[c] \in Records /\ at[c] \in Nat /\ at[c] <= clock
      /\ clock \in Nat /\ started \in Nat /\ started <= clock
  BY DEF HealthInv, Commit, TypeOK, CallInv, StampInv, CycleInv
<1>1. TypeOK'
  <2>1. arrived' \in BOOLEAN /\ mine' \in Calls \cup {NoCall}
    BY DEF HealthInv, Commit, TypeOK
  <2>2. /\ updated_at' \in [Records -> Nat] /\ waited' \in [Records -> Nat]
        /\ rec' \in [Calls -> 0..NumRecords] /\ at' \in [Calls -> Nat]
    BY <1>0 DEF HealthInv, Commit, Release, CommittedStamp, TypeOK
  <2>3. call' \in [Calls -> {"free", "sent", "stamped"}]
    BY DEF HealthInv, Commit, Release, TypeOK
  <2> QED
    BY <2>1, <2>2, <2>3 DEF HealthInv, Commit, TypeOK, cycle
<1>2. Gone' <=> Gone
  BY DEF HealthInv, Commit, Release, TypeOK, Gone, cycle
<1>3. StampInv'
  BY <1>0, <1>2 DEF HealthInv, Commit, Release, CommittedStamp, TypeOK, StampInv
<1>4. CallInv'
  <2>1. \A d \in Calls : call'[d] # "free" => rec'[d] \in Records
    BY DEF HealthInv, Commit, Release, TypeOK, CallInv
  <2>2. CASE c = mine
    BY <1>0, <2>1, <2>2, NoCallAssumption DEF HealthInv, Commit, CallInv, cycle
  <2>3. CASE c # mine
    BY <2>1, <2>3 DEF HealthInv, Commit, Release, TypeOK, CallInv, cycle
  <2> QED
    BY <2>2, <2>3
<1>5. CycleInv'
  BY CycleKept DEF HealthInv, Commit
<1>6. RenewedInv'
  <2>0. updated_at'[rec[c]] + waited'[rec[c]] = clock
    BY <1>0 DEF HealthInv, Commit, CommittedStamp, TypeOK
  <2>1. \A r \in Records \ {rec[c]} : updated_at'[r] = updated_at[r] /\ waited'[r] = waited[r]
    BY <1>0 DEF HealthInv, Commit, TypeOK
  <2>2. Gap' = Gap /\ Gap \in Nat
    BY GapBound DEF HealthInv, Commit, cycle, Gap
  <2>3. ASSUME client # "dead", NEW r \in renewed
        PROVE  updated_at'[r] + waited'[r] >=
                   IF client = "updating" /\ r >= next THEN started - Gap ELSE started
    <3>1. CASE r = rec[c]
      BY <1>0, <2>0, <2>2, <3>1
    <3>2. CASE r # rec[c]
      BY <2>1, <2>3, <3>2 DEF HealthInv, TypeOK, RenewedInv
    <3> QED
      BY <3>1, <3>2
  <2>4. ASSUME client # "dead", arrived' PROVE updated_at'[next] + waited'[next] >= started
    <3>1. CASE next = rec[c]
      BY <1>0, <2>0, <3>1
    <3>2. CASE next # rec[c]
      <4>1. c # mine /\ arrived /\ next \in Records
        BY <2>4, <3>2, NoCallAssumption DEF HealthInv, Commit, CallInv
      <4> QED
        BY <2>1, <2>4, <3>2, <4>1 DEF HealthInv, RenewedInv
    <3> QED
      BY <3>1, <3>2
  <2> QED
    BY <2>2, <2>3, <2>4 DEF RenewedInv, Commit, cycle
<1> QED
  BY <1>1, <1>3, <1>4, <1>5, <1>6 DEF HealthInv

LEMMA TickStep == HealthInv /\ Tick => HealthInv'
<1> SUFFICES ASSUME HealthInv, Tick PROVE HealthInv'
  OBVIOUS
<1> USE TimesAssumption
<1>1. TypeOK'
  BY DEF HealthInv, Tick, TypeOK, cycle, requests, row
<1>2. Gone' = Gone
  BY DEF Tick, Gone, cycle, requests
<1>3. StampInv'
  BY <1>2 DEF HealthInv, Tick, TypeOK, StampInv, requests, row
<1>4. CycleInv'
  BY DEF HealthInv, Tick, TypeOK, CycleInv, cycle, Gap
<1>5. CallInv' /\ RenewedInv'
  BY DEF HealthInv, Tick, CallInv, RenewedInv, cycle, requests, row, Gap
<1> QED
  BY <1>1, <1>3, <1>4, <1>5 DEF HealthInv

(* The inductive invariant of the health of records: no stamp is younger    *)
(* than the client's last request, and cycles follow each other within the  *)
(* gap that the length of the last one leaves.                              *)
THEOREM HealthInvariant == Spec => []HealthInv
<1>1. HealthInv /\ [Next]_vars => HealthInv'
  <2> SUFFICES ASSUME HealthInv, [Next]_vars PROVE HealthInv'
    OBVIOUS
  <2>1. CASE UNCHANGED vars
    BY <2>1 DEF vars, cycle, requests, row, HealthInv, TypeOK, StampInv, CycleInv,
                CallInv, RenewedInv, Gone, Gap
  <2> QED
    BY <2>1, BeginCycleStep, SendStep, AttemptFailsStep, RecordDoneStep, EndCycleStep,
       DieStep, StampStep, DropStep, CommitStep, TickStep DEF Next
<1> QED
  BY <1>1, HealthInit, PTL DEF Spec

(* A false alarm of the health flag needs cycles or a statement that were   *)
(* too slow, for all periods and delays.                                    *)
THEOREM NoFalseAlarm == Spec => []FalseAlarmNeedsDelay
<1>1. HealthInv => FalseAlarmNeedsDelay
  <2> SUFFICES ASSUME HealthInv, client # "dead", NEW r \in renewed,
                      Gap + Running + waited[r] <= HealthyAge
               PROVE  Healthy(r)
    BY TimesAssumption, GapBound DEF FalseAlarmNeedsDelay, HealthInv, TypeOK, CycleInv, Running
  <2>1. /\ updated_at[r] \in Nat /\ waited[r] \in Nat /\ clock \in Nat /\ started \in Nat
        /\ latest \in Nat /\ took \in Nat /\ Gap \in Nat /\ took <= Gap /\ HealthyAge \in Nat
    BY TimesAssumption, GapBound DEF HealthInv, TypeOK
  <2>2. CASE client = "updating"
    BY <2>1, <2>2 DEF HealthInv, CycleInv, RenewedInv, Healthy, Running
  <2>3. CASE client = "waiting"
    BY <2>1, <2>3 DEF HealthInv, CycleInv, RenewedInv, Healthy, Running
  <2> QED
    BY <2>2, <2>3 DEF HealthInv, TypeOK
<1> QED
  BY <1>1, HealthInvariant, PTL

(* A client that is gone is noticed HEALTHY_AGE after its last request.     *)
THEOREM DeadNoticed == Spec => []DeadIsUnhealthy
<1>1. HealthInv => DeadIsUnhealthy
  BY TimesAssumption DEF HealthInv, TypeOK, StampInv, DeadIsUnhealthy, Healthy
<1> QED
  BY <1>1, HealthInvariant, PTL
=============================================================================
