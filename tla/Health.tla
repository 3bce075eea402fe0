------------------------------- MODULE Health -------------------------------
(***************************************************************************)
(* When list calls a record healthy.  A handler of the server stamps a row *)
(* with the time at which it runs, and list compares the age of the stamp  *)
(* with HEALTHY_AGE; the machine's client renews its rows every Period,    *)
(* started by a systemd timer ("timer") or by its own schedule ("loop").   *)
(*                                                                         *)
(* Nothing in the code bounds how long a call takes: connecting and the    *)
(* upsert have no timeout.  A request therefore lives on its own: the      *)
(* handler takes the time when the request reaches it, and its statement   *)
(* runs whenever the database gets to it, also after the client has given  *)
(* the request up, or has died.  Only the start of a cycle is timed, by    *)
(* the timer's accuracy or the schedule.                                   *)
(***************************************************************************)
EXTENDS Integers

CONSTANTS
    NumRecords,    \* number of configured records
    Calls,         \* requests that may be on their way at the same time
    NoCall,
    HealthyAge,    \* HEALTHY_AGE, seven minutes
    Period,        \* OnUnitActiveSec, or the schedule: five minutes
    Accuracy,      \* how late the timer may fire (AccuracySec of systemd)
    RestartDelay,  \* RestartSec
    MaxClock       \* bound on time

Records == 1..NumRecords

ASSUME TimesAssumption ==
    /\ NumRecords \in Nat /\ HealthyAge \in Nat /\ Period \in Nat \ {0}
    /\ Accuracy \in Nat /\ RestartDelay \in Nat /\ MaxClock \in Nat
ASSUME NoCallAssumption == NoCall \notin Calls

VARIABLES
    clock,
    mode,        \* "timer" or "loop"
    client,      \* "waiting", "updating" or "dead"
    started,     \* when the current or last cycle began
    due,         \* when the next one may begin,
    latest,      \* and when it has begun at the latest
    next,        \* the record update_records is at
    errors,      \* some record of the cycle failed
    mine,        \* the request the client waits for
    arrived,     \* it was committed
    call,        \* the requests: "free", "sent", or "stamped" by a handler
    rec, at,     \* their record and stamp
    updated_at,  \* the stamp of each row, 0 while there is none
    \* History variables.
    renewed,     \* records whose latest update_record, by a living client, succeeded
    took,        \* how long the last finished cycle was
    waited,      \* how long each row's statement took from stamp to commit
    quiet        \* when the client was dead and its last request was gone

cycle == <<mode, client, started, due, latest, next, errors>>
requests == <<call, rec, at>>
row == <<updated_at, waited>>
vars == <<clock, cycle, mine, arrived, requests, row, renewed, took, quiet>>

TypeOK ==
    /\ clock \in Nat /\ started \in Nat /\ due \in Nat /\ latest \in Nat
    /\ took \in Nat /\ quiet \in Nat
    /\ mode \in {"timer", "loop"}
    /\ client \in {"waiting", "updating", "dead"}
    /\ next \in 1..(NumRecords + 1)
    /\ errors \in BOOLEAN /\ arrived \in BOOLEAN
    /\ mine \in Calls \cup {NoCall}
    /\ call \in [Calls -> {"free", "sent", "stamped"}]
    /\ rec \in [Calls -> 0..NumRecords] /\ at \in [Calls -> Nat]
    /\ updated_at \in [Records -> Nat] /\ waited \in [Records -> Nat]
    /\ renewed \subseteq Records

Init ==
    /\ clock = 0 /\ started = 0 /\ due = 0 /\ latest = 0 /\ took = 0 /\ quiet = 0
    /\ mode \in {"timer", "loop"}
    /\ client = "waiting"
    /\ next = 1 /\ errors = FALSE /\ mine = NoCall /\ arrived = FALSE
    /\ call = [c \in Calls |-> "free"]
    /\ rec = [c \in Calls |-> 0] /\ at = [c \in Calls |-> 0]
    /\ updated_at = [r \in Records |-> 0] /\ waited = [r \in Records |-> 0]
    /\ renewed = {}

-----------------------------------------------------------------------------
\* Mutant: the comparison is strict.
HealthyStrict(r) == clock - updated_at[r] < HealthyAge

\* The flag list computes for a row.
Healthy(r) == clock - updated_at[r] <= HealthyAge

\* The client is dead, and no request of it can reach a handler any more.
Gone == client = "dead" /\ \A c \in Calls : call[c] # "sent"

\* History: the moment from which that is so.
NoteQuiet == quiet' = IF Gone' /\ ~Gone THEN clock ELSE quiet

-----------------------------------------------------------------------------
(***************************************************************************)
(* The client.                                                             *)
(***************************************************************************)
BeginCycle ==
    /\ client = "waiting"
    /\ clock >= due
    /\ client' = "updating"
    /\ started' = clock /\ due' = clock /\ latest' = clock
    /\ next' = 1 /\ errors' = FALSE
    /\ UNCHANGED <<clock, mode, mine, arrived, requests, row, renewed, took, quiet>>

\* An attempt of update_record: the request is on its way.
Send(c) ==
    /\ client = "updating"
    /\ next <= NumRecords
    /\ mine = NoCall /\ ~arrived
    /\ call[c] = "free"
    /\ mine' = c
    /\ call' = [call EXCEPT ![c] = "sent"]
    /\ rec' = [rec EXCEPT ![c] = next]
    /\ UNCHANGED <<clock, cycle, arrived, at, row, renewed, took, quiet>>

\* The connection breaks or the server answers with an error, before or after
\* the request has had its effect; Retry::spawn may try again.
AttemptFails ==
    /\ mine # NoCall \/ arrived
    /\ mine' = NoCall /\ arrived' = FALSE
    /\ UNCHANGED <<clock, cycle, requests, row, renewed, took, quiet>>

\* update_record succeeds when its request is answered, or fails after the last
\* attempt.
RecordDone ==
    /\ client = "updating"
    /\ next <= NumRecords
    /\ \/ arrived /\ renewed' = renewed \cup {next} /\ UNCHANGED errors
       \/ ~arrived /\ mine = NoCall /\ renewed' = renewed \ {next} /\ errors' = TRUE
    /\ next' = next + 1
    /\ arrived' = FALSE
    /\ UNCHANGED <<clock, mode, client, started, due, latest, mine, requests, row, took, quiet>>

\* The schedule's next time strictly after t, and the timer's after a start.
NextTick(t) == t + Period - (t % Period)

\* Mutant: the timer counts from the end of the cycle.
TimerDueFromEnd == clock + Period
TimerDue == started + Period

\* update_records returns.  The loop looks up its schedule.  A single run exits:
\* the timer counts from its start, and after a failure the service manager
\* restarts it, unless it has done so too often.
EndCycle ==
    /\ client = "updating"
    /\ next > NumRecords
    /\ client' = "waiting"
    /\ took' = clock - started
    /\ \/ mode = "loop" /\ due' = NextTick(clock) /\ latest' = due'
       \/ mode = "timer" /\ due' = TimerDue /\ latest' = due' + Accuracy
       \/ mode = "timer" /\ errors /\ due' = clock + RestartDelay /\ latest' = due'
    /\ UNCHANGED <<clock, mode, started, next, errors, mine, arrived, requests, row,
                   renewed, quiet>>

\* The machine goes away, and with it all that the client knew.
Die ==
    /\ client # "dead"
    /\ client' = "dead"
    /\ next' = 1 /\ errors' = FALSE /\ mine' = NoCall /\ arrived' = FALSE
    /\ started' = 0 /\ due' = 0 /\ latest' = 0
    /\ renewed' = {} /\ took' = 0
    /\ UNCHANGED <<clock, mode, requests, row>>
    /\ NoteQuiet

-----------------------------------------------------------------------------
(***************************************************************************)
(* The server.                                                             *)
(***************************************************************************)
\* The request reaches a handler, which takes the time.
Stamp(c) ==
    /\ call[c] = "sent"
    /\ call' = [call EXCEPT ![c] = "stamped"]
    /\ at' = [at EXCEPT ![c] = clock]
    /\ UNCHANGED <<clock, cycle, mine, arrived, rec, row, renewed, took>>
    /\ NoteQuiet

Release(c) ==
    /\ call' = [call EXCEPT ![c] = "free"]
    /\ rec' = [rec EXCEPT ![c] = 0]
    /\ at' = [at EXCEPT ![c] = 0]

\* A request that the client has given up is lost on its way, or its handler
\* is dropped before its statement is queued.
Drop(c) ==
    /\ call[c] # "free"
    /\ c # mine
    /\ Release(c)
    /\ UNCHANGED <<clock, cycle, mine, arrived, row, renewed, took>>
    /\ NoteQuiet

\* Mutant: the row is stamped when the statement runs.
CommittedStampLate(c) == clock
CommittedStamp(c) == at[c]

\* The database runs the stamped statement.
Commit(c) ==
    /\ call[c] = "stamped"
    /\ Release(c)
    /\ updated_at' = [updated_at EXCEPT ![rec[c]] = CommittedStamp(c)]
    /\ waited' = [waited EXCEPT ![rec[c]] = clock - at[c]]
    /\ \/ c = mine /\ mine' = NoCall /\ arrived' = TRUE
       \/ c # mine /\ UNCHANGED <<mine, arrived>>
    /\ UNCHANGED <<clock, cycle, renewed, took, quiet>>

-----------------------------------------------------------------------------
\* Time passes; only the start of a cycle is timed.
Tick ==
    /\ clock < MaxClock
    /\ client = "waiting" => clock < latest
    /\ clock' = clock + 1
    /\ UNCHANGED <<cycle, mine, arrived, requests, row, renewed, took, quiet>>

Next ==
    \/ BeginCycle \/ AttemptFails \/ RecordDone \/ EndCycle \/ Die
    \/ \E c \in Calls : Send(c) \/ Stamp(c) \/ Drop(c) \/ Commit(c)
    \/ Tick

Spec == Init /\ [][Next]_vars

-----------------------------------------------------------------------------
\* The longest time between the starts of two cycles, when the first of them
\* took that long.  The schedule is looked up at the end of a cycle, the timer
\* counts from its start.
Gap == IF mode = "loop" THEN took + Period
       ELSE IF took + RestartDelay > Period + Accuracy THEN took + RestartDelay
       ELSE Period + Accuracy

\* For how long the current cycle has been running.
Running == IF client = "updating" THEN clock - started ELSE 0

(* When the flag is a false alarm: while its client lives, a record whose   *)
(* latest update succeeded is listed as unhealthy only if the cycles were   *)
(* too long, or its statement waited too long, for the two minutes that     *)
(* HEALTHY_AGE leaves after a period.  A long cycle costs the loop more     *)
(* than the timer: the time of the last cycle counts as well as that of the *)
(* current one.  Requests of earlier attempts that are stamped or committed *)
(* late, failures of other records and restarts do not matter otherwise.    *)
FalseAlarmNeedsDelay ==
    client # "dead" =>
        \A r \in renewed : Healthy(r) \/ Gap + Running + waited[r] > HealthyAge

(* A machine that is gone is noticed: HEALTHY_AGE after its client has died *)
(* and its last request has reached a handler or was lost, no record of it  *)
(* is healthy, although statements of it commit later.                      *)
DeadIsUnhealthy ==
    (Gone /\ clock > quiet + HealthyAge) => \A r \in Records : ~Healthy(r)

-----------------------------------------------------------------------------
\* No stamp is from the future, or from after the client's last request.
StampInv ==
    /\ \A c \in Calls : call[c] = "stamped" => at[c] <= clock
    /\ \A r \in Records : updated_at[r] <= clock
    /\ Gone => /\ quiet <= clock
               /\ \A c \in Calls : call[c] = "stamped" => at[c] <= quiet
               /\ \A r \in Records : updated_at[r] <= quiet

\* Where time stands between two cycles.
CycleInv ==
    /\ started <= clock
    /\ client = "waiting" => /\ clock <= latest \/ clock <= started + took
                             /\ latest <= started + Gap

\* Requests are of a record, and the one the client waits for of its current one.
CallInv ==
    /\ \A c \in Calls : call[c] # "free" => rec[c] \in Records
    /\ mine # NoCall => /\ client = "updating" /\ ~arrived
                        /\ call[mine] # "free" /\ rec[mine] = next
    /\ arrived => client = "updating" /\ next \in Records

\* The row of a renewed record was written no earlier than the cycle in which it
\* was last updated began; so was the current one when it has arrived.
RenewedInv ==
    client # "dead" =>
        /\ \A r \in renewed :
              updated_at[r] + waited[r] >=
                  IF client = "updating" /\ r >= next THEN started - Gap ELSE started
        /\ arrived => updated_at[next] + waited[next] >= started

(* The inductive invariant of the health of records.                        *)
HealthInv == TypeOK /\ StampInv /\ CycleInv /\ CallInv /\ RenewedInv
=============================================================================
