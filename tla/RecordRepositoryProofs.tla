----------------------- MODULE RecordRepositoryProofs -----------------------
(***************************************************************************)
(* Proofs about the record store, for any set of calls, keys and values    *)
(* and any bound on the clock.                                             *)
(***************************************************************************)
EXTENDS RecordRepository, TLAPS

(***************************************************************************)
(* The queue.                                                              *)
(***************************************************************************)
(* Appending a statement keeps the ones that wait and adds it at the end.   *)
LEMMA AppendJob ==
    ASSUME NEW q \in Seq(Job), NEW j \in Job
    PROVE  /\ Append(q, j) \in Seq(Job)
           /\ Len(Append(q, j)) = Len(q) + 1
           /\ \A i \in 1..Len(q) : Append(q, j)[i] = q[i]
           /\ Append(q, j)[Len(q) + 1] = j
OBVIOUS

(* Taking the oldest statement shifts the others by one.                    *)
LEMMA TakeJob ==
    ASSUME NEW q \in Seq(Job), q # <<>>
    PROVE  /\ Head(q) = q[1] /\ Head(q) \in Job /\ 1 \in 1..Len(q)
           /\ Tail(q) \in Seq(Job)
           /\ Len(Tail(q)) = Len(q) - 1
           /\ \A i \in 1..Len(Tail(q)) : i + 1 \in 1..Len(q) /\ Tail(q)[i] = q[i + 1]
OBVIOUS

(***************************************************************************)
(* Types.                                                                  *)
(***************************************************************************)
(* The row the INSERT leaves is a row.                                      *)
LEMMA UpsertedType ==
    ASSUME NEW old \in Row \cup {NoRow}, NEW v \in Values, NEW t \in Nat
    PROVE  /\ Upserted(old, v, t) \in Row
           /\ Upserted(old, v, t).data = v
           /\ Upserted(old, v, t).updated_at = t
           /\ Upserted(old, v, t).created_at = IF old = NoRow THEN t ELSE old.created_at
BY NoRowAssumption DEF Upserted, Row

(* The statement at the head of the queue belongs to a call of its kind.    *)
LEMMA HeadOfQueue ==
    ASSUME TypeOK, QueueInv, NEW c \in Calls,
           NEW stmt \in {"execute", "query_row", "delete"}, Take(c, stmt)
    PROVE  /\ queue[1] = [call |-> c, stmt |-> stmt]
           /\ 1 \in 1..Len(queue)
           /\ up
           /\ res[c] = "none"
           /\ Key(c) \in Keys
           /\ stmt = "execute" => /\ pc[c] \in {"writing", "gone"}
                                  /\ req[c].op = "upsert" /\ at[c] = 0
                                  /\ req[c].data \in Values
           /\ stmt = "query_row" => /\ pc[c] \in {"reading", "gone"}
                                    /\ \/ req[c].op = "find"
                                       \/ req[c].op = "upsert" /\ at[c] > 0
           /\ stmt = "delete" => /\ pc[c] \in {"deleting", "gone"}
                                 /\ req[c].op = "delete" /\ at[c] = 0
<1>1. /\ queue \in Seq(Job) /\ queue # <<>> /\ up
      /\ Head(queue) = [call |-> c, stmt |-> stmt]
  BY DEF Take, TypeOK
<1>2. queue[1] = [call |-> c, stmt |-> stmt] /\ 1 \in 1..Len(queue)
  BY <1>1, TakeJob
<1>3. queue[1].call = c /\ queue[1].stmt = stmt
  BY <1>2
<1>4. req[c] \in Request
  BY DEF TypeOK
<1>5. Key(c) \in Keys /\ (req[c].op = "upsert" => req[c].data \in Values)
  BY <1>4 DEF Request, Key
<1> QED BY <1>1, <1>2, <1>3, <1>5 DEF QueueInv, JobInv

(* Steps of the handlers, the database thread and the process keep types.   *)
LEMMA TypeStep == TypeOK /\ QueueInv /\ [Next]_vars => TypeOK'
<1> SUFFICES ASSUME TypeOK, QueueInv, [Next]_vars PROVE TypeOK'
  OBVIOUS
<1> USE DEF TypeOK, Control, Waiting, Finished, Results
<1>1. ASSUME NEW c \in Calls, NEW stmt \in {"execute", "query_row", "delete"}
      PROVE  [call |-> c, stmt |-> stmt] \in Job
  BY DEF Job
<1>2. ASSUME NEW c \in Calls, Handler(c) PROVE TypeOK'
  <2>1. CASE UpsertStart(c)
    BY <2>1 DEF UpsertStart, Arrive, Goto, history
  <2>2. CASE UpsertSend(c)
    BY <2>2, <1>1, AppendJob DEF UpsertSend, Send, Goto, history
  <2>3. CASE UpsertWritten(c)
    <3>1. CASE res[c] = "ok"
      <4>1. Send(c, "query_row") /\ Goto(c, "reading")
        BY <2>3, <3>1 DEF UpsertWritten
      <4> QED BY <2>3, <4>1, <1>1, AppendJob DEF UpsertWritten, Send, Goto, history
    <3>2. CASE res[c] = "error"
      BY <2>3, <3>2 DEF UpsertWritten, Goto, history
    <3> QED BY <2>3, <3>1, <3>2 DEF UpsertWritten
  <2>4. CASE FindStart(c)
    BY <2>4, <1>1, AppendJob DEF FindStart, Arrive, Send, Goto, history
  <2>5. CASE ReadDone(c)
    BY <2>5 DEF ReadDone, Goto, history
  <2>6. CASE DeleteStart(c)
    BY <2>6, <1>1, AppendJob DEF DeleteStart, Arrive, Send, Goto, history
  <2>7. CASE DeleteDone(c)
    BY <2>7 DEF DeleteDone, Goto, history
  <2> QED BY <1>2, <2>1, <2>2, <2>3, <2>4, <2>5, <2>6, <2>7 DEF Handler
<1>3. ASSUME NEW c \in Calls, Database(c) PROVE TypeOK'
  <2>0. ASSUME NEW stmt \in {"execute", "query_row", "delete"}, Take(c, stmt)
        PROVE  queue' \in Seq(Job) /\ Key(c) \in Keys
    BY <2>0, TakeJob, HeadOfQueue DEF Take
  <2>1. CASE ExecUpsert(c)
    <3>1. Take(c, "execute")
      BY <2>1 DEF ExecUpsert
    <3>2. req[c].data \in Values /\ Key(c) \in Keys
      BY <3>1, HeadOfQueue
    <3>3. Upserted(table[Key(c)], req[c].data, now[c]) \in Row
      BY <3>2, UpsertedType
    <3> QED BY <2>0, <2>1, <3>1, <3>3 DEF ExecUpsert, Take, Commit
  <2>2. CASE ExecDelete(c)
    BY <2>0, <2>2 DEF ExecDelete, Take, Commit
  <2>3. CASE ExecQuery(c)
    BY <2>0, <2>3 DEF ExecQuery, Take, history
  <2>4. CASE ExecError(c)
    BY <2>0, <2>4 DEF ExecError, AnswerError, Take, history
  <2> QED BY <1>3, <2>1, <2>2, <2>3, <2>4 DEF Database
<1>4. ASSUME NEW c \in Calls, Disconnect(c) PROVE TypeOK'
  BY <1>4 DEF Disconnect, Goto, history
<1>5. CASE Crash
  <2>1. pc' \in [Calls -> Control]
    BY <1>5 DEF Crash
  <2>2. queue' \in Seq(Job)
    BY <1>5 DEF Crash
  <2> QED BY <1>5, <2>1, <2>2 DEF Crash, history
<1>6. CASE Restart
  BY <1>6 DEF Restart, migrate_database, history
<1>7. CASE Tick
  BY <1>7 DEF Tick, history
<1>8. CASE UNCHANGED vars
  BY <1>8 DEF vars
<1> QED BY <1>2, <1>3, <1>4, <1>5, <1>6, <1>7, <1>8 DEF Next

(***************************************************************************)
(* The queue discipline.                                                   *)
(***************************************************************************)
(* Sending: the handler had no statement queued, and has the new one now;   *)
(* no other handler moves.                                                  *)
LEMMA SendKeepsQueueInv ==
    ASSUME TypeOK, QueueInv, NEW c \in Calls,
           NEW stmt \in {"execute", "query_row", "delete"},
           Send(c, stmt),
           pc[c] \in {"idle", "stamped"} \/ res[c] # "none",
           \A d \in Calls \ {c} : pc'[d] = pc[d],
           UNCHANGED <<req, at>>,
           JobInv([call |-> c, stmt |-> stmt])'
    PROVE  QueueInv'
<1> DEFINE j == [call |-> c, stmt |-> stmt]
<1>1. j \in Job /\ queue \in Seq(Job) /\ queue' = Append(queue, j)
  BY DEF Send, Job, TypeOK
<1>2. /\ Len(queue') = Len(queue) + 1
      /\ \A i \in 1..Len(queue) : queue'[i] = queue[i]
      /\ queue'[Len(queue) + 1] = j
      /\ Len(queue) \in Nat
  BY <1>1, AppendJob
<1>3. ASSUME NEW i \in 1..Len(queue)
      PROVE  LET d == queue[i].call
             IN  d # c /\ res'[d] = res[d] /\ pc'[d] = pc[d] /\ JobInv(queue[i])
  <2>1. queue[i] \in Job
    BY <1>1
  <2>2. queue[i].call \in Calls
    BY <2>1 DEF Job
  <2>3. JobInv(queue[i])
    BY DEF QueueInv
  <2>4. queue[i].call # c
    BY <2>3 DEF JobInv
  <2> QED BY <2>2, <2>3, <2>4 DEF Send, TypeOK
<1>4. JobInv(j)'
  OBVIOUS
<1>5. \A i \in 1..Len(queue') : i \in 1..Len(queue) \/ i = Len(queue) + 1
  BY <1>2
<1>6. ASSUME NEW i \in 1..Len(queue') PROVE JobInv(queue[i])'
  <2>1. CASE i \in 1..Len(queue)
    BY <2>1, <1>2, <1>3 DEF JobInv
  <2>2. CASE i = Len(queue) + 1
    BY <2>2, <1>2, <1>4 DEF JobInv
  <2> QED BY <1>5, <2>1, <2>2
<1>7. ASSUME NEW i \in 1..Len(queue'), NEW k \in 1..Len(queue'),
             queue'[i].call = queue'[k].call
      PROVE  i = k
  <2>1. j.call = c
    OBVIOUS
  <2>2. CASE i \in 1..Len(queue) /\ k \in 1..Len(queue)
    BY <2>2, <1>2, <1>7 DEF QueueInv
  <2>3. CASE i \in 1..Len(queue) /\ k = Len(queue) + 1
    BY <2>1, <2>3, <1>2, <1>3, <1>7
  <2>4. CASE i = Len(queue) + 1 /\ k \in 1..Len(queue)
    BY <2>1, <2>4, <1>2, <1>3, <1>7
  <2> QED BY <1>5, <2>2, <2>3, <2>4
<1> QED BY <1>6, <1>7 DEF QueueInv

(* Steps that leave the queue alone move only handlers that wait for        *)
(* nothing, or drop them.                                                   *)
LEMMA QuietKeepsQueueInv ==
    ASSUME TypeOK, QueueInv, UNCHANGED <<queue, req, res, at>>,
           \A d \in Calls : \/ pc'[d] = pc[d] \/ pc'[d] = "gone"
                            \/ pc[d] = "idle" \/ res[d] # "none"
    PROVE  QueueInv'
<1>1. ASSUME NEW i \in 1..Len(queue) PROVE queue[i].call \in Calls /\ JobInv(queue[i])
  <2>1. queue[i] \in Job
    BY DEF TypeOK
  <2> QED BY <2>1 DEF Job, QueueInv
<1>2. ASSUME NEW i \in 1..Len(queue') PROVE JobInv(queue[i])'
  BY <1>1 DEF JobInv
<1> QED BY <1>2 DEF QueueInv

(* Running the oldest statement: the others belong to other calls.          *)
LEMMA TakeKeepsQueueInv ==
    ASSUME TypeOK, QueueInv, NEW c \in Calls,
           NEW stmt \in {"execute", "query_row", "delete"}, Take(c, stmt),
           \A d \in Calls \ {c} : res'[d] = res[d] /\ at'[d] = at[d]
    PROVE  QueueInv'
<1>0. queue[1] = [call |-> c, stmt |-> stmt] /\ 1 \in 1..Len(queue)
  BY HeadOfQueue
<1>1. queue[1].call = c /\ 1 \in 1..Len(queue)
  BY <1>0
<1>2. /\ queue \in Seq(Job) /\ queue # <<>> /\ queue' = Tail(queue)
      /\ UNCHANGED <<pc, req>>
  BY DEF TypeOK, Take
<1>3. /\ Len(queue') = Len(queue) - 1 /\ Len(queue) \in Nat
      /\ \A i \in 1..Len(queue') : i + 1 \in 1..Len(queue) /\ queue'[i] = queue[i + 1]
  BY <1>2, TakeJob
<1>4. ASSUME NEW i \in 1..Len(queue')
      PROVE  queue'[i].call \in Calls \ {c} /\ JobInv(queue[i + 1])
  <2>1. i + 1 \in 1..Len(queue) /\ i + 1 # 1 /\ queue'[i] = queue[i + 1]
    BY <1>3
  <2>2. queue[i + 1] \in Job
    BY <2>1, <1>2
  <2>3. queue[i + 1].call # c
    BY <2>1, <1>1 DEF QueueInv
  <2> QED BY <2>1, <2>2, <2>3 DEF QueueInv, Job
<1>5. ASSUME NEW i \in 1..Len(queue') PROVE JobInv(queue[i])'
  <2>1. queue'[i] = queue[i + 1] /\ JobInv(queue[i + 1])
    BY <1>3, <1>4
  <2>2. queue'[i].call \in Calls \ {c}
    BY <1>4
  <2>3. res'[queue'[i].call] = res[queue'[i].call] /\ at'[queue'[i].call] = at[queue'[i].call]
    BY <2>2
  <2> QED BY <1>2, <2>1, <2>3 DEF JobInv
<1>6. ASSUME NEW i \in 1..Len(queue'), NEW k \in 1..Len(queue'),
             queue'[i].call = queue'[k].call
      PROVE  i = k
  BY <1>3, <1>6 DEF QueueInv
<1> QED BY <1>5, <1>6 DEF QueueInv

(* Every step keeps the queue discipline.                                   *)
LEMMA QueueStep == TypeOK /\ QueueInv /\ HandlerInv /\ [Next]_vars => QueueInv'
<1> SUFFICES ASSUME TypeOK, QueueInv, HandlerInv, [Next]_vars PROVE QueueInv'
  OBVIOUS
<1>1. ASSUME NEW c \in Calls, Handler(c) PROVE QueueInv'
  <2>1. CASE UpsertStart(c)
    BY <2>1, QuietKeepsQueueInv DEF UpsertStart, Arrive, Goto, history, TypeOK
  <2>2. CASE UpsertSend(c)
    <3>1. Send(c, "execute") /\ pc[c] = "stamped" /\ UNCHANGED <<req, at>>
      BY <2>2 DEF UpsertSend, history
    <3>2. \A d \in Calls \ {c} : pc'[d] = pc[d]
      BY <2>2 DEF UpsertSend, Goto, TypeOK
    <3>3. JobInv([call |-> c, stmt |-> "execute"])'
      BY <2>2, <3>1 DEF UpsertSend, Send, Goto, JobInv, HandlerInv, TypeOK
    <3> QED BY <3>1, <3>2, <3>3, SendKeepsQueueInv
  <2>3. CASE UpsertWritten(c)
    <3>1. CASE res[c] = "ok"
      <4>1. /\ Send(c, "query_row") /\ Goto(c, "reading")
            /\ pc[c] = "writing" /\ UNCHANGED <<req, at>>
        BY <2>3, <3>1 DEF UpsertWritten, history
      <4>2. \A d \in Calls \ {c} : pc'[d] = pc[d]
        BY <4>1 DEF Goto, TypeOK
      <4>3. JobInv([call |-> c, stmt |-> "query_row"])'
        BY <4>1, <3>1 DEF Send, Goto, JobInv, HandlerInv, TypeOK
      <4> QED BY <3>1, <4>1, <4>2, <4>3, SendKeepsQueueInv
    <3>2. CASE res[c] = "error"
      BY <2>3, <3>2, QuietKeepsQueueInv DEF UpsertWritten, Goto, history, TypeOK
    <3> QED BY <2>3, <3>1, <3>2 DEF UpsertWritten
  <2>4. CASE FindStart(c)
    <3>1. /\ Send(c, "query_row") /\ Goto(c, "reading") /\ req[c].op = "find"
          /\ pc[c] = "idle" /\ UNCHANGED <<req, at>>
      BY <2>4 DEF FindStart, Arrive, history
    <3>2. \A d \in Calls \ {c} : pc'[d] = pc[d]
      BY <3>1 DEF Goto, TypeOK
    <3>3. JobInv([call |-> c, stmt |-> "query_row"])'
      BY <3>1 DEF Send, Goto, JobInv, TypeOK
    <3> QED BY <3>1, <3>2, <3>3, SendKeepsQueueInv
  <2>5. CASE ReadDone(c)
    BY <2>5, QuietKeepsQueueInv DEF ReadDone, Goto, history, TypeOK
  <2>6. CASE DeleteStart(c)
    <3>1. /\ Send(c, "delete") /\ Goto(c, "deleting") /\ req[c].op = "delete"
          /\ pc[c] = "idle" /\ UNCHANGED <<req, at>>
      BY <2>6 DEF DeleteStart, Arrive, history
    <3>2. \A d \in Calls \ {c} : pc'[d] = pc[d]
      BY <3>1 DEF Goto, TypeOK
    <3>3. JobInv([call |-> c, stmt |-> "delete"])'
      BY <3>1 DEF Send, Goto, JobInv, HandlerInv, TypeOK
    <3> QED BY <3>1, <3>2, <3>3, SendKeepsQueueInv
  <2>7. CASE DeleteDone(c)
    BY <2>7, QuietKeepsQueueInv DEF DeleteDone, Goto, history, TypeOK
  <2> QED BY <1>1, <2>1, <2>2, <2>3, <2>4, <2>5, <2>6, <2>7 DEF Handler
<1>2. ASSUME NEW c \in Calls, Database(c) PROVE QueueInv'
  <2>1. PICK stmt \in {"execute", "query_row", "delete"} : Take(c, stmt)
    BY <1>2 DEF Database, ExecUpsert, ExecDelete, ExecQuery, ExecError, AnswerError
  <2>2. \A d \in Calls \ {c} : res'[d] = res[d] /\ at'[d] = at[d]
    BY <1>2 DEF Database, ExecUpsert, ExecDelete, ExecQuery, ExecError, AnswerError, Commit,
                history, TypeOK
  <2> QED BY <2>1, <2>2, TakeKeepsQueueInv
<1>3. ASSUME NEW c \in Calls, Disconnect(c) PROVE QueueInv'
  BY <1>3, QuietKeepsQueueInv DEF Disconnect, Goto, history, TypeOK
<1>4. CASE Crash
  BY <1>4 DEF Crash, QueueInv
<1>5. CASE Restart
  BY <1>5, QuietKeepsQueueInv DEF Restart, migrate_database, history
<1>6. CASE Tick
  BY <1>6, QuietKeepsQueueInv DEF Tick, history
<1>7. CASE UNCHANGED vars
  BY <1>7, QuietKeepsQueueInv DEF vars
<1> QED BY <1>1, <1>2, <1>3, <1>4, <1>5, <1>6, <1>7 DEF Next

(***************************************************************************)
(* What the handlers know, and the order of commits.                       *)
(***************************************************************************)
(* Every step keeps HandlerInv: a handler moves on only with the result its *)
(* next state speaks of, and the database thread changes at, res and got of *)
(* the call it serves only.                                                 *)
LEMMA HandlerStep == TypeOK /\ QueueInv /\ HandlerInv /\ [Next]_vars => HandlerInv'
<1> SUFFICES ASSUME TypeOK, QueueInv, HandlerInv, [Next]_vars PROVE HandlerInv'
  OBVIOUS
<1> USE DEF TypeOK, HandlerInv
<1>1. ASSUME NEW c \in Calls, Handler(c) PROVE HandlerInv'
  <2>1. CASE UpsertStart(c)
    BY <2>1 DEF UpsertStart, Arrive, Goto, history
  <2>2. CASE UpsertSend(c)
    BY <2>2 DEF UpsertSend, Send, Goto, history
  <2>3. CASE UpsertWritten(c)
    BY <2>3 DEF UpsertWritten, Send, Goto, history
  <2>4. CASE FindStart(c)
    BY <2>4 DEF FindStart, Arrive, Send, Goto, history
  <2>5. CASE ReadDone(c)
    <3>1. req[c].op \in {"upsert", "find", "delete"}
      BY DEF Request
    <3>2. CASE res[c] = "ok"
      <4>1. pc[c] = "reading" /\ pc' = [pc EXCEPT ![c] = "replied"]
        BY <2>5, <3>2 DEF ReadDone, Goto
      <4> QED BY <2>5, <3>1, <3>2, <4>1 DEF ReadDone, history
    <3>3. CASE res[c] # "ok"
      <4>1. pc' = [pc EXCEPT ![c] = "not_found"] \/ pc' = [pc EXCEPT ![c] = "panicked"]
        BY <2>5, <3>3 DEF ReadDone, Goto
      <4> QED BY <2>5, <4>1 DEF ReadDone, history
    <3> QED BY <3>2, <3>3
  <2>6. CASE DeleteStart(c)
    BY <2>6 DEF DeleteStart, Arrive, Send, Goto, history
  <2>7. CASE DeleteDone(c)
    BY <2>7 DEF DeleteDone, Goto, history
  <2> QED BY <1>1, <2>1, <2>2, <2>3, <2>4, <2>5, <2>6, <2>7 DEF Handler
<1>2. ASSUME NEW c \in Calls, Database(c) PROVE HandlerInv'
  <2>1. CASE ExecUpsert(c)
    <3>1. pc[c] \in {"writing", "gone"}
      BY <2>1, HeadOfQueue DEF ExecUpsert
    <3> QED BY <2>1, <3>1 DEF ExecUpsert, Take, Commit
  <2>2. CASE ExecDelete(c)
    <3>1. pc[c] \in {"deleting", "gone"}
      BY <2>2, HeadOfQueue DEF ExecDelete
    <3> QED BY <2>2, <3>1 DEF ExecDelete, Take, Commit
  <2>3. CASE ExecQuery(c)
    <3>1. pc[c] \in {"reading", "gone"}
      BY <2>3, HeadOfQueue DEF ExecQuery
    <3> QED BY <2>3, <3>1 DEF ExecQuery, Take, history
  <2>4. CASE ExecError(c)
    <3>1. pc[c] \in {"writing", "reading", "deleting", "gone"} /\ res[c] = "none"
      BY <2>4, HeadOfQueue DEF ExecError, AnswerError
    <3> QED BY <2>4, <3>1 DEF ExecError, AnswerError, Take, history
  <2> QED BY <1>2, <2>1, <2>2, <2>3, <2>4 DEF Database
<1>3. ASSUME NEW c \in Calls, Disconnect(c) PROVE HandlerInv'
  BY <1>3 DEF Disconnect, Goto, history
<1>4. CASE Crash
  BY <1>4 DEF Crash, history
<1>5. CASE Restart
  BY <1>5 DEF Restart, migrate_database, history
<1>6. CASE Tick
  BY <1>6 DEF Tick, history
<1>7. CASE UNCHANGED vars
  BY <1>7 DEF vars
<1> QED BY <1>1, <1>2, <1>3, <1>4, <1>5, <1>6, <1>7 DEF Next

(* Every step keeps the numbering of commits and the order of the stamps.   *)
LEMMA CommitStep ==
    TypeOK /\ QueueInv /\ HandlerInv /\ CommitInv /\ [Next]_vars => CommitInv'
<1> SUFFICES ASSUME TypeOK, QueueInv, HandlerInv, CommitInv, [Next]_vars
             PROVE  CommitInv'
  OBVIOUS
<1> USE DEF TypeOK, CommitInv
<1>1. ASSUME NEW c \in Calls, Handler(c) PROVE CommitInv'
  <2>1. CASE UpsertStart(c)
    <3>1. at[c] = 0 /\ UNCHANGED <<req, at, clock, commits>>
      BY <2>1 DEF UpsertStart, Arrive, HandlerInv, history
    <3> QED BY <2>1, <3>1 DEF UpsertStart, Arrive, Goto
  <2>2. CASE UpsertSend(c)
    BY <2>2 DEF UpsertSend, Goto, history
  <2>3. CASE UpsertWritten(c)
    BY <2>3 DEF UpsertWritten, Goto, history
  <2>4. CASE FindStart(c)
    BY <2>4 DEF FindStart, Arrive, Goto, history
  <2>5. CASE ReadDone(c)
    BY <2>5 DEF ReadDone, Goto, history
  <2>6. CASE DeleteStart(c)
    BY <2>6 DEF DeleteStart, Arrive, Goto, history
  <2>7. CASE DeleteDone(c)
    BY <2>7 DEF DeleteDone, Goto, history
  <2> QED BY <1>1, <2>1, <2>2, <2>3, <2>4, <2>5, <2>6, <2>7 DEF Handler
<1>2. ASSUME NEW c \in Calls, Database(c) PROVE CommitInv'
  <2>1. CASE ExecUpsert(c)
    <3>1. req[c].op = "upsert"
      BY <2>1, HeadOfQueue DEF ExecUpsert
    <3> QED BY <2>1, <3>1 DEF ExecUpsert, Take, Commit
  <2>2. CASE ExecDelete(c)
    <3>1. req[c].op = "delete"
      BY <2>2, HeadOfQueue DEF ExecDelete
    <3> QED BY <2>2, <3>1 DEF ExecDelete, Take, Commit
  <2>3. CASE ExecQuery(c)
    BY <2>3 DEF ExecQuery, Take, history
  <2>4. CASE ExecError(c)
    BY <2>4 DEF ExecError, AnswerError, Take, history
  <2> QED BY <1>2, <2>1, <2>2, <2>3, <2>4 DEF Database
<1>3. ASSUME NEW c \in Calls, Disconnect(c) PROVE CommitInv'
  <2>1. \A d \in Calls : pc'[d] # "idle" => pc[d] # "idle"
    BY <1>3 DEF Disconnect, Goto, Waiting
  <2> QED BY <1>3, <2>1 DEF Disconnect, history
<1>4. CASE Crash
  <2>1. \A d \in Calls : pc'[d] # "idle" => pc[d] # "idle"
    BY <1>4 DEF Crash, Waiting
  <2> QED BY <1>4, <2>1 DEF Crash, history
<1>5. CASE Restart
  BY <1>5 DEF Restart, migrate_database, history
<1>6. CASE Tick
  BY <1>6 DEF Tick, history
<1>7. CASE UNCHANGED vars
  BY <1>7 DEF vars
<1> QED BY <1>1, <1>2, <1>3, <1>4, <1>5, <1>6, <1>7 DEF Next

(***************************************************************************)
(* The table.                                                              *)
(***************************************************************************)
TableInv == RowIsLatestWrite /\ CreatedAtIsFirstInsert

(* A step that commits nothing leaves the history of the table as it was.   *)
LEMMA QuietKeepsTableInv ==
    ASSUME TypeOK, TableInv, UNCHANGED <<table, req, at>>,
           \A c \in Calls : at[c] > 0 => now'[c] = now[c]
    PROVE  TableInv'
<1>1. ASSUME NEW k \in Keys
      PROVE  /\ Committed(k)' = Committed(k) /\ Upserts(k)' = Upserts(k)
             /\ Deletes(k)' = Deletes(k)
             /\ \A u \in Upserts(k) : now'[u] = now[u]
  BY DEF Committed, Upserts, Deletes, Key
<1>2. RowIsLatestWrite'
  BY <1>1 DEF TableInv, RowIsLatestWrite, WrittenBy
<1>3. CreatedAtIsFirstInsert'
  BY <1>1 DEF TableInv, CreatedAtIsFirstInsert
<1> QED BY <1>2, <1>3 DEF TableInv

(* What a commit does to the history: one more write, after all others.     *)
LEMMA CommitHistory ==
    ASSUME TypeOK, CommitInv, NEW c \in Calls, at[c] = 0, Commit(c), UNCHANGED req
    PROVE  /\ at'[c] = commits + 1
           /\ \A d \in Calls \ {c} : at'[d] = at[d]
           /\ \A d \in Calls : at[d] > 0 => at'[d] = at[d] /\ at'[d] < at'[c]
           /\ \A k \in Keys :
                 /\ Committed(k)' = Committed(k) \cup (IF Key(c) = k THEN {c} ELSE {})
                 /\ Upserts(k)' = Upserts(k) \cup
                       (IF Key(c) = k /\ req[c].op = "upsert" THEN {c} ELSE {})
                 /\ Deletes(k)' = Deletes(k) \cup
                       (IF Key(c) = k /\ req[c].op = "delete" THEN {c} ELSE {})
<1>1. /\ at'[c] = commits + 1
      /\ \A d \in Calls \ {c} : at'[d] = at[d]
      /\ \A d \in Calls : at[d] \in Nat /\ at[d] <= commits
      /\ commits \in Nat
  BY DEF Commit, TypeOK, CommitInv
<1>2. \A d \in Calls : at'[d] > 0 <=> (at[d] > 0 \/ d = c)
  BY <1>1
<1>3. ASSUME NEW k \in Keys
      PROVE  Committed(k)' = Committed(k) \cup (IF Key(c) = k THEN {c} ELSE {})
  BY <1>2 DEF Committed, Key
<1>4. ASSUME NEW k \in Keys
      PROVE  /\ Upserts(k)' = Upserts(k) \cup
                   (IF Key(c) = k /\ req[c].op = "upsert" THEN {c} ELSE {})
             /\ Deletes(k)' = Deletes(k) \cup
                   (IF Key(c) = k /\ req[c].op = "delete" THEN {c} ELSE {})
  BY <1>3 DEF Upserts, Deletes
<1> QED BY <1>1, <1>3, <1>4

(* Members of the history sets are calls, and committed.                    *)
LEMMA HistorySets ==
    ASSUME NEW k \in Keys
    PROVE  /\ \A w \in Committed(k) : w \in Calls /\ at[w] > 0 /\ Key(w) = k
           /\ Upserts(k) \subseteq Committed(k) /\ Deletes(k) \subseteq Committed(k)
           /\ \A u \in Upserts(k) : req[u].op = "upsert"
           /\ \A d \in Deletes(k) : req[d].op = "delete"
BY DEF Committed, Upserts, Deletes

(* The INSERT: its call becomes the last writer of the key; if the key had  *)
(* no row it is also the creator, since every earlier upsert was deleted.   *)
LEMMA ExecUpsertKeepsTableInv ==
    ASSUME TypeOK, QueueInv, CommitInv, TableInv, NEW c \in Calls, ExecUpsert(c)
    PROVE  TableInv'
<1>0. PICK k \in Keys : k = Key(c)
  BY HeadOfQueue DEF ExecUpsert
<1>00. PICK new \in Row : new = Upserted(table[k], req[c].data, now[c])
  <2>1. req[c].data \in Values
    BY HeadOfQueue DEF ExecUpsert
  <2> QED BY <2>1, UpsertedType DEF TypeOK
<1>1. at[c] = 0 /\ req[c].op = "upsert" /\ req[c].data \in Values
  BY HeadOfQueue DEF ExecUpsert
<1>2. /\ Commit(c) /\ UNCHANGED <<req, now>>
      /\ table' = [table EXCEPT ![k] = new]
  BY <1>0, <1>00 DEF ExecUpsert, Take
<1>3. /\ new.data = req[c].data /\ new.updated_at = now[c]
      /\ new.created_at = IF table[k] = NoRow THEN now[c] ELSE table[k].created_at
  <2>1. table[k] \in Row \cup {NoRow} /\ now[c] \in Nat
    BY DEF TypeOK
  <2>2. /\ Upserted(table[k], req[c].data, now[c]).data = req[c].data
        /\ Upserted(table[k], req[c].data, now[c]).updated_at = now[c]
        /\ Upserted(table[k], req[c].data, now[c]).created_at =
               IF table[k] = NoRow THEN now[c] ELSE table[k].created_at
    BY <1>1, <2>1, NoRowAssumption DEF Upserted, Row
  <2> QED BY <1>00, <2>2, Zenon
<1>4. /\ table'[k] = new /\ new # NoRow
      /\ \A m \in Keys \ {k} : table'[m] = table[m]
  BY <1>2, NoRowAssumption DEF TypeOK
<1>5. /\ \A d \in Calls : at[d] > 0 => at'[d] = at[d] /\ at'[d] < at'[c]
      /\ Committed(k)' = Committed(k) \cup {c}
      /\ Upserts(k)' = Upserts(k) \cup {c}
      /\ Deletes(k)' = Deletes(k)
      /\ \A m \in Keys \ {k} : /\ Committed(m)' = Committed(m)
                                /\ Upserts(m)' = Upserts(m)
                                /\ Deletes(m)' = Deletes(m)
  <2>1. UNCHANGED req
    BY <1>2
  <2>2. \A d \in Calls : at[d] > 0 => at'[d] = at[d] /\ at'[d] < at'[c]
    BY <1>1, <1>2, <2>1, CommitHistory
  <2>3. /\ Committed(k)' = Committed(k) \cup {c} /\ Upserts(k)' = Upserts(k) \cup {c}
        /\ Deletes(k)' = Deletes(k) \cup {}
    BY <1>0, <1>1, <1>2, <2>1, CommitHistory
  <2>4. ASSUME NEW m \in Keys \ {k}
        PROVE  /\ Committed(m)' = Committed(m) \cup {} /\ Upserts(m)' = Upserts(m) \cup {}
               /\ Deletes(m)' = Deletes(m) \cup {}
    BY <1>0, <1>1, <1>2, <2>1, CommitHistory
  <2> QED BY <2>2, <2>3, <2>4
<1>6. \A d \in Calls : at[d] \in Nat /\ at'[d] \in Nat
  BY <1>2 DEF TypeOK, Commit
<1>7. RowIsLatestWrite'
  <2>1. ASSUME NEW m \in Keys, m # k
        PROVE  IF table'[m] # NoRow
               THEN \E u \in Upserts(m)' : /\ WrittenBy(table[m], u)'
                                           /\ \A w \in Committed(m)' : at'[w] <= at'[u]
               ELSE \A u \in Upserts(m)' : \E d \in Deletes(m)' : at'[d] > at'[u]
    BY <1>2, <1>4, <1>5, <2>1, HistorySets DEF TableInv, RowIsLatestWrite, WrittenBy
  <2>2. WrittenBy(table[k], c)'
    BY <1>2, <1>3, <1>4 DEF WrittenBy
  <2>3. \A w \in Committed(k)' : at'[w] <= at'[c]
    BY <1>5, <1>6, HistorySets
  <2> QED BY <1>4, <1>5, <2>1, <2>2, <2>3 DEF RowIsLatestWrite
<1>8. CreatedAtIsFirstInsert'
  <2>1. ASSUME NEW m \in Keys, m # k, table'[m] # NoRow
        PROVE  \E i \in Upserts(m)' :
                   /\ table'[m].created_at = now'[i]
                   /\ \A d \in Deletes(m)' : at'[d] < at'[i]
                   /\ \A u \in Upserts(m)' : at'[u] < at'[i] =>
                          \E d \in Deletes(m)' : at'[u] < at'[d]
    <3>1. PICK i \in Upserts(m) :
                   /\ table[m].created_at = now[i]
                   /\ \A d \in Deletes(m) : at[d] < at[i]
                   /\ \A u \in Upserts(m) : at[u] < at[i] =>
                          \E d \in Deletes(m) : at[u] < at[d]
      BY <1>4, <2>1 DEF TableInv, CreatedAtIsFirstInsert
    <3>2. i \in Upserts(m)' /\ i \in Calls /\ at'[i] = at[i]
      BY <1>5, <2>1, HistorySets
    <3>3. table'[m].created_at = now'[i]
      BY <1>2, <1>4, <2>1, <3>1
    <3>4. /\ \A d \in Deletes(m)' : at'[d] < at'[i]
          /\ \A u \in Upserts(m)' : at'[u] < at'[i] =>
                 \E d \in Deletes(m)' : at'[u] < at'[d]
      BY <1>5, <2>1, <3>1, <3>2, HistorySets
    <3> QED BY <3>2, <3>3, <3>4
  <2>2. \E i \in Upserts(k)' :
            /\ table'[k].created_at = now'[i]
            /\ \A d \in Deletes(k)' : at'[d] < at'[i]
            /\ \A u \in Upserts(k)' : at'[u] < at'[i] =>
                   \E d \in Deletes(k)' : at'[u] < at'[d]
    <3>1. CASE table[k] = NoRow
      <4>1. \A u \in Upserts(k) : \E d \in Deletes(k) : at[d] > at[u]
        BY <3>1 DEF TableInv, RowIsLatestWrite
      <4>2. table'[k].created_at = now'[c]
        BY <1>2, <1>3, <1>4, <3>1
      <4>3. \A d \in Deletes(k)' : at'[d] < at'[c]
        BY <1>5, HistorySets
      <4>4. \A u \in Upserts(k)' : at'[u] < at'[c] =>
                   \E d \in Deletes(k)' : at'[u] < at'[d]
        BY <1>5, <1>6, <4>1, HistorySets
      <4> QED BY <1>5, <4>2, <4>3, <4>4
    <3>2. CASE table[k] # NoRow
      <4>1. PICK i \in Upserts(k) :
                   /\ table[k].created_at = now[i]
                   /\ \A d \in Deletes(k) : at[d] < at[i]
                   /\ \A u \in Upserts(k) : at[u] < at[i] =>
                          \E d \in Deletes(k) : at[u] < at[d]
        BY <3>2 DEF TableInv, CreatedAtIsFirstInsert
      <4>2. i \in Upserts(k)' /\ at'[i] = at[i] /\ at'[i] < at'[c] /\ i \in Calls
        BY <1>5, HistorySets
      <4>3. table'[k].created_at = now'[i]
        BY <1>2, <1>3, <1>4, <3>2, <4>1
      <4>4. \A d \in Deletes(k)' : at'[d] < at'[i]
        BY <1>5, <4>1, <4>2, HistorySets
      <4>5. \A u \in Upserts(k)' : at'[u] < at'[i] =>
                   \E d \in Deletes(k)' : at'[u] < at'[d]
        BY <1>5, <1>6, <4>1, <4>2, HistorySets
      <4> QED BY <4>2, <4>3, <4>4, <4>5
    <3> QED BY <3>1, <3>2
  <2> QED BY <2>1, <2>2 DEF CreatedAtIsFirstInsert
<1> QED BY <1>7, <1>8 DEF TableInv

(* The DELETE: it follows every upsert of the key.                          *)
LEMMA ExecDeleteKeepsTableInv ==
    ASSUME TypeOK, QueueInv, CommitInv, TableInv, NEW c \in Calls, ExecDelete(c)
    PROVE  TableInv'
<1>0. PICK k \in Keys : k = Key(c)
  BY HeadOfQueue DEF ExecDelete
<1>1. at[c] = 0 /\ req[c].op = "delete"
  BY HeadOfQueue DEF ExecDelete
<1>2. /\ Commit(c) /\ UNCHANGED <<req, now>>
      /\ table' = [table EXCEPT ![k] = NoRow]
  BY <1>0 DEF ExecDelete, Take
<1>3. table'[k] = NoRow /\ \A m \in Keys \ {k} : table'[m] = table[m]
  BY <1>2 DEF TypeOK
<1>4. /\ \A d \in Calls : at[d] > 0 => at'[d] = at[d] /\ at'[d] < at'[c]
      /\ Upserts(k)' = Upserts(k)
      /\ Deletes(k)' = Deletes(k) \cup {c}
      /\ \A m \in Keys \ {k} : /\ Committed(m)' = Committed(m)
                                /\ Upserts(m)' = Upserts(m)
                                /\ Deletes(m)' = Deletes(m)
  <2>1. UNCHANGED req
    BY <1>2
  <2>2. \A d \in Calls : at[d] > 0 => at'[d] = at[d] /\ at'[d] < at'[c]
    BY <1>1, <1>2, <2>1, CommitHistory
  <2>3. Upserts(k)' = Upserts(k) \cup {} /\ Deletes(k)' = Deletes(k) \cup {c}
    BY <1>0, <1>1, <1>2, <2>1, CommitHistory
  <2>4. ASSUME NEW m \in Keys \ {k}
        PROVE  /\ Committed(m)' = Committed(m) \cup {} /\ Upserts(m)' = Upserts(m) \cup {}
               /\ Deletes(m)' = Deletes(m) \cup {}
    BY <1>0, <1>1, <1>2, <2>1, CommitHistory
  <2> QED BY <2>2, <2>3, <2>4
<1>5. RowIsLatestWrite'
  <2>1. ASSUME NEW m \in Keys, m # k
        PROVE  IF table'[m] # NoRow
               THEN \E u \in Upserts(m)' : /\ WrittenBy(table[m], u)'
                                           /\ \A w \in Committed(m)' : at'[w] <= at'[u]
               ELSE \A u \in Upserts(m)' : \E d \in Deletes(m)' : at'[d] > at'[u]
    BY <1>2, <1>3, <1>4, <2>1, HistorySets DEF TableInv, RowIsLatestWrite, WrittenBy
  <2>2. \A u \in Upserts(k)' : at'[c] > at'[u]
    BY <1>2, <1>4, HistorySets DEF TypeOK, Commit
  <2> QED BY <1>3, <1>4, <2>1, <2>2 DEF RowIsLatestWrite
<1>6. CreatedAtIsFirstInsert'
  <2>1. ASSUME NEW m \in Keys, table'[m] # NoRow
        PROVE  \E i \in Upserts(m)' :
                   /\ table'[m].created_at = now'[i]
                   /\ \A d \in Deletes(m)' : at'[d] < at'[i]
                   /\ \A u \in Upserts(m)' : at'[u] < at'[i] =>
                          \E d \in Deletes(m)' : at'[u] < at'[d]
    <3>1. m # k /\ table'[m] = table[m]
      BY <1>3, <2>1
    <3>2. PICK i \in Upserts(m) :
                   /\ table[m].created_at = now[i]
                   /\ \A d \in Deletes(m) : at[d] < at[i]
                   /\ \A u \in Upserts(m) : at[u] < at[i] =>
                          \E d \in Deletes(m) : at[u] < at[d]
      BY <2>1, <3>1 DEF TableInv, CreatedAtIsFirstInsert
    <3>3. i \in Upserts(m)' /\ i \in Calls /\ at'[i] = at[i]
      BY <1>4, <3>1, <3>2, HistorySets
    <3>4. table'[m].created_at = now'[i]
      BY <1>2, <3>1, <3>2
    <3>5. /\ \A d \in Deletes(m)' : at'[d] < at'[i]
          /\ \A u \in Upserts(m)' : at'[u] < at'[i] =>
                 \E d \in Deletes(m)' : at'[u] < at'[d]
      BY <1>4, <3>1, <3>2, <3>3, HistorySets
    <3> QED BY <3>3, <3>4, <3>5
  <2> QED BY <2>1 DEF CreatedAtIsFirstInsert
<1> QED BY <1>5, <1>6 DEF TableInv

(* Every step keeps the table equal to its history.                         *)
LEMMA TableStep ==
    TypeOK /\ QueueInv /\ HandlerInv /\ CommitInv /\ TableInv /\ [Next]_vars => TableInv'
<1> SUFFICES ASSUME TypeOK, QueueInv, HandlerInv, CommitInv, TableInv, [Next]_vars
             PROVE  TableInv'
  OBVIOUS
<1>1. ASSUME NEW c \in Calls, Handler(c) PROVE TableInv'
  <2>1. UNCHANGED <<table, req, at>>
    BY <1>1 DEF Handler, UpsertStart, UpsertSend, UpsertWritten, FindStart, ReadDone,
                DeleteStart, DeleteDone, Arrive, history
  <2>2. \A d \in Calls : at[d] > 0 => now'[d] = now[d]
    <3>1. CASE UpsertStart(c)
      BY <3>1 DEF UpsertStart, Arrive, HandlerInv, TypeOK
    <3>2. CASE ~UpsertStart(c)
      BY <1>1, <3>2 DEF Handler, UpsertSend, UpsertWritten, FindStart, ReadDone,
                DeleteStart, DeleteDone
    <3> QED BY <3>1, <3>2
  <2> QED BY <2>1, <2>2, QuietKeepsTableInv
<1>2. ASSUME NEW c \in Calls, Database(c) PROVE TableInv'
  <2>1. CASE ExecUpsert(c)
    BY <2>1, ExecUpsertKeepsTableInv
  <2>2. CASE ExecDelete(c)
    BY <2>2, ExecDeleteKeepsTableInv
  <2>3. CASE ExecQuery(c) \/ ExecError(c)
    BY <2>3, QuietKeepsTableInv DEF ExecQuery, ExecError, AnswerError, Take, history
  <2> QED BY <1>2, <2>1, <2>2, <2>3 DEF Database
<1>3. ASSUME NEW c \in Calls, Disconnect(c) PROVE TableInv'
  BY <1>3, QuietKeepsTableInv DEF Disconnect, history
<1>4. CASE Crash \/ Restart \/ Tick \/ UNCHANGED vars
  BY <1>4, QuietKeepsTableInv DEF Crash, Restart, migrate_database, Tick, vars, history
<1> QED BY <1>1, <1>2, <1>3, <1>4 DEF Next

(***************************************************************************)
(* What was read.                                                          *)
(***************************************************************************)
\* The two situations ReadInv speaks of.
HasRow(c) ==
    pc[c] \in {"reading", "replied"} /\ res[c] = "ok" /\ req[c].op # "delete"
HasMiss(c) ==
    pc[c] \in {"reading", "not_found", "panicked"} /\ res[c] = "no_rows"

(* What was read stays fresh while nothing is committed.                    *)
LEMMA QuietKeepsRead ==
    ASSUME TypeOK, NEW c \in Calls, UNCHANGED <<req, at>>,
           \A d \in Calls : at[d] > 0 => now'[d] = now[d],
           seen'[c] = seen[c], got'[c] = got[c]
    PROVE  (FreshRead(c) => FreshRead(c)') /\ (TrueMiss(c) => TrueMiss(c)')
<1>0. PICK k \in Keys : k = Key(c) /\ k = Key(c)'
  <2>1. req[c] \in Request
    BY DEF TypeOK
  <2> QED BY <2>1 DEF Key, Request
<1>1. /\ Committed(k)' = Committed(k) /\ Upserts(k)' = Upserts(k)
      /\ Deletes(k)' = Deletes(k)
      /\ \A u \in Upserts(k) : now'[u] = now[u]
  BY DEF Committed, Upserts, Deletes, Key
<1>2. Horizon(c)' = Horizon(c)
  BY DEF Horizon
<1>3. FreshRead(c) => FreshRead(c)'
  BY <1>0, <1>1, <1>2 DEF FreshRead, WrittenBy
<1>4. TrueMiss(c) => TrueMiss(c)'
  BY <1>0, <1>1, <1>2 DEF TrueMiss
<1> QED BY <1>3, <1>4

(* A commit by another call lies beyond the horizon of what was read.       *)
LEMMA CommitKeepsRead ==
    ASSUME TypeOK, CommitInv, NEW c \in Calls, NEW d \in Calls, c # d,
           at[d] = 0, Commit(d), UNCHANGED <<req, now, seen, got>>
    PROVE  (FreshRead(c) => FreshRead(c)') /\ (TrueMiss(c) => TrueMiss(c)')
<1>0. PICK k \in Keys : k = Key(c) /\ k = Key(c)'
  <2>1. req[c] \in Request
    BY DEF TypeOK
  <2> QED BY <2>1 DEF Key, Request
<1>1. /\ at'[d] = commits + 1
      /\ \A e \in Calls \ {d} : at'[e] = at[e]
      /\ \A e \in Calls : at[e] > 0 => at'[e] = at[e]
      /\ Committed(k) \subseteq Committed(k)' /\ Committed(k)' \subseteq Committed(k) \cup {d}
      /\ Upserts(k) \subseteq Upserts(k)' /\ Upserts(k)' \subseteq Upserts(k) \cup {d}
      /\ Deletes(k) \subseteq Deletes(k)'
  BY CommitHistory
<1>2. Horizon(c)' = Horizon(c) /\ Horizon(c) \in Nat /\ Horizon(c) <= commits /\ commits \in Nat
  BY <1>1 DEF Horizon, CommitInv, TypeOK
<1>3. at'[d] > Horizon(c)'
  BY <1>1, <1>2
<1>4. ASSUME FreshRead(c) PROVE FreshRead(c)'
  <2>1. PICK u \in Upserts(k) :
            /\ WrittenBy(got[c], u)
            /\ \A w \in Committed(k) : at[w] <= at[u] \/ at[w] > Horizon(c)
    BY <1>0, <1>4 DEF FreshRead
  <2>2. u \in Upserts(k)' /\ WrittenBy(got[c], u)'
    BY <1>1, <2>1 DEF WrittenBy
  <2>3. \A w \in Committed(k)' : at'[w] <= at'[u] \/ at'[w] > Horizon(c)'
    BY <1>1, <1>2, <1>3, <2>1, HistorySets
  <2> QED BY <1>0, <2>2, <2>3 DEF FreshRead
<1>5. ASSUME TrueMiss(c) PROVE TrueMiss(c)'
  <2>1. ASSUME NEW u \in Upserts(k)', at'[u] <= Horizon(c)'
        PROVE  \E e \in Deletes(k)' : at'[e] > at'[u]
    <3>1. u # d
      BY <1>1, <1>2, <1>3, <2>1
    <3>2. u \in Upserts(k) /\ at'[u] = at[u] /\ at[u] <= Horizon(c)
      BY <1>1, <1>2, <2>1, <3>1, HistorySets
    <3>3. PICK e \in Deletes(k) : at[e] > at[u]
      BY <1>0, <1>5, <3>2 DEF TrueMiss
    <3> QED BY <1>1, <3>2, <3>3, HistorySets
  <2> QED BY <1>0, <2>1 DEF TrueMiss
<1> QED BY <1>4, <1>5

(* A step that commits and reads nothing keeps ReadInv, if no handler finds *)
(* itself with a row, or a miss, that it did not have.                      *)
LEMMA QuietKeepsReadInv ==
    ASSUME TypeOK, ReadInv, UNCHANGED <<req, at, got>>,
           \A d \in Calls : at[d] > 0 => now'[d] = now[d],
           \A d \in Calls : HasRow(d)' \/ HasMiss(d)' => seen'[d] = seen[d],
           \A d \in Calls : (HasRow(d)' => HasRow(d)) /\ (HasMiss(d)' => HasMiss(d))
    PROVE  ReadInv'
<1>1. ASSUME NEW c \in Calls, HasRow(c)' PROVE FreshRead(c)'
  <2>1. FreshRead(c)
    BY <1>1 DEF ReadInv, HasRow
  <2> QED BY <1>1, <2>1, QuietKeepsRead
<1>2. ASSUME NEW c \in Calls, HasMiss(c)' PROVE TrueMiss(c)'
  <2>1. TrueMiss(c)
    BY <1>2 DEF ReadInv, HasMiss
  <2> QED BY <1>2, <2>1, QuietKeepsRead
<1> QED BY <1>1, <1>2 DEF ReadInv, HasRow, HasMiss

(* Every step keeps what was read within its horizon.                       *)
LEMMA ReadStep ==
    /\ TypeOK /\ QueueInv /\ HandlerInv /\ CommitInv /\ TableInv /\ ReadInv
    /\ [Next]_vars
    => ReadInv'
<1> SUFFICES ASSUME TypeOK, QueueInv, HandlerInv, CommitInv, TableInv, ReadInv,
                    [Next]_vars
             PROVE  ReadInv'
  OBVIOUS
<1>1. ASSUME NEW c \in Calls, Handler(c) PROVE ReadInv'
  <2>1. UNCHANGED <<req, at, got>>
    BY <1>1 DEF Handler, UpsertStart, UpsertSend, UpsertWritten, FindStart, ReadDone,
                DeleteStart, DeleteDone, Arrive, history
  <2>2. \A d \in Calls : at[d] > 0 => now'[d] = now[d]
    <3>1. CASE UpsertStart(c)
      BY <3>1 DEF UpsertStart, Arrive, HandlerInv, TypeOK
    <3>2. CASE ~UpsertStart(c)
      BY <1>1, <3>2 DEF Handler, UpsertSend, UpsertWritten, FindStart, ReadDone,
                DeleteStart, DeleteDone
    <3> QED BY <3>1, <3>2
  <2>3. \A d \in Calls \ {c} : pc'[d] = pc[d] /\ res'[d] = res[d] /\ seen'[d] = seen[d]
    BY <1>1 DEF Handler, UpsertStart, UpsertSend, UpsertWritten, FindStart, ReadDone,
                DeleteStart, DeleteDone, Arrive, Send, Goto, TypeOK
  <2>4. HasRow(c)' \/ HasMiss(c)' => seen'[c] = seen[c]
    BY <1>1 DEF Handler, UpsertStart, UpsertSend, UpsertWritten, FindStart, ReadDone,
                DeleteStart, DeleteDone, Arrive, Send, Goto, TypeOK, HasRow, HasMiss
  <2>5. (HasRow(c)' => HasRow(c)) /\ (HasMiss(c)' => HasMiss(c))
    <3>1. CASE UpsertStart(c) \/ UpsertSend(c) \/ FindStart(c) \/ DeleteStart(c)
      BY <3>1 DEF UpsertStart, UpsertSend, FindStart, DeleteStart, Arrive, Send, Goto,
                  TypeOK, HasRow, HasMiss
    <3>2. CASE UpsertWritten(c)
      BY <3>2 DEF UpsertWritten, Send, Goto, TypeOK, HasRow, HasMiss
    <3>3. CASE ReadDone(c)
      BY <3>3 DEF ReadDone, Goto, TypeOK, HasRow, HasMiss
    <3>4. CASE DeleteDone(c)
      BY <3>4 DEF DeleteDone, Goto, TypeOK, HandlerInv, HasRow, HasMiss
    <3> QED BY <1>1, <3>1, <3>2, <3>3, <3>4 DEF Handler
  <2>6. \A d \in Calls : (HasRow(d)' => HasRow(d)) /\ (HasMiss(d)' => HasMiss(d))
    BY <2>1, <2>3, <2>5 DEF HasRow, HasMiss
  <2>7. \A d \in Calls : HasRow(d)' \/ HasMiss(d)' => seen'[d] = seen[d]
    BY <2>3, <2>4
  <2> QED BY <2>1, <2>2, <2>6, <2>7, QuietKeepsReadInv
<1>2. ASSUME NEW c \in Calls, ExecUpsert(c) \/ ExecDelete(c) PROVE ReadInv'
  <2>1. /\ at[c] = 0 /\ pc[c] \in {"writing", "deleting", "gone"} /\ Commit(c)
        /\ UNCHANGED <<pc, req, now, seen, got>>
        /\ \A d \in Calls \ {c} : res'[d] = res[d]
    BY <1>2, HeadOfQueue DEF ExecUpsert, ExecDelete, Take, TypeOK
  <2>2. ASSUME NEW d \in Calls, HasRow(d)' \/ HasMiss(d)'
        PROVE  d # c /\ (HasRow(d)' => HasRow(d)) /\ (HasMiss(d)' => HasMiss(d))
    BY <2>1, <2>2 DEF HasRow, HasMiss
  <2>3. ASSUME NEW d \in Calls, HasRow(d)' PROVE FreshRead(d)'
    <3>1. d # c /\ FreshRead(d)
      BY <2>2, <2>3 DEF ReadInv, HasRow
    <3> QED BY <2>1, <3>1, CommitKeepsRead
  <2>4. ASSUME NEW d \in Calls, HasMiss(d)' PROVE TrueMiss(d)'
    <3>1. d # c /\ TrueMiss(d)
      BY <2>2, <2>4 DEF ReadInv, HasMiss
    <3> QED BY <2>1, <3>1, CommitKeepsRead
  <2> QED BY <2>3, <2>4 DEF ReadInv, HasRow, HasMiss
<1>3. ASSUME NEW c \in Calls, ExecQuery(c) PROVE ReadInv'
  <2>1. /\ UNCHANGED <<pc, req, now, seen, at, table>>
        /\ \A d \in Calls \ {c} : res'[d] = res[d] /\ got'[d] = got[d]
    BY <1>3 DEF ExecQuery, Take, history, TypeOK
  <2>2. PICK k \in Keys : k = Key(c) /\ k = Key(c)'
    BY <1>3, <2>1, HeadOfQueue DEF ExecQuery, Key
  <2>3. /\ got'[c] = table[k]
        /\ res'[c] = IF table[k] = NoRow THEN "no_rows" ELSE "ok"
    BY <1>3, <2>2 DEF ExecQuery, TypeOK
  <2>4. Committed(k)' = Committed(k) /\ Upserts(k)' = Upserts(k) /\ Deletes(k)' = Deletes(k)
    BY <2>1 DEF Committed, Upserts, Deletes, Key
  <2>5. CASE table[k] # NoRow
    <3>1. PICK u \in Upserts(k) : /\ WrittenBy(table[k], u)
                                  /\ \A w \in Committed(k) : at[w] <= at[u]
      BY <2>5 DEF TableInv, RowIsLatestWrite
    <3>2. WrittenBy(got[c], u)'
      BY <2>1, <2>3, <3>1 DEF WrittenBy
    <3> QED
      <4>1. FreshRead(c)'
        BY <2>1, <2>2, <2>4, <3>1, <3>2 DEF FreshRead
      <4>2. ~HasMiss(c)'
        BY <2>3, <2>5 DEF HasMiss
      <4>3. ASSUME NEW d \in Calls, HasRow(d)' PROVE FreshRead(d)'
        <5>1. CASE d = c
          BY <4>1, <5>1
        <5>2. CASE d # c
          <6>1. FreshRead(d)
            BY <2>1, <4>3, <5>2 DEF ReadInv, HasRow
          <6> QED BY <2>1, <5>2, <6>1, QuietKeepsRead
        <5> QED BY <5>1, <5>2
      <4>4. ASSUME NEW d \in Calls, HasMiss(d)' PROVE TrueMiss(d)'
        <5>1. d # c /\ TrueMiss(d)
          BY <2>1, <4>2, <4>4 DEF ReadInv, HasMiss
        <5> QED BY <2>1, <5>1, QuietKeepsRead
      <4> QED BY <4>3, <4>4 DEF ReadInv, HasRow, HasMiss
  <2>6. CASE table[k] = NoRow
    <3>1. \A u \in Upserts(k) : \E d \in Deletes(k) : at[d] > at[u]
      BY <2>6 DEF TableInv, RowIsLatestWrite
    <3>2. TrueMiss(c)'
      BY <2>1, <2>2, <2>4, <3>1 DEF TrueMiss
    <3>3. ~HasRow(c)'
      BY <2>3, <2>6 DEF HasRow
    <3>4. ASSUME NEW d \in Calls, HasRow(d)' PROVE FreshRead(d)'
      <4>1. d # c /\ FreshRead(d)
        BY <2>1, <3>3, <3>4 DEF ReadInv, HasRow
      <4> QED BY <2>1, <4>1, QuietKeepsRead
    <3>5. ASSUME NEW d \in Calls, HasMiss(d)' PROVE TrueMiss(d)'
      <4>1. CASE d = c
        BY <3>2, <4>1
      <4>2. CASE d # c
        <5>1. TrueMiss(d)
          BY <2>1, <3>5, <4>2 DEF ReadInv, HasMiss
        <5> QED BY <2>1, <4>2, <5>1, QuietKeepsRead
      <4> QED BY <4>1, <4>2
    <3> QED BY <3>4, <3>5 DEF ReadInv, HasRow, HasMiss
  <2> QED BY <2>5, <2>6
<1>4. ASSUME NEW c \in Calls, ExecError(c) PROVE ReadInv'
  <2>1. \A d \in Calls : (HasRow(d)' => HasRow(d)) /\ (HasMiss(d)' => HasMiss(d))
    BY <1>4 DEF ExecError, AnswerError, Take, TypeOK, HasRow, HasMiss
  <2> QED BY <1>4, <2>1, QuietKeepsReadInv DEF ExecError, AnswerError, Take, history
<1>5. ASSUME NEW c \in Calls, Disconnect(c) PROVE ReadInv'
  <2>1. \A d \in Calls : (HasRow(d)' => HasRow(d)) /\ (HasMiss(d)' => HasMiss(d))
    BY <1>5 DEF Disconnect, Goto, TypeOK, HasRow, HasMiss
  <2> QED BY <1>5, <2>1, QuietKeepsReadInv DEF Disconnect, history
<1>6. CASE Crash
  <2>1. \A d \in Calls : (HasRow(d)' => HasRow(d)) /\ (HasMiss(d)' => HasMiss(d))
    BY <1>6 DEF Crash, HasRow, HasMiss
  <2> QED BY <1>6, <2>1, QuietKeepsReadInv DEF Crash, history
<1>7. CASE Restart \/ Tick \/ UNCHANGED vars
  <2>1. \A d \in Calls : (HasRow(d)' => HasRow(d)) /\ (HasMiss(d)' => HasMiss(d))
    BY <1>7 DEF Restart, migrate_database, Tick, vars, HasRow, HasMiss
  <2> QED BY <1>7, <2>1, QuietKeepsReadInv DEF Restart, migrate_database, Tick, vars, history
<1> QED BY <1>1, <1>2, <1>3, <1>4, <1>5, <1>6, <1>7 DEF Next, Database

(***************************************************************************)
(* The theorems.                                                           *)
(***************************************************************************)
(* The server starts in a state that satisfies the inductive invariant.     *)
LEMMA InitInv == Init => StoreInv
<1> SUFFICES ASSUME Init PROVE StoreInv
  OBVIOUS
<1>1. TypeOK
  BY DEF Init, TypeOK, Control, Results
<1>2. QueueInv
  BY DEF Init, QueueInv
<1>3. HandlerInv
  BY DEF Init, HandlerInv
<1>4. CommitInv
  BY DEF Init, CommitInv
<1>5. \A k \in Keys : table[k] = NoRow /\ Upserts(k) = {}
  BY DEF Init, Upserts, Committed
<1>6. RowIsLatestWrite /\ CreatedAtIsFirstInsert
  BY <1>5 DEF RowIsLatestWrite, CreatedAtIsFirstInsert
<1>7. ReadInv
  BY DEF Init, ReadInv
<1> QED BY <1>1, <1>2, <1>3, <1>4, <1>6, <1>7 DEF StoreInv

(* StoreInv is an invariant of the record store: of the handlers, the       *)
(* database thread, lost clients, crashes and restarts in any interleaving. *)
THEOREM StoreInvariant == Spec => []StoreInv
<1>1. StoreInv /\ [Next]_vars => StoreInv'
  BY TypeStep, QueueStep, HandlerStep, CommitStep, TableStep, ReadStep
     DEF StoreInv, TableInv
<1> QED BY <1>1, InitInv, PTL DEF Spec

(* Every variable of the store keeps its type.                              *)
THEOREM TypeCorrect == Spec => []TypeOK
<1>1. StoreInv => TypeOK
  BY DEF StoreInv
<1> QED BY <1>1, StoreInvariant, PTL

(* The table is what the committed writes say: see RowIsLatestWrite.        *)
THEOREM TableIsHistory == Spec => []RowIsLatestWrite
<1>1. StoreInv => RowIsLatestWrite
  BY DEF StoreInv
<1> QED BY <1>1, StoreInvariant, PTL

(* ON CONFLICT keeps the creation time: see CreatedAtIsFirstInsert.         *)
THEOREM CreationTimeKept == Spec => []CreatedAtIsFirstInsert
<1>1. StoreInv => CreatedAtIsFirstInsert
  BY DEF StoreInv
<1> QED BY <1>1, StoreInvariant, PTL

(* The record find_unique and upsert answer with is never older than what   *)
(* the caller may rely on: see ReplyNotStale.                               *)
THEOREM FreshReplies == Spec => []ReplyNotStale
<1>1. StoreInv => ReplyNotStale
  <2> SUFFICES ASSUME StoreInv, NEW c \in Calls, pc[c] = "replied", req[c].op # "delete"
               PROVE  (req[c].op = "upsert" => at[c] > 0) /\ FreshRead(c)
    BY DEF ReplyNotStale
  <2>1. res[c] = "ok" /\ (req[c].op = "upsert" => at[c] > 0)
    BY DEF StoreInv, HandlerInv
  <2> QED BY <2>1 DEF StoreInv, ReadInv
<1> QED BY <1>1, StoreInvariant, PTL

(* A missing row has a cause, a delete: see MissingRowWasDeleted.           *)
THEOREM MissesHaveCause == Spec => []MissingRowWasDeleted
<1>1. StoreInv => MissingRowWasDeleted
  BY DEF StoreInv, ReadInv, MissingRowWasDeleted
<1> QED BY <1>1, StoreInvariant, PTL

(* A row updated before it was created comes from two upserts that overlap: *)
(* see StampInversionNeedsOverlap.                                          *)
THEOREM InversionsOverlap == Spec => []StampInversionNeedsOverlap
<1>1. StoreInv => StampInversionNeedsOverlap
  <2> SUFFICES ASSUME StoreInv, NEW k \in Keys, table[k] # NoRow,
                      table[k].updated_at < table[k].created_at
               PROVE  \E i, u \in Upserts(k) :
                          /\ table[k].created_at = now[i] /\ table[k].updated_at = now[u]
                          /\ seen[u] < at[i] /\ at[i] < at[u]
    BY DEF StampInversionNeedsOverlap
  <2>1. PICK u \in Upserts(k) : /\ WrittenBy(table[k], u)
                                /\ \A w \in Committed(k) : at[w] <= at[u]
    BY DEF StoreInv, RowIsLatestWrite
  <2>2. PICK i \in Upserts(k) : table[k].created_at = now[i]
    BY DEF StoreInv, CreatedAtIsFirstInsert
  <2>3. /\ i \in Calls /\ u \in Calls /\ at[i] > 0 /\ at[u] > 0
        /\ req[u].op = "upsert" /\ at[i] <= at[u]
    BY <2>1, <2>2, HistorySets
  <2>4. /\ now[i] \in Nat /\ now[u] \in Nat /\ at[i] \in Nat /\ at[u] \in Nat
        /\ seen[u] \in Nat
    BY <2>3 DEF StoreInv, TypeOK
  <2>5. now[u] < now[i] /\ table[k].updated_at = now[u]
    BY <2>1, <2>2 DEF WrittenBy
  <2>6. at[i] < at[u]
    BY <2>3, <2>4, <2>5 DEF StoreInv, CommitInv
  <2>7. pc[u] # "idle"
    BY <2>3 DEF StoreInv, HandlerInv
  <2>8. seen[u] < at[i]
    BY <2>3, <2>4, <2>5, <2>7 DEF StoreInv, CommitInv
  <2> QED BY <2>2, <2>5, <2>6, <2>8
<1> QED BY <1>1, StoreInvariant, PTL

(***************************************************************************)
(* The store implements the atomic service.                                *)
(***************************************************************************)
\* The refinement mapping, by name.
StatusOf == [c \in Calls |-> Status(pc[c])]
AppliedCalls == {c \in Calls : at[c] > 0}

(* A handler that moves without ending keeps its status.                    *)
LEMMA StatusMoves ==
    ASSUME TypeOK, NEW c \in Calls, NEW l, Goto(c, l)
    PROVE  StatusOf' = [StatusOf EXCEPT ![c] = Status(l)]
<1>1. pc' = [pc EXCEPT ![c] = l] /\ pc \in [Calls -> Control]
  BY DEF Goto, TypeOK
<1>2. \A d \in Calls : pc'[d] = IF d = c THEN l ELSE pc[d]
  BY <1>1
<1> QED BY <1>2 DEF StatusOf

(* Every step of the store is a step of the service, or changes nothing     *)
(* that a caller sees.                                                      *)
LEMMA ServiceStep ==
    StoreInv /\ [Next]_vars => [Service!ServiceNext]_(Service!serviceVars)
<1> SUFFICES ASSUME StoreInv, [Next]_vars
             PROVE  Service!ServiceNext \/ UNCHANGED Service!serviceVars
  OBVIOUS
<1>0. TypeOK /\ QueueInv /\ HandlerInv
  BY DEF StoreInv
<1>a. ASSUME UNCHANGED <<table, req, StatusOf, at, got>>
      PROVE  UNCHANGED Service!serviceVars
  BY <1>a DEF Service!serviceVars, StatusOf
<1>1. ASSUME NEW c \in Calls, Handler(c)
      PROVE  Service!ServiceNext \/ UNCHANGED Service!serviceVars
  <2>0. UNCHANGED <<table, req, at, got>>
    BY <1>1 DEF Handler, UpsertStart, UpsertSend, UpsertWritten, FindStart, ReadDone,
                DeleteStart, DeleteDone, Arrive, history
  <2>1. CASE UpsertStart(c) \/ FindStart(c) \/ DeleteStart(c)
    <3>1. /\ pc[c] = "idle"
          /\ Goto(c, "stamped") \/ Goto(c, "reading") \/ Goto(c, "deleting")
      BY <2>1 DEF UpsertStart, FindStart, DeleteStart, Arrive
    <3>2. StatusOf' = [StatusOf EXCEPT ![c] = "open"] /\ StatusOf[c] = "idle"
      BY <1>0, <3>1, StatusMoves DEF Status, StatusOf, Finished
    <3>3. Service!Open(c)
      BY <2>0, <3>2 DEF Service!Open, StatusOf
    <3> QED BY <3>3 DEF Service!ServiceNext
  <2>2. CASE UpsertSend(c) \/ (UpsertWritten(c) /\ res[c] = "ok")
    <3>1. /\ StatusOf[c] = "open" /\ StatusOf \in [Calls -> {"idle", "open", "answered", "failed"}]
          /\ Goto(c, "writing") \/ Goto(c, "reading")
      BY <2>2 DEF UpsertSend, UpsertWritten, Status, StatusOf, Finished
    <3>2. StatusOf' = [StatusOf EXCEPT ![c] = "open"]
      BY <1>0, <3>1, StatusMoves DEF Status, Finished
    <3>3. StatusOf' = StatusOf
      BY <3>1, <3>2
    <3> QED BY <2>0, <3>3, <1>a
  <2>3. CASE (ReadDone(c) \/ DeleteDone(c)) /\ res[c] = "ok"
    <3>1. /\ pc[c] \in {"reading", "deleting"} /\ Goto(c, "replied")
          /\ req[c].op # "find" => at[c] > 0
          /\ req[c].op # "delete" => got[c] # NoRow
      <4>1. req[c].op \in {"upsert", "find", "delete"}
        BY <1>0 DEF TypeOK, Request
      <4> QED BY <1>0, <2>3, <4>1 DEF ReadDone, DeleteDone, HandlerInv
    <3>2. StatusOf' = [StatusOf EXCEPT ![c] = "answered"] /\ StatusOf[c] = "open"
      BY <1>0, <3>1, StatusMoves DEF Status, StatusOf, Finished
    <3>3. Service!Answer(c)
      BY <2>0, <3>1, <3>2 DEF Service!Answer, StatusOf
    <3> QED BY <3>3 DEF Service!ServiceNext
  <2>4. CASE (UpsertWritten(c) \/ ReadDone(c) \/ DeleteDone(c)) /\ res[c] # "ok"
    <3>1. /\ pc[c] \in {"writing", "reading", "deleting"}
          /\ Goto(c, "panicked") \/ Goto(c, "not_found")
      BY <2>4 DEF UpsertWritten, ReadDone, DeleteDone
    <3>2. StatusOf' = [StatusOf EXCEPT ![c] = "failed"] /\ StatusOf[c] = "open"
      BY <1>0, <3>1, StatusMoves DEF Status, StatusOf, Finished
    <3>3. StatusOf' = [d \in Calls |-> IF d \in {c} THEN "failed" ELSE StatusOf[d]]
      BY <3>2 DEF StatusOf
    <3>4. Service!Fail({c})
      BY <2>0, <3>2, <3>3 DEF Service!Fail, StatusOf
    <3> QED BY <3>4 DEF Service!ServiceNext
  <2> QED BY <1>1, <2>1, <2>2, <2>3, <2>4 DEF Handler, UpsertWritten, ReadDone, DeleteDone
<1>2. ASSUME NEW c \in Calls, Database(c)
      PROVE  Service!ServiceNext \/ UNCHANGED Service!serviceVars
  <2>0. UNCHANGED <<req, StatusOf>> /\ UNCHANGED pc
    BY <1>2 DEF Database, ExecUpsert, ExecDelete, ExecQuery, ExecError, AnswerError, Take, StatusOf
  <2>1. CASE ExecUpsert(c)
    <3>1. PICK k \in Keys : k = Key(c)
      BY <1>0, <2>1, HeadOfQueue DEF ExecUpsert
    <3>2. /\ pc[c] \in {"writing", "gone"} /\ req[c].op = "upsert" /\ at[c] = 0
          /\ req[c].data \in Values
      BY <1>0, <2>1, HeadOfQueue DEF ExecUpsert
    <3>3. /\ table[k] \in Row \cup {NoRow} /\ now[c] \in Nat
          /\ table' = [table EXCEPT ![k] = Upserted(table[k], req[c].data, now[c])]
          /\ UNCHANGED got
      BY <1>0, <2>1, <3>1 DEF ExecUpsert, TypeOK
    <3>4. /\ table'[k] = Upserted(table[k], req[c].data, now[c])
          /\ table' = [table EXCEPT ![k] = table'[k]]
      BY <1>0, <3>3 DEF TypeOK
    <3>5. /\ table'[k] \in Row /\ table'[k].data = req[c].data
          /\ table[k] # NoRow => table'[k].created_at = table[k].created_at
      <4>1. LET r == Upserted(table[k], req[c].data, now[c])
            IN  /\ r \in Row /\ r.data = req[c].data
                /\ table[k] # NoRow => r.created_at = table[k].created_at
        BY <3>2, <3>3, NoRowAssumption DEF Upserted, Row
      <4> QED BY <3>4, <4>1, Zenon
    <3>6. StatusOf[c] \in {"open", "failed"}
      BY <3>2 DEF StatusOf, Status, Finished
    <3>7. AppliedCalls' = AppliedCalls \cup {c} /\ c \notin AppliedCalls
      BY <1>0, <2>1, <3>2 DEF AppliedCalls, ExecUpsert, Commit, TypeOK
    <3>8. Service!Write(c)
      BY <2>0, <3>1, <3>2, <3>3, <3>4, <3>5, <3>6, <3>7
         DEF Service!Write, Service!Pending, StatusOf, AppliedCalls, Key, Row
    <3> QED BY <3>8 DEF Service!ServiceNext
  <2>2. CASE ExecDelete(c)
    <3>1. /\ pc[c] \in {"deleting", "gone"} /\ req[c].op = "delete" /\ at[c] = 0
      BY <1>0, <2>2, HeadOfQueue DEF ExecDelete
    <3>2. StatusOf[c] \in {"open", "failed"}
      BY <3>1 DEF StatusOf, Status, Finished
    <3>3. AppliedCalls' = AppliedCalls \cup {c} /\ c \notin AppliedCalls
      BY <1>0, <2>2, <3>1 DEF AppliedCalls, ExecDelete, Commit, TypeOK
    <3>4. table' = [table EXCEPT ![req[c].key] = NoRow] /\ UNCHANGED got
      BY <2>2 DEF ExecDelete, Key
    <3>5. Service!Remove(c)
      BY <2>0, <3>1, <3>2, <3>3, <3>4
         DEF Service!Remove, Service!Pending, StatusOf, AppliedCalls
    <3> QED BY <3>5 DEF Service!ServiceNext
  <2>3. CASE ExecQuery(c)
    <3>1. /\ pc[c] \in {"reading", "gone"}
          /\ req[c].op = "find" \/ (req[c].op = "upsert" /\ at[c] > 0)
      BY <1>0, <2>3, HeadOfQueue DEF ExecQuery
    <3>2. StatusOf[c] \in {"open", "failed"}
      BY <3>1 DEF StatusOf, Status, Finished
    <3>3. got' = [got EXCEPT ![c] = table[req[c].key]] /\ UNCHANGED <<table, at>>
      BY <2>3 DEF ExecQuery, Key, history
    <3>4. Service!Read(c)
      BY <2>0, <3>1, <3>2, <3>3 DEF Service!Read, Service!Pending, StatusOf
    <3> QED BY <3>4 DEF Service!ServiceNext
  <2>4. CASE ExecError(c)
    BY <2>0, <2>4, <1>a DEF ExecError, AnswerError, history
  <2> QED BY <1>2, <2>1, <2>2, <2>3, <2>4 DEF Database
<1>3. ASSUME NEW c \in Calls, Disconnect(c)
      PROVE  Service!ServiceNext \/ UNCHANGED Service!serviceVars
  <2>1. pc[c] \in Waiting /\ Goto(c, "gone") /\ UNCHANGED <<table, req, at, got>>
    BY <1>3 DEF Disconnect, history
  <2>2. StatusOf' = [StatusOf EXCEPT ![c] = "failed"] /\ StatusOf[c] = "open"
    BY <1>0, <2>1, StatusMoves DEF Status, StatusOf, Finished, Waiting
  <2>3. StatusOf' = [d \in Calls |-> IF d \in {c} THEN "failed" ELSE StatusOf[d]]
    BY <2>2 DEF StatusOf
  <2>4. Service!Fail({c})
    BY <2>1, <2>2, <2>3 DEF Service!Fail, StatusOf
  <2> QED BY <2>4 DEF Service!ServiceNext
<1>4. CASE Crash
  <2> DEFINE C == {c \in Calls : pc[c] \in Waiting \cup {"stamped"}}
  <2>1. /\ pc' = [c \in Calls |-> IF c \in C THEN "gone" ELSE pc[c]]
        /\ UNCHANGED <<table, req, at, got>>
    BY <1>4 DEF Crash, history
  <2>2. \A c \in C : StatusOf[c] = "open"
    BY DEF StatusOf, Status, Finished, Waiting
  <2>3. StatusOf' = [c \in Calls |-> IF c \in C THEN "failed" ELSE StatusOf[c]]
    <3>1. \A c \in Calls : Status(pc'[c]) = IF c \in C THEN "failed" ELSE Status(pc[c])
      BY <2>1 DEF Status, Finished
    <3> HIDE DEF C
    <3> QED BY <3>1 DEF StatusOf
  <2>4. Service!Fail(C)
    <3> HIDE DEF C
    <3> QED BY <2>1, <2>2, <2>3 DEF Service!Fail, StatusOf
  <2>5. C \in SUBSET Calls
    OBVIOUS
  <2> QED BY <2>4, <2>5 DEF Service!ServiceNext
<1>5. CASE Restart \/ Tick \/ UNCHANGED vars
  BY <1>5, <1>a DEF Restart, migrate_database, Tick, vars, history, StatusOf
<1> QED BY <1>1, <1>2, <1>3, <1>4, <1>5 DEF Next

(* The record store, with its queue, its crashes and its lost clients,      *)
(* implements the atomic service: see ImplementsService.                    *)
THEOREM StoreImplementsService == Spec => ImplementsService
<1>1. Init => Service!ServiceInit
  BY DEF Init, Service!ServiceInit, Status
<1> QED BY <1>1, StoreInvariant, ServiceStep, PTL
        DEF Spec, ImplementsService, Service!ServiceSpec
=============================================================================
