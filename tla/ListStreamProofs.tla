-------------------------- MODULE ListStreamProofs --------------------------
(***************************************************************************)
(* Proofs about the list stream, for any tables, any number of writes and  *)
(* any behaviour of the client.                                            *)
(***************************************************************************)
EXTENDS ListStream, SequenceTheorems, TLAPS

(* Taking the head of the channel and putting it behind what was received   *)
(* leaves the whole of both as it was.                                      *)
LEMMA MoveHead ==
    ASSUME NEW S, NEW a \in Seq(S), NEW b \in Seq(S), b # <<>>
    PROVE  Append(a, Head(b)) \o Tail(b) = a \o b
<1>1. /\ Head(b) \in S /\ Tail(b) \in Seq(S) /\ Len(Tail(b)) = Len(b) - 1
      /\ \A i \in 1..Len(Tail(b)) : Tail(b)[i] = b[i + 1]
  BY HeadTailProperties
<1>2. /\ Append(a, Head(b)) \in Seq(S) /\ Len(Append(a, Head(b))) = Len(a) + 1
      /\ \A i \in 1..Len(a) : Append(a, Head(b))[i] = a[i]
      /\ Append(a, Head(b))[Len(a) + 1] = b[1]
  BY <1>1, AppendProperties
<1>3. Len(a) \in Nat /\ Len(b) \in Nat \ {0}
  BY LenProperties, EmptySeq
<1> DEFINE l == Append(a, Head(b)) \o Tail(b)
           r == a \o b
<1>4. /\ l \in Seq(S) /\ Len(l) = Len(a) + Len(b)
      /\ \A i \in 1..Len(a) + Len(b) :
            l[i] = IF i <= Len(a) + 1 THEN Append(a, Head(b))[i] ELSE Tail(b)[i - (Len(a) + 1)]
  BY <1>1, <1>2, <1>3, ConcatProperties
<1>5. /\ r \in Seq(S) /\ Len(r) = Len(a) + Len(b)
      /\ \A i \in 1..Len(a) + Len(b) : r[i] = IF i <= Len(a) THEN a[i] ELSE b[i - Len(a)]
  BY ConcatProperties
<1> HIDE DEF l, r
<1>6. ASSUME NEW i \in 1..Len(a) + Len(b)
      PROVE  l[i] = r[i]
  <2>1. CASE i <= Len(a)
    BY <2>1, <1>2, <1>3, <1>4, <1>5
  <2>2. CASE i = Len(a) + 1
    <3>1. i <= Len(a) + 1 /\ ~(i <= Len(a)) /\ i - Len(a) = 1
      BY <2>2, <1>3
    <3>2. l[i] = b[1]
      BY <2>2, <3>1, <1>2, <1>4
    <3> QED
      BY <3>1, <3>2, <1>5
  <2>3. CASE i > Len(a) + 1
    <3>1. i - (Len(a) + 1) \in 1..Len(Tail(b))
      BY <2>3, <1>1, <1>3
    <3>2. l[i] = Tail(b)[i - (Len(a) + 1)]
      BY <2>3, <1>3, <1>4
    <3>3. Tail(b)[i - (Len(a) + 1)] = b[(i - (Len(a) + 1)) + 1]
      BY <3>1, <1>1
    <3>4. (i - (Len(a) + 1)) + 1 = i - Len(a) /\ ~(i <= Len(a))
      BY <2>3, <1>3
    <3>5. r[i] = b[i - Len(a)]
      BY <3>4, <1>5
    <3> QED
      BY <3>2, <3>3, <3>4, <3>5
  <2> QED
    BY <2>1, <2>2, <2>3, <1>3
<1> QED
  <2>1. l = r
    BY <1>4, <1>5, <1>6, SeqEqual
  <2> QED
    BY <2>1 DEF l, r

(* Appending to the second of two sequences is appending to both.           *)
LEMMA ConcatAppend ==
    ASSUME NEW S, NEW a \in Seq(S), NEW b \in Seq(S), NEW e \in S
    PROVE  a \o Append(b, e) = (a \o b) \o <<e>>
<1>1. <<e>> \in Seq(S)
  OBVIOUS
<1>2. Append(b, e) = b \o <<e>>
  BY AppendIsConcat
<1> DEFINE u == <<e>>
<1> HIDE DEF u
<1>3. (a \o b) \o u = a \o (b \o u)
  BY <1>1, ConcatAssociative DEF u
<1> QED
  BY <1>2, <1>3 DEF u

(* Sending the next record extends the part of the table that is under way. *)
LEMMA SendNext ==
    ASSUME NEW S, NEW a \in Seq(S), NEW b \in Seq(S), NEW t \in Seq(S),
           NEW n \in 0..Len(t), n < Len(t), a \o b = SubSeq(t, 1, n)
    PROVE  a \o Append(b, t[n + 1]) = SubSeq(t, 1, n + 1)
<1>1. Len(t) \in Nat /\ n + 1 \in 1..Len(t) /\ t[n + 1] \in S
  BY LenProperties, ElementOfSeq
<1>2. a \o Append(b, t[n + 1]) = (a \o b) \o <<t[n + 1]>>
  BY <1>1, ConcatAppend
<1>3. SubSeq(t, 1, n + 1) = SubSeq(t, 1, (n + 1) - 1) \o <<t[n + 1]>>
  BY <1>1, SubSeqRecursiveSecond
<1>4. (n + 1) - 1 = n
  OBVIOUS
<1> QED
  BY <1>2, <1>3, <1>4

(* The first n elements of a sequence are a prefix of it.                   *)
LEMMA FirstIsPrefix ==
    ASSUME NEW S, NEW t \in Seq(S), NEW n \in 0..Len(t)
    PROVE  IsPrefix(SubSeq(t, 1, n), t)
<1>1. Len(t) \in Nat /\ \A i \in 1..n : t[i] \in S
  BY LenProperties, ElementOfSeq
<1>2. SubSeq(t, 1, n) \in Seq(S) /\ Len(SubSeq(t, 1, n)) = n
  BY <1>1, SubSeqProperties
<1>3. SubSeq(SubSeq(t, 1, n), 1, n) = SubSeq(t, 1, n)
  BY <1>2, SubSeqFull
<1> QED
  BY <1>1, <1>2, <1>3 DEF IsPrefix

-----------------------------------------------------------------------------
(* An upsert leaves one row per key.                                        *)
LEMMA UpsertKeepsTable ==
    ASSUME NEW t \in Seq(Record), IsTable(t), NEW r \in Record
    PROVE  LET u == IF \E i \in DOMAIN t : t[i].key = r.key
                    THEN [i \in DOMAIN t |-> IF t[i].key = r.key THEN r ELSE t[i]]
                    ELSE Append(t, r)
           IN  u \in Seq(Record) /\ IsTable(u)
<1>1. Len(t) \in Nat /\ DOMAIN t = 1..Len(t) /\ \A i \in 1..Len(t) : t[i] \in Record
  BY LenProperties, ElementOfSeq
<1>2. CASE \E i \in DOMAIN t : t[i].key = r.key
  <2> DEFINE u == [i \in DOMAIN t |-> IF t[i].key = r.key THEN r ELSE t[i]]
  <2>1. u \in [1..Len(t) -> Record]
    BY <1>1
  <2>2. u \in Seq(Record)
    BY <2>1, <1>1, SeqDef
  <2>3. IsTable(u)
    BY <1>1 DEF IsTable
  <2> QED
    BY <1>2, <2>2, <2>3
<1>3. CASE ~\E i \in DOMAIN t : t[i].key = r.key
  <2> DEFINE u == Append(t, r)
  <2>1. /\ u \in Seq(Record) /\ Len(u) = Len(t) + 1
        /\ \A i \in 1..Len(t) : u[i] = t[i]
        /\ u[Len(t) + 1] = r
    BY AppendProperties
  <2>2. DOMAIN u = 1..Len(t) + 1
    BY <2>1, LenProperties
  <2> HIDE DEF u
  <2>3. IsTable(u)
    BY <1>1, <1>3, <2>1, <2>2 DEF IsTable
  <2> QED
    BY <1>3, <2>1, <2>3 DEF u
<1> QED
  BY <1>2, <1>3

(* A delete leaves one row per key.                                         *)
LEMMA DeleteKeepsTable ==
    ASSUME NEW t \in Seq(Record), IsTable(t), NEW n \in DOMAIN t
    PROVE  RemoveAt(t, n) \in Seq(Record) /\ IsTable(RemoveAt(t, n))
<1>1. Len(t) \in Nat /\ DOMAIN t = 1..Len(t) /\ n \in 1..Len(t)
      /\ \A i \in 1..Len(t) : t[i] \in Record
  BY LenProperties, ElementOfSeq
<1> DEFINE a == SubSeq(t, 1, n - 1)
           b == SubSeq(t, n + 1, Len(t))
<1>2. a \in Seq(Record) /\ Len(a) = n - 1 /\ \A i \in 1..n - 1 : a[i] = t[i]
  <2>1. \A i \in 1..n - 1 : t[i] \in Record
    BY <1>1
  <2>2. /\ a \in Seq(Record) /\ Len(a) = IF 1 <= n - 1 THEN n - 1 - 1 + 1 ELSE 0
        /\ \A i \in 1..n - 1 - 1 + 1 : a[i] = t[1 + i - 1]
    BY <1>1, <2>1, SubSeqProperties
  <2> HIDE DEF a
  <2> QED
    BY <1>1, <2>2
<1>3. /\ b \in Seq(Record) /\ Len(b) = Len(t) - n
      /\ \A i \in 1..Len(t) - n : b[i] = t[n + i]
  <2>1. \A i \in n + 1..Len(t) : t[i] \in Record
    BY <1>1
  <2>2. /\ b \in Seq(Record)
        /\ Len(b) = IF n + 1 <= Len(t) THEN Len(t) - (n + 1) + 1 ELSE 0
        /\ \A i \in 1..Len(t) - (n + 1) + 1 : b[i] = t[(n + 1) + i - 1]
    BY <1>1, <2>1, SubSeqProperties
  <2> HIDE DEF b
  <2>3. \A i \in 1..Len(t) - n : b[i] = t[n + i]
    <3> TAKE i \in 1..Len(t) - n
    <3>1. (n + 1) + i - 1 = n + i /\ i \in 1..Len(t) - (n + 1) + 1
      BY <1>1
    <3> QED
      BY <2>2, <3>1
  <2> QED
    BY <1>1, <2>2, <2>3
<1>4. RemoveAt(t, n) = a \o b
  BY DEF RemoveAt
<1> HIDE DEF a, b
<1>5. /\ a \o b \in Seq(Record) /\ Len(a \o b) = Len(t) - 1
      /\ \A i \in 1..Len(t) - 1 : (a \o b)[i] = IF i <= n - 1 THEN a[i] ELSE b[i - (n - 1)]
  <2>1. Len(a) + Len(b) = Len(t) - 1
    BY <1>1, <1>2, <1>3
  <2>2. /\ a \o b \in Seq(Record) /\ Len(a \o b) = Len(a) + Len(b)
        /\ \A i \in 1..Len(a) + Len(b) :
              (a \o b)[i] = IF i <= Len(a) THEN a[i] ELSE b[i - Len(a)]
    BY <1>2, <1>3, ConcatProperties
  <2> QED
    BY <1>2, <2>1, <2>2
<1>6. DOMAIN (a \o b) = 1..Len(t) - 1
  BY <1>5, LenProperties
<1>7. \A i \in 1..Len(t) - 1 : (a \o b)[i] = t[IF i <= n - 1 THEN i ELSE i + 1]
  <2> TAKE i \in 1..Len(t) - 1
  <2>1. CASE i <= n - 1
    BY <2>1, <1>1, <1>2, <1>5
  <2>2. CASE ~(i <= n - 1)
    <3>1. i - (n - 1) \in 1..Len(t) - n /\ n + (i - (n - 1)) = i + 1
      BY <2>2, <1>1
    <3> QED
      BY <2>2, <3>1, <1>1, <1>3, <1>5
  <2> QED
    BY <2>1, <2>2
<1>8. IsTable(a \o b)
  <2> SUFFICES ASSUME NEW i \in 1..Len(t) - 1, NEW j \in 1..Len(t) - 1,
                      (a \o b)[i].key = (a \o b)[j].key
               PROVE  i = j
    BY <1>6 DEF IsTable
  <2> DEFINE at(k) == IF k <= n - 1 THEN k ELSE k + 1
  <2>1. at(i) \in 1..Len(t) /\ at(j) \in 1..Len(t) /\ (at(i) = at(j) => i = j)
    BY <1>1
  <2>2. t[at(i)].key = t[at(j)].key
    BY <1>7
  <2> HIDE DEF at
  <2> QED
    BY <1>1, <2>1, <2>2 DEF IsTable
<1> QED
  BY <1>4, <1>5, <1>8

-----------------------------------------------------------------------------
(* The invariant holds before the call.                                     *)
LEMMA ListInit == Init => ListInv
<1> SUFFICES ASSUME Init PROVE ListInv
  OBVIOUS
<1>1. TypeOK
  <2>1. <<>> \in Seq(Record) /\ Len(<<>>) = 0
    BY EmptySeq
  <2>2. table \in Seq(Record) /\ IsTable(table)
    BY TablesAssumption DEF Init
  <2>3. records \in Seq(Record) /\ channel \in Seq(Record) /\ received \in Seq(Record)
    BY <2>1 DEF Init
  <2>4. sent \in 0..Len(records) /\ Len(channel) <= Capacity /\ writes \in 0..MaxWrites
    BY <2>1, MaxWritesAssumption DEF Init, Capacity
  <2> QED
    BY <2>2, <2>3, <2>4 DEF Init, TypeOK
<1>2. received \o channel = <<>> /\ SubSeq(records, 1, sent) = <<>>
  <2>1. <<>> \in Seq(Record)
    OBVIOUS
  <2>2. <<>> \o <<>> = <<>>
    BY <2>1, ConcatEmptySeq
  <2>3. SubSeq(records, 1, 0) = <<>>
    BY SubSeqEmpty
  <2> QED
    BY <2>2, <2>3 DEF Init
<1> QED
  BY <1>1, <1>2 DEF Init, ListInv, StreamInv, TaskInv, Ended

(* A write by another RPC leaves the stream alone.                          *)
LEMMA WriteStep ==
    ASSUME ListInv, NEW t \in Seq(Record), IsTable(t), Write(t)
    PROVE  ListInv'
<1>1. TypeOK'
  BY MaxWritesAssumption DEF ListInv, TypeOK, Write, call
<1> QED
  BY <1>1 DEF ListInv, StreamInv, TaskInv, Write, call

(* Every step of the task, the client and the other RPCs preserves it.      *)
LEMMA ListInvStep == ListInv /\ [Next]_vars => ListInv'
<1> SUFFICES ASSUME ListInv, [Next]_vars PROVE ListInv'
  OBVIOUS
<1> USE DEF ListInv, Ended
<1>1. CASE List
  <2>1. TypeOK'
    BY <1>1 DEF List, TypeOK
  <2> QED
    BY <1>1, <2>1 DEF List, StreamInv, TaskInv
<1>2. CASE Select
  <2>1. records = <<>> /\ sent = 0 /\ Len(records) = 0
    <3>1. records = <<>> /\ Len(<<>>) = 0
      BY <1>2, EmptySeq DEF Select, TaskInv
    <3> QED
      BY <3>1 DEF TypeOK
  <2>2. CASE task' = "sending" /\ records' = table /\ UNCHANGED broken
    <3>1. TypeOK'
      <4>1. Len(table) \in Nat
        BY LenProperties DEF TypeOK
      <4> QED
        BY <1>2, <2>1, <2>2, <4>1 DEF Select, TypeOK
    <3>2. SubSeq(table, 1, 0) = SubSeq(records, 1, 0)
      BY SubSeqEmpty
    <3> QED
      BY <1>2, <2>1, <2>2, <3>1, <3>2 DEF Select, StreamInv, TaskInv
  <2>3. CASE task' = "panicked" /\ broken' = TRUE /\ UNCHANGED records
    <3>1. TypeOK'
      BY <1>2, <2>3 DEF Select, TypeOK
    <3> QED
      BY <1>2, <2>3, <3>1 DEF Select, StreamInv, TaskInv
  <2> QED
    BY <1>2, <2>2, <2>3 DEF Select
<1>3. CASE Send
  <2>1. sent \in 0..Len(records) /\ sent < Len(records) /\ Len(records) \in Nat
    BY <1>3, LenProperties DEF Send, Deliver, SendFails, TypeOK
  <2>2. CASE /\ stream = "open" /\ Len(channel) < Capacity
             /\ channel' = Append(channel, records[sent + 1])
             /\ sent' = sent + 1 /\ UNCHANGED task
    <3>1. records[sent + 1] \in Record
      BY <2>1, ElementOfSeq DEF TypeOK
    <3>2. channel' \in Seq(Record) /\ Len(channel') <= Capacity
      <4>1. Len(channel) \in Nat
        BY LenProperties DEF TypeOK
      <4>2. channel' \in Seq(Record) /\ Len(channel') = Len(channel) + 1
        BY <2>2, <3>1, AppendProperties DEF TypeOK
      <4> QED
        BY <2>2, <4>1, <4>2 DEF Capacity
    <3>3. TypeOK'
      BY <1>3, <2>1, <2>2, <3>2 DEF Send, Deliver, SendFails, TypeOK
    <3>4. received \o channel' = SubSeq(records, 1, sent')
      BY <2>1, <2>2, SendNext DEF TypeOK, StreamInv
    <3> QED
      BY <1>3, <2>1, <2>2, <3>3, <3>4 DEF Send, Deliver, SendFails, StreamInv, TaskInv
  <2>3. CASE stream = "left" /\ task' = "panicked" /\ UNCHANGED <<channel, sent>>
    <3>1. TypeOK'
      BY <1>3, <2>3 DEF Send, Deliver, SendFails, TypeOK
    <3> QED
      BY <1>3, <2>3, <3>1 DEF Send, Deliver, SendFails, StreamInv, TaskInv
  <2> QED
    BY <1>3, <2>2, <2>3 DEF Send, Deliver, SendFails
<1>4. CASE Finish
  <2>1. TypeOK'
    BY <1>4 DEF Finish, AllSent, TypeOK
  <2> QED
    BY <1>4, <2>1 DEF Finish, AllSent, StreamInv, TaskInv
<1>5. CASE Receive
  <2>1. received' \in Seq(Record) /\ channel' \in Seq(Record) /\ Len(channel') <= Capacity
    <3>1. /\ Head(channel) \in Record /\ Tail(channel) \in Seq(Record)
          /\ Len(Tail(channel)) = Len(channel) - 1 /\ Len(channel) \in Nat
      BY <1>5, HeadTailProperties, LenProperties DEF Receive, TypeOK
    <3> QED
      BY <1>5, <3>1, AppendProperties DEF Receive, TypeOK, Capacity
  <2>2. TypeOK'
    BY <1>5, <2>1 DEF Receive, TypeOK
  <2>3. received' \o channel' = received \o channel
    BY <1>5, MoveHead DEF Receive, TypeOK
  <2> QED
    BY <1>5, <2>2, <2>3 DEF Receive, StreamInv, TaskInv
<1>6. CASE EndOfStream
  <2>1. TypeOK'
    BY <1>6 DEF EndOfStream, SenderDropped, TypeOK
  <2> QED
    BY <1>6, <2>1 DEF EndOfStream, SenderDropped, StreamInv, TaskInv
<1>7. CASE Leave
  <2>1. TypeOK'
    BY <1>7 DEF Leave, TypeOK, Capacity
  <2> QED
    BY <1>7, <2>1 DEF Leave, StreamInv, TaskInv
<1>8. CASE \E r \in Record : Upsert(r)
  <2>1. PICK r \in Record : Upsert(r)
    BY <1>8
  <2> QED
    BY <2>1, UpsertKeepsTable, WriteStep DEF Upsert, TypeOK
<1>9. CASE \E i \in DOMAIN table : Delete(i)
  <2>1. PICK i \in DOMAIN table : Delete(i)
    BY <1>9
  <2> QED
    BY <2>1, DeleteKeepsTable, WriteStep DEF Delete, TypeOK
<1>10. CASE UNCHANGED vars
  BY <1>10 DEF vars, call, TypeOK, StreamInv, TaskInv
<1> QED
  BY <1>1, <1>2, <1>3, <1>4, <1>5, <1>6, <1>7, <1>8, <1>9, <1>10 DEF Next, Task, Client

(* The inductive invariant of the list RPC holds: what is received and what *)
(* is in the channel are what the task has sent, whatever the client and    *)
(* the other RPCs do.                                                       *)
THEOREM ListInvariant == Spec => []ListInv
BY ListInit, ListInvStep, PTL DEF Spec

(* Type correctness of the list; that the channel never holds more than     *)
(* four records is part of it.                                              *)
THEOREM ListTypeCorrect == Spec => []TypeOK
<1>1. ListInv => TypeOK
  BY DEF ListInv
<1> QED BY <1>1, ListInvariant, PTL

(* What the client gets is at every moment the beginning of one table that  *)
(* there was between the call and the SELECT.                               *)
THEOREM ReceivedPrefix == Spec => []ReceivedIsPrefix
<1>1. ListInv => ReceivedIsPrefix
  <2> SUFFICES ASSUME ListInv, stream \in {"open", "complete"}
               PROVE  \E t \in since : IsPrefix(received \o channel, t)
    BY DEF ReceivedIsPrefix
  <2>1. received \o channel = SubSeq(records, 1, sent)
    BY DEF ListInv, StreamInv
  <2>2. CASE records \in since
    <3>1. IsPrefix(SubSeq(records, 1, sent), records)
      BY FirstIsPrefix DEF ListInv, TypeOK
    <3> QED
      BY <2>1, <2>2, <3>1
  <2>3. CASE records \notin since
    <3>1. records = <<>> /\ since # {}
      BY <2>3 DEF ListInv, TypeOK, StreamInv, TaskInv, Ended
    <3>2. PICK t \in since : t \in Seq(Record)
      BY <3>1 DEF ListInv, TypeOK
    <3>3. sent = 0
      <4>1. Len(<<>>) = 0
        BY EmptySeq
      <4> QED
        BY <3>1, <4>1 DEF ListInv, TypeOK
    <3>4. SubSeq(records, 1, 0) = SubSeq(t, 1, 0)
      BY SubSeqEmpty
    <3>5. 0 \in 0..Len(t)
      BY <3>2, LenProperties
    <3>6. IsPrefix(SubSeq(t, 1, 0), t)
      BY <3>2, <3>5, FirstIsPrefix
    <3> QED
      BY <2>1, <3>2, <3>3, <3>4, <3>6
  <2> QED
    BY <2>2, <2>3
<1> QED
  BY <1>1, ListInvariant, PTL

(* A stream that ends has brought a whole table, unless the SELECT failed.  *)
THEOREM CompleteLists == Spec => []CompleteListIsTable
<1>1. ListInv => CompleteListIsTable
  <2> SUFFICES ASSUME ListInv, stream = "complete", ~broken
               PROVE  received \in since
    BY DEF CompleteListIsTable
  <2>1. task = "done" /\ channel = <<>> /\ sent = Len(records) /\ records \in since
    BY DEF ListInv, StreamInv, TaskInv, Ended
  <2>2. received \o <<>> = SubSeq(records, 1, Len(records))
    BY <2>1 DEF ListInv, StreamInv
  <2>3. received \o <<>> = received /\ SubSeq(records, 1, Len(records)) = records
    BY ConcatEmptySeq, SubSeqFull DEF ListInv, TypeOK
  <2> QED
    BY <2>1, <2>2, <2>3
<1> QED
  BY <1>1, ListInvariant, PTL
=============================================================================
