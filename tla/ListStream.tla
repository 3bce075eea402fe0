----------------------------- MODULE ListStream -----------------------------
(***************************************************************************)
(* The list RPC: the handler replies at once with a stream, and a task it  *)
(* has spawned reads the whole table and sends the records one by one      *)
(* through a channel that holds four of them.  The client reads the stream  *)
(* at its own pace, or leaves; other RPCs write the table meanwhile.        *)
(*                                                                         *)
(* The task has no one to report to: when it panics, its end of the        *)
(* channel closes, and the client sees the same end of stream as after the *)
(* last record.                                                            *)
(***************************************************************************)
EXTENDS Naturals, SequencesExt

CONSTANTS
    Keys,       \* primary keys of the table
    Values,     \* payloads of a row
    Tables,     \* what the table may hold when the server starts
    MaxWrites   \* bound on writes by other RPCs

\* mpsc::channel(4)
Capacity == 4

Record == [key : Keys, data : Values]

\* One row per key.
IsTable(t) == \A i, j \in DOMAIN t : t[i].key = t[j].key => i = j

ASSUME TablesAssumption == Tables \subseteq Seq(Record) /\ \A t \in Tables : IsTable(t)
ASSUME MaxWritesAssumption == MaxWrites \in Nat

VARIABLES
    table,     \* the rows in rowid order, the order in which list finds them
    task,      \* the spawned task
    records,   \* what the SELECT returned to it
    sent,      \* how many of them it has sent
    channel,   \* records in the channel
    stream,    \* the client's end of it
    received,  \* what the client has got
    writes,
    \* History variables.
    since,     \* the tables there have been since the call
    broken     \* the SELECT failed

call == <<task, records, sent, channel, stream, received, broken>>
vars == <<table, call, writes, since>>

Ended == {"done", "panicked"}

TypeOK ==
    /\ table \in Seq(Record) /\ IsTable(table)
    /\ task \in {"idle", "selecting", "sending"} \cup Ended
    /\ records \in Seq(Record)
    /\ sent \in 0..Len(records)
    /\ channel \in Seq(Record) /\ Len(channel) <= Capacity
    /\ stream \in {"none", "open", "complete", "left"}
    /\ received \in Seq(Record)
    /\ writes \in 0..MaxWrites
    /\ since \subseteq Seq(Record)
    /\ broken \in BOOLEAN

Init ==
    /\ table \in Tables
    /\ task = "idle" /\ records = <<>> /\ sent = 0
    /\ channel = <<>> /\ stream = "none" /\ received = <<>>
    /\ writes = 0
    /\ since = {} /\ broken = FALSE

-----------------------------------------------------------------------------
\* The handler: the channel, the task, and the stream as a reply.
List ==
    /\ task = "idle"
    /\ task' = "selecting"
    /\ stream' = "open"
    /\ since' = {table}
    /\ UNCHANGED <<table, records, sent, channel, received, writes, broken>>

\* The SELECT runs in one piece on the database thread; an error is a panic in
\* the task's first unwrap().
Select ==
    /\ task = "selecting"
    /\ \/ task' = "sending" /\ records' = table /\ UNCHANGED broken
       \/ task' = "panicked" /\ broken' = TRUE /\ UNCHANGED records
    /\ UNCHANGED <<table, sent, channel, stream, received, writes, since>>

\* Mutant: a record that finds the channel full is skipped (try_send).
DeliverOrSkip(r) ==
    /\ channel' = IF Len(channel) < Capacity THEN Append(channel, r) ELSE channel
    /\ UNCHANGED task

\* The record goes into the channel when there is room.
Deliver(r) == Len(channel) < Capacity /\ channel' = Append(channel, r) /\ UNCHANGED task

\* Mutant: a client that has left is not noticed.
SendFailsNever == FALSE

SendFails == stream = "left" /\ task' = "panicked" /\ UNCHANGED <<channel, sent>>

\* tx.send(record).await.unwrap(): waits for room; panics if the client is gone.
Send ==
    /\ task = "sending"
    /\ sent < Len(records)
    /\ \/ stream = "open" /\ Deliver(records[sent + 1]) /\ sent' = sent + 1
       \/ SendFails
    /\ UNCHANGED <<table, records, stream, received, writes, since, broken>>

\* Mutant: the loop stops when it has filled the channel once.
AllSentAtCapacity == sent = Len(records) \/ sent = Capacity

AllSent == sent = Len(records)

\* All records are sent, and the task drops its end of the channel.
Finish ==
    /\ task = "sending"
    /\ AllSent
    /\ task' = "done"
    /\ UNCHANGED <<table, records, sent, channel, stream, received, writes, since, broken>>

-----------------------------------------------------------------------------
\* The client's end, a ReceiverStream.
Receive ==
    /\ stream = "open"
    /\ channel # <<>>
    /\ received' = Append(received, Head(channel))
    /\ channel' = Tail(channel)
    /\ UNCHANGED <<table, task, records, sent, stream, writes, since, broken>>

\* Mutant: the handler keeps a sender, which a panic does not drop.
SenderDroppedIfDone == task = "done"

SenderDropped == task \in Ended

\* The stream ends when the channel is empty and the task is gone.
EndOfStream ==
    /\ stream = "open"
    /\ channel = <<>>
    /\ SenderDropped
    /\ stream' = "complete"
    /\ UNCHANGED <<table, task, records, sent, channel, received, writes, since, broken>>

Leave ==
    /\ stream = "open"
    /\ stream' = "left"
    /\ channel' = <<>>
    /\ UNCHANGED <<table, task, records, sent, received, writes, since, broken>>

-----------------------------------------------------------------------------
\* Other RPCs: a new row goes to the end, an update leaves its row in place.
Write(t) ==
    /\ writes < MaxWrites
    /\ writes' = writes + 1
    /\ table' = t
    /\ since' = IF task = "selecting" THEN since \cup {t} ELSE since
    /\ UNCHANGED call

Upsert(r) ==
    Write(IF \E i \in DOMAIN table : table[i].key = r.key
          THEN [i \in DOMAIN table |-> IF table[i].key = r.key THEN r ELSE table[i]]
          ELSE Append(table, r))

Delete(i) == Write(RemoveAt(table, i))

Task == Select \/ Send \/ Finish
Client == Receive \/ EndOfStream

Next ==
    \/ List \/ Task
    \/ Client \/ Leave
    \/ \E r \in Record : Upsert(r)
    \/ \E i \in DOMAIN table : Delete(i)

Spec == Init /\ [][Next]_vars

\* The runtime polls the task and the database thread runs its statement; the
\* client may stop reading.
FairSpec == Spec /\ WF_vars(Task)

-----------------------------------------------------------------------------
(* What the client has got, or will get from the channel, is at every       *)
(* moment the beginning of one and the same table, as it stood at some      *)
(* instant between the call and the SELECT: nothing is skipped, repeated or *)
(* mixed with what was written while the stream was read.                   *)
ReceivedIsPrefix ==
    stream \in {"open", "complete"} =>
        \E t \in since : IsPrefix(received \o channel, t)

(* A stream that ends has brought that whole table, unless the SELECT had   *)
(* failed: apart from that error the task never stops half-way while its    *)
(* client listens.                                                          *)
CompleteListIsTable == stream = "complete" => received \in since \/ broken

(* Whatever the client does, the task always goes on until it ends, or      *)
(* waits with a full channel for a client that does not read.               *)
TaskEndsOrWaits == []<>(task \in {"idle"} \cup Ended \/ Len(channel) = Capacity)

(* A client that keeps reading reaches the end of the stream.               *)
ReaderReachesEnd ==
    WF_vars(Client) => (stream = "open" ~> stream \in {"complete", "left"})

-----------------------------------------------------------------------------
\* The stream is what the task has sent of the records it has read.
StreamInv ==
    /\ task = "idle" <=> stream = "none"
    /\ stream # "left" => received \o channel = SubSeq(records, 1, sent)
    /\ stream = "complete" => channel = <<>> /\ task \in Ended

\* What the task knows where it stands.
TaskInv ==
    /\ task = "selecting" => table \in since
    /\ (task \in {"idle", "selecting"} \/ broken) => records = <<>>
    /\ broken => task = "panicked" /\ since # {}
    /\ task \in {"sending", "done"} \/ (task = "panicked" /\ ~broken) => records \in since
    /\ task = "done" => sent = Len(records)
    /\ task = "panicked" => broken \/ (stream = "left" /\ sent < Len(records))

(* The inductive invariant of the list stream.                              *)
ListInv == TypeOK /\ StreamInv /\ TaskInv
=============================================================================
