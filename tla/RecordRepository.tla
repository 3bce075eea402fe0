-------------------------- MODULE RecordRepository --------------------------
(***************************************************************************)
(* The record store of the server: the table `records', the one database   *)
(* thread that tokio_rusqlite runs every statement on, and the RPC          *)
(* handlers (find_unique, upsert, delete) that send statements to it.       *)
(*                                                                         *)
(* A handler is an asynchronous task.  It loses control at each `.await',   *)
(* that is, whenever it waits for the database thread, and other handlers  *)
(* run in between; the runtime has several threads, so that they also run  *)
(* between the two lines that take the time and send the statement.  A call *)
(* is one RPC, and makes a single pass through its handler.                 *)
(*                                                                         *)
(* The list RPC only reads; it is the subject of a module of its own.       *)
(***************************************************************************)
EXTENDS Integers, Sequences

CONSTANTS
    Calls,      \* the RPCs that reach the server
    Keys,       \* primary keys (name, type) of the table
    Values,     \* payloads of a row: data and ttl, always written together
    NoRow,      \* stands for a key that is not in the table
    MaxClock    \* bound on the wall clock

Row == [data : Values, created_at : Nat, updated_at : Nat]

ASSUME NoRowAssumption == NoRow \notin Row
ASSUME MaxClockAssumption == MaxClock \in Nat

Request == [op : {"upsert"}, key : Keys, data : Values]
               \cup [op : {"find", "delete"}, key : Keys]

\* Where a handler is: before the call, between taking the time and sending
\* the INSERT, waiting for a statement, or finished.
Waiting  == {"writing", "reading", "deleting"}
Finished == {"replied", "not_found", "panicked", "gone"}
Control  == {"idle", "stamped"} \cup Waiting \cup Finished

\* What the database thread sends back for a statement; "none" is nothing yet.
Results == {"none", "ok", "no_rows", "error"}

\* A closure sent to the database thread.
Job == [call : Calls, stmt : {"execute", "query_row", "delete"}]

VARIABLES
    table,    \* the records table, on disk
    up,       \* the server process runs
    queue,    \* statements sent to the database thread, oldest first
    pc,       \* where each handler is
    req,      \* the request of each call, fixed by its client from the start
    now,      \* OffsetDateTime::now_utc() as each upsert took it
    res,      \* result of each handler's last statement
    got,      \* the row that statement returned
    clock,    \* the wall clock
    \* History variables: no action reads them to decide what to do.
    commits,  \* number of writes committed so far
    at,       \* position of each call's write in commit order, 0 if none
    seen      \* number of writes already committed when the call arrived

vars == <<table, up, queue, pc, req, now, res, got, clock, commits, at, seen>>

TypeOK ==
    /\ table \in [Keys -> Row \cup {NoRow}]
    /\ up \in BOOLEAN
    /\ queue \in Seq(Job)
    /\ pc \in [Calls -> Control]
    /\ req \in [Calls -> Request]
    /\ now \in [Calls -> Nat]
    /\ res \in [Calls -> Results]
    /\ got \in [Calls -> Row \cup {NoRow}]
    /\ clock \in Nat
    /\ commits \in Nat
    /\ at \in [Calls -> Nat]
    /\ seen \in [Calls -> Nat]

\* The server starts on a migrated, empty database.
Init ==
    /\ table = [k \in Keys |-> NoRow]
    /\ up = TRUE
    /\ queue = <<>>
    /\ pc = [c \in Calls |-> "idle"]
    /\ req \in [Calls -> Request]
    /\ now = [c \in Calls |-> 0]
    /\ res = [c \in Calls |-> "none"]
    /\ got = [c \in Calls |-> NoRow]
    /\ clock = 0
    /\ commits = 0
    /\ at = [c \in Calls |-> 0]
    /\ seen = [c \in Calls |-> 0]

-----------------------------------------------------------------------------
(***************************************************************************)
(* The handlers.                                                           *)
(***************************************************************************)
history == <<commits, at>>

Key(c) == req[c].key

\* conn.call(closure): sends the closure to the database thread; the handler
\* then waits, having no result yet.
Send(c, stmt) ==
    /\ queue' = Append(queue, [call |-> c, stmt |-> stmt])
    /\ res' = [res EXCEPT ![c] = "none"]

Goto(c, l) == pc' = [pc EXCEPT ![c] = l]

Arrive(c, op) ==
    /\ up
    /\ pc[c] = "idle"
    /\ req[c].op = op
    /\ seen' = [seen EXCEPT ![c] = commits]
    /\ UNCHANGED <<table, up, req, got, clock, history>>

\* upsert takes the time as soon as it runs ...
UpsertStart(c) ==
    /\ Arrive(c, "upsert")
    /\ now' = [now EXCEPT ![c] = clock]
    /\ Goto(c, "stamped")
    /\ UNCHANGED <<queue, res>>

\* ... then sends the INSERT.  Another thread may run between the two.
UpsertSend(c) ==
    /\ pc[c] = "stamped"
    /\ Send(c, "execute")
    /\ Goto(c, "writing")
    /\ UNCHANGED <<table, up, req, now, got, clock, history, seen>>

\* Mutants: the row is not read back; the INSERT is sent a second time.
UpsertWrittenNoRead(c) ==
    /\ pc[c] = "writing"
    /\ \/ res[c] = "ok" /\ Goto(c, "replied")
       \/ res[c] = "error" /\ Goto(c, "panicked")
    /\ UNCHANGED <<table, up, queue, res, req, now, got, clock, history, seen>>
UpsertWrittenAgain(c) ==
    /\ pc[c] = "writing"
    /\ res[c] = "ok"
    /\ Send(c, "execute")
    /\ UNCHANGED <<table, up, pc, req, now, got, clock, history, seen>>

\* The INSERT has answered: read the row back with find_unique, or panic in
\* the unwrap() of the RPC handler if it failed.
UpsertWritten(c) ==
    /\ pc[c] = "writing"
    /\ \/ /\ res[c] = "ok"
          /\ Send(c, "query_row")
          /\ Goto(c, "reading")
       \/ /\ res[c] = "error"
          /\ Goto(c, "panicked")
          /\ UNCHANGED <<queue, res>>
    /\ UNCHANGED <<table, up, req, now, got, clock, history, seen>>

FindStart(c) ==
    /\ Arrive(c, "find")
    /\ Send(c, "query_row")
    /\ Goto(c, "reading")
    /\ UNCHANGED now

\* The SELECT has answered.  find_unique turns every error into "record not
\* found"; upsert unwraps, so that a missing row or an error is a panic.
ReadDone(c) ==
    /\ pc[c] = "reading"
    /\ \/ /\ res[c] = "ok"
          /\ Goto(c, "replied")
       \/ /\ res[c] \in {"no_rows", "error"}
          /\ Goto(c, IF req[c].op = "find" THEN "not_found" ELSE "panicked")
    /\ UNCHANGED <<table, up, queue, req, now, res, got, clock, history, seen>>

DeleteStart(c) ==
    /\ Arrive(c, "delete")
    /\ Send(c, "delete")
    /\ Goto(c, "deleting")
    /\ UNCHANGED now

\* The DELETE has answered; an error is a panic in unwrap().
DeleteDone(c) ==
    /\ pc[c] = "deleting"
    /\ \/ /\ res[c] = "ok"
          /\ Goto(c, "replied")
       \/ /\ res[c] = "error"
          /\ Goto(c, "panicked")
    /\ UNCHANGED <<table, up, queue, req, now, res, got, clock, history, seen>>

\* The client leaves: its handler is dropped at the `.await' where it waits.
\* A statement it has already sent stays in the queue and runs.
Disconnect(c) ==
    /\ pc[c] \in Waiting
    /\ Goto(c, "gone")
    /\ UNCHANGED <<table, up, queue, req, now, res, got, clock, history, seen>>

-----------------------------------------------------------------------------
(***************************************************************************)
(* The database thread: it runs the statements one at a time, in the order *)
(* they were sent, each one a transaction of its own.                      *)
(***************************************************************************)
\* Mutants of the statement: ON CONFLICT DO NOTHING, INSERT OR REPLACE, the
\* wrong column, no INSERT.
UpsertedDoNothing(old, data, t) ==
    IF old = NoRow THEN [data |-> data, created_at |-> t, updated_at |-> t] ELSE old
UpsertedReplace(old, data, t) ==
    [data |-> data, created_at |-> t, updated_at |-> t]
UpsertedWrongColumn(old, data, t) ==
    IF old = NoRow THEN [data |-> data, created_at |-> t, updated_at |-> t]
                   ELSE [old EXCEPT !.data = data, !.created_at = t]
UpsertedUpdateOnly(old, data, t) ==
    IF old = NoRow THEN NoRow ELSE [old EXCEPT !.data = data, !.updated_at = t]

\* The row after INSERT ... ON CONFLICT(name, type) DO UPDATE.
Upserted(old, data, t) ==
    IF old = NoRow THEN [data |-> data, created_at |-> t, updated_at |-> t]
                   ELSE [old EXCEPT !.data = data, !.updated_at = t]

\* The thread takes the oldest statement.
Take(c, stmt) ==
    /\ up
    /\ queue # <<>>
    /\ Head(queue) = [call |-> c, stmt |-> stmt]
    /\ queue' = Tail(queue)
    /\ UNCHANGED <<up, pc, req, now, clock, seen>>

Commit(c) ==
    /\ commits' = commits + 1
    /\ at' = [at EXCEPT ![c] = commits + 1]

ExecUpsert(c) ==
    /\ Take(c, "execute")
    /\ table' = [table EXCEPT ![Key(c)] = Upserted(@, req[c].data, now[c])]
    /\ res' = [res EXCEPT ![c] = "ok"]
    /\ Commit(c)
    /\ UNCHANGED got

ExecDelete(c) ==
    /\ Take(c, "delete")
    /\ table' = [table EXCEPT ![Key(c)] = NoRow]
    /\ res' = [res EXCEPT ![c] = "ok"]
    /\ Commit(c)
    /\ UNCHANGED got

\* query_row: the row, or QueryReturnedNoRows.
ExecQuery(c) ==
    /\ Take(c, "query_row")
    /\ res' = [res EXCEPT ![c] = IF table[Key(c)] = NoRow THEN "no_rows" ELSE "ok"]
    /\ got' = [got EXCEPT ![c] = table[Key(c)]]
    /\ UNCHANGED <<table, history>>

\* Mutant: a failed statement answers nothing.
AnswerErrorSilent(c) == UNCHANGED res

AnswerError(c) == res' = [res EXCEPT ![c] = "error"]

\* A statement fails (disk full, I/O error): nothing changes.
ExecError(c) ==
    /\ \E stmt \in {"execute", "query_row", "delete"} : Take(c, stmt)
    /\ AnswerError(c)
    /\ UNCHANGED <<table, got, history>>

-----------------------------------------------------------------------------
(***************************************************************************)
(* The process and the clock.                                              *)
(***************************************************************************)
\* The process dies or is shut down: handlers and queued statements are lost,
\* committed rows are not (SQLite, write-ahead log).
Crash ==
    /\ up
    /\ up' = FALSE
    /\ queue' = <<>>
    /\ pc' = [c \in Calls |->
                 IF pc[c] \in Waiting \cup {"stamped"} THEN "gone" ELSE pc[c]]
    /\ UNCHANGED <<table, req, now, res, got, clock, history, seen>>

\* Mutant: the migration creates the table anew.
MigrateRecreates == table' = [k \in Keys |-> NoRow]

\* migrate_database leaves an up-to-date table as it is.
migrate_database == UNCHANGED table

\* main() again: open the database and migrate it to latest.
Restart ==
    /\ ~up
    /\ up' = TRUE
    /\ migrate_database
    /\ UNCHANGED <<queue, pc, req, now, res, got, clock, history, seen>>

Tick ==
    /\ clock < MaxClock
    /\ clock' = clock + 1
    /\ UNCHANGED <<table, up, queue, pc, req, now, res, got, history, seen>>

Handler(c) ==
    \/ UpsertStart(c) \/ UpsertSend(c) \/ UpsertWritten(c)
    \/ FindStart(c) \/ ReadDone(c)
    \/ DeleteStart(c) \/ DeleteDone(c)

Database(c) ==
    ExecUpsert(c) \/ ExecDelete(c) \/ ExecQuery(c) \/ ExecError(c)

Next ==
    \/ \E c \in Calls : Handler(c) \/ Database(c) \/ Disconnect(c)
    \/ Crash
    \/ Restart
    \/ Tick

Spec == Init /\ [][Next]_vars

\* The runtime polls every task that is ready and the database thread runs
\* whenever it has a statement.  Nothing makes clients call or the process
\* come back.
Continue(c) == UpsertSend(c) \/ UpsertWritten(c) \/ ReadDone(c) \/ DeleteDone(c)

FairSpec ==
    /\ Spec
    /\ \A c \in Calls : WF_vars(Continue(c))
    /\ WF_vars(\E c \in Calls : Database(c))

-----------------------------------------------------------------------------
(***************************************************************************)
(* Properties.                                                             *)
(***************************************************************************)
Committed(k) == {c \in Calls : at[c] > 0 /\ Key(c) = k}
Upserts(k) == {c \in Committed(k) : req[c].op = "upsert"}
Deletes(k) == {c \in Committed(k) : req[c].op = "delete"}

WrittenBy(row, c) == row.data = req[c].data /\ row.updated_at = now[c]

(* The table is what the committed writes say, through crashes, lost        *)
(* clients and handlers that interleave: a row holds the data and the time  *)
(* of one and the same upsert, the last write committed for its key; a key  *)
(* without a row was never written, or its last committed write deleted it. *)
RowIsLatestWrite ==
    \A k \in Keys :
        IF table[k] # NoRow
        THEN \E u \in Upserts(k) : /\ WrittenBy(table[k], u)
                                   /\ \A w \in Committed(k) : at[w] <= at[u]
        ELSE \A u \in Upserts(k) : \E d \in Deletes(k) : at[d] > at[u]

(* created_at is the time of the upsert that inserted the row: the first    *)
(* one committed since the last delete of the key; ON CONFLICT keeps it.    *)
CreatedAtIsFirstInsert ==
    \A k \in Keys : table[k] # NoRow =>
        \E i \in Upserts(k) :
            /\ table[k].created_at = now[i]
            /\ \A d \in Deletes(k) : at[d] < at[i]
            /\ \A u \in Upserts(k) : at[u] < at[i] =>
                   \E d \in Deletes(k) : at[u] < at[d]

(* The time is taken before the statement is sent, so a row may say that it *)
(* was updated before it was created; this needs two upserts that overlap:  *)
(* the one that updated the row had arrived before the one that created it  *)
(* was committed.                                                           *)
StampInversionNeedsOverlap ==
    \A k \in Keys :
        (table[k] # NoRow /\ table[k].updated_at < table[k].created_at) =>
            \E i, u \in Upserts(k) :
                /\ table[k].created_at = now[i]
                /\ table[k].updated_at = now[u]
                /\ seen[u] < at[i]
                /\ at[i] < at[u]

(* Number of commits that the answer to call c must take into account: for  *)
(* an upsert those up to its own, for a find those made before it arrived.  *)
Horizon(c) == IF req[c].op = "upsert" THEN at[c] ELSE seen[c]

\* The row read for c was written by a committed upsert, and no write of that
\* key within the horizon came after it.
FreshRead(c) ==
    \E u \in Upserts(Key(c)) :
        /\ WrittenBy(got[c], u)
        /\ \A w \in Committed(Key(c)) : at[w] <= at[u] \/ at[w] > Horizon(c)

\* Every upsert of the key within the horizon was followed by a delete.
TrueMiss(c) ==
    \A u \in Upserts(Key(c)) :
        at[u] <= Horizon(c) => \E d \in Deletes(Key(c)) : at[d] > at[u]

(* The record an upsert or a find replies with is the one a committed       *)
(* upsert wrote, and no write of that key within the horizon of the call    *)
(* came after it: an upsert never answers with a row older than its own     *)
(* write, although the row is read in a second statement, and a find never  *)
(* misses a write that was committed before it arrived.                     *)
ReplyNotStale ==
    \A c \in Calls : (pc[c] = "replied" /\ req[c].op # "delete") =>
        (req[c].op = "upsert" => at[c] > 0) /\ FreshRead(c)

(* "record not found" from a SELECT that worked, and the panic of an upsert *)
(* whose row is gone when it reads it back, both have a cause: every write  *)
(* of the key within the horizon of the call was followed by a delete.      *)
MissingRowWasDeleted ==
    \A c \in Calls :
        (pc[c] \in {"not_found", "panicked"} /\ res[c] = "no_rows") =>
            TrueMiss(c)

(* Every RPC that reached the server gets its answer, or its connection is  *)
(* lost: no handler waits for ever on the database thread.                  *)
EveryCallEnds ==
    \A c \in Calls : pc[c] # "idle" ~> pc[c] \in Finished

(* What a caller sees of each call, and the service the store implements.   *)
Status(p) ==
    IF p = "idle" THEN "idle"
    ELSE IF p = "replied" THEN "answered"
    ELSE IF p \in Finished THEN "failed" ELSE "open"

Service == INSTANCE RecordService
    WITH rows <- table, answer <- got,
         status <- [c \in Calls |-> Status(pc[c])],
         applied <- {c \in Calls : at[c] > 0}

(* The store, with its queue, its crashes and its lost clients, implements  *)
(* the atomic service: each write once and in one step, each answer the     *)
(* content of the table at one instant of the call.                         *)
ImplementsService == Service!ServiceSpec

(* The unwrap() on the result of repo.upsert: an upsert whose statements    *)
(* all succeeded has a record to reply with.                                *)
UpsertUnwrapHolds ==
    \A c \in Calls : (req[c].op = "upsert" /\ pc[c] = "panicked") => res[c] = "error"

-----------------------------------------------------------------------------
(***************************************************************************)
(* The inductive invariant behind the properties.                          *)
(***************************************************************************)
\* A queued statement is the one its handler waits for, or waited for when
\* its client left, and has not run yet.
JobInv(j) ==
    LET c == j.call
    IN  /\ res[c] = "none"
        /\ \/ /\ j.stmt = "execute"
              /\ pc[c] \in {"writing", "gone"}
              /\ req[c].op = "upsert" /\ at[c] = 0
           \/ /\ j.stmt = "query_row"
              /\ pc[c] \in {"reading", "gone"}
              /\ req[c].op = "find" \/ (req[c].op = "upsert" /\ at[c] > 0)
           \/ /\ j.stmt = "delete"
              /\ pc[c] \in {"deleting", "gone"}
              /\ req[c].op = "delete" /\ at[c] = 0

\* No call has two statements in the queue.
QueueInv ==
    /\ \A i \in 1..Len(queue) : JobInv(queue[i])
    /\ \A i, j \in 1..Len(queue) : queue[i].call = queue[j].call => i = j

\* What a handler knows where it stands.
HandlerInv ==
    \A c \in Calls :
        /\ pc[c] = "idle" => at[c] = 0 /\ res[c] = "none"
        /\ pc[c] = "stamped" => req[c].op = "upsert" /\ at[c] = 0
        /\ pc[c] = "writing" => /\ req[c].op = "upsert"
                                /\ IF res[c] = "ok" THEN at[c] > 0 ELSE at[c] = 0
        /\ pc[c] = "reading" => /\ req[c].op # "delete"
                                /\ req[c].op = "upsert" => at[c] > 0
                                /\ res[c] = "ok" => got[c] # NoRow
        /\ pc[c] = "deleting" => /\ req[c].op = "delete"
                                 /\ IF res[c] = "ok" THEN at[c] > 0 ELSE at[c] = 0
        /\ pc[c] = "replied" => /\ req[c].op # "find" => at[c] > 0
                                /\ req[c].op # "delete" => res[c] = "ok" /\ got[c] # NoRow

\* Commits are numbered without repetition and stamped no later than now; a
\* call that arrives after a commit is stamped no earlier than it.
CommitInv ==
    /\ \A c \in Calls : at[c] <= commits /\ seen[c] <= commits /\ now[c] <= clock
    /\ \A c \in Calls : at[c] > 0 => req[c].op # "find"
    /\ \A c, d \in Calls : (at[c] > 0 /\ at[c] = at[d]) => c = d
    /\ \A c, d \in Calls :
          (pc[c] # "idle" /\ req[c].op = "upsert" /\ at[d] > 0 /\ at[d] <= seen[c])
              => now[d] <= now[c]

\* ReplyNotStale and MissingRowWasDeleted, from the moment the SELECT has run.
ReadInv ==
    \A c \in Calls :
        /\ (pc[c] \in {"reading", "replied"} /\ res[c] = "ok" /\ req[c].op # "delete")
              => FreshRead(c)
        /\ (pc[c] \in {"reading", "not_found", "panicked"} /\ res[c] = "no_rows")
              => TrueMiss(c)

(* The inductive invariant of the record store.                             *)
StoreInv ==
    /\ TypeOK
    /\ QueueInv
    /\ HandlerInv
    /\ CommitInv
    /\ RowIsLatestWrite
    /\ CreatedAtIsFirstInsert
    /\ ReadInv
=============================================================================
