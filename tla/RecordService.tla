---------------------------- MODULE RecordService ----------------------------
(***************************************************************************)
(* What the record store promises to its callers, without the database     *)
(* thread, its queue, the clock and the process:                           *)
(*                                                                         *)
(*  - the write of a call takes effect at most once, in one step, after    *)
(*    the call was made and, if the call is answered, before the answer;   *)
(*  - the record in an answer is what the table held for the key at one    *)
(*    instant between the call and its answer, and for an upsert at an     *)
(*    instant after its own write;                                         *)
(*  - a call may fail, with or without effect, and its effect may come     *)
(*    after the failure.                                                   *)
(***************************************************************************)
EXTENDS Naturals

CONSTANTS Calls, Keys, Values, NoRow

VARIABLES
    rows,     \* the table
    req,      \* what each call asks for
    status,   \* "idle", "open", "answered" or "failed"
    applied,  \* the calls whose write has taken effect
    answer    \* the record read for each call

serviceVars == <<rows, req, status, applied, answer>>

ServiceInit ==
    /\ rows = [k \in Keys |-> NoRow]
    /\ status = [c \in Calls |-> "idle"]
    /\ applied = {}
    /\ answer = [c \in Calls |-> NoRow]

Open(c) ==
    /\ status[c] = "idle"
    /\ status' = [status EXCEPT ![c] = "open"]
    /\ UNCHANGED <<rows, req, applied, answer>>

Pending(c) == status[c] \in {"open", "failed"}

\* The write of an upsert: the payload is replaced, the row keeps created_at.
Write(c) ==
    LET k == req[c].key
    IN  /\ Pending(c)
        /\ c \notin applied
        /\ req[c].op = "upsert"
        /\ rows'[k] \in [data : Values, created_at : Nat, updated_at : Nat]
        /\ rows'[k].data = req[c].data
        /\ rows[k] # NoRow => rows'[k].created_at = rows[k].created_at
        /\ rows' = [rows EXCEPT ![k] = rows'[k]]
        /\ applied' = applied \cup {c}
        /\ UNCHANGED <<req, status, answer>>

Remove(c) ==
    /\ Pending(c)
    /\ c \notin applied
    /\ req[c].op = "delete"
    /\ rows' = [rows EXCEPT ![req[c].key] = NoRow]
    /\ applied' = applied \cup {c}
    /\ UNCHANGED <<req, status, answer>>

Read(c) ==
    /\ Pending(c)
    /\ req[c].op = "find" \/ (req[c].op = "upsert" /\ c \in applied)
    /\ answer' = [answer EXCEPT ![c] = rows[req[c].key]]
    /\ UNCHANGED <<rows, req, status, applied>>

\* A success: the write is in the table and the record was there when read.
Answer(c) ==
    /\ status[c] = "open"
    /\ req[c].op # "find" => c \in applied
    /\ req[c].op # "delete" => answer[c] # NoRow
    /\ status' = [status EXCEPT ![c] = "answered"]
    /\ UNCHANGED <<rows, req, applied, answer>>

Fail(C) ==
    /\ \A c \in C : status[c] = "open"
    /\ status' = [c \in Calls |-> IF c \in C THEN "failed" ELSE status[c]]
    /\ UNCHANGED <<rows, req, applied, answer>>

ServiceNext ==
    \/ \E c \in Calls :
          Open(c) \/ Write(c) \/ Remove(c) \/ Read(c) \/ Answer(c)
    \/ \E C \in SUBSET Calls : Fail(C)

ServiceSpec == ServiceInit /\ [][ServiceNext]_serviceVars
==============================================================================
