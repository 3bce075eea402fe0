------------------------------- MODULE SwanDns -------------------------------
(***************************************************************************)
(* The system as a whole: the update client of a machine publishes records *)
(* through the RPC server, and the DNS server of the same process answers  *)
(* queries from the table.  The steps of the client are those of            *)
(* UpdateClient, the steps of lookups those of DnsServer; a request that is *)
(* applied is a step of both.                                               *)
(*                                                                         *)
(* Beside them the process crashes and comes back, which breaks requests   *)
(* and queries but keeps the table, and an operator deletes a record.      *)
(***************************************************************************)
EXTENDS Integers

CONSTANTS
    NumRecords, Addrs, NoAddr, MaxChanges,    \* of UpdateClient
    Queries, Configs, StaticValues, NoZone,   \* of DnsServer
    Name,      \* the name each record is published under, in lower case
    Family,    \* the family that the protocol of each record admits
    MaxFaults  \* bound on things that go wrong

VARIABLES
    \* of UpdateClient
    mode, schedule, shutdown, pc, result, status, next, errors, message, attempts,
    arrived, lost, addr, table, changes, held, acked, late,
    \* of DnsServer; query is its pc, rows its table
    cfg, server, rows, query, question, got, since, covered, broken,
    deleted,  \* the operator has deleted a record
    faults,
    \* History variables.
    may,      \* for each record, the row last acknowledged and those written since
    fresh,    \* what was written to the record in flight since it was applied
    allowed   \* what each query may find

C == INSTANCE UpdateClient

Questions == [name : {Name[r] : r \in C!Records}, type : {"A", "AAAA"}]

D == INSTANCE DnsServer WITH
        Values <- Addrs \cup StaticValues, Written <- Addrs, Spellings <- {"lower"},
        NoRow <- NoAddr, table <- rows, pc <- query

ASSUME ConstantsAssumption == NumRecords \in Nat /\ NoAddr \notin Addrs
ASSUME RecordsAssumption ==
    /\ \A a \in Addrs : a.family \in {"A", "AAAA"}
    /\ Family \in [C!Records -> {"A", "AAAA"}]
    /\ \A r, s \in C!Records : (Name[r] = Name[s] /\ Family[r] = Family[s]) => r = s

fixed == <<mode, schedule>>
client == <<fixed, shutdown, pc, result, status, next, errors, message, attempts, arrived,
            lost, addr, table, changes, held, acked, late>>
lookups == <<cfg, server, rows, query, question, got, since, covered, broken>>
vars == <<client, lookups, deleted, faults, may, fresh, allowed>>

\* Mutant: every message is one of type A.
MessageTypeA(a) == "A"

\* The type of a message comes from the address that is sent.
MessageType(a) == IF a.family = "AAAA" THEN "AAAA" ELSE "A"

\* The row that the message for record r with address a is written to.
RowOf(r, a) == [question |-> [name |-> Name[r], type |-> MessageType(a)], spelling |-> "lower"]

\* Addresses that the protocol of a record admits.
AddrsOf(r) == {a \in Addrs : a.family = Family[r]} \cup {NoAddr}

\* A client that is left running on its schedule, and a server about to start.
Init ==
    /\ C!Init
    /\ mode = "loop" /\ schedule
    /\ \A r \in C!Records : addr[r] \in AddrsOf(r)
    /\ D!Init
    /\ deleted = FALSE
    /\ faults = 0
    /\ may = [r \in C!Records |-> {NoAddr}]
    /\ fresh = {}
    /\ allowed = [q \in Queries |-> {}]

Serving == server = "serving"
Fault == faults < MaxFaults /\ faults' = faults + 1

-----------------------------------------------------------------------------
\* The client runs; it connects only to a server that is there.
ClientStep ==
    /\ \/ C!ClientStep
       \/ Serving /\ C!SendRequest
    /\ fresh' = {}
    /\ UNCHANGED <<lookups, deleted, faults, may, allowed>>

\* Without a server every attempt to connect fails; with one, connections fail or
\* break, and the client dies, by a fault.
ClientFails ==
    /\ \/ ~Serving /\ C!ConnectFails /\ UNCHANGED faults
       \/ Fault /\ (C!ConnectFails \/ C!ConnectionBreaks \/ C!ListPanics)
    /\ fresh' = {}
    /\ UNCHANGED <<lookups, deleted, may, allowed>>

\* The client learns that its record was written.
Reply ==
    /\ C!Reply
    /\ may' = [may EXCEPT ![next] = fresh]
    /\ fresh' = {}
    /\ UNCHANGED <<lookups, deleted, faults, allowed>>

ChangeAddress(r, a) ==
    /\ a \in AddrsOf(r)
    /\ C!ChangeAddress(r, a)
    /\ UNCHANGED <<lookups, deleted, faults, may, fresh, allowed>>

\* The records that a query asks for, at most one.
Asked(q) == {r \in C!Records : Name[r] = question[q].name /\ Family[r] = question[q].type}

\* What a write to the row of record r means to those who ask for it.
Written(r, content) ==
    /\ Serving
    /\ may' = [may EXCEPT ![r] = @ \cup {content}]
    /\ allowed' = [q \in Queries |->
                      IF query[q] = "selecting" /\ r \in Asked(q)
                      THEN allowed[q] \cup {content} ELSE allowed[q]]

\* A write to the record in flight, after that was applied.
FreshAfter(r, content) ==
    fresh' = IF pc = "waiting" /\ arrived /\ r = next THEN fresh \cup {content} ELSE fresh

Upsert ==
    /\ C!Apply
    /\ D!UpsertRecord(RowOf(next, message), message)
    /\ Written(next, message)
    /\ fresh' = {message}
    /\ UNCHANGED <<deleted, faults>>

UpsertLate(m) ==
    /\ C!ApplyLate(m)
    /\ D!UpsertRecord(RowOf(m.rec, m.addr), m.addr)
    /\ Written(m.rec, m.addr)
    /\ FreshAfter(m.rec, m.addr)
    /\ UNCHANGED <<deleted, faults>>

\* An operator deletes a record, once.
Delete(r) ==
    /\ ~deleted /\ deleted' = TRUE
    /\ table[r] # NoAddr
    /\ table' = [table EXCEPT ![r] = NoAddr]
    /\ D!DeleteRecord(RowOf(r, table[r]))
    /\ Written(r, NoAddr)
    /\ FreshAfter(r, NoAddr)
    /\ UNCHANGED <<fixed, shutdown, pc, result, status, next, errors, message, attempts,
                   arrived, lost, addr, changes, held, acked, late, faults>>

-----------------------------------------------------------------------------
Lookup(q) ==
    /\ Serving
    /\ D!Lookup(q)
    /\ allowed' = IF query[q] = "idle"
                  THEN [allowed EXCEPT ![q] = UNION {may[r] : r \in Asked(q)}] ELSE allowed
    /\ UNCHANGED <<client, deleted, faults, may, fresh>>

Start ==
    /\ D!Start
    /\ server' = "serving"
    /\ UNCHANGED <<client, deleted, faults, may, fresh, allowed>>

InProgress == {"selecting", "selected", "forwarding"}

\* The process dies: requests and queries are lost, and asked again by those
\* who made them.  The table is on disk.
Crash ==
    /\ Serving
    /\ Fault
    /\ server' = "starting"
    /\ query' = [q \in Queries |-> IF query[q] \in InProgress THEN "idle" ELSE query[q]]
    /\ got' = [q \in Queries |-> IF query[q] \in InProgress THEN NoAddr ELSE got[q]]
    /\ broken' = [q \in Queries |-> query[q] \notin InProgress /\ broken[q]]
    /\ lost' = {}
    /\ IF pc = "waiting" THEN C!AttemptFailed ELSE UNCHANGED <<pc, next, errors, attempts>>
    /\ fresh' = {}
    /\ UNCHANGED <<cfg, rows, question, since, covered, fixed, shutdown, result, status,
                   message, arrived, addr, table, changes, held, acked, late,
                   deleted, may, allowed>>

Next ==
    \/ ClientStep \/ ClientFails \/ Reply \/ Upsert \/ Start \/ Crash
    \/ \E m \in lost : UpsertLate(m)
    \/ \E r \in C!Records, a \in C!Content : ChangeAddress(r, a)
    \/ \E r \in C!Records : Delete(r)
    \/ \E q \in Queries : Lookup(q)

Spec == Init /\ [][Next]_vars

\* The client and the server process run, and the service manager starts the
\* process again.  A request or a reply that does not arrive is a fault, after
\* which the connection breaks.
Fairness ==
    /\ WF_vars(ClientStep \/ Reply)
    /\ WF_vars(Upsert)
    /\ WF_vars(Start)

FairSpec == Spec /\ Fairness

-----------------------------------------------------------------------------
(* End to end: a query for a machine's record finds the address that was    *)
(* last acknowledged to the machine, or something written after that: the   *)
(* address of an attempt that is not, or never will be, acknowledged, of a  *)
(* late request, or no row if an operator deleted it.  Before the first     *)
(* acknowledgement that is also no row.  It goes upstream only if it may    *)
(* find no row, or the SELECT failed.  Crashes of the server between the    *)
(* write and its reply, restarts, new cycles and retries of the client do   *)
(* not bring back what was there before.                                    *)
QueryFindsAcknowledged ==
    \A q \in Queries :
        /\ query[q] = "database" => got[q] \in allowed[q]
        /\ (query[q] = "forwarding" /\ Asked(q) # {}) => NoAddr \in allowed[q] \/ broken[q]

(* Rows that update clients write never make a lookup panic, and hold data  *)
(* of the type they are found under: the type that the client derives from  *)
(* the address it sends is the one the DNS server derives from the row.     *)
AnswersHaveType ==
    \A q \in Queries :
        /\ query[q] # "panicked"
        /\ query[q] = "database" => D!create_record_data(got[q]) = question[q].type

(* Once the server stays up, connections hold and the machine keeps its     *)
(* addresses, the client brings every row to the machine's address, also a  *)
(* row that was deleted or that a late request had overwritten, and keeps   *)
(* it there; unless the client itself has died.                             *)
AddressReachesDns ==
    \/ <>[](\A r \in C!Records :
              addr[r] # NoAddr => Serving /\ rows[RowOf(r, addr[r])] = addr[r])
    \/ <>(status = "err")
=============================================================================
