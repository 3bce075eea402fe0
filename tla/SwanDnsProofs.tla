---------------------------- MODULE SwanDnsProofs ----------------------------
(***************************************************************************)
(* Proofs about the whole system, for any number of records, addresses,    *)
(* queries, faults and changes of address, and any configuration of zones. *)
(***************************************************************************)
EXTENDS SwanDns, TLAPS

\* The row that queries for record r look at.
KeyOf(r) == [question |-> [name |-> Name[r], type |-> Family[r]], spelling |-> "lower"]

(* The type that a client derives from an address of the right family leads *)
(* its message to the row that queries for the record look at.              *)
LEMMA MessageFindsRow ==
    ASSUME NEW r \in C!Records, NEW a \in AddrsOf(r) \ {NoAddr}
    PROVE  MessageType(a) = Family[r] /\ RowOf(r, a) = KeyOf(r)
<1>1. a.family = Family[r] /\ Family[r] \in {"A", "AAAA"}
  BY RecordsAssumption DEF AddrsOf
<1>2. MessageType(a) = Family[r]
  BY <1>1 DEF MessageType
<1> QED BY <1>2 DEF RowOf, KeyOf

(* Each record has a row of its own.                                        *)
LEMMA KeysDiffer ==
    /\ \A r \in C!Records : KeyOf(r) \in D!Keys
    /\ \A r, s \in C!Records : KeyOf(r) = KeyOf(s) => r = s
<1>1. ASSUME NEW r \in C!Records PROVE KeyOf(r) \in D!Keys
  BY <1>1, RecordsAssumption DEF KeyOf, D!Keys, Questions
<1>2. ASSUME NEW r \in C!Records, NEW s \in C!Records, KeyOf(r) = KeyOf(s) PROVE r = s
  <2>1. Name[r] = Name[s] /\ Family[r] = Family[s]
    BY <1>2 DEF KeyOf
  <2> QED BY <2>1, RecordsAssumption
<1> QED BY <1>1, <1>2

(* The records that a query asks for are those of the row it looks at.      *)
LEMMA AskedKey ==
    ASSUME NEW q \in Queries, question[q] \in Questions, NEW r \in C!Records
    PROVE  r \in Asked(q) <=> D!RowKey(q) = KeyOf(r)
<1>1. question[q] = [name |-> question[q].name, type |-> question[q].type]
  BY DEF Questions
<1>2. r \in Asked(q) <=> question[q] = [name |-> Name[r], type |-> Family[r]]
  BY <1>1 DEF Asked
<1> QED BY <1>2 DEF D!RowKey, KeyOf

-----------------------------------------------------------------------------
(***************************************************************************)
(* The inductive invariant.                                                *)
(***************************************************************************)
\* Every address is on its way to, or in, a row of its own family.
FamilyInv ==
    /\ addr \in [C!Records -> C!Content] /\ table \in [C!Records -> C!Content]
    /\ \A r \in C!Records : addr[r] \in AddrsOf(r) /\ table[r] \in AddrsOf(r)
    /\ pc \in {"connect", "waiting"} =>
          next \in C!Records /\ message \in AddrsOf(next) \ {NoAddr}
    /\ \A m \in lost : m.rec \in C!Records /\ m.addr \in AddrsOf(m.rec) \ {NoAddr}
    /\ next \in Nat \ {0}

\* The rows that queries see are those the client's messages were written to, and
\* what a row holds is data of the type it is found under.
RowsInv ==
    /\ rows \in [D!Keys -> C!Content]
    /\ \A r \in C!Records : rows[KeyOf(r)] = table[r]
    /\ \A k \in D!Keys : (\A r \in C!Records : KeyOf(r) # k) => rows[k] = NoAddr
    /\ \A k \in D!Keys : rows[k] # NoAddr => MessageType(rows[k]) = k.question.type

\* A row is as it was acknowledged, or as it was written since; also the row of
\* the request whose reply is on its way.
MayInv ==
    /\ DOMAIN may = C!Records
    /\ \A r \in C!Records : table[r] \in may[r]
    /\ (pc = "waiting" /\ arrived) => table[next] \in fresh

\* What a query has found, or would find now, is allowed.
QueryInv(q) ==
    /\ query[q] # "panicked"
    /\ query[q] \in {"idle", "selecting"} => got[q] = NoAddr
    /\ query[q] = "selecting" =>
          \/ rows[D!RowKey(q)] \in allowed[q]
          \/ Asked(q) = {} /\ rows[D!RowKey(q)] = NoAddr
    /\ (query[q] \in {"selected", "database"} /\ got[q] # NoAddr) =>
          got[q] \in allowed[q] /\ got[q] \in Addrs /\ MessageType(got[q]) = question[q].type
    /\ (query[q] \in {"selected", "forwarding"} /\ got[q] = NoAddr /\ Asked(q) # {}) =>
          NoAddr \in allowed[q] \/ broken[q]
    /\ query[q] = "forwarding" => got[q] = NoAddr
    /\ query[q] = "database" => got[q] # NoAddr
QueriesInv ==
    /\ DOMAIN query = Queries /\ DOMAIN got = Queries /\ DOMAIN broken = Queries
    /\ DOMAIN allowed = Queries
    /\ question \in [Queries -> Questions]
    /\ \A q \in Queries : QueryInv(q)

SwanInv == FamilyInv /\ RowsInv /\ MayInv /\ QueriesInv

(* The system starts in a state of the invariant.                           *)
LEMMA SwanInit == Init => SwanInv
<1> SUFFICES ASSUME Init PROVE SwanInv
  OBVIOUS
<1>1. FamilyInv
  BY DEF Init, C!Init, FamilyInv, AddrsOf, C!Content
<1>2. RowsInv
  <2>1. rows \in [D!Keys -> {NoAddr}] /\ table = [r \in C!Records |-> NoAddr]
    BY DEF Init, D!Init, C!Init
  <2> HIDE DEF KeyOf
  <2> QED BY <2>1, KeysDiffer DEF RowsInv, C!Content
<1>3. MayInv
  BY DEF Init, C!Init, MayInv
<1>4. QueriesInv
  BY DEF Init, D!Init, QueriesInv, QueryInv
<1> QED BY <1>1, <1>2, <1>3, <1>4 DEF SwanInv

-----------------------------------------------------------------------------
(***************************************************************************)
(* The client.                                                             *)
(***************************************************************************)
(* An attempt that failed leaves addresses and rows alone.                  *)
LEMMA AttemptInv ==
    ASSUME FamilyInv, C!AttemptFailed, pc \in {"connect", "waiting"},
           UNCHANGED <<message, addr, table>>,
           \A m \in lost' : m.rec \in C!Records /\ m.addr \in AddrsOf(m.rec) \ {NoAddr}
    PROVE  FamilyInv' /\ pc' # "waiting"
<1>1. \/ pc' = "connect" /\ next' = next /\ pc \in {"connect", "waiting"}
      \/ pc' = "update" /\ next' = next + 1
  BY DEF C!AttemptFailed, C!RecordFailed
<1> QED BY <1>1 DEF FamilyInv, AddrsOf

(* A request that is given up carries an address of its record's family.    *)
LEMMA AbandonInv ==
    ASSUME FamilyInv, (pc = "waiting" /\ C!Abandon) \/ lost' = lost
    PROVE  \A m \in lost' : m.rec \in C!Records /\ m.addr \in AddrsOf(m.rec) \ {NoAddr}
BY DEF FamilyInv, C!Abandon, C!InFlight

(* Addresses keep their family, and no request that the client waits for    *)
(* has been applied before it was sent.                                     *)
LEMMA ClientStepInv ==
    ASSUME SwanInv, ClientStep \/ ClientFails
    PROVE  FamilyInv' /\ MayInv' /\ UNCHANGED table
<1>0. FamilyInv /\ MayInv /\ may' = may
  BY DEF SwanInv, ClientStep, ClientFails
<1>m. ASSUME table' = table, pc' = "waiting" => ~arrived'
      PROVE  MayInv'
  BY <1>0, <1>m DEF MayInv
<1>1. CASE C!BeginCycle
  <2>1. /\ pc' = "update" /\ next' = 1
        /\ UNCHANGED <<message, lost, addr, table>>
    BY <1>1 DEF C!BeginCycle, C!world
  <2> QED BY <1>0, <1>m, <2>1 DEF FamilyInv, AddrsOf
<1>2. CASE C!ReadAddress
  <2>1. /\ pc = "update" /\ next <= NumRecords
        /\ UNCHANGED <<lost, addr, table>>
    BY <1>2 DEF C!ReadAddress, C!world
  <2>2. next \in C!Records
    BY <1>0, <2>1, ConstantsAssumption DEF FamilyInv, C!Records
  <2>3. CASE C!NoAddress
    <3>1. pc' = "update" /\ next' = next + 1
      BY <2>3 DEF C!NoAddress, C!RecordFailed
    <3> QED BY <1>0, <1>m, <2>1, <2>2, <3>1 DEF FamilyInv, C!Records, AddrsOf
  <2>4. CASE ~C!NoAddress
    <3>1. pc' = "connect" /\ next' = next /\ message' = addr[next] /\ addr[next] # NoAddr
      BY <1>2, <2>4 DEF C!ReadAddress, C!FreshAddress
    <3> QED BY <1>0, <1>m, <2>1, <2>2, <3>1 DEF FamilyInv, AddrsOf
  <2> QED BY <2>3, <2>4
<1>3. CASE C!SendRequest
  <2>1. /\ pc = "connect" /\ pc' = "waiting" /\ arrived' = FALSE
        /\ UNCHANGED <<next, message, lost, addr, table>>
    BY <1>3 DEF C!SendRequest, C!world
  <2> QED BY <1>0, <1>m, <2>1 DEF FamilyInv, AddrsOf
<1>4. CASE C!EndCycle \/ C!NextUpdate \/ C!Wake \/ C!Exit \/ C!ListPanics
  <2>1. /\ pc' \in {"exited", "schedule", "sleep", "top"}
        /\ UNCHANGED <<next, message, lost, addr, table>>
    BY <1>4 DEF C!EndCycle, C!NextUpdate, C!Wake, C!Exit, C!ListPanics, C!world
  <2> QED BY <1>0, <1>m, <2>1 DEF FamilyInv, AddrsOf
<1>5. CASE C!Cancel
  <2>1. /\ pc' = "schedule"
        /\ (pc = "waiting" /\ C!Abandon) \/ lost' = lost
        /\ UNCHANGED <<next, message, addr, table>>
    BY <1>5 DEF C!Cancel, C!world
  <2> QED BY <1>0, <1>m, <2>1, AbandonInv DEF FamilyInv, AddrsOf
<1>6. CASE C!ConnectFails \/ C!ConnectionBreaks
  <2>1. /\ C!AttemptFailed /\ pc \in {"connect", "waiting"}
        /\ (pc = "waiting" /\ C!Abandon) \/ lost' = lost
        /\ UNCHANGED <<message, addr, table>>
    BY <1>6 DEF C!ConnectFails, C!ConnectionBreaks, C!world
  <2> QED BY <1>0, <1>m, <2>1, AbandonInv, AttemptInv
<1> QED BY <1>1, <1>2, <1>3, <1>4, <1>5, <1>6 DEF ClientStep, ClientFails, C!ClientStep

(* A step that leaves lookups and rows alone.                               *)
LEMMA QueriesKept ==
    ASSUME QueriesInv, UNCHANGED <<query, question, got, broken, allowed, rows>>
    PROVE  QueriesInv'
BY DEF QueriesInv, QueryInv, D!RowKey, Asked

(* The rows of both views stay the same.                                    *)
LEMMA RowsKept ==
    ASSUME RowsInv, UNCHANGED <<rows, table>>
    PROVE  RowsInv'
BY DEF RowsInv

(* A reply acknowledges what was written, and nothing that was there before *)
(* remains allowed.                                                         *)
LEMMA ReplyInv ==
    ASSUME SwanInv, Reply
    PROVE  SwanInv'
<1>0. FamilyInv /\ RowsInv /\ MayInv /\ QueriesInv
  BY DEF SwanInv
<1>1. /\ pc = "waiting" /\ arrived /\ next' = next + 1 /\ pc' = "update"
      /\ UNCHANGED <<message, lost, addr, table>>
      /\ may' = [may EXCEPT ![next] = fresh]
      /\ UNCHANGED <<query, question, got, broken, allowed, rows>>
  BY DEF Reply, C!Reply, C!Answered, C!world, lookups
<1>2. next \in C!Records
  BY <1>0, <1>1 DEF FamilyInv
<1>3. FamilyInv'
  BY <1>0, <1>1 DEF FamilyInv, AddrsOf
<1>4. MayInv'
  BY <1>0, <1>1, <1>2 DEF MayInv
<1> QED BY <1>0, <1>1, <1>3, <1>4, QueriesKept, RowsKept DEF SwanInv

-----------------------------------------------------------------------------
(***************************************************************************)
(* Writes.                                                                 *)
(***************************************************************************)
(* A write changes the row of its record, and no other; the lookups of that *)
(* record see it.                                                           *)
LEMMA WriteInv ==
    ASSUME SwanInv, NEW r \in C!Records, NEW content \in AddrsOf(r), Written(r, content),
           table' = [table EXCEPT ![r] = content],
           rows' = [rows EXCEPT ![KeyOf(r)] = content],
           UNCHANGED <<query, question, got, broken>>
    PROVE  /\ RowsInv' /\ QueriesInv'
           /\ DOMAIN may' = C!Records /\ \A s \in C!Records : table'[s] \in may'[s]
<1>0. FamilyInv /\ RowsInv /\ MayInv /\ QueriesInv
  BY DEF SwanInv
<1>1. table'[r] = content /\ \A s \in C!Records \ {r} : table'[s] = table[s]
  BY <1>0 DEF FamilyInv
<1>2. /\ DOMAIN allowed' = Queries
      /\ \A q \in Queries : allowed'[q] =
            IF query[q] = "selecting" /\ r \in Asked(q)
            THEN allowed[q] \cup {content} ELSE allowed[q]
  BY DEF Written
<1>3. \A q \in Queries : /\ D!RowKey(q) \in D!Keys /\ (D!RowKey(q))' = D!RowKey(q)
                         /\ Asked(q)' = Asked(q)
  BY <1>0 DEF QueriesInv, D!Keys, D!RowKey, Asked
<1>4. \A q \in Queries : r \in Asked(q) <=> D!RowKey(q) = KeyOf(r)
  BY <1>0, AskedKey DEF QueriesInv
<1>5. /\ \A k \in D!Keys : rows'[k] = IF k = KeyOf(r) THEN content ELSE rows[k]
      /\ rows' \in [D!Keys -> C!Content]
  <2>1. KeyOf(r) \in D!Keys /\ content \in C!Content
    BY KeysDiffer DEF AddrsOf, C!Content
  <2> HIDE DEF KeyOf
  <2> QED BY <1>0, <2>1 DEF RowsInv
<1>6. RowsInv'
  <2>1. \A s \in C!Records : rows'[KeyOf(s)] = table'[s]
    <3> HIDE DEF KeyOf
    <3> QED BY <1>0, <1>1, <1>5, KeysDiffer DEF RowsInv
  <2>2. \A k \in D!Keys : (\A s \in C!Records : KeyOf(s) # k) => rows'[k] = NoAddr
    <3> HIDE DEF KeyOf
    <3> QED BY <1>0, <1>5 DEF RowsInv
  <2>3. content # NoAddr => MessageType(content) = KeyOf(r).question.type
    BY MessageFindsRow DEF KeyOf
  <2>4. \A k \in D!Keys : rows'[k] # NoAddr => MessageType(rows'[k]) = k.question.type
    <3> HIDE DEF KeyOf, MessageType
    <3> QED BY <1>0, <1>5, <2>3 DEF RowsInv
  <2> HIDE DEF KeyOf, MessageType
  <2> QED BY <1>5, <2>1, <2>2, <2>4 DEF RowsInv
<1>7. ASSUME NEW q \in Queries PROVE QueryInv(q)'
  <2>1. QueryInv(q)
    BY <1>0 DEF QueriesInv
  <2>2. CASE query[q] = "selecting"
    <3>1. CASE r \in Asked(q)
      <4>1. rows'[D!RowKey(q)] \in allowed'[q]
        BY <1>2, <1>3, <1>4, <1>5, <2>2, <3>1
      <4> QED BY <1>3, <2>1, <2>2, <4>1 DEF QueryInv
    <3>2. CASE r \notin Asked(q)
      <4>1. rows'[D!RowKey(q)] = rows[D!RowKey(q)] /\ allowed'[q] = allowed[q]
        BY <1>2, <1>3, <1>4, <1>5, <3>2
      <4> QED BY <1>3, <2>1, <2>2, <4>1 DEF QueryInv
    <3> QED BY <3>1, <3>2
  <2>3. CASE query[q] # "selecting"
    <3>1. allowed'[q] = allowed[q]
      BY <1>2, <2>3
    <3> QED BY <1>3, <2>1, <2>3, <3>1 DEF QueryInv
  <2> QED BY <2>2, <2>3
<1>8. QueriesInv'
  BY <1>0, <1>2, <1>7 DEF QueriesInv
<1>9. DOMAIN may' = C!Records /\ \A s \in C!Records : table'[s] \in may'[s]
  BY <1>0, <1>1 DEF MayInv, Written
<1> QED BY <1>6, <1>8, <1>9

(* The message that the client waits for is applied.                        *)
LEMMA UpsertInv ==
    ASSUME SwanInv, Upsert
    PROVE  SwanInv'
<1>0. FamilyInv
  BY DEF SwanInv
<1>1. /\ pc = "waiting" /\ table' = [table EXCEPT ![next] = message]
      /\ UNCHANGED <<pc, next, message, lost, addr>>
      /\ fresh' = {message} /\ Written(next, message)
  BY DEF Upsert, C!Apply
<1>2. next \in C!Records /\ message \in AddrsOf(next) \ {NoAddr}
  BY <1>0, <1>1 DEF FamilyInv
<1>3. /\ rows' = [rows EXCEPT ![KeyOf(next)] = message]
      /\ UNCHANGED <<query, question, got, broken>>
  BY <1>2, MessageFindsRow DEF Upsert, D!UpsertRecord, D!Put
<1>4. /\ RowsInv' /\ QueriesInv'
      /\ DOMAIN may' = C!Records /\ \A s \in C!Records : table'[s] \in may'[s]
  BY <1>1, <1>2, <1>3, WriteInv
<1>5. FamilyInv'
  BY <1>0, <1>1, <1>2 DEF FamilyInv, AddrsOf, C!Content
<1>6. MayInv'
  BY <1>0, <1>1, <1>2, <1>4 DEF MayInv, FamilyInv
<1> QED BY <1>4, <1>5, <1>6 DEF SwanInv

(* A request whose client has given up is applied.                          *)
LEMMA UpsertLateInv ==
    ASSUME SwanInv, NEW m \in lost, UpsertLate(m)
    PROVE  SwanInv'
<1>0. FamilyInv /\ MayInv
  BY DEF SwanInv
<1>1. /\ lost' = lost \ {m} /\ table' = [table EXCEPT ![m.rec] = m.addr]
      /\ UNCHANGED <<pc, next, message, arrived, addr>>
      /\ Written(m.rec, m.addr) /\ FreshAfter(m.rec, m.addr)
  BY DEF UpsertLate, C!ApplyLate, C!client
<1>2. m.rec \in C!Records /\ m.addr \in AddrsOf(m.rec) \ {NoAddr}
  BY <1>0 DEF FamilyInv
<1>3. /\ rows' = [rows EXCEPT ![KeyOf(m.rec)] = m.addr]
      /\ UNCHANGED <<query, question, got, broken>>
  BY <1>2, MessageFindsRow DEF UpsertLate, D!UpsertRecord, D!Put
<1>4. /\ RowsInv' /\ QueriesInv'
      /\ DOMAIN may' = C!Records /\ \A s \in C!Records : table'[s] \in may'[s]
  BY <1>1, <1>2, <1>3, WriteInv
<1>5. FamilyInv'
  BY <1>0, <1>1, <1>2 DEF FamilyInv, AddrsOf, C!Content
<1>6. MayInv'
  BY <1>0, <1>1, <1>2, <1>4 DEF MayInv, FamilyInv, FreshAfter
<1> QED BY <1>4, <1>5, <1>6 DEF SwanInv

(* An operator deletes the record of a machine.                             *)
LEMMA DeleteInv ==
    ASSUME SwanInv, NEW r \in C!Records, Delete(r)
    PROVE  SwanInv'
<1>0. FamilyInv /\ MayInv
  BY DEF SwanInv
<1>1. /\ table' = [table EXCEPT ![r] = NoAddr] /\ table[r] # NoAddr
      /\ UNCHANGED <<pc, next, message, arrived, lost, addr>>
      /\ Written(r, NoAddr) /\ FreshAfter(r, NoAddr)
  BY DEF Delete
<1>2. NoAddr \in AddrsOf(r) /\ table[r] \in AddrsOf(r) \ {NoAddr}
  BY <1>0, <1>1 DEF AddrsOf, FamilyInv
<1>3. /\ rows' = [rows EXCEPT ![KeyOf(r)] = NoAddr]
      /\ UNCHANGED <<query, question, got, broken>>
  BY <1>2, MessageFindsRow DEF Delete, D!DeleteRecord, D!Put
<1>4. /\ RowsInv' /\ QueriesInv'
      /\ DOMAIN may' = C!Records /\ \A s \in C!Records : table'[s] \in may'[s]
  BY <1>1, <1>2, <1>3, WriteInv
<1>5. FamilyInv'
  BY <1>0, <1>1, <1>2 DEF FamilyInv, AddrsOf, C!Content
<1>6. MayInv'
  BY <1>0, <1>1, <1>4 DEF MayInv, FamilyInv, FreshAfter
<1> QED BY <1>4, <1>5, <1>6 DEF SwanInv

-----------------------------------------------------------------------------
(***************************************************************************)
(* Lookups and crashes.                                                    *)
(***************************************************************************)
(* The row a query will be answered from is among those it may find, and    *)
(* has the type that was asked for.                                         *)
LEMMA AskFindsRow ==
    ASSUME SwanInv, NEW q \in Queries
    PROVE  LET row == rows[D!RowKey(q)]
           IN  /\ \/ row \in UNION {may[r] : r \in Asked(q)}
                  \/ Asked(q) = {} /\ row = NoAddr
               /\ row # NoAddr => row \in Addrs /\ MessageType(row) = question[q].type
<1>0. FamilyInv /\ RowsInv /\ MayInv /\ question[q] \in Questions
  BY DEF SwanInv, QueriesInv
<1>1. D!RowKey(q) \in D!Keys /\ D!RowKey(q).question = question[q]
  BY <1>0 DEF D!Keys, D!RowKey
<1>2. \A s \in C!Records : s \in Asked(q) <=> D!RowKey(q) = KeyOf(s)
  BY <1>0, AskedKey
<1>3. rows[D!RowKey(q)] # NoAddr =>
          /\ rows[D!RowKey(q)] \in Addrs
          /\ MessageType(rows[D!RowKey(q)]) = question[q].type
  <2> HIDE DEF MessageType, D!RowKey
  <2> QED BY <1>0, <1>1 DEF RowsInv, C!Content
<1>4. CASE Asked(q) = {}
  <2>1. rows[D!RowKey(q)] = NoAddr
    <3> HIDE DEF D!RowKey, KeyOf, Asked
    <3> QED BY <1>0, <1>1, <1>2, <1>4 DEF RowsInv
  <2> QED BY <1>4, <2>1
<1>5. CASE Asked(q) # {}
  <2>1. PICK r \in Asked(q) : TRUE
    BY <1>5
  <2>2. r \in C!Records
    BY <2>1 DEF Asked
  <2>3. rows[D!RowKey(q)] = table[r]
    <3> HIDE DEF D!RowKey, KeyOf, Asked
    <3> QED BY <1>0, <1>2, <2>1, <2>2 DEF RowsInv
  <2>4. table[r] \in may[r]
    BY <1>0, <2>2 DEF MayInv
  <2> QED BY <1>3, <2>1, <2>3, <2>4
<1> QED BY <1>4, <1>5

(* A step of one lookup keeps the invariant.                                *)
LEMMA LookupInv ==
    ASSUME SwanInv, NEW q \in Queries, Lookup(q)
    PROVE  SwanInv'
<1>0. FamilyInv /\ RowsInv /\ MayInv /\ QueriesInv /\ QueryInv(q)
  BY DEF SwanInv, QueriesInv
<1>1. UNCHANGED <<pc, next, message, arrived, lost, addr, table, may, fresh>>
  BY DEF Lookup, client
<1>2. rows' = rows /\ question' = question
  BY DEF Lookup, D!Lookup, D!Ask, D!Select, D!Resume, D!Forward
<1>3. FamilyInv' /\ RowsInv' /\ MayInv'
  BY <1>0, <1>1, <1>2, RowsKept DEF FamilyInv, MayInv, AddrsOf
<1>4. /\ DOMAIN query' = Queries /\ DOMAIN got' = Queries /\ DOMAIN broken' = Queries
      /\ DOMAIN allowed' = Queries
      /\ \A d \in Queries \ {q} : /\ query'[d] = query[d] /\ got'[d] = got[d]
                                  /\ broken'[d] = broken[d] /\ allowed'[d] = allowed[d]
  <2>1. /\ DOMAIN query' = Queries
        /\ \A d \in Queries \ {q} : query'[d] = query[d]
    BY <1>0 DEF Lookup, D!Lookup, D!Ask, D!Select, D!Resume, D!Forward, D!Goto, QueriesInv
  <2>2. /\ DOMAIN got' = Queries /\ DOMAIN broken' = Queries
        /\ \A d \in Queries \ {q} : got'[d] = got[d] /\ broken'[d] = broken[d]
    BY <1>0 DEF Lookup, D!Lookup, D!Ask, D!Select, D!Resume, D!Forward, QueriesInv
  <2>3. DOMAIN allowed' = Queries /\ \A d \in Queries \ {q} : allowed'[d] = allowed[d]
    BY <1>0 DEF Lookup, QueriesInv
  <2> QED BY <2>1, <2>2, <2>3
<1>5. \A d \in Queries : D!RowKey(d)' = D!RowKey(d) /\ Asked(d)' = Asked(d)
  BY <1>2 DEF D!RowKey, Asked
<1>6. ASSUME NEW d \in Queries \ {q} PROVE QueryInv(d)'
  BY <1>0, <1>2, <1>4, <1>5 DEF QueriesInv, QueryInv
<1>7. QueryInv(q)'
  <2>1. CASE D!Ask(q)
    <3>1. /\ query[q] = "idle" /\ got' = got
          /\ query'[q] \in {"refused", "empty", "static", "selecting"}
      BY <1>0, <2>1 DEF D!Ask, D!Goto, QueriesInv
    <3>2. allowed'[q] = UNION {may[r] : r \in Asked(q)}
      BY <1>0, <3>1 DEF Lookup, QueriesInv
    <3> QED BY <1>0, <1>2, <1>5, <3>1, <3>2, AskFindsRow DEF QueryInv
  <2>2. CASE D!Select(q)
    <3>1. /\ query[q] = "selecting" /\ query'[q] = "selected" /\ got[q] = NoAddr
          /\ allowed' = allowed
          /\ \/ got'[q] = rows[D!RowKey(q)]
             \/ got'[q] = got[q] /\ broken'[q]
      BY <1>0, <2>2 DEF D!Select, D!Goto, Lookup, QueriesInv, QueryInv
    <3>2. rows[D!RowKey(q)] # NoAddr =>
              /\ rows[D!RowKey(q)] \in Addrs
              /\ MessageType(rows[D!RowKey(q)]) = question[q].type
      BY AskFindsRow
    <3> QED BY <1>0, <1>2, <1>5, <3>1, <3>2 DEF QueryInv
  <2>3. CASE D!Resume(q)
    <3>1. /\ query[q] = "selected" /\ query'[q] = D!Outcome(got[q])
          /\ got' = got /\ broken' = broken /\ allowed' = allowed
      BY <1>0, <2>3 DEF D!Resume, D!SelectReturned, D!Goto, Lookup, QueriesInv
    <3>2. CASE got[q] = NoAddr
      <4>1. query'[q] = "forwarding"
        BY <3>1, <3>2 DEF D!Outcome
      <4> QED BY <1>0, <1>5, <3>1, <3>2, <4>1 DEF QueryInv
    <3>3. CASE got[q] # NoAddr
      <4>1. got[q] \in Addrs /\ got[q] \in allowed[q] /\ MessageType(got[q]) = question[q].type
        BY <1>0, <3>1, <3>3 DEF QueryInv
      <4>2. query'[q] = "database"
        BY <3>1, <3>3, <4>1, RecordsAssumption DEF D!Outcome, D!create_record_data, D!Types
      <4> QED BY <1>2, <1>5, <3>1, <3>3, <4>1, <4>2 DEF QueryInv
    <3> QED BY <3>2, <3>3
  <2>4. CASE D!Forward(q)
    <3>1. query'[q] \in {"upstream", "failed"}
      BY <1>0, <2>4 DEF D!Forward, D!Goto, QueriesInv
    <3> QED BY <3>1 DEF QueryInv
  <2> QED BY <2>1, <2>2, <2>3, <2>4 DEF Lookup, D!Lookup
<1>8. QueriesInv'
  BY <1>0, <1>2, <1>4, <1>6, <1>7 DEF QueriesInv
<1> QED BY <1>3, <1>8 DEF SwanInv

(* The process dies: what it was doing is gone, the table is not.           *)
LEMMA CrashInv ==
    ASSUME SwanInv, Crash
    PROVE  SwanInv'
<1>0. FamilyInv /\ RowsInv /\ MayInv /\ QueriesInv
  BY DEF SwanInv
<1>1. lost' = {} /\ UNCHANGED <<message, arrived, addr, table, rows, may>>
  BY DEF Crash
<1>2. FamilyInv' /\ pc' # "waiting"
  <2>1. CASE pc = "waiting"
    <3>1. C!AttemptFailed
      BY <2>1 DEF Crash
    <3> QED BY <1>0, <1>1, <2>1, <3>1, AttemptInv
  <2>2. CASE pc # "waiting"
    <3>1. UNCHANGED <<pc, next>>
      BY <2>2 DEF Crash
    <3> QED BY <1>0, <1>1, <2>2, <3>1 DEF FamilyInv, AddrsOf
  <2> QED BY <2>1, <2>2
<1>3. MayInv' /\ RowsInv'
  BY <1>0, <1>1, <1>2, RowsKept DEF MayInv
<1>4. /\ query' = [q \in Queries |-> IF query[q] \in InProgress THEN "idle" ELSE query[q]]
      /\ got' = [q \in Queries |-> IF query[q] \in InProgress THEN NoAddr ELSE got[q]]
      /\ DOMAIN broken' = Queries /\ UNCHANGED <<question, allowed>>
  BY DEF Crash
<1>5. ASSUME NEW q \in Queries PROVE QueryInv(q)'
  BY <1>0, <1>4 DEF QueriesInv, QueryInv, InProgress
<1>6. QueriesInv'
  BY <1>0, <1>4, <1>5 DEF QueriesInv
<1> QED BY <1>2, <1>3, <1>6 DEF SwanInv

-----------------------------------------------------------------------------
(***************************************************************************)
(* The theorems.                                                           *)
(***************************************************************************)
(* SwanInv holds in every reachable state: the rows that queries see are    *)
(* those the client's messages went to, and hold what was acknowledged or   *)
(* written since.                                                           *)
THEOREM SwanInvariant == Spec => []SwanInv
<1>1. SwanInv /\ [Next]_vars => SwanInv'
  <2> SUFFICES ASSUME SwanInv, [Next]_vars PROVE SwanInv'
    OBVIOUS
  <2>0. FamilyInv /\ RowsInv /\ MayInv /\ QueriesInv
    BY DEF SwanInv
  <2>1. CASE ClientStep \/ ClientFails
    <3>1. UNCHANGED <<query, question, got, broken, allowed, rows>>
      BY <2>1 DEF ClientStep, ClientFails, lookups
    <3> QED BY <2>0, <2>1, <3>1, ClientStepInv, QueriesKept, RowsKept DEF SwanInv
  <2>2. CASE Upsert
    BY <2>2, UpsertInv
  <2>3. ASSUME NEW m \in lost, UpsertLate(m) PROVE SwanInv'
    BY <2>3, UpsertLateInv
  <2>4. ASSUME NEW r \in C!Records, NEW a \in C!Content, ChangeAddress(r, a) PROVE SwanInv'
    <3>1. /\ a \in AddrsOf(r) /\ addr' = [addr EXCEPT ![r] = a]
          /\ UNCHANGED <<pc, next, message, arrived, lost, table, may, fresh>>
          /\ UNCHANGED <<query, question, got, broken, allowed, rows>>
      BY <2>4 DEF ChangeAddress, C!ChangeAddress, C!client, lookups
    <3>2. FamilyInv' /\ MayInv'
      BY <2>0, <3>1 DEF FamilyInv, MayInv, AddrsOf
    <3> QED BY <2>0, <3>1, <3>2, QueriesKept, RowsKept DEF SwanInv
  <2>5. ASSUME NEW r \in C!Records, Delete(r) PROVE SwanInv'
    BY <2>5, DeleteInv
  <2>6. ASSUME NEW q \in Queries, Lookup(q) PROVE SwanInv'
    BY <2>6, LookupInv
  <2>7. CASE Crash
    BY <2>7, CrashInv
  <2>8. CASE Reply
    BY <2>8, ReplyInv
  <2>9. CASE Start \/ UNCHANGED vars
    <3>1. /\ UNCHANGED <<pc, next, message, arrived, lost, addr, table, may, fresh>>
          /\ UNCHANGED <<query, question, got, broken, allowed, rows>>
      BY <2>9 DEF Start, D!Start, vars, client, lookups
    <3>2. FamilyInv' /\ MayInv'
      BY <2>0, <3>1 DEF FamilyInv, MayInv, AddrsOf
    <3> QED BY <2>0, <3>1, <3>2, QueriesKept, RowsKept DEF SwanInv
  <2> QED BY <2>1, <2>2, <2>3, <2>4, <2>5, <2>6, <2>7, <2>8, <2>9 DEF Next
<1> QED BY <1>1, SwanInit, PTL DEF Spec

(* End to end: a query finds what was last acknowledged to the client, or   *)
(* something that was written after it.                                     *)
THEOREM EndToEnd == Spec => []QueryFindsAcknowledged
<1>1. SwanInv => QueryFindsAcknowledged
  BY DEF SwanInv, QueriesInv, QueryInv, QueryFindsAcknowledged
<1> QED BY <1>1, SwanInvariant, PTL

(* The type that update_record derives from the address it sends is the one *)
(* that create_record_data derives from the row, whatever the row.          *)
THEOREM TypesAgree == Spec => []AnswersHaveType
<1>1. SwanInv => AnswersHaveType
  <2> SUFFICES ASSUME SwanInv, NEW q \in Queries
               PROVE  /\ query[q] # "panicked"
                      /\ query[q] = "database" =>
                            D!create_record_data(got[q]) = question[q].type
    BY DEF AnswersHaveType
  <2>1. QueryInv(q)
    BY DEF SwanInv, QueriesInv
  <2>2. ASSUME NEW a \in Addrs PROVE D!create_record_data(a) = MessageType(a)
    BY <2>2, RecordsAssumption DEF D!create_record_data, D!Types, MessageType
  <2> HIDE DEF MessageType
  <2> QED BY <2>1, <2>2 DEF QueryInv
<1> QED BY <1>1, SwanInvariant, PTL
==============================================================================
