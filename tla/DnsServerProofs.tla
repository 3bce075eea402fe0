--------------------------- MODULE DnsServerProofs ---------------------------
(***************************************************************************)
(* Proofs about the DNS server, for any configuration, any set of queries  *)
(* and any number of writes to the table.                                  *)
(***************************************************************************)
EXTENDS DnsServer, WellFoundedInduction, SequenceTheorems, TLAPS

(* The key a query searches for is a key of the table.                      *)
LEMMA RowKeyType ==
    ASSUME TypeOK, NEW q \in Queries
    PROVE  RowKey(q) \in Keys
BY SpellingAssumption DEF RowKey, Keys, TypeOK

(* The server starts in a state of the invariant.                           *)
LEMMA DnsInit == Init => DnsInv
<1> SUFFICES ASSUME Init PROVE DnsInv
  OBVIOUS
<1>1. TypeOK
  BY DEF Init, TypeOK, Control, Content
<1> QED BY <1>1 DEF Init, DnsInv

(* A step of one lookup keeps types.                                        *)
LEMMA LookupType ==
    ASSUME TypeOK, NEW q \in Queries, Lookup(q)
    PROVE  TypeOK'
<1> USE DEF TypeOK, Control
<1>0. table[RowKey(q)] \in Content
  BY RowKeyType
<1>1. CASE Ask(q)
  <2>1. pc' \in [Queries -> Control]
    BY <1>1 DEF Ask, Goto
  <2>2. since' \in [Queries -> SUBSET Content]
    BY <1>0, <1>1 DEF Ask
  <2>3. covered' \in [Queries -> BOOLEAN]
    <3>1. HasRow(table, question[q]) \in BOOLEAN
      BY DEF HasRow
    <3> QED BY <1>1, <3>1 DEF Ask
  <2> QED BY <1>1, <2>1, <2>2, <2>3 DEF Ask
<1>2. CASE Select(q)
  BY <1>0, <1>2 DEF Select, Goto, history
<1>3. CASE Resume(q)
  BY <1>3 DEF Resume, SelectReturned, Outcome, Goto, history
<1>4. CASE Forward(q)
  BY <1>4 DEF Forward, Goto, history
<1> QED BY <1>1, <1>2, <1>3, <1>4 DEF Lookup

(* A step of one lookup keeps the invariant: other queries do not move, and *)
(* the SELECT finds one of the contents recorded since the query came.      *)
LEMMA LookupInv ==
    ASSUME DnsInv, NEW q \in Queries, Lookup(q)
    PROVE  DnsInv'
<1>0. TypeOK /\ TypeOK'
  BY LookupType DEF DnsInv
<1>1. UNCHANGED <<cfg, table, question>>
  BY DEF Lookup, Ask, Select, Resume, SelectReturned, Outcome, Forward
<1>2. \A d \in Queries \ {q} :
          /\ pc'[d] = pc[d] /\ got'[d] = got[d] /\ since'[d] = since[d]
          /\ broken'[d] = broken[d]
  BY <1>0 DEF Lookup, Ask, Select, Resume, SelectReturned, Outcome, Forward, Goto, history, TypeOK
<1>3. \A d \in Queries : RowKey(d)' = RowKey(d)
  BY <1>1 DEF RowKey
<1>4. ASSUME NEW d \in Queries PROVE UNCHANGED StaticAnswer(cfg, question[d])
  BY <1>1
<1> DEFINE Good(d) ==
          /\ pc[d] \in {"idle", "selecting"} => got[d] = NoRow /\ ~broken[d]
          /\ pc[d] = "selecting" => table[RowKey(d)] \in since[d]
          /\ pc[d] \notin {"idle", "empty", "static"} => StaticAnswer(cfg, question[d]) = {}
          /\ pc[d] \in {"selected", "database", "panicked"} /\ got[d] # NoRow
                => got[d] \in since[d]
          /\ pc[d] \in {"selected", "forwarding", "upstream", "failed"} /\ got[d] = NoRow
                => NoRow \in since[d] \/ broken[d]
          /\ pc[d] \in {"forwarding", "upstream", "failed"} => got[d] = NoRow
          /\ pc[d] \in {"database", "panicked"} => got[d] # NoRow
          /\ pc[d] = "database" => create_record_data(got[d]) \in Types
          /\ pc[d] = "panicked" => create_record_data(got[d]) \notin Types
<1>5. \A d \in Queries : Good(d)
  BY DEF DnsInv
<1>6. ASSUME NEW d \in Queries \ {q} PROVE Good(d)'
  BY <1>1, <1>2, <1>3, <1>4, <1>5
<1>7. Good(q)'
  <2>1. CASE Ask(q)
    <3>1. FindZone(cfg, question[q].name) = NoZone => StaticAnswer(cfg, question[q]) = {}
      BY DEF StaticAnswer
    <3> QED BY <1>0, <1>1, <1>3, <1>4, <1>5, <2>1, <3>1 DEF Ask, Goto, TypeOK
  <2>2. CASE Select(q)
    BY <1>0, <1>1, <1>3, <1>4, <1>5, <2>2 DEF Select, Goto, TypeOK, history
  <2>3. CASE Resume(q)
    BY <1>0, <1>1, <1>3, <1>4, <1>5, <2>3 DEF Resume, SelectReturned, Outcome, Goto, TypeOK, history
  <2>4. CASE Forward(q)
    BY <1>0, <1>1, <1>3, <1>4, <1>5, <2>4 DEF Forward, Goto, TypeOK, history
  <2> QED BY <2>1, <2>2, <2>3, <2>4 DEF Lookup
<1> QED BY <1>0, <1>6, <1>7 DEF DnsInv

(* A write keeps the invariant: it is recorded for the queries whose SELECT *)
(* it may precede.                                                          *)
LEMMA PutInv ==
    ASSUME DnsInv, NEW k \in Keys, NEW content \in Content, Put(k, content)
    PROVE  DnsInv'
<1>0. TypeOK
  BY DEF DnsInv
<1>1. UNCHANGED <<cfg, server, pc, question, got, broken>>
  BY DEF Put
<1>2. TypeOK'
  <2>1. table' \in [Keys -> Content]
    BY <1>0 DEF Put, TypeOK
  <2>2. since' \in [Queries -> SUBSET Content]
    BY <1>0 DEF Put, TypeOK
  <2>3. covered' \in [Queries -> BOOLEAN]
    BY <1>0 DEF Put, TypeOK, HasRow
  <2> QED BY <1>0, <1>1, <2>1, <2>2, <2>3 DEF TypeOK
<1>3. ASSUME NEW q \in Queries
      PROVE  /\ since[q] \subseteq since'[q] /\ RowKey(q)' = RowKey(q)
             /\ pc[q] = "selecting" => table'[RowKey(q)] \in since'[q]
  <2>1. since'[q] = IF pc[q] = "selecting" /\ RowKey(q) = k
                    THEN since[q] \cup {content} ELSE since[q]
    BY DEF Put
  <2>2. table'[RowKey(q)] = IF RowKey(q) = k THEN content ELSE table[RowKey(q)]
    BY <1>0, RowKeyType DEF Put, TypeOK
  <2>3. RowKey(q)' = RowKey(q)
    BY <1>1 DEF RowKey
  <2>4. pc[q] = "selecting" => table[RowKey(q)] \in since[q]
    BY DEF DnsInv
  <2> QED BY <2>1, <2>2, <2>3, <2>4
<1> QED BY <1>1, <1>2, <1>3 DEF DnsInv

(* DnsInv holds in every reachable state of the DNS server.                 *)
THEOREM DnsInvariant == Spec => []DnsInv
<1>1. DnsInv /\ [Next]_vars => DnsInv'
  <2> SUFFICES ASSUME DnsInv, [Next]_vars PROVE DnsInv'
    OBVIOUS
  <2>1. CASE Start
    <3>1. TypeOK'
      BY <2>1 DEF Start, DnsInv, TypeOK, history
    <3>2. UNCHANGED <<cfg, table, pc, question, got, since, broken>>
      BY <2>1 DEF Start, history
    <3> QED BY <3>1, <3>2 DEF DnsInv, RowKey
  <2>2. ASSUME NEW q \in Queries, Lookup(q) PROVE DnsInv'
    BY <2>2, LookupInv
  <2>3. ASSUME NEW k \in Keys, NEW v \in Written, UpsertRecord(k, v) PROVE DnsInv'
    BY <2>3, PutInv, WrittenAssumption DEF UpsertRecord, Content
  <2>4. ASSUME NEW k \in Keys, DeleteRecord(k) PROVE DnsInv'
    BY <2>4, PutInv DEF DeleteRecord, Content
  <2>5. CASE UNCHANGED vars
    <3>1. TypeOK'
      BY <2>5 DEF vars, DnsInv, TypeOK
    <3> QED BY <2>5, <3>1 DEF vars, DnsInv, RowKey
  <2> QED BY <2>1, <2>2, <2>3, <2>4, <2>5 DEF Next
<1> QED BY <1>1, DnsInit, PTL DEF Spec

(* Type correctness of the DNS server.                                      *)
THEOREM DnsTypeCorrect == Spec => []TypeOK
<1>1. DnsInv => TypeOK
  BY DEF DnsInv
<1> QED BY <1>1, DnsInvariant, PTL

(* Split horizon, for every configuration and interleaving: see             *)
(* UpstreamOnlyIfAbsent.                                                    *)
THEOREM SplitHorizon == Spec => []UpstreamOnlyIfAbsent
<1>1. DnsInv => UpstreamOnlyIfAbsent
  BY DEF DnsInv, UpstreamOnlyIfAbsent
<1> QED BY <1>1, DnsInvariant, PTL

(* Answers from the table were in the table: see DatabaseAnswerCurrent.     *)
THEOREM CurrentAnswers == Spec => []DatabaseAnswerCurrent
<1>1. DnsInv => DatabaseAnswerCurrent
  BY DEF DnsInv, DatabaseAnswerCurrent
<1> QED BY <1>1, DnsInvariant, PTL

(* A lookup dies only on a row that is no address: see PanicNeedsBadRow.    *)
THEOREM PanicsExplained == Spec => []PanicNeedsBadRow
<1>1. DnsInv => PanicNeedsBadRow
  <2> SUFFICES ASSUME DnsInv, NEW q \in Queries, pc[q] = "panicked"
               PROVE  \E v \in since[q] : v # NoRow /\ v.family \notin Types
    BY DEF PanicNeedsBadRow
  <2>1. got[q] \in since[q] /\ got[q] # NoRow /\ create_record_data(got[q]) \notin Types
    BY DEF DnsInv
  <2> QED BY <2>1 DEF create_record_data
<1> QED BY <1>1, DnsInvariant, PTL

-----------------------------------------------------------------------------
(***************************************************************************)
(* Static records: which zone a name is found in.                          *)
(***************************************************************************)
(* A set of natural numbers that is not empty has a smallest element, which *)
(* is its Min.                                                              *)
LEMMA MinOfNaturals ==
    ASSUME NEW S, S \subseteq Nat, S # {}
    PROVE  Min(S) \in S /\ \A k \in S : Min(S) <= k
<1>1. PICK m \in S : \A k \in S : ~(<<k, m>> \in OpToRel(<, Nat))
  BY WFMin, NatLessThanWellFounded, Zenon
<1>2. \A k \in S : ~(k < m)
  BY <1>1, Zenon DEF OpToRel
<1>3. \A k \in S : m <= k
  BY <1>2
<1> QED BY <1>3 DEF Min

(* A suffix of a name is a name.                                            *)
LEMMA SuffixType ==
    ASSUME NEW n \in DnsName, NEW m \in 1..(Len(n) + 1)
    PROVE  /\ Suffix(n, m) \in DnsName
           /\ Len(Suffix(n, m)) = Len(n) + 1 - m
           /\ \A k \in 1..(Len(n) + 1 - m) : Suffix(n, m)[k] = n[m + k - 1]
<1>1. \A k \in m..Len(n) : n[k] \in STRING
  BY DEF DnsName
<1>2. m \in Int /\ Len(n) \in Int /\ Len(n) \in Nat
  BY DEF DnsName
<1> QED BY <1>1, <1>2, SubSeqProperties DEF DnsName, Suffix

(* The zones and static records of a configuration.                         *)
LEMMA ConfigType ==
    ASSUME NEW c \in Configs, NEW i \in DOMAIN c
    PROVE  /\ i \in Nat
           /\ c[i].name \in DnsName
           /\ \A r \in c[i].records : r.key \in DnsName /\ r.value \in Values
<1>1. c \in Seq(ZoneConfig)
  BY ConfigsAssumption
<1>2. i \in 1..Len(c) /\ Len(c) \in Nat
  BY <1>1
<1>3. c[i] \in ZoneConfig
  BY <1>1, <1>2
<1> QED BY <1>2, <1>3 DEF ZoneConfig

(* Of the entries of a configuration with one name the catalog keeps the    *)
(* last.                                                                    *)
LEMMA LastEntryStays ==
    ASSUME NEW c \in Configs, NEW i \in DOMAIN c,
           \A j \in DOMAIN c : c[j].name = c[i].name => j <= i
    PROVE  Catalog(c)[c[i].name] = c[i]
<1> DEFINE same == {j \in DOMAIN c : c[j].name = c[i].name}
<1>1. i \in same /\ \A j \in same : j <= i
  OBVIOUS
<1>2. \A j \in same : j \in Nat
  BY ConfigType
<1>3. ASSUME NEW k \in same, \A j \in same : j <= k PROVE k = i
  <2> HIDE DEF same
  <2> QED BY <1>1, <1>2, <1>3
<1>4. Max(same) = i
  <2> HIDE DEF same
  <2> QED BY <1>1, <1>3 DEF Max
<1> QED BY <1>4 DEF Catalog

(* A name is found in the zone of the entry that governs it.                *)
LEMMA ZoneOfGoverned ==
    ASSUME NEW c \in Configs, NEW i \in DOMAIN c, NEW n \in DnsName, Governs(c, i, n)
    PROVE  FindZone(c, n) = c[i].name /\ Catalog(c)[c[i].name] = c[i]
<1>0. /\ Len(n) \in Nat
      /\ \A j \in DOMAIN c : j \in Nat /\ c[j].name \in DnsName
  BY ConfigType DEF DnsName
<1>1. DOMAIN Catalog(c) = {c[j].name : j \in DOMAIN c}
  BY DEF Catalog
<1> DEFINE starts == {k \in 1..(Len(n) + 1) : Suffix(n, k) \in DOMAIN Catalog(c)}
           m == Min(starts)
<1>2. PICK s \in 1..(Len(n) + 1) : Suffix(n, s) = c[i].name
  BY DEF Governs, Within
<1>3. s \in starts
  BY <1>1, <1>2
<1>4. m \in starts /\ m <= s
  <2>1. starts \subseteq Nat
    OBVIOUS
  <2> HIDE DEF starts
  <2> QED BY <1>3, <2>1, MinOfNaturals
<1>5. PICK j \in DOMAIN c : Suffix(n, m) = c[j].name
  BY <1>1, <1>4
<1>6. m \in 1..(Len(n) + 1)
  BY <1>4
<1>7. Len(c[j].name) = Len(n) + 1 - m /\ Len(c[i].name) = Len(n) + 1 - s
  <2> HIDE DEF m
  <2> QED BY <1>2, <1>5, <1>6, SuffixType
<1>8. ~(Len(c[j].name) < Len(c[i].name))
  <2> HIDE DEF m
  <2> QED BY <1>0, <1>2, <1>4, <1>6, <1>7
<1>9. Within(n, c[j].name)
  <2> HIDE DEF m
  <2> QED BY <1>5, <1>6 DEF Within
<1>10. c[j].name = c[i].name
  BY <1>8, <1>9 DEF Governs
<1>11. FindZone(c, n) = c[i].name
  BY <1>3, <1>5, <1>10 DEF FindZone
<1>12. ASSUME NEW k \in DOMAIN c, c[k].name = c[i].name PROVE k <= i
  <2>1. CASE k = i
    BY <1>0, <2>1
  <2>2. CASE k # i
    <3>1. Len(c[k].name) \in Nat /\ ~(Len(c[k].name) < Len(c[i].name))
      BY <1>0, <1>12 DEF DnsName
    <3>2. k < i
      BY <1>12, <2>2, <3>1 DEF Governs
    <3> QED BY <1>0, <3>2
  <2> QED BY <2>1, <2>2
<1> QED BY <1>11, <1>12, LastEntryStays

(* What the server answers from its static records is what the entry that   *)
(* governs the name lists, and never anything of another entry.             *)
LEMMA GovernedIsAnswered ==
    ASSUME NEW c \in Configs, NEW i \in DOMAIN c, NEW q \in Questions, Governs(c, i, q.name)
    PROVE  /\ Listed(c[i], q) # {} => StaticAnswer(c, q) = Listed(c[i], q)
           /\ StaticAnswer(c, q) \subseteq {r.value : r \in c[i].records}
<1>0. \A r \in c[i].records : r.key \in DnsName /\ r.value \in Values
  BY ConfigType
<1>1. q.type \in Types /\ q.name \in DnsName
  BY QuestionsAssumption
<1>2. FindZone(c, q.name) = c[i].name /\ Catalog(c)[c[i].name] = c[i]
  BY <1>1, ZoneOfGoverned
<1>3. c[i].name # NoZone
  BY ConfigType, NoZoneAssumption
<1>4. StaticAnswer(c, q) = InMemoryLookup(c[i], q)
  BY <1>2, <1>3 DEF StaticAnswer
<1>5. Static(c[i], q) = Listed(c[i], q)
  <2>1. ASSUME NEW v \in Static(c[i], q) PROVE v \in Listed(c[i], q)
    BY <1>0, <1>1, <2>1 DEF Static, Listed, render_record_name, create_record_data, Types
  <2>2. ASSUME NEW v \in Listed(c[i], q) PROVE v \in Static(c[i], q)
    BY <1>0, <1>1, <2>2 DEF Static, Listed, render_record_name, create_record_data, Types
  <2> QED BY <2>1, <2>2
<1>6. InMemoryLookup(c[i], q) \subseteq {r.value : r \in c[i].records}
  BY DEF InMemoryLookup, Static
<1> QED BY <1>4, <1>5, <1>6 DEF InMemoryLookup

(* Static records win, for every configuration: see StaticRecordsServed.    *)
THEOREM StaticRecordsWin == Spec => []StaticRecordsServed
<1>1. DnsInv => StaticRecordsServed
  <2> SUFFICES ASSUME DnsInv, NEW q \in Queries, NEW i \in DOMAIN cfg,
                      pc[q] \notin {"idle", "empty"}, Governs(cfg, i, question[q].name)
               PROVE  /\ Listed(cfg[i], question[q]) # {} =>
                            Served(q) = Listed(cfg[i], question[q])
                      /\ Served(q) \subseteq {r.value : r \in cfg[i].records}
    BY DEF StaticRecordsServed
  <2>1. /\ Listed(cfg[i], question[q]) # {} =>
              StaticAnswer(cfg, question[q]) = Listed(cfg[i], question[q])
        /\ StaticAnswer(cfg, question[q]) \subseteq {r.value : r \in cfg[i].records}
    BY GovernedIsAnswered DEF DnsInv, TypeOK
  <2>2. StaticAnswer(cfg, question[q]) # {} => pc[q] = "static"
    BY DEF DnsInv
  <2> QED BY <2>1, <2>2 DEF Served
<1> QED BY <1>1, DnsInvariant, PTL

-----------------------------------------------------------------------------
(***************************************************************************)
(* Spellings.                                                              *)
(***************************************************************************)
\* A name that has had a row all along still has one, and the SELECT finds it.
CoveredInv ==
    \A q \in Queries :
        /\ (pc[q] = "selecting" /\ covered[q]) => table[RowKey(q)] # NoRow
        /\ (pc[q] \in {"selected", "forwarding"} /\ covered[q] /\ got[q] = NoRow) => broken[q]

(* A step of one lookup keeps it, if there is one spelling only.            *)
LEMMA LookupCovered ==
    ASSUME Spellings = {"lower"}, DnsInv, CoveredInv, NEW q \in Queries, Lookup(q)
    PROVE  CoveredInv'
<1>0. TypeOK /\ UNCHANGED <<table, question>>
  BY DEF DnsInv, Lookup, Ask, Select, Resume, Forward
<1>1. \A d \in Queries \ {q} : /\ pc'[d] = pc[d] /\ got'[d] = got[d]
                              /\ covered'[d] = covered[d] /\ broken'[d] = broken[d]
  BY <1>0 DEF Lookup, Ask, Select, Resume, Forward, Goto, history, TypeOK
<1>2. \A d \in Queries : RowKey(d)' = RowKey(d)
  BY <1>0 DEF RowKey
<1>3. \A d \in Queries \ {q} :
        /\ (pc'[d] = "selecting" /\ covered'[d]) => table'[RowKey(d)'] # NoRow
        /\ (pc'[d] \in {"selected", "forwarding"} /\ covered'[d] /\ got'[d] = NoRow)
              => broken'[d]
  BY <1>0, <1>1, <1>2 DEF CoveredInv
<1>4. /\ (pc'[q] = "selecting" /\ covered'[q]) => table'[RowKey(q)'] # NoRow
      /\ (pc'[q] \in {"selected", "forwarding"} /\ covered'[q] /\ got'[q] = NoRow)
            => broken'[q]
  <2>1. CASE Ask(q)
    <3>1. HasRow(table, question[q]) => table[RowKey(q)] # NoRow
      BY DEF HasRow, RowKey
    <3> QED BY <1>0, <1>2, <2>1, <3>1 DEF Ask, Goto, TypeOK
  <2>2. CASE Select(q)
    BY <1>0, <1>2, <2>2 DEF Select, Goto, TypeOK, history, CoveredInv
  <2>3. CASE Resume(q)
    BY <1>0, <2>3 DEF Resume, SelectReturned, Goto, TypeOK, history, CoveredInv, Outcome
  <2>4. CASE Forward(q)
    BY <1>0, <2>4 DEF Forward, Goto, TypeOK, history
  <2> QED BY <2>1, <2>2, <2>3, <2>4 DEF Lookup
<1> QED BY <1>3, <1>4 DEF CoveredInv

(* A write keeps it.                                                        *)
LEMMA PutCovered ==
    ASSUME Spellings = {"lower"}, DnsInv, CoveredInv, NEW k, NEW content, Put(k, content)
    PROVE  CoveredInv'
<1>1. UNCHANGED <<pc, question, got, broken>>
  BY DEF Put
<1>2. \A q \in Queries : RowKey(q)' = RowKey(q)
  BY <1>1 DEF RowKey
<1>3. ASSUME NEW q \in Queries
      PROVE  covered'[q] => /\ covered[q]
                            /\ pc[q] = "selecting" => table'[RowKey(q)] # NoRow
  <2>1. covered'[q] = (covered[q] /\ (pc[q] = "selecting" => HasRow(table', question[q])))
    BY DEF Put
  <2>2. HasRow(table', question[q]) => table'[RowKey(q)] # NoRow
    BY DEF HasRow, RowKey
  <2> QED BY <2>1, <2>2
<1> QED BY <1>1, <1>2, <1>3 DEF CoveredInv

(* Where every writer spells names as queries search for them, a published  *)
(* name resolves: spelling is the only way to miss a record that is there.  *)
THEOREM LowerCaseResolves ==
    ASSUME Spellings = {"lower"}
    PROVE  Spec => []PublishedNameResolves
<1>1. Init => CoveredInv
  BY DEF Init, CoveredInv
<1>2. DnsInv /\ CoveredInv /\ [Next]_vars => CoveredInv'
  <2> SUFFICES ASSUME DnsInv, CoveredInv, [Next]_vars PROVE CoveredInv'
    OBVIOUS
  <2>1. ASSUME NEW q \in Queries, Lookup(q) PROVE CoveredInv'
    BY <2>1, LookupCovered
  <2>2. ASSUME NEW k \in Keys, NEW v \in Written, UpsertRecord(k, v) PROVE CoveredInv'
    BY <2>2, PutCovered DEF UpsertRecord
  <2>3. ASSUME NEW k \in Keys, DeleteRecord(k) PROVE CoveredInv'
    BY <2>3, PutCovered DEF DeleteRecord
  <2>4. CASE Start \/ UNCHANGED vars
    <3>1. UNCHANGED <<table, pc, question, got, covered, broken>>
      BY <2>4 DEF Start, vars, history
    <3> QED BY <3>1 DEF CoveredInv, RowKey
  <2> QED BY <2>1, <2>2, <2>3, <2>4 DEF Next
<1>3. DnsInv /\ CoveredInv => PublishedNameResolves
  BY DEF DnsInv, CoveredInv, PublishedNameResolves
<1> QED BY <1>1, <1>2, <1>3, DnsInvariant, PTL DEF Spec
=============================================================================
