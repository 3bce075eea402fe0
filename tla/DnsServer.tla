----------------------------- MODULE DnsServer -----------------------------
(***************************************************************************)
(* The DNS server: the catalog of zones that run() builds from the         *)
(* configuration, and the lookup of SplitAuthority, which asks the static  *)
(* records of the zone first, then the records table, then the upstream    *)
(* nameservers.  Queries run concurrently with each other and with the     *)
(* RPCs that write the table.                                              *)
(*                                                                         *)
(* The records table is used through what RecordService promises: a write  *)
(* is one step, and a SELECT returns the row of one instant between the    *)
(* call and its answer, or fails.                                          *)
(*                                                                         *)
(* A DNS name is a sequence of labels, the host first.  Queries are        *)
(* compared in lower case; a name in the table is the string its writer    *)
(* sent, so that a key of the table also has a spelling.                    *)
(***************************************************************************)
EXTENDS Naturals, Sequences, FiniteSetsExt

CONSTANTS
    Queries,    \* DNS queries that reach the server
    Questions,  \* what they may ask: [name, type]
    Configs,    \* configurations: sequences of [name, records]
    Values,     \* strings a record may hold: [id, family]
    Written,    \* those of them that RPC clients write
    Spellings,  \* spellings of names in the table; queries use "lower"
    NoRow,      \* stands for a key that is not in the table
    NoZone      \* stands for the zone of a name that has none

Types == {"A", "AAAA"}

\* "lower" is lower case without a final dot, as queries search the table.
Keys == [question : Questions, spelling : Spellings]

ASSUME NoRowAssumption == NoRow \notin Values
ASSUME WrittenAssumption == Written \subseteq Values
ASSUME SpellingAssumption == "lower" \in Spellings

\* A configuration is a list of zones, each with its static records; the key of
\* a record is the part of its name in front of the zone.
DnsName == Seq(STRING)
ZoneConfig == [name : DnsName, records : SUBSET [key : DnsName, value : Values]]

ASSUME ConfigsAssumption == Configs \subseteq Seq(ZoneConfig)
ASSUME QuestionsAssumption == Questions \subseteq [name : DnsName, type : Types]
ASSUME NoZoneAssumption == NoZone \notin DnsName

VARIABLES
    cfg,      \* the configuration the server was started with
    server,   \* "starting", "serving" or "failed": run() returned an error
    table,    \* the records table
    pc,       \* where each query is
    question, \* what each query asks
    got,      \* the row its SELECT found, or NoRow
    \* History variables.
    since,    \* what the table held for its key from query to SELECT
    covered,  \* all that time the name had a row, in some spelling
    broken    \* its SELECT failed

history == <<since, covered>>
vars == <<cfg, server, table, pc, question, got, since, covered, broken>>

Control == {"idle", "selecting", "selected", "forwarding",
            "refused", "empty", "static", "database", "upstream", "failed", "panicked"}
Ended == {"refused", "empty", "static", "database", "upstream", "failed", "panicked"}

Content == Values \cup {NoRow}

TypeOK ==
    /\ cfg \in Configs
    /\ server \in {"starting", "serving", "failed"}
    /\ table \in [Keys -> Content]
    /\ pc \in [Queries -> Control]
    /\ question \in [Queries -> Questions]
    /\ got \in [Queries -> Content]
    /\ since \in [Queries -> SUBSET Content]
    /\ covered \in [Queries -> BOOLEAN]
    /\ broken \in [Queries -> BOOLEAN]

-----------------------------------------------------------------------------
(***************************************************************************)
(* The catalog.                                                            *)
(***************************************************************************)
\* The name of a static record: its key in front of the zone; the key "@",
\* written <<>> here, is the zone itself.
render_record_name(key, zone) == key \o zone

\* Mutant: only IPv4 addresses are understood.
DataOnlyV4(value) == IF value.family = "A" THEN "A" ELSE "error"

\* The type of the data a string stands for: A, AAAA, or not an IP address.
create_record_data(value) ==
    IF value.family \in Types THEN value.family ELSE "error"

\* The in-memory authority of one entry of the configuration: the values it
\* holds for a question.  Values of one name and type add up.
Static(zone, q) ==
    {r.value : r \in {r \in zone.records :
        /\ render_record_name(r.key, zone.name) = q.name
        /\ create_record_data(r.value) = q.type}}

\* Every entry parses; otherwise run() returns the first error.
ConfigParses(c) ==
    \A i \in DOMAIN c : \A r \in c[i].records : create_record_data(r.value) \in Types

\* Mutant: a zone that is there already is kept.
CatalogKeepsFirst(c) ==
    [z \in {c[i].name : i \in DOMAIN c} |->
        c[Min({i \in DOMAIN c : c[i].name = z})]]

\* catalog.upsert replaces: of two entries with one name the last one stays.
Catalog(c) ==
    [z \in {c[i].name : i \in DOMAIN c} |->
        c[Max({i \in DOMAIN c : c[i].name = z})]]

\* Catalog::find takes the longest suffix of the name that is a zone.
Suffix(n, i) == SubSeq(n, i, Len(n))

FindZone(c, n) ==
    LET starts == {i \in 1..(Len(n) + 1) : Suffix(n, i) \in DOMAIN Catalog(c)}
    IN  IF starts = {} THEN NoZone ELSE Suffix(n, Min(starts))

\* InMemoryAuthority::lookup: the name itself, else a wildcard one level up.
InMemoryLookup(zone, q) ==
    IF Static(zone, q) # {} THEN Static(zone, q)
    ELSE Static(zone, [q EXCEPT !.name = <<"*">> \o Tail(@)])

StaticAnswer(c, q) ==
    IF FindZone(c, q.name) = NoZone THEN {}
    ELSE InMemoryLookup(Catalog(c)[FindZone(c, q.name)], q)

-----------------------------------------------------------------------------
(***************************************************************************)
(* Start and lookup.                                                       *)
(***************************************************************************)
Init ==
    /\ cfg \in Configs
    /\ server = "starting"
    /\ table \in [Keys -> {NoRow}]
    /\ pc = [q \in Queries |-> "idle"]
    /\ question \in [Queries -> Questions]
    /\ got = [q \in Queries |-> NoRow]
    /\ since = [q \in Queries |-> {}]
    /\ covered = [q \in Queries |-> FALSE]
    /\ broken = [q \in Queries |-> FALSE]

\* run() builds the catalog and binds its sockets, or returns an error (an
\* entry that does not parse, an address in use).
Start ==
    /\ server = "starting"
    /\ \/ ConfigParses(cfg) /\ server' = "serving"
       \/ server' = "failed"
    /\ UNCHANGED <<cfg, table, pc, question, got, history, broken>>

Goto(q, l) == pc' = [pc EXCEPT ![q] = l]

\* The key under which the table is searched: the name in lower case without
\* its final dot.
RowKey(q) == [question |-> question[q], spelling |-> "lower"]

\* Some spelling of the question has a row.
HasRow(t, qn) ==
    \E s \in Spellings : t[[question |-> qn, spelling |-> s]] # NoRow

\* A query comes: it is refused outside the zones.  Since zone_type is Forward
\* the library looks nothing up, and answers without records, for a query that
\* does not desire recursion.  Otherwise it is answered if the zone has a static
\* record, and if not its SELECT is sent.
Ask(q) ==
    /\ server = "serving"
    /\ pc[q] = "idle"
    /\ LET zone == FindZone(cfg, question[q].name)
       IN  \/ zone = NoZone /\ Goto(q, "refused")
           \/ zone # NoZone /\ Goto(q, "empty")
           \/ zone # NoZone /\ StaticAnswer(cfg, question[q]) # {} /\ Goto(q, "static")
           \/ zone # NoZone /\ StaticAnswer(cfg, question[q]) = {} /\ Goto(q, "selecting")
    /\ since' = [since EXCEPT ![q] = {table[RowKey(q)]}]
    /\ covered' = [covered EXCEPT ![q] = HasRow(table, question[q])]
    /\ UNCHANGED <<cfg, server, table, question, got, broken>>

\* Mutant: the SELECT has no condition on the type.
SelectAnyType(q) ==
    /\ pc[q] = "selecting"
    /\ Goto(q, "selected")
    /\ \E t \in Types : LET k == [RowKey(q) EXCEPT !.question.type = t]
                        IN  k \in Keys /\ got' = [got EXCEPT ![q] = table[k]]
    /\ UNCHANGED <<cfg, server, table, question, history, broken>>

\* The database thread runs the SELECT of find_unique, or fails to.
Select(q) ==
    /\ pc[q] = "selecting"
    /\ Goto(q, "selected")
    /\ \/ /\ got' = [got EXCEPT ![q] = table[RowKey(q)]]
          /\ UNCHANGED broken
       \/ /\ broken' = [broken EXCEPT ![q] = TRUE]
          /\ UNCHANGED got
    /\ UNCHANGED <<cfg, server, table, question, history>>

\* Mutant: a row that is not an address is passed over.
OutcomeForwardsBadRow(row) ==
    IF row # NoRow /\ create_record_data(row) \in Types THEN "database" ELSE "forwarding"

\* No row and every error are NXDomain, which SplitAuthority takes as a reason
\* to ask upstream; a row is the answer if its data is an address, and a panic
\* in unwrap() if not.
Outcome(row) ==
    IF row = NoRow THEN "forwarding"
    ELSE IF create_record_data(row) \in Types THEN "database" ELSE "panicked"

\* Mutant: a failed SELECT is not answered.
SelectReturnedRow(q) == pc[q] = "selected" /\ ~broken[q]

SelectReturned(q) == pc[q] = "selected"

\* SqliteAuthority::lookup and SplitAuthority::lookup go on.
Resume(q) ==
    /\ SelectReturned(q)
    /\ Goto(q, Outcome(got[q]))
    /\ UNCHANGED <<cfg, server, table, question, got, history, broken>>

\* ForwardAuthority: the upstream answer, or an error after its timeouts.
Forward(q) ==
    /\ pc[q] = "forwarding"
    /\ \E l \in {"upstream", "failed"} : Goto(q, l)
    /\ UNCHANGED <<cfg, server, table, question, got, history, broken>>

-----------------------------------------------------------------------------
(***************************************************************************)
(* The RPCs that write the table, as RecordService describes them.         *)
(***************************************************************************)
Put(k, content) ==
    /\ table' = [table EXCEPT ![k] = content]
    /\ since' = [q \in Queries |->
                    IF pc[q] = "selecting" /\ RowKey(q) = k
                    THEN since[q] \cup {content} ELSE since[q]]
    /\ covered' = [q \in Queries |->
                    covered[q] /\ (pc[q] = "selecting" => HasRow(table', question[q]))]
    /\ UNCHANGED <<cfg, server, pc, question, got, broken>>

UpsertRecord(k, v) == Put(k, v)

DeleteRecord(k) == table[k] # NoRow /\ Put(k, NoRow)

Lookup(q) == Ask(q) \/ Select(q) \/ Resume(q) \/ Forward(q)

Next ==
    \/ Start
    \/ \E q \in Queries : Lookup(q)
    \/ \E k \in Keys, v \in Written : UpsertRecord(k, v)
    \/ \E k \in Keys : DeleteRecord(k)

Spec == Init /\ [][Next]_vars

\* The runtime polls ready tasks, the database thread runs queued statements,
\* and the resolver gives up on an upstream that does not answer.
FairSpec ==
    /\ Spec
    /\ \A q \in Queries : WF_vars(Select(q) \/ Resume(q) \/ Forward(q))

-----------------------------------------------------------------------------
(***************************************************************************)
(* Properties.                                                             *)
(***************************************************************************)
(* Split horizon: a question goes upstream only if the zone has no static   *)
(* record for it, and at some instant between the query and its SELECT the  *)
(* table had none either, or the SELECT failed.  A record that was there    *)
(* all along is not shadowed by the outside world, whatever writers do.     *)
UpstreamOnlyIfAbsent ==
    \A q \in Queries : pc[q] \in {"forwarding", "upstream", "failed"} =>
        /\ StaticAnswer(cfg, question[q]) = {}
        /\ NoRow \in since[q] \/ broken[q]

(* An answer from the table is an address that the key held at some instant *)
(* between the query and its answer.                                        *)
DatabaseAnswerCurrent ==
    \A q \in Queries : pc[q] = "database" =>
        got[q] \in since[q] /\ create_record_data(got[q]) \in Types

(* A query dies in the unwrap() of create_record_data only on a row that    *)
(* is not an IP address and was in the table while the query ran.           *)
PanicNeedsBadRow ==
    \A q \in Queries : pc[q] = "panicked" =>
        \E v \in since[q] : v # NoRow /\ v.family \notin Types

\* The static values an entry of the configuration lists for a question.
Listed(entry, q) ==
    {v \in Values : \E r \in entry.records :
        r.value = v /\ r.key \o entry.name = q.name /\ v.family = q.type}

\* Entry i is the one that should answer for a name: no other zone that the name
\* lies in is longer, and none that is listed later is the same.
Within(n, zone) == \E s \in 1..(Len(n) + 1) : Suffix(n, s) = zone
Governs(c, i, n) ==
    /\ Within(n, c[i].name)
    /\ \A j \in DOMAIN c \ {i} : Within(n, c[j].name) =>
          \/ Len(c[j].name) < Len(c[i].name)
          \/ c[j].name = c[i].name /\ j < i

Served(q) == IF pc[q] = "static" THEN StaticAnswer(cfg, question[q]) ELSE {}

(* Static records win over the table and over upstream, and the zone of a   *)
(* name is the most specific one, the last of those listed twice: once a    *)
(* recursive query has been looked at, a question for which that zone lists *)
(* records has exactly those as its answer, and records of other zones,     *)
(* around it, apart from it or of the same name, are never served for it.   *)
StaticRecordsServed ==
    \A q \in Queries : \A i \in DOMAIN cfg :
        (pc[q] \notin {"idle", "empty"} /\ Governs(cfg, i, question[q].name)) =>
            /\ Listed(cfg[i], question[q]) # {} => Served(q) = Listed(cfg[i], question[q])
            /\ Served(q) \subseteq {r.value : r \in cfg[i].records}

(* Every query is answered, refused or dropped.                             *)
EveryQueryEnds == \A q \in Queries : pc[q] # "idle" ~> pc[q] \in Ended

(* A record that a machine published, in whatever spelling of its name, is  *)
(* found by a query for that name and not looked for upstream.              *)
PublishedNameResolves ==
    \A q \in Queries : pc[q] = "forwarding" => ~covered[q] \/ broken[q]

(* The inductive invariant: while the SELECT is on its way the row it will  *)
(* find is among those recorded, and what it found stays explained.         *)
DnsInv ==
    /\ TypeOK
    /\ \A q \in Queries :
          /\ pc[q] \in {"idle", "selecting"} => got[q] = NoRow /\ ~broken[q]
          /\ pc[q] = "selecting" => table[RowKey(q)] \in since[q]
          /\ pc[q] \notin {"idle", "empty", "static"} => StaticAnswer(cfg, question[q]) = {}
          /\ pc[q] \in {"selected", "database", "panicked"} /\ got[q] # NoRow
                => got[q] \in since[q]
          /\ pc[q] \in {"selected", "forwarding", "upstream", "failed"} /\ got[q] = NoRow
                => NoRow \in since[q] \/ broken[q]
          /\ pc[q] \in {"forwarding", "upstream", "failed"} => got[q] = NoRow
          /\ pc[q] \in {"database", "panicked"} => got[q] # NoRow
          /\ pc[q] = "database" => create_record_data(got[q]) \in Types
          /\ pc[q] = "panicked" => create_record_data(got[q]) \notin Types
=============================================================================
