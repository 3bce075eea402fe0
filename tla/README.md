# Swan DNS: specifications and proofs

Swan DNS is a split-horizon DNS server with a gRPC interface. Machines publish
their own addresses to it with an update client; a query is answered from the
static records of the configuration, else from the published records, else by
upstream nameservers. This directory holds TLA+ models of the parts that run
concurrently or fail independently, the TLC runs that check them on small
instances, and proofs, checked by TLAPS, of their safety properties for every
instance.

## 1. The system

| Part | Source | State | Operations | Hard because |
|---|---|---|---|---|
| record store | `src/record_repository.rs`, `src/rpc_server/records.rs` | table `records`, key (name, type); the queue of the one database thread | `find_unique`, `upsert` (write, then read back), `delete`, `list` | handlers interleave at each await; a dropped handler's statement still runs; crash between commit and reply |
| DNS server | `src/dns_server.rs`, `src/split_authority.rs`, `src/sqlite_authority.rs` | catalog of zones, fixed at start | build the catalog; lookup: static, table, upstream | rows change during a lookup; errors and "no row" are one case; nested and repeated zones |
| update client | `src/client.rs`, `src/bin/client.rs` | current record, error count, message, attempts | one cycle over the records, retries, schedule loop, shutdown | lost, repeated and late requests; no timeout on a call; address changes; a panic among returned errors; cancellation at any await |
| server process | `src/bin/server.rs`, `nix/server.nix` | phase of `main`, two subsystems | load, open, migrate, serve, shut down, restart | two kinds of failure that the code treats differently |
| health of records | `src/record_repository.rs`, `nix/client.nix` | `updated_at` of each row | stamp, commit, compare with `HEALTHY_AGE` | the timer's accuracy, cycles and statements without any timeout share the two minutes left after a period; requests outlive their client |
| configuration | `src/config.rs` | none | load with defaults, file and environment | layers that hide each other; a missing file is an empty one |
| utilities | `src/util.rs` | none | names, record data, interface and listen addresses | comparisons with and without case; order of the interfaces |
| ping, generated stubs, packaging | `src/rpc_server/ping.rs`, `src/proto/`, `nix/` | none | | not modelled, see section 7 |

The client calls `upsert` over gRPC. The RPC handlers and the DNS lookups share
one `RecordRepository`, hence one SQLite connection and one database thread.
Both servers are subsystems of one process, and the service manager restarts
that process when it exits with an error.

What makes each part correct:

- store: the table is the last committed write of each key; answers are not
  older than what the call must have seen; every call ends;
- DNS: a static record always wins, a published record is never shadowed by
  the outside world, an answer was true at some instant of the query;
- client: its report and exit status are true, an acknowledged record stays,
  it ends when asked to, and it converges on the machine's addresses;
- health: a record that is renewed is called unhealthy only after a long cycle or
  statement, one whose machine is gone always is, `HEALTHY_AGE` after its last
  request;
- settings: address, type, ports and upstreams are those the configuration asks
  for, and what fails has a cause in it;
- the whole: a query finds what was last acknowledged or was written after it,
  through crashes, retries and restarts, and rows follow the machine's addresses;
- process: a failure is visible to the service manager, and a stop ends the
  process, with success unless a server had failed or does not yield.

`PROJECT.json` lists the hazards behind these, each at its line.

## 2. Modules

| Module | Models |
|---|---|
| `RecordService` | abstract: what the store promises its callers |
| `RecordRepository` | the store, with the database thread, lost clients, crash and restart |
| `RecordRepositoryProofs` | its invariants, and that it implements `RecordService` |
| `ListStream` | the list RPC: spawned task, channel, client |
| `ListStreamProofs` | its safety properties |
| `DnsServer` | catalog and lookup, beside writers that follow `RecordService` |
| `DnsServerProofs` | its safety properties |
| `UpdateClient` | one machine's client, an unreliable network, the rows it writes |
| `UpdateClientProofs` | its safety properties |
| `ServerProcess` | `main` of the server, its subsystems, the service manager |
| `ServerProcessProofs` | its safety properties |
| `Health` | stamps, commits, the client's timer or schedule, with time |
| `HealthProofs` | its safety properties, for every period, accuracy and delay |
| `Settings` | from configuration and network interfaces to the client's messages, and to the server's sockets and upstreams |
| `SettingsProofs` | its properties, for every file, environment and machine |
| `SwanDns` | the whole: `UpdateClient` and `DnsServer` over one table, crash and restart |
| `SwanDnsProofs` | its safety properties |
| `MC...` | small instances for TLC |

Definitions whose comment begins with "Mutant" are wrong versions of the
definition that follows them, as a plausible bug would have it. Nothing uses
them; replacing the definition by one of them must make TLC report the property
that `PROJECT.json` names.

### RecordRepository

Each element of `Calls` is one RPC with a request fixed from the start. `pc` is
the await the handler is at; `queue` holds the closures sent with `conn.call`;
`res` and `got` are what the database thread sent back. `UpsertStart`,
`UpsertSend`, `UpsertWritten` and `ReadDone` are the four pieces of an upsert:
take the time, send the INSERT, send the SELECT, reply. Taking the time and
sending are separate since the runtime has several threads. `ExecUpsert`,
`ExecDelete`, `ExecQuery` and `ExecError` are the database thread running the
oldest statement. `Disconnect` drops a waiting handler and leaves its statement
in the queue. `Crash` loses handlers and queue and keeps the table; `Restart`
opens and migrates it again.

`data` and `ttl` are always written together, so that one payload stands for
both; `healthy`, which `find_unique` always sets to true, is left out. The
history variables `commits`, `at` and `seen` number the committed writes, and
note how many there were when a call arrived. The clock never goes back: a
clock that is set back would break `StampInversionNeedsOverlap` and no other
property.

### ListStream

`List` is the handler, which replies at once; `Select`, `Send` and `Finish` are
the task it spawns; `Receive`, `EndOfStream` and `Leave` are the client's end of
the channel. The table is the sequence of its rows in rowid order, since the
statement has no ORDER BY: an update leaves its row in place and a new row comes
last. Each call has a channel and a task of its own, so that one call is
enough. A panic of the task closes the channel just as its normal end does; this
is why a failed SELECT looks like an empty list (`broken` in
`CompleteListIsTable`). The `healthy` flag is part of the payload.

### DnsServer

A name is a sequence of labels. `Static`, `ConfigParses` and `Catalog` are what
`run` builds; `FindZone` and `InMemoryLookup` are the library's longest-suffix
search and its one-level wildcard. A lookup is `Ask` (choose the zone, try the
static records, send the SELECT; or, since the zone is of type Forward, an empty
answer to a query that does not desire recursion), `Select` (the database thread), `Resume`
(interpret the row) and `Forward`. Writers change the table in single steps at
any time: that is what `RecordService` promises and `RecordRepositoryProofs`
proves. A row has a *spelling* beside its name and type, because the table keeps
the string that was sent and compares it exactly; "lower" is the spelling that
lookups search for. Questions have type A or AAAA; other types reach the same
code, find no static record, and differ in the library only.

### UpdateClient

`BeginCycle` ... `EndCycle` are a call of `update_records`; `ReadAddress`,
`SendRequest`, `ConnectFails`, `ConnectionBreaks` and `Reply` are
`update_record` for the record `next`. A request in flight is applied by
`Apply`. If the client stops waiting first, the request is dropped or joins
`lost`, from where `ApplyLate` may apply it at any later time. `NoAddr` is an
interface without address (and a record without row), which is a counted error;
`ListPanics` is the `unwrap()` on the list of interfaces, which ends the process.
The backoff times are abstracted away, the number of attempts is not, and failures
are not bounded: every attempt of every record may fail. `Cancel` is
`cancel_on_shutdown` around `update_records`; as in the code it goes on to the
schedule, not to the exit. `ShutdownTimesOut` is the Toplevel giving up after
1000 ms.

### ServerProcess

`Step`s of `main` may each fail. `RunReturnsError` is an error that `run()`
returns: the code matches only the cancellation, so that the subsystem ends like
one that has finished. `Fail` is an error before `run()`, or a panic: the
Toplevel then shuts the other one down. `Stall` is a subsystem that does not come
back to the runtime, in the blocking call that lists the interfaces or on a
starved machine; it cannot be cancelled, and `ShutdownTimesOut` ends the process
with an error after the 1000 ms that shutdown may take. That a server which can be
cancelled is cancelled within that second is assumed: `cancel_on_shutdown` drops
`run()` at its next await.

### Health

The model has time, and nothing but the start of a cycle is timed: `connect` and
`upsert` have no timeout, so that a cycle, a request and a statement take any
time. Each element of `Calls` is a request that lives on its own: `Send` by the
client, `Stamp` when a handler takes the time, `Commit` when its statement runs,
or `Drop`. The client waits for one of them (`mine`) and may give it up
(`AttemptFails`); the request goes on, also when the client has died, and an
earlier attempt's statement may commit after a later one's and set the stamp
back. The number of attempts is not bounded here: that is in `UpdateClient`.

A cycle is started by the systemd timer of `nix/client.nix`, which counts from the
start of the last run and may be late by its accuracy, or by the client's own
schedule, which is looked up at the end of a cycle (`NextTick`). After a failed
run the service manager restarts the client after `RestartSec`, or no longer,
once its start limit is reached. The history variables `took` and `waited` note
how long the last cycle and each row's statement took; `quiet` is the moment from
which a dead client's requests can no longer reach a handler.

`FalseAlarmNeedsDelay` is the exact account of the margin: a living, renewed
record is listed as unhealthy only if the gap to the next start, the time the
current cycle has been running and the wait of its statement together exceed
`HEALTHY_AGE`. With the timer's numbers that leaves one minute (7 - 5 - 1) for a
whole cycle with its statement; one record that exhausts its backoff takes about
twelve seconds of it, and a connection to a host that does not answer takes as
long as the system lets it. The loop pays for a long cycle twice. The clock of
the server is not set back: if it were, a dead record would stay healthy for that
much longer.

### Settings

A string is a word and a spelling, which tells comparisons that ignore case from
those that do not. `Merge` is Figment's layering, setting by setting; `FindIface`
is the loop over the system's interfaces, or the panic when they cannot be listed.
`UpdateRecord` computes the message of one record after the other; the properties
state the precedence of record, environment and file independently of `Merge` and
`Or`. `ListenDns` and `ListenRpc` let both subsystems of the server start in
either order. `DnsOutcome` is `run()` with all its errors: the name of a zone, the
key and value of a static record, a nameserver, the address, the UDP and the TCP
socket. A port is refused by the machine (another process has it, or privileges
are missing), or taken by the other server; port 0 never is. An error of `run()`
is "failed", which the process does not notice; a panic, or an error of
`start_rpc_server` before `run()`, is "aborted", which ends it
(`ServerProcess.Fail`). The upstreams of a zone are the same for all zones, so
that only their number counts. Of zones and records it matters here only whether
their strings parse; what they mean is in `DnsServer`.

A machine's interfaces and ports do not change while one program starts: the two
subsystems look at one and the same list. A client reads them again for each
record; that they change is in `UpdateClient`.

### SwanDns

`C` is an instance of `UpdateClient`, `D` one of `DnsServer` whose table is `rows`.
An upsert that is applied is a step of both: `C` writes the record's row, `D` the
row under the record's name and the type that `MessageType` derives from the
address in the message, as `update_record` does. That these are the same row is an
invariant, not a definition. `Crash` ends the process: the client's request fails,
requests on their way are gone, queries are asked again after the restart, and
the table stays. Without a server every attempt to connect fails; with one,
failures are counted as faults. `Delete` is an operator, once in all. The client is
left running on its schedule; its shutdown and single runs are in `UpdateClient`.

`may` notes for each record what was last acknowledged and everything written
since; it is not forgotten when a cycle begins. `fresh` is what becomes of it at
the next reply: the address applied for the request in flight, and what was
written after it. `allowed` notes what each query may find, from `may` at its
beginning and the writes until its SELECT. A commit whose reply a crash has cut
off thus stays among what queries may find, beside the last acknowledged address,
and from the next reply on what was there before may not be found again.

## 3. Runs

| Run | Instance | Distinct states | Shows |
|---|---|---|---|
| `store` | 3 calls, 1 key, 2 values, clock 0..1 | 955,630 | five safety properties, inductive invariant |
| `store_service` | 2 calls, 2 keys, 2 values, clock 0..1 | 130,112 | every call ends; refinement of `RecordService` |
| `store_race` | 2 calls, 1 key | | violation: `UpsertUnwrapHolds` |
| `list` | tables of 0, 1, 4 and 6 rows, 2 writes | 133,663 | two safety properties, inductive invariant; the task ends or waits; a reader reaches the end |
| `dns` | 1 query, 3 questions, 110 configurations over zones `lan`, `home.lan` and `org`, IPv6 and malformed data written | 261,144 | four safety properties, inductive invariant; every query ends |
| `dns_spelling` | the same with 2 spellings | | violation: `PublishedNameResolves` |
| `client` | 2 records, 2 addresses, 1 change, failures without bound | 1,335,062 | three safety properties, inductive invariant; shutdown ends it; a single run ends unless a server stays silent |
| `process` | 4 faults | 289 | inductive invariant; failure and stop end the process |
| `process_dns` | 1 fault | | violation: `DnsComesUp` |
| `health` | 2 records, 2 requests at a time; age 3, period 2, accuracy 1, time 0..5 | 9,215,953 | a false alarm needs a delay; the dead are noticed; inductive invariant |
| `settings` | 0 or 1 record, in the file or the environment; 0 to 3 interfaces or none that can be listed; 2 binds, ports 0, 53 and 8080, refused ports, up to 2 zones and nameservers, good and bad; each layer with and without each setting | 386,266 | address, type and URL of a message; causes of failure; why a server does not come up, and its upstreams |
| `swandns` | 2 records of one name, 3 addresses, 1 query, 1 fault, 1 change, 1 deletion | 1,648,631 | queries find what was acknowledged or written since, of their type; rows follow the machine's addresses |

The type invariant of each module with proofs is a conjunct of its inductive
invariant (`StoreInv`, `ListInv`, `DnsInv`, `ClientInv`, `ProcessInv`,
`HealthInv`), and is checked with it. `SettingsInv` and `SwanInv`, which only the
proofs use, are defined in their proof modules.

Why the bounds are enough to be of interest: three calls on one key give an
upsert and a delete around another upsert or find, the longest pattern the
store's properties speak of, and a clock of two values orders any two stamps
both ways. Failed connections are not bounded, so that both records may use up
their six attempts, in every cycle. Tables of six rows exceed the channel of four
by enough for the task to wait, go on and wait again. One query is enough, since
queries share nothing that they write. One address change while a message is
being retried, or between two cycles, is what makes it stale. Records of one
configuration do not influence each other's messages, so that the settings need
one. Two entries are what it takes for zones to be equal, nested or apart, and
the instance has all three.
The values contain an IPv4 address, an IPv6 address and a string that is
neither. Four faults let the server process start five times, the number that
`startLimitBurst` allows within its interval; after that systemd would give up,
which the model leaves out. In `health`
period and accuracy use up the healthy age, so that every off-by-one shows; two
requests at a time let an abandoned attempt overtake, or be overtaken by, its
retry, and five units hold one renewal in each mode and the end of the healthy age
after an early death. `swandns` starts with both addresses present; the one
change takes one of them away or replaces it. Its one fault is a crash, a broken
connection, a late request or a dead client; a record with an IPv4 and one with
an IPv6 address under one name are what it takes to answer with the wrong type.
The safety properties of all components are proved without any of these bounds.

Deadlock is checked for the store and for DNS. It is not for the other runs: the
list stream, the process and the client come to an end, the latter also in the
composition, settings are computed once, and time is bounded.

Symmetry is used in the store's safety runs and in `health` only, over sets that
no definition tells apart.

### Fairness

- Store: weak fairness of the continuation of each handler and of the database
  thread; the runtime polls every ready task and the thread loops over its
  channel. No fairness for arrivals, crashes or restarts: a call that is cut off
  by a crash ends with the crash.
- List: weak fairness of the task only. The client owes nothing;
  `ReaderReachesEnd` has its reading as a hypothesis.
- DNS: weak fairness of each query's steps; `Forward` is included because the
  resolver has timeouts of its own.
- Client: weak fairness of the client's own steps together with the end of an
  attempt to connect, which the system's TCP timeouts guarantee, and of noticing
  shutdown. None for `Apply`, `Reply` or `ConnectionBreaks`: nothing in the code
  makes a server answer, or a connection to a silent one break. `OnceEnds`
  therefore has the silent server as its one exception.
- The whole: weak fairness of the client's steps and replies, of an upsert that
  is on its way, and of the start of the server; none for faults, deletions and
  lookups. A request that does not arrive is a fault there, and after the last
  fault requests do arrive: `AddressReachesDns` is what holds once connections do.
- Process: weak fairness of `main`, of each subsystem's start and cancellation,
  and of the restart by the service manager.

## 4. What the violations show

1. `store_race`: an upsert whose statements all succeed can still panic, if a
   delete of the key runs between its INSERT and its SELECT.
2. `dns_spelling`: a record published under a name with a capital letter or a
   final dot is stored and listed but never found by a query.
3. `process_dns`: an error that the DNS server's `run()` returns is dropped; the
   process stays up without DNS and is not restarted.

Limits that properties state although they hold: of two entries for one
zone, and for names of an inner zone, only one entry's static records are served
(`StaticRecordsServed` says which); a server that accepts a request and stays
silent blocks a single run for ever (`OnceEnds`); any bad string among zones and
nameservers, and any refused port, costs the whole DNS server and not the process
(`ComesUpAsConfigured`); a slow cycle makes living records look unhealthy
(`FalseAlarmNeedsDelay`); and a configuration without records,
or a file that is not there, is accepted by the client, which then sends nothing
and exits with success (`ReportIsTrue` with no records).

## 5. Proofs

All theorems are for arbitrary sets of calls, keys, values, queries,
configurations and addresses, and for any number of records. The assumptions on
constants are their types (layers, machines, zones, questions, bounds), that the
special values `NoRow`, `NoAddr`, `NoZone`, `NoCall`, `Failed` and `Panicked` are
not ordinary ones, that what is written is a value and that "lower" is a spelling.
`StringsAssumption` says that four literals are strings, which holds in TLA+ but
is not known to the provers. `SwanDns` assumes that every address is of one of the
two families, and that no two records of a machine have both name and protocol in
common, without which they would share a row.

**Store.** `RowIsLatestWrite` is not inductive: it says nothing of the
statements still in the queue. `StoreInv` adds that a queued statement belongs
to a handler that waits for it, or whose client has left, and has not run yet,
and that no call has two in the queue (`QueueInv`); what each handler knows
where it stands (`HandlerInv`); that commits are numbered without repetition
and stamped no earlier than what was committed when their call arrived
(`CommitInv`); and the two read properties from the moment the SELECT has run
(`ReadInv`). The step is proved action by action; the writes have lemmas of
their own for each conjunct. The five safety properties follow from `StoreInv`,
and `StampInversionNeedsOverlap` from `CommitInv` without an induction of its
own.

**Refinement.** `StoreImplementsService` maps handler positions to idle, open,
answered and failed, and committed calls to `applied`. Each step of the store
then is a step of `RecordService` or leaves its variables alone. `QueueInv` is
what shows that a write is applied once, `HandlerInv` that an answered upsert
has been applied and has a record.

**List.** `ListInv` says that received records and channel together are the
first `sent` records the task has read, and that those are a table noted since
the call. Sending and receiving then come down to two lemmas on sequences,
`SendNext` and `MoveHead`.

**DNS.** `DnsInv` records that, while the SELECT is on its way, the row it will
find is among those noted since the query came. `StaticRecordsWin` needs facts
about names of any length and any list of zones: the last of equal entries is the
one in the catalog (`LastEntryStays`), and the entry that governs a name, which
the property defines over the list itself, is the one that `FindZone` comes to
(`ZoneOfGoverned`), so that its records are the answer (`GovernedIsAnswered`).
The longest suffix is the one with the smallest start, and that a set of numbers
has a smallest element (`MinOfNaturals`) comes from the library's theorem on
well-founded relations. `LowerCaseResolves` is the other side of the violation
`dns_spelling`: with the spelling of queries as the only one, `CoveredInv` is
inductive and `PublishedNameResolves` holds.

**Client.** `ClientInv` says that the records before `next` are acknowledged or
counted (`LoopInv`), what result and exit status stand for, for a client that died
in the middle of a cycle too (`ExitInv`), and that
an acknowledged row is in the table unless a late request replaced it
(`RowInv`).

**Process.** `ProcessInv` says where `main` is when subsystems exist, that the
schema then is on disk, and that an exit leaves none of them running, apart from
one that could not be cancelled.

**Health.** No bound on any delay is assumed. `HealthInv` says how old a stamp can
be at each place of the cycle: stamp and wait of a renewed row together reach the
start of the cycle in which it was last updated, or of the one before while the
current one has not come to it (`RenewedInv`); the next cycle begins no later than
`Gap` after the last one (`CycleInv`); and the request the client waits for is one
of its current record, sent in this cycle (`CallInv`). `FalseAlarmNeedsDelay` is
the sum of these. For the dead, `StampInv` says that once no request can reach a
handler any more no stamp is later than that moment, whether its statement has run
or not. The modulus of the schedule is handled by one lemma, `NextTickBound`.

**Settings.** `SettingsInv` has three parts: the configuration is the merge of
its layers (`InputInv`); the messages so far are those of the first records
(`MessagesInv`); every bound address belongs to a server that listens, and one
that does not listen has its cause: a zone or nameserver that did not parse, no
address, a panic, or a port that was refused or taken and still is (`ListenInv`).
The properties state precedence and causes in their own words; `FirstOfTwo` and
`FirstOfThree` show that these are what `Or` and `Merge` compute, `BadZones` and
`ParsedNameservers` what the loop over the zones does, and `FindIfaceIsFirst` that
the loop over the interfaces returns the first match, for any number of
interfaces.

**The whole.** Neither property of `SwanDns` is inductive, and neither follows
from `ClientInv` and `DnsInv`, because crashes and deletions break both. `SwanInv`
follows an address on its way: from the interface into a message, a request that
may be late, and a row, it keeps its family (`FamilyInv`); the row that a message
is written to is the one that queries for the record look at, and whatever a row
holds has the type it is found under (`RowsInv`); a row is what was acknowledged
last or written since, also that of the request whose reply is on its way
(`MayInv`); and while a SELECT is on its way, the row it will find is among those
the query may find, after it what it found is (`QueriesInv`). `MessageFindsRow` is
where the type that the client derives meets the type that queries ask for,
`WriteInv` that a write touches one row only, and `AskFindsRow` joins `MayInv` and
`QueriesInv`. `KeysDiffer` is where the assumption on names is needed.

Only model-checked: all liveness (`EveryCallEnds`, `EveryQueryEnds`,
`TaskEndsOrWaits`, `ReaderReachesEnd`, `ShutdownEnds`, `OnceEnds`,
`FailureEndsProcess`, `StopEnds`, `AddressReachesDns`), since the prover has no
rules for fairness. Every other property of a passing run is a theorem.

## 6. Plan

Done: the store with its abstract service, the list stream, the DNS server, the
client, the process, health, the settings and the composition; every safety
property that a run checks is proved.

Next: the safety half of what the liveness properties say (that nothing is left
behind when a step is not taken), where it can be stated as an invariant, and
simpler proofs where two components need the same lemma.

## 7. Not modelled

- `ping`: stateless. `src/proto/swandns.rs`: generated. Packaging: build only,
  apart from the timer and the restart rules of the units.
- Where the configuration file is searched, and how its YAML is parsed;
  logging; time to live; clocks that are set back.
- `update` and `get_nsec_records` of the authorities: they return an error and
  change nothing.
- The `unwrap()` on the forwarding authority (`dns_server.rs:88`): its constructor in
  the library returns no error.
- The wire protocols, the resolver and SQLite themselves: they appear through
  what the code relies on (each statement is atomic and durable, the resolver
  answers or fails, a request is delivered, lost or delayed).
