------------------------------ MODULE Settings ------------------------------
(***************************************************************************)
(* How both programs turn their configuration and the machine's network    *)
(* interfaces into addresses.  The client computes one message after the   *)
(* other, which is the part of update_record before the first attempt.     *)
(* The subsystems of the server start at the same time; each computes the  *)
(* address it listens on from the one `bind' of the configuration and       *)
(* binds its sockets, and what the DNS server forwards to is parsed on the  *)
(* way, once per zone.                                                      *)
(*                                                                         *)
(* A string is a word and a spelling, so that comparisons that ignore case *)
(* and those that do not can be told apart.  An address is [id, family].   *)
(***************************************************************************)
EXTENDS Naturals, SequencesExt

CONSTANTS
    None,      \* an Option without value, a setting that a layer does not have
    Failed,    \* the result of a function that returned an error
    Panicked,  \* the result of one that panicked
    Files,     \* what the file of each program may say: a function to sets
    Envs,      \* what the environment may say
    Machines   \* interfaces, default addresses and ports: [ifaces, local, refused]

Families == {"ipv4", "ipv6"}
Text == [word : STRING, spelling : STRING]
Address == [id : STRING, family : Families]
Port == 0..65535
Option(S) == {None} \cup S
Errors == {Failed, Panicked}

\* A nameserver is an address, an address with port, or neither.
NameserverText ==
    [form : {"ip"}, ip : Address] \cup [form : {"socket"}, ip : Address, port : Port]
        \cup [form : {"text"}]

ClientRecordConfig == [server_url : Option(STRING), bind : Option(Text),
                       protocol : Option(Text)]

\* Of zones and static records it matters here whether their strings parse.
Syntax == {"good", "bad"}
ZoneConfig == [name : Syntax, records : Seq([key : Syntax, value : Syntax])]

\* What a file or the environment may say: ClientConfig and ServerConfig, with
\* settings missing.
Layer == [client |-> [default_server_url : Option(STRING), default_bind : Option(Text),
                      default_protocol : Option(Text),
                      records : Option(Seq(ClientRecordConfig))],
          server |-> [bind : Option(Text), dns_port : Option(Port), api_port : Option(Port),
                      nameservers : Option(Seq(NameserverText)),
                      zones : Option(Seq(ZoneConfig))]]

\* The system's interfaces in their order, unless it fails to list them, its
\* default addresses, and the ports it does not let the program bind, because
\* another process has them or they are privileged.  Port 0 is any free one.
Transports == {"udp", "tcp"}
Machine == [ifaces : Seq([name : Text, addr : Address]) \cup {Failed},
            local : [Families -> Address \cup {Failed}],
            refused : SUBSET (Transports \X (Port \ {0}))]

UpsertRecordRequest == [type : {"A", "AAAA"}, value : Address, url : STRING]

ASSUME LayersAssumption ==
    \A p \in {"client", "server"} : Files[p] \cup Envs[p] \subseteq Layer[p]
ASSUME MachinesAssumption == Machines \subseteq Machine
\* The literals below are strings, which the provers do not know.
ASSUME StringsAssumption == {"ipv4", "lower", "any", "http://127.0.0.1:8080"} \subseteq STRING
ASSUME FailedAssumption ==
    /\ Failed # Panicked
    /\ Errors \cap Address = {}
    /\ Errors \cap [ip : Address, port : Port] = {}
    /\ Errors \cap UpsertRecordRequest = {}

VARIABLES
    program,   \* "client" or "server"
    file, env, \* the layers of its configuration
    machine,
    cfg,       \* the configuration, None before it is loaded
    sent,      \* client: the message of each record so far, or its error
    dns, rpc,  \* server: "starting", "listening", or why it is not: run() has
               \* "failed", or the subsystem was "aborted", which ends the process
    bound,     \* addresses of the TCP listeners of the server
    upstream   \* sockets the DNS server forwards to

input == <<program, file, env, machine>>
server == <<dns, rpc, bound, upstream>>
vars == <<input, cfg, sent, server>>

-----------------------------------------------------------------------------
(***************************************************************************)
(* Layers and addresses.                                                   *)
(***************************************************************************)
Lower(word) == [word |-> word, spelling |-> "lower"]

eq_ignore_ascii_case(s, t) == s.word = t.word

\* Option::or and unwrap_or.
Or(x, y) == IF x # None THEN x ELSE y

\* Mutant: the file is merged last.
MergeFileLast(defaults) ==
    [f \in DOMAIN defaults |-> Or(file[f], Or(env[f], defaults[f]))]

\* Figment: each setting from the environment, else from the file, else its
\* default.  A file that is missing has no settings.
Merge(defaults) ==
    [f \in DOMAIN defaults |-> Or(env[f], Or(file[f], defaults[f]))]

\* local_ip() and local_ipv6() of the machine; no other protocol is known.
LocalAddr(protocol) ==
    IF protocol.word \in Families THEN machine.local[protocol.word] ELSE Failed

\* Mutant: the last match is returned.
IfaceLast(name, protocol) ==
    IF machine.ifaces = Failed THEN Panicked
    ELSE LET i == SelectLastInSeq(machine.ifaces, LAMBDA n :
                      eq_ignore_ascii_case(n.name, name) /\ n.addr.family = protocol.word)
         IN  IF i = 0 THEN Failed ELSE machine.ifaces[i].addr

\* unwrap() panics if the system does not list its interfaces.  The loop over
\* them: the first one with the protocol and the name, neither compared by case.
FindIface(name, protocol) ==
    IF machine.ifaces = Failed THEN Panicked
    ELSE LET i == SelectInSeq(machine.ifaces, LAMBDA n :
                      eq_ignore_ascii_case(Lower(n.addr.family), protocol)
                          /\ eq_ignore_ascii_case(n.name, name))
         IN  IF i = 0 THEN Failed ELSE machine.ifaces[i].addr

get_iface_addr(iface, protocol) ==
    LET desired == Or(protocol, Lower("ipv4"))
    IN  IF iface = None THEN LocalAddr(desired)
        ELSE FindIface(iface, desired)

\* The IP of get_socket_addr: that of the interface, or the wildcard address;
\* here the protocol must be spelled in lower case.
ListenIp(iface, proto) ==
    LET word == Or(proto, Lower("ipv4"))
    IN  IF iface # None THEN get_iface_addr(iface, proto)
        ELSE IF word \in {Lower(f) : f \in Families}
             THEN [id |-> "any", family |-> word.word]
        ELSE Failed

\* get_socket_addr: the address to listen on.
get_socket_addr(iface, port, proto) ==
    LET ip == ListenIp(iface, proto)
    IN  IF ip \in Errors THEN ip ELSE [ip |-> ip, port |-> port]

\* Mutant: a port in the string is dropped.
ParseIpOnly(value, default_port) ==
    IF value.form = "text" THEN Failed ELSE [ip |-> value.ip, port |-> default_port]

\* The port of a nameserver is the one in its string, else the default.
parse_ip_optional_socket(value, default_port) ==
    IF value.form = "socket" THEN [ip |-> value.ip, port |-> value.port]
    ELSE IF value.form = "ip" THEN [ip |-> value.ip, port |-> default_port]
    ELSE Failed

get_ip_addr_record_type(addr) == IF addr.family = "ipv4" THEN "A" ELSE "AAAA"

-----------------------------------------------------------------------------
(***************************************************************************)
(* The programs.                                                           *)
(***************************************************************************)
Init ==
    /\ program \in {"client", "server"}
    /\ file \in Files[program] /\ env \in Envs[program]
    /\ machine \in Machines
    /\ cfg = None
    /\ sent = <<>>
    /\ dns = "starting" /\ rpc = "starting"
    /\ bound = {} /\ upstream = {}

\* ClientConfig::default() and ServerConfig::default().
Default == [client |-> [default_server_url |-> None, default_bind |-> None,
                        default_protocol |-> None, records |-> <<>>],
            server |-> [bind |-> None, dns_port |-> 1053, api_port |-> 8080,
                        nameservers |-> <<>>, zones |-> <<>>]]

LoadConfig ==
    /\ cfg = None
    /\ cfg' = Merge(Default[program])
    /\ UNCHANGED <<input, sent, server>>

MessageType(addr) == IF addr.family = "ipv6" THEN "AAAA" ELSE "A"

\* The message for a record, or the error or panic of get_iface_addr.
Message(record) ==
    LET bind     == Or(record.bind, cfg.default_bind)
        protocol == Or(record.protocol, cfg.default_protocol)
        addr     == get_iface_addr(bind, protocol)
        url      == Or(record.server_url, cfg.default_server_url)
    IN  IF addr \in Errors THEN addr
        ELSE [type |-> MessageType(addr), value |-> addr,
              url |-> Or(url, "http://127.0.0.1:8080")]

\* After a panic no record follows.
UpdateRecord ==
    /\ program = "client" /\ cfg # None
    /\ Panicked \notin ToSet(sent)
    /\ Len(sent) < Len(cfg.records)
    /\ sent' = Append(sent, Message(cfg.records[Len(sent) + 1]))
    /\ UNCHANGED <<input, cfg, server>>

DnsAddr == get_socket_addr(cfg.bind, cfg.dns_port, None)
RpcAddr == get_socket_addr(cfg.bind, cfg.api_port, Lower("ipv4"))

\* The name of a zone, and the keys and values of its records.
ZoneParses(z) ==
    z.name = "good" /\ \A r \in ToSet(z.records) : r.key = "good" /\ r.value = "good"

\* The upstreams of every zone; without zones nothing is parsed.
Parsed == {parse_ip_optional_socket(n, 53) :
               n \in IF cfg.zones = <<>> THEN {} ELSE ToSet(cfg.nameservers)}

\* The loop over the zones at the beginning of DnsServer::run.
ZonesLoaded == (\A z \in ToSet(cfg.zones) : ZoneParses(z)) /\ Failed \notin Parsed

\* A port can be bound if the machine allows it and, for TCP, the other server
\* does not have it; for port 0 the system picks a free one.
CanBind(transport, addr) ==
    \/ addr.port = 0
    \/ /\ <<transport, addr.port>> \notin machine.refused
       /\ transport = "tcp" => addr \notin bound

\* DnsServer::run: the zones, the address, the UDP and the TCP socket, each with
\* its error; a panic while the address is looked up is not one of run().
DnsOutcome ==
    IF ~ZonesLoaded \/ DnsAddr = Failed THEN "failed"
    ELSE IF DnsAddr = Panicked THEN "aborted"
    ELSE IF CanBind("udp", DnsAddr) /\ CanBind("tcp", DnsAddr) THEN "listening"
    ELSE "failed"

ListenDns ==
    /\ program = "server" /\ cfg # None /\ dns = "starting"
    /\ dns' = DnsOutcome
    /\ bound' = IF dns' = "listening" THEN bound \cup {DnsAddr} ELSE bound
    /\ upstream' = IF dns' = "listening" THEN Parsed ELSE {}
    /\ UNCHANGED <<input, cfg, sent, rpc>>

\* start_rpc_server looks its address up before RpcServer::run binds it.
RpcOutcome ==
    IF RpcAddr \in Errors THEN "aborted"
    ELSE IF CanBind("tcp", RpcAddr) THEN "listening"
    ELSE "failed"

ListenRpc ==
    /\ program = "server" /\ cfg # None /\ rpc = "starting"
    /\ rpc' = RpcOutcome
    /\ bound' = IF rpc' = "listening" THEN bound \cup {RpcAddr} ELSE bound
    /\ UNCHANGED <<input, cfg, sent, dns, upstream>>

Next == LoadConfig \/ UpdateRecord \/ ListenDns \/ ListenRpc

Spec == Init /\ [][Next]_vars

-----------------------------------------------------------------------------
\* The first of the places that may say something: a record, the environment,
\* the file.
FirstSet(chain) ==
    LET set == {j \in DOMAIN chain : chain[j] # None}
    IN  IF set = {} THEN None ELSE chain[CHOOSE j \in set : \A k \in set : j <= k]
Records == FirstSet(<<env.records, file.records>>)
Asked(i, f, default) == FirstSet(<<Records[i][f], env[default], file[default]>>)

Bind(i) == Asked(i, "bind", "default_bind")
Protocol(i) ==
    LET p == Asked(i, "protocol", "default_protocol") IN IF p = None THEN "ipv4" ELSE p.word

\* The machine's addresses for record i, in the system's order.
Candidates(i) ==
    {j \in DOMAIN machine.ifaces : /\ machine.ifaces[j].name.word = Bind(i).word
                                   /\ machine.ifaces[j].addr.family = Protocol(i)}

(* The address of a message is the one its configuration asks for: a bind   *)
(* or protocol of the record itself, else of the environment, else of the   *)
(* file; the first address of that family on that interface, or, without a  *)
(* bind, the machine's default one.  Its type is the one that the DNS       *)
(* server derives from that address, whatever was asked for.                *)
AddressAsConfigured ==
    \A i \in DOMAIN sent : sent[i] \notin Errors =>
        /\ IF Bind(i) = None THEN sent[i].value = machine.local[Protocol(i)]
           ELSE \E j \in Candidates(i) : /\ sent[i].value = machine.ifaces[j].addr
                                         /\ \A k \in Candidates(i) : j <= k
        /\ Asked(i, "server_url", "default_server_url") \in {None, sent[i].url}
        /\ sent[i].type = get_ip_addr_record_type(sent[i].value)

(* A record is given up before it is sent only if its protocol is unknown,  *)
(* or the machine has no address of that family where it was told to look;  *)
(* the client dies only at a record with a bind, when the machine does not  *)
(* list its interfaces.                                                     *)
FailureHasCause ==
    \A i \in DOMAIN sent :
        /\ sent[i] = Failed =>
              \/ Protocol(i) \notin Families
              \/ IF Bind(i) = None THEN machine.local[Protocol(i)] = Failed
                 ELSE machine.ifaces # Failed /\ Candidates(i) = {}
        /\ sent[i] = Panicked => Bind(i) # None /\ machine.ifaces = Failed

ServerLoaded == program = "server" /\ cfg # None

\* What may be wrong with the configuration of a server and its machine.
NotListed == cfg.bind # None /\ machine.ifaces = Failed
NoIpv4 ==
    /\ cfg.bind # None /\ machine.ifaces # Failed
    /\ ~\E i \in DOMAIN machine.ifaces : /\ machine.ifaces[i].name.word = cfg.bind.word
                                         /\ machine.ifaces[i].addr.family = "ipv4"
BadZone ==
    \E i \in DOMAIN cfg.zones :
        \/ cfg.zones[i].name = "bad"
        \/ \E j \in DOMAIN cfg.zones[i].records :
               "bad" \in {cfg.zones[i].records[j].key, cfg.zones[i].records[j].value}
BadNameserver ==
    cfg.zones # <<>> /\ \E i \in DOMAIN cfg.nameservers : cfg.nameservers[i].form = "text"
PortTaken(other) == other = "listening" /\ cfg.dns_port = cfg.api_port /\ cfg.dns_port # 0
Refused(transport, port) == <<transport, port>> \in machine.refused

(* A server that does not come up has one of these causes, and which of     *)
(* them it is decides whether anyone learns of it.  Only a missing or       *)
(* unreadable interface ends the process; a zone, record or nameserver that *)
(* does not parse, and a port that the machine or the other server has,     *)
(* leave it running without one of its servers.  A DNS server that does     *)
(* come up has loaded every zone and, with zones, forwards to every         *)
(* nameserver, on its own port or on 53.                                    *)
ComesUpAsConfigured ==
    /\ rpc = "aborted" => NotListed \/ NoIpv4
    /\ rpc = "failed" => Refused("tcp", cfg.api_port) \/ PortTaken(dns)
    /\ dns = "aborted" => NotListed
    /\ dns = "failed" =>
          \/ BadZone \/ BadNameserver \/ NoIpv4
          \/ Refused("udp", cfg.dns_port) \/ Refused("tcp", cfg.dns_port) \/ PortTaken(rpc)
    /\ dns = "listening" =>
          /\ ~BadZone /\ ~BadNameserver /\ ~NotListed /\ ~NoIpv4
          /\ cfg.zones # <<>> => \A n \in ToSet(cfg.nameservers) : \E u \in upstream :
                 /\ u.ip = n.ip
                 /\ u.port = IF n.form = "socket" THEN n.port ELSE 53
=============================================================================
