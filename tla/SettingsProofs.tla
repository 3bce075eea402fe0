--------------------------- MODULE SettingsProofs ---------------------------
(***************************************************************************)
(* Proofs about the settings, for any file, any environment and any        *)
(* machine.                                                                *)
(***************************************************************************)
EXTENDS Settings, WellFoundedInduction, SequenceTheorems, TLAPS

(* A set of natural numbers that is not empty has a smallest element, which *)
(* is its Min.                                                              *)
LEMMA MinOfNaturals ==
    ASSUME NEW S, S \subseteq Nat, S # {}
    PROVE  Min(S) \in S /\ \A k \in S : Min(S) <= k
<1>1. PICK m \in S : \A k \in S : ~(<<k, m>> \in OpToRel(<, Nat))
  BY WFMin, NatLessThanWellFounded, Zenon
<1>2. \A k \in S : ~(k < m)
  BY <1>1, Zenon DEF OpToRel
<1>3. \A k \in S : m <= k
  BY <1>2
<1> QED BY <1>3 DEF Min

(* Precedence: the first place that says something is what Option::or       *)
(* computes.                                                                *)
LEMMA FirstOfTwo == \A a, b : FirstSet(<<a, b>>) = Or(a, b)
<1> TAKE a, b
<1> DEFINE chain == <<a, b>>
<1>1. DOMAIN chain = {1, 2} /\ chain[1] = a /\ chain[2] = b
  OBVIOUS
<1> HIDE DEF chain
<1> QED BY <1>1 DEF FirstSet, Or

(* The same for a record, the environment and the file.                     *)
LEMMA FirstOfThree == \A a, b, c : FirstSet(<<a, b, c>>) = Or(a, Or(b, c))
<1> TAKE a, b, c
<1> DEFINE chain == <<a, b, c>>
<1>1. DOMAIN chain = {1, 2, 3} /\ chain[1] = a /\ chain[2] = b /\ chain[3] = c
  OBVIOUS
<1> HIDE DEF chain
<1>2. CASE a # None
  BY <1>1, <1>2 DEF FirstSet, Or
<1>3. CASE a = None /\ b # None
  BY <1>1, <1>3 DEF FirstSet, Or
<1>4. CASE a = None /\ b = None
  BY <1>1, <1>4 DEF FirstSet, Or
<1> QED BY <1>2, <1>3, <1>4

-----------------------------------------------------------------------------
\* The interfaces that match a name and a family, neither compared by case.
Matches(name, protocol) ==
    {i \in DOMAIN machine.ifaces : /\ machine.ifaces[i].addr.family = protocol.word
                                   /\ machine.ifaces[i].name.word = name.word}

(* The loop over the interfaces finds the first match.                      *)
LEMMA FindIfaceIsFirst ==
    ASSUME machine \in Machine, machine.ifaces # Failed, NEW name \in Text, NEW protocol \in Text
    PROVE  IF Matches(name, protocol) = {} THEN FindIface(name, protocol) = Failed
           ELSE \E i \in Matches(name, protocol) :
                   /\ \A k \in Matches(name, protocol) : i <= k
                   /\ FindIface(name, protocol) = machine.ifaces[i].addr
<1> DEFINE M == Matches(name, protocol)
<1>1. machine.ifaces \in Seq([name : Text, addr : Address])
  BY DEF Machine
<1>2. DOMAIN machine.ifaces = 1..Len(machine.ifaces) /\ Len(machine.ifaces) \in Nat
  BY <1>1
<1>3. FindIface(name, protocol) =
          IF (IF M # {} THEN Min(M) ELSE 0) = 0 THEN Failed
          ELSE machine.ifaces[IF M # {} THEN Min(M) ELSE 0].addr
  BY <1>2 DEF FindIface, SelectInSeq, Matches, eq_ignore_ascii_case, Lower
<1>4. M \subseteq Nat \ {0}
  BY <1>2 DEF Matches
<1>5. CASE M = {}
  BY <1>3, <1>5
<1>6. CASE M # {}
  <2>1. Min(M) \in M /\ \A k \in M : Min(M) <= k
    <3> HIDE DEF M
    <3> QED BY <1>4, <1>6, MinOfNaturals
  <2> QED BY <1>3, <1>4, <1>6, <2>1
<1> QED BY <1>5, <1>6

(* What the client looks up is an address or an error.                      *)
LEMMA IfaceAddrType ==
    ASSUME machine \in Machine, NEW iface \in Option(Text), NEW protocol \in Option(Text)
    PROVE  /\ get_iface_addr(iface, protocol) \in Address \cup Errors
           /\ get_iface_addr(iface, protocol) = Panicked =>
                 iface # None /\ machine.ifaces = Failed
<1> DEFINE desired == Or(protocol, Lower("ipv4"))
<1>1. desired \in Text
  <2>1. Lower("ipv4") \in Text
    BY StringsAssumption DEF Lower, Text
  <2>2. protocol # None => protocol \in Text
    BY DEF Option
  <2> QED BY <2>1, <2>2 DEF Or
<1>2. LocalAddr(desired) \in Address \cup {Failed}
  <2>1. machine.local \in [Families -> Address \cup {Failed}]
    BY DEF Machine
  <2> HIDE DEF desired
  <2> QED BY <2>1 DEF LocalAddr
<1>3. ASSUME iface # None, machine.ifaces # Failed
      PROVE  FindIface(iface, desired) \in Address \cup {Failed}
  <2>1. iface \in Text
    BY <1>3 DEF Option
  <2>2. \A i \in DOMAIN machine.ifaces : machine.ifaces[i].addr \in Address
    <3> DEFINE I == [name : Text, addr : Address]
    <3>1. machine.ifaces \in Seq(I)
      BY <1>3 DEF Machine
    <3>2. \A i \in DOMAIN machine.ifaces : machine.ifaces[i] \in I
      <4> HIDE DEF I
      <4> QED BY <3>1
    <3> QED BY <3>2
  <2> HIDE DEF desired
  <2> QED BY <1>1, <1>3, <2>1, <2>2, FindIfaceIsFirst DEF Matches
<1>4. machine.ifaces = Failed => FindIface(iface, desired) = Panicked
  BY DEF FindIface
<1>5. get_iface_addr(iface, protocol) = IF iface = None THEN LocalAddr(desired)
                                         ELSE FindIface(iface, desired)
  BY DEF get_iface_addr
<1> HIDE DEF desired
<1> QED BY <1>2, <1>3, <1>4, <1>5, FailedAssumption DEF Errors

(* The merged settings of the client, each from the first layer that has it. *)
LEMMA ClientMerge ==
    ASSUME file \in Layer.client, env \in Layer.client, cfg = Merge(Default.client)
    PROVE  /\ cfg.default_server_url = Or(env.default_server_url, file.default_server_url)
           /\ cfg.default_bind = Or(env.default_bind, file.default_bind)
           /\ cfg.default_protocol = Or(env.default_protocol, file.default_protocol)
           /\ cfg.records = IF Or(env.records, file.records) = None THEN <<>>
                            ELSE Or(env.records, file.records)
           /\ cfg.default_server_url \in Option(STRING)
           /\ cfg.default_bind \in Option(Text)
           /\ cfg.default_protocol \in Option(Text)
           /\ cfg.records \in Seq(ClientRecordConfig)
<1>1. Default.client = [default_server_url |-> None, default_bind |-> None,
                        default_protocol |-> None, records |-> <<>>]
  BY DEF Default
<1>2. /\ cfg.default_server_url = Or(env.default_server_url, Or(file.default_server_url, None))
      /\ cfg.default_bind = Or(env.default_bind, Or(file.default_bind, None))
      /\ cfg.default_protocol = Or(env.default_protocol, Or(file.default_protocol, None))
      /\ cfg.records = Or(env.records, Or(file.records, <<>>))
  BY <1>1 DEF Merge
<1>3. \A layer \in {file, env} :
         /\ layer.default_server_url \in Option(STRING)
         /\ layer.default_bind \in Option(Text)
         /\ layer.default_protocol \in Option(Text)
         /\ layer.records \in Option(Seq(ClientRecordConfig))
  BY DEF Layer
<1> QED BY <1>2, <1>3 DEF Or, Option

(* The message for a record is a request or an error.                       *)
LEMMA MessageInType ==
    ASSUME machine \in Machine, NEW r \in ClientRecordConfig,
           cfg.default_server_url \in Option(STRING), cfg.default_bind \in Option(Text),
           cfg.default_protocol \in Option(Text)
    PROVE  /\ Message(r) \in UpsertRecordRequest \cup Errors
           /\ LET addr == get_iface_addr(Or(r.bind, cfg.default_bind),
                                         Or(r.protocol, cfg.default_protocol))
              IN  /\ addr \in Errors \/ Message(r) \in Errors => Message(r) = addr
                  /\ addr \notin Errors =>
                        /\ Message(r).value = addr
                        /\ Message(r).type = get_ip_addr_record_type(addr)
                        /\ Message(r).url = Or(Or(r.server_url, cfg.default_server_url),
                                               "http://127.0.0.1:8080")
<1> DEFINE addr == get_iface_addr(Or(r.bind, cfg.default_bind),
                                  Or(r.protocol, cfg.default_protocol))
           url == Or(Or(r.server_url, cfg.default_server_url), "http://127.0.0.1:8080")
<1>1. /\ Or(r.bind, cfg.default_bind) \in Option(Text)
      /\ Or(r.protocol, cfg.default_protocol) \in Option(Text)
  BY DEF ClientRecordConfig, Or
<1>2. addr \in Address \cup Errors
  BY <1>1, IfaceAddrType
<1>3. url \in STRING
  BY StringsAssumption DEF ClientRecordConfig, Or, Option
<1>4. Message(r) = IF addr \in Errors THEN addr
                   ELSE [type |-> MessageType(addr), value |-> addr, url |-> url]
  BY DEF Message
<1>5. ASSUME addr \notin Errors
      PROVE  /\ MessageType(addr) = get_ip_addr_record_type(addr)
             /\ MessageType(addr) \in {"A", "AAAA"}
  <2>1. addr.family \in {"ipv4", "ipv6"}
    <3> HIDE DEF addr
    <3> QED BY <1>2, <1>5 DEF Address, Families
  <2> HIDE DEF addr
  <2> QED BY <2>1 DEF MessageType, get_ip_addr_record_type
<1>6. addr \notin Errors => [type |-> MessageType(addr), value |-> addr, url |-> url]
                           \in UpsertRecordRequest
  <2> HIDE DEF addr, url
  <2> QED BY <1>2, <1>3, <1>5 DEF UpsertRecordRequest
<1> HIDE DEF addr, url
<1>7. /\ Message(r) \in UpsertRecordRequest \cup Errors
      /\ addr \in Errors \/ Message(r) \in Errors => Message(r) = addr
      /\ addr \notin Errors =>
            /\ Message(r).value = addr
            /\ Message(r).type = get_ip_addr_record_type(addr)
            /\ Message(r).url = url
  BY <1>4, <1>5, <1>6, FailedAssumption
<1> QED BY <1>7 DEF addr, url

(* The merged settings of the server.                                       *)
LEMMA ServerMerge ==
    ASSUME file \in Layer.server, env \in Layer.server, cfg = Merge(Default.server)
    PROVE  /\ cfg.bind \in Option(Text) /\ cfg.dns_port \in Port /\ cfg.api_port \in Port
           /\ cfg.nameservers \in Seq(NameserverText) /\ cfg.zones \in Seq(ZoneConfig)
<1>1. Default.server = [bind |-> None, dns_port |-> 1053, api_port |-> 8080,
                        nameservers |-> <<>>, zones |-> <<>>]
  BY DEF Default
<1>2. /\ cfg.bind = Or(env.bind, Or(file.bind, None))
      /\ cfg.dns_port = Or(env.dns_port, Or(file.dns_port, 1053))
      /\ cfg.api_port = Or(env.api_port, Or(file.api_port, 8080))
      /\ cfg.nameservers = Or(env.nameservers, Or(file.nameservers, <<>>))
      /\ cfg.zones = Or(env.zones, Or(file.zones, <<>>))
  BY <1>1 DEF Merge
<1>3. \A layer \in {file, env} :
         /\ layer.bind \in Option(Text)
         /\ layer.dns_port \in Option(Port)
         /\ layer.api_port \in Option(Port)
         /\ layer.nameservers \in Option(Seq(NameserverText))
         /\ layer.zones \in Option(Seq(ZoneConfig))
  BY DEF Layer
<1>4. 1053 \in Port /\ 8080 \in Port /\ <<>> \in Seq(NameserverText) /\ <<>> \in Seq(ZoneConfig)
  BY DEF Port
<1> QED BY <1>2, <1>3, <1>4 DEF Or, Option

(* Both servers look for the same IP.                                       *)
LEMMA ListenIpSame == \A bind : ListenIp(bind, None) = ListenIp(bind, Lower("ipv4"))
BY DEF ListenIp, get_iface_addr, Or

(* What a server listens on is an address or an error.                      *)
LEMMA ListenIpType ==
    ASSUME machine \in Machine, NEW bind \in Option(Text)
    PROVE  ListenIp(bind, None) \in Address \cup Errors
<1>1. get_iface_addr(bind, None) \in Address \cup Errors
  BY IfaceAddrType DEF Option
<1>2. [id |-> "any", family |-> "ipv4"] \in Address
  BY StringsAssumption DEF Address, Families
<1>3. Or(None, Lower("ipv4")) = Lower("ipv4") /\ Lower("ipv4").word = "ipv4"
  BY DEF Or, Lower
<1> QED BY <1>1, <1>2, <1>3 DEF ListenIp, Errors

(* The addresses that the servers listen on, and why there may be none: the *)
(* interfaces are not listed, or the one of `bind' has no IPv4 address.     *)
LEMMA SocketAddrs ==
    ASSUME machine \in Machine, cfg.bind \in Option(Text), cfg.dns_port \in Port,
           cfg.api_port \in Port
    PROVE  LET ip == ListenIp(cfg.bind, None)
           IN  /\ DnsAddr = IF ip \in Errors THEN ip ELSE [ip |-> ip, port |-> cfg.dns_port]
               /\ RpcAddr = IF ip \in Errors THEN ip ELSE [ip |-> ip, port |-> cfg.api_port]
               /\ DnsAddr \in Errors <=> ip \in Errors
               /\ RpcAddr \in Errors <=> ip \in Errors
               /\ ip = Panicked <=> NotListed
               /\ ip = Failed <=> NoIpv4
<1> DEFINE ip == ListenIp(cfg.bind, None)
<1>1. ip \in Address \cup Errors
  BY ListenIpType
<1>2. /\ DnsAddr = IF ip \in Errors THEN ip ELSE [ip |-> ip, port |-> cfg.dns_port]
      /\ RpcAddr = IF ip \in Errors THEN ip ELSE [ip |-> ip, port |-> cfg.api_port]
  BY ListenIpSame DEF DnsAddr, RpcAddr, get_socket_addr
<1>3. ASSUME ip \notin Errors, NEW p \in Port PROVE [ip |-> ip, port |-> p] \notin Errors
  <2> HIDE DEF ip
  <2> QED BY <1>1, <1>3, FailedAssumption DEF Errors
<1>4. (DnsAddr \in Errors <=> ip \in Errors) /\ (RpcAddr \in Errors <=> ip \in Errors)
  <2> HIDE DEF ip
  <2> QED BY <1>2, <1>3
<1>5. ip = IF cfg.bind = None THEN [id |-> "any", family |-> "ipv4"]
           ELSE FindIface(cfg.bind, Lower("ipv4"))
  BY DEF ListenIp, get_iface_addr, Or, Lower, Families
<1>6. [id |-> "any", family |-> "ipv4"] \in Address
  BY StringsAssumption DEF Address, Families
<1>7. Lower("ipv4") \in Text /\ Lower("ipv4").word = "ipv4"
  BY StringsAssumption DEF Lower, Text
<1>8. (ip = Panicked <=> NotListed) /\ (ip = Failed <=> NoIpv4)
  <2>1. CASE cfg.bind = None
    BY <1>5, <1>6, <2>1, FailedAssumption DEF NotListed, NoIpv4, Errors
  <2>2. CASE cfg.bind # None /\ machine.ifaces = Failed
    BY <1>5, <2>2, FailedAssumption DEF NotListed, NoIpv4, FindIface
  <2>3. CASE cfg.bind # None /\ machine.ifaces # Failed
    <3> DEFINE M == Matches(cfg.bind, Lower("ipv4"))
    <3>1. IF M = {} THEN ip = Failed ELSE \E i \in M : ip = machine.ifaces[i].addr
      BY <1>5, <1>7, <2>3, FindIfaceIsFirst DEF Option
    <3>2. \A i \in DOMAIN machine.ifaces : machine.ifaces[i].addr \in Address
      <4> DEFINE I == [name : Text, addr : Address]
      <4>1. machine.ifaces \in Seq(I)
        BY <2>3 DEF Machine
      <4>2. \A i \in DOMAIN machine.ifaces : machine.ifaces[i] \in I
        <5> HIDE DEF I
        <5> QED BY <4>1
      <4> QED BY <4>2
    <3>3. M \subseteq DOMAIN machine.ifaces
      BY DEF Matches
    <3>4. M = {} <=> NoIpv4
      BY <1>7, <2>3 DEF Matches, NoIpv4
    <3>5. ~NotListed
      BY <2>3 DEF NotListed
    <3>6. Failed \notin Address /\ Panicked \notin Address /\ Failed # Panicked
      BY FailedAssumption DEF Errors
    <3> HIDE DEF M, ip
    <3> QED BY <3>1, <3>2, <3>3, <3>4, <3>5, <3>6
  <2> QED BY <2>1, <2>2, <2>3
<1> QED BY <1>2, <1>4, <1>8 DEF ip

-----------------------------------------------------------------------------
(***************************************************************************)
(* The inductive invariant.                                                *)
(***************************************************************************)
InputInv ==
    /\ program \in {"client", "server"}
    /\ file \in Layer[program] /\ env \in Layer[program]
    /\ machine \in Machine
    /\ cfg # None => cfg = Merge(Default[program])

\* What was sent is what the configuration says.
MessagesInv ==
    /\ sent \in Seq(UpsertRecordRequest \cup Errors)
    /\ sent # <<>> => program = "client" /\ cfg # None
    /\ \A i \in DOMAIN sent : i \in DOMAIN cfg.records /\ sent[i] = Message(cfg.records[i])

\* Who has which address, and why a server is not there.
ListenInv ==
    /\ dns \in {"starting", "listening", "failed", "aborted"}
    /\ rpc \in {"starting", "listening", "failed", "aborted"}
    /\ (dns # "starting" \/ rpc # "starting") => ServerLoaded
    /\ \A a \in bound : \/ dns = "listening" /\ a = DnsAddr
                        \/ rpc = "listening" /\ a = RpcAddr
    /\ dns = "listening" => ZonesLoaded /\ upstream = Parsed /\ DnsAddr \notin Errors
    /\ dns = "failed" =>
          \/ ~ZonesLoaded \/ DnsAddr = Failed
          \/ Refused("udp", cfg.dns_port) \/ Refused("tcp", cfg.dns_port) \/ PortTaken(rpc)
    /\ dns = "aborted" => DnsAddr = Panicked
    /\ rpc = "failed" => Refused("tcp", cfg.api_port) \/ PortTaken(dns)
    /\ rpc = "aborted" => RpcAddr \in Errors

SettingsInv == InputInv /\ MessagesInv /\ ListenInv

(* The programs start in a state of the invariant.                          *)
LEMMA SettingsInit == Init => SettingsInv
<1> SUFFICES ASSUME Init PROVE SettingsInv
  OBVIOUS
<1>1. InputInv
  BY LayersAssumption, MachinesAssumption DEF Init, InputInv
<1>2. MessagesInv
  BY DEF Init, MessagesInv
<1>3. ListenInv
  BY DEF Init, ListenInv
<1> QED BY <1>1, <1>2, <1>3 DEF SettingsInv

(* What depends on configuration and machine only.                          *)
LEMMA SameCfg ==
    ASSUME UNCHANGED <<cfg, machine>>
    PROVE  /\ \A r : Message(r)' = Message(r)
           /\ DnsAddr' = DnsAddr /\ RpcAddr' = RpcAddr /\ Parsed' = Parsed
           /\ ZonesLoaded' = ZonesLoaded
<1>1. \A i, p : get_iface_addr(i, p)' = get_iface_addr(i, p)
  BY DEF get_iface_addr, LocalAddr, FindIface, SelectInSeq
<1>2. \A r : Message(r)' = Message(r)
  BY <1>1 DEF Message
<1>3. \A i, p : ListenIp(i, p)' = ListenIp(i, p)
  BY <1>1 DEF ListenIp
<1>4. DnsAddr' = DnsAddr /\ RpcAddr' = RpcAddr
  BY <1>3 DEF DnsAddr, RpcAddr, get_socket_addr
<1>5. Parsed' = Parsed
  BY DEF Parsed, ToSet
<1>6. ZonesLoaded' = ZonesLoaded
  BY <1>5 DEF ZonesLoaded, ZoneParses, ToSet
<1> QED BY <1>2, <1>4, <1>5, <1>6

(* The configuration, once loaded, stays as it is.                          *)
LEMMA InputStep ==
    ASSUME InputInv, UNCHANGED <<input, cfg>>
    PROVE  InputInv'
BY DEF InputInv, input, Merge

(* The next message is the one of the next record.                          *)
LEMMA UpdateRecordInv ==
    ASSUME SettingsInv, UpdateRecord
    PROVE  SettingsInv'
<1>0. UNCHANGED <<input, cfg, server>>
  BY DEF UpdateRecord
<1>1. InputInv'
  BY <1>0, InputStep DEF SettingsInv
<1>2. program = "client" /\ cfg # None /\ Len(sent) < Len(cfg.records)
  BY DEF UpdateRecord
<1>3. machine \in Machine /\ cfg = Merge(Default.client)
      /\ file \in Layer.client /\ env \in Layer.client
  BY <1>2 DEF SettingsInv, InputInv
<1>4. /\ cfg.default_server_url \in Option(STRING) /\ cfg.default_bind \in Option(Text)
      /\ cfg.default_protocol \in Option(Text) /\ cfg.records \in Seq(ClientRecordConfig)
  BY <1>3, ClientMerge
<1> DEFINE R == UpsertRecordRequest \cup Errors
           k == Len(sent) + 1
<1>5. sent \in Seq(R)
  BY DEF SettingsInv, MessagesInv
<1>6. k \in DOMAIN cfg.records /\ cfg.records[k] \in ClientRecordConfig
  <2> HIDE DEF R
  <2> QED BY <1>2, <1>4, <1>5
<1>7. Message(cfg.records[k]) \in R
  BY <1>3, <1>4, <1>6, MessageInType
<1>8. sent' = Append(sent, Message(cfg.records[k]))
  BY DEF UpdateRecord
<1>9. /\ sent' \in Seq(R) /\ DOMAIN sent' = 1..k
      /\ \A i \in 1..Len(sent) : sent'[i] = sent[i]
      /\ sent'[k] = Message(cfg.records[k])
  <2> HIDE DEF R
  <2> QED BY <1>5, <1>7, <1>8
<1>10. \A i \in DOMAIN sent' : i \in DOMAIN cfg.records /\ sent'[i] = Message(cfg.records[i])
  <2>1. \A i \in DOMAIN sent : i \in DOMAIN cfg.records /\ sent[i] = Message(cfg.records[i])
    BY DEF SettingsInv, MessagesInv
  <2>2. DOMAIN sent = 1..Len(sent) /\ Len(sent) \in Nat
    <3> HIDE DEF R
    <3> QED BY <1>5
  <2> QED BY <1>6, <1>9, <2>1, <2>2
<1>11. MessagesInv'
  <2>1. cfg' = cfg /\ machine' = machine /\ program' = program
    BY <1>0 DEF input
  <2> QED BY <1>2, <1>9, <1>10, <2>1, SameCfg DEF MessagesInv
<1>12. ListenInv'
  <2>1. UNCHANGED <<cfg, machine, program, dns, rpc, bound, upstream>>
    BY <1>0 DEF input, server
  <2> QED BY <2>1, SameCfg DEF SettingsInv, ListenInv, ServerLoaded, PortTaken, Refused
<1> QED BY <1>1, <1>11, <1>12 DEF SettingsInv

(* A step of one server: it has its address to itself, or a reason to fail. *)
LEMMA ListenStep ==
    ASSUME SettingsInv, ListenDns \/ ListenRpc
    PROVE  SettingsInv'
<1>0. UNCHANGED <<input, cfg, sent>> /\ program = "server" /\ cfg # None
  BY DEF ListenDns, ListenRpc
<1>1. InputInv'
  BY <1>0, InputStep DEF SettingsInv
<1>2. UNCHANGED <<cfg, machine, program>>
  BY <1>0 DEF input
<1>3. MessagesInv'
  BY <1>0, <1>2, SameCfg DEF SettingsInv, MessagesInv
<1>4. /\ DnsAddr' = DnsAddr /\ RpcAddr' = RpcAddr /\ Parsed' = Parsed /\ ServerLoaded'
      /\ ZonesLoaded' = ZonesLoaded
  BY <1>0, <1>2, SameCfg DEF ServerLoaded
<1>5. /\ DnsAddr \notin Errors => DnsAddr.port = cfg.dns_port
      /\ RpcAddr \notin Errors => RpcAddr.port = cfg.api_port
  <2>1. machine \in Machine /\ cfg = Merge(Default.server)
        /\ file \in Layer.server /\ env \in Layer.server
    BY <1>0 DEF SettingsInv, InputInv
  <2>2. cfg.bind \in Option(Text) /\ cfg.dns_port \in Port /\ cfg.api_port \in Port
    BY <2>1, ServerMerge
  <2> DEFINE ip == ListenIp(cfg.bind, None)
  <2>3. /\ DnsAddr = IF ip \in Errors THEN ip ELSE [ip |-> ip, port |-> cfg.dns_port]
        /\ RpcAddr = IF ip \in Errors THEN ip ELSE [ip |-> ip, port |-> cfg.api_port]
        /\ DnsAddr \in Errors <=> ip \in Errors
        /\ RpcAddr \in Errors <=> ip \in Errors
    BY <2>1, <2>2, SocketAddrs
  <2> HIDE DEF ip
  <2> QED BY <2>3
<1>6. ListenInv
  BY DEF SettingsInv
<1>r. \A t, p : Refused(t, p)' = Refused(t, p)
  BY <1>2 DEF Refused
<1>7. CASE ListenDns
  <2>0. dns = "starting" /\ UNCHANGED rpc /\ dns' = DnsOutcome
    BY <1>7 DEF ListenDns
  <2>1. \A a \in bound' : \/ dns' = "listening" /\ a = DnsAddr
                          \/ rpc' = "listening" /\ a = RpcAddr
    BY <1>6, <1>7, <2>0 DEF ListenDns, ListenInv
  <2>2. dns' \in {"listening", "failed", "aborted"} /\ (dns' = "listening" => upstream' = Parsed)
    BY <1>7 DEF ListenDns, DnsOutcome
  <2>3. dns' = "listening" => ZonesLoaded /\ DnsAddr \notin Errors
    BY <2>0 DEF DnsOutcome, Errors
  <2>4. dns' = "aborted" => DnsAddr = Panicked
    BY <2>0 DEF DnsOutcome
  <2>5. dns' = "failed" =>
          \/ ~ZonesLoaded \/ DnsAddr = Failed
          \/ Refused("udp", cfg.dns_port) \/ Refused("tcp", cfg.dns_port) \/ PortTaken(rpc)
    <3> SUFFICES ASSUME dns' = "failed", ZonesLoaded, DnsAddr # Failed
                 PROVE  \/ Refused("udp", cfg.dns_port) \/ Refused("tcp", cfg.dns_port)
                        \/ PortTaken(rpc)
      OBVIOUS
    <3>1. DnsAddr \notin Errors /\ (~CanBind("udp", DnsAddr) \/ ~CanBind("tcp", DnsAddr))
      BY <2>0 DEF DnsOutcome, Errors
    <3>2. DnsAddr.port = cfg.dns_port
      BY <1>5, <3>1
    <3>3. DnsAddr.port # 0 /\ \/ Refused("udp", cfg.dns_port) \/ Refused("tcp", cfg.dns_port)
                              \/ DnsAddr \in bound
      BY <3>1, <3>2 DEF CanBind, Refused
    <3>4. DnsAddr \in bound => PortTaken(rpc)
      BY <1>5, <1>6, <2>0, <3>1, <3>2, <3>3 DEF ListenInv, PortTaken
    <3> QED BY <3>3, <3>4
  <2>6. PortTaken(rpc)' = PortTaken(rpc)
    BY <1>2, <2>0 DEF PortTaken
  <2>7. rpc = "failed" => Refused("tcp", cfg.api_port) \/ PortTaken(dns)'
    BY <1>6, <2>0 DEF ListenInv, PortTaken
  <2>8. ListenInv'
    BY <1>2, <1>4, <1>6, <1>r, <2>0, <2>1, <2>2, <2>3, <2>4, <2>5, <2>6, <2>7 DEF ListenInv
  <2> QED BY <1>1, <1>3, <2>8 DEF SettingsInv
<1>8. CASE ListenRpc
  <2>0. rpc = "starting" /\ UNCHANGED <<dns, upstream>> /\ rpc' = RpcOutcome
    BY <1>8 DEF ListenRpc
  <2>1. \A a \in bound' : \/ dns' = "listening" /\ a = DnsAddr
                          \/ rpc' = "listening" /\ a = RpcAddr
    BY <1>6, <1>8, <2>0 DEF ListenRpc, ListenInv
  <2>2. rpc' \in {"listening", "failed", "aborted"}
    BY <2>0 DEF RpcOutcome
  <2>3. rpc' = "aborted" => RpcAddr \in Errors
    BY <2>0 DEF RpcOutcome
  <2>4. rpc' = "failed" => Refused("tcp", cfg.api_port) \/ PortTaken(dns)
    <3> SUFFICES ASSUME rpc' = "failed" PROVE Refused("tcp", cfg.api_port) \/ PortTaken(dns)
      OBVIOUS
    <3>1. RpcAddr \notin Errors /\ ~CanBind("tcp", RpcAddr)
      BY <2>0 DEF RpcOutcome
    <3>2. RpcAddr.port = cfg.api_port
      BY <1>5, <3>1
    <3>3. RpcAddr.port # 0 /\ (Refused("tcp", cfg.api_port) \/ RpcAddr \in bound)
      BY <3>1, <3>2 DEF CanBind, Refused
    <3>4. RpcAddr \in bound => PortTaken(dns)
      BY <1>5, <1>6, <2>0, <3>1, <3>2, <3>3 DEF ListenInv, PortTaken
    <3> QED BY <3>3, <3>4
  <2>5. PortTaken(dns)' = PortTaken(dns)
    BY <1>2, <2>0 DEF PortTaken
  <2>6. dns = "failed" =>
          \/ ~ZonesLoaded \/ DnsAddr = Failed
          \/ Refused("udp", cfg.dns_port) \/ Refused("tcp", cfg.dns_port)
    BY <1>6, <2>0 DEF ListenInv, PortTaken
  <2>7. ListenInv'
    BY <1>2, <1>4, <1>6, <1>r, <2>0, <2>1, <2>2, <2>3, <2>4, <2>5, <2>6 DEF ListenInv
  <2> QED BY <1>1, <1>3, <2>7 DEF SettingsInv
<1> QED BY <1>7, <1>8

(* SettingsInv holds in every reachable state.                              *)
THEOREM SettingsInvariant == Spec => []SettingsInv
<1>1. SettingsInv /\ [Next]_vars => SettingsInv'
  <2> SUFFICES ASSUME SettingsInv, [Next]_vars PROVE SettingsInv'
    OBVIOUS
  <2>1. CASE LoadConfig
    <3>1. /\ cfg = None /\ cfg' = Merge(Default[program])
          /\ UNCHANGED <<program, file, env, machine, sent, dns, rpc, bound, upstream>>
      BY <2>1 DEF LoadConfig, input, server
    <3>2. InputInv'
      BY <3>1 DEF SettingsInv, InputInv, Merge
    <3>3. sent = <<>> /\ dns = "starting" /\ rpc = "starting" /\ bound = {}
      BY <3>1 DEF SettingsInv, MessagesInv, ListenInv, ServerLoaded
    <3>4. MessagesInv'
      BY <3>1, <3>3 DEF SettingsInv, MessagesInv
    <3>5. ListenInv'
      BY <3>1, <3>3 DEF ListenInv
    <3> QED BY <3>2, <3>4, <3>5 DEF SettingsInv
  <2>2. CASE UpdateRecord
    BY <2>2, UpdateRecordInv
  <2>3. CASE ListenDns \/ ListenRpc
    BY <2>3, ListenStep
  <2>4. CASE UNCHANGED vars
    <3>1. UNCHANGED <<program, file, env, machine, cfg, sent, dns, rpc, bound, upstream>>
      BY <2>4 DEF vars, input, server
    <3>2. InputInv'
      BY <3>1 DEF SettingsInv, InputInv, Merge
    <3>3. MessagesInv' /\ ListenInv'
      BY <3>1, SameCfg DEF SettingsInv, MessagesInv, ListenInv, ServerLoaded, PortTaken, Refused
    <3> QED BY <3>2, <3>3 DEF SettingsInv
  <2> QED BY <2>1, <2>2, <2>3, <2>4 DEF Next
<1> QED BY <1>1, SettingsInit, PTL DEF Spec

-----------------------------------------------------------------------------
(***************************************************************************)
(* The properties.                                                         *)
(***************************************************************************)
(* The message that was sent for a record, in the words of its properties.  *)
LEMMA SentAsAsked ==
    ASSUME SettingsInv, NEW i \in DOMAIN sent
    PROVE  /\ Bind(i) \in Option(Text)
           /\ Asked(i, "protocol", "default_protocol") \in Option(Text)
           /\ LET addr == get_iface_addr(Bind(i), Asked(i, "protocol", "default_protocol"))
              IN  /\ addr \in Errors \/ sent[i] \in Errors => sent[i] = addr
                  /\ addr \notin Errors =>
                        /\ sent[i].value = addr
                        /\ sent[i].type = get_ip_addr_record_type(addr)
                        /\ sent[i].url = Or(Asked(i, "server_url", "default_server_url"),
                                            "http://127.0.0.1:8080")
<1>1. /\ program = "client" /\ cfg # None
      /\ i \in DOMAIN cfg.records /\ sent[i] = Message(cfg.records[i])
  BY DEF SettingsInv, MessagesInv
<1>2. machine \in Machine /\ cfg = Merge(Default.client)
      /\ file \in Layer.client /\ env \in Layer.client
  BY <1>1 DEF SettingsInv, InputInv
<1>3. /\ cfg.default_server_url = Or(env.default_server_url, file.default_server_url)
      /\ cfg.default_bind = Or(env.default_bind, file.default_bind)
      /\ cfg.default_protocol = Or(env.default_protocol, file.default_protocol)
      /\ cfg.records = IF Or(env.records, file.records) = None THEN <<>>
                       ELSE Or(env.records, file.records)
      /\ cfg.default_server_url \in Option(STRING)
      /\ cfg.default_bind \in Option(Text)
      /\ cfg.default_protocol \in Option(Text)
      /\ cfg.records \in Seq(ClientRecordConfig)
  BY <1>2, ClientMerge
<1> DEFINE r == cfg.records[i]
<1>4. r \in ClientRecordConfig
  BY <1>1, <1>3
<1>5. cfg.records = Records
  BY <1>1, <1>3, FirstOfTwo DEF Records
<1>6. /\ Bind(i) = Or(r.bind, cfg.default_bind)
      /\ Asked(i, "protocol", "default_protocol") = Or(r.protocol, cfg.default_protocol)
      /\ Asked(i, "server_url", "default_server_url") =
             Or(r.server_url, cfg.default_server_url)
  BY <1>3, <1>5, FirstOfThree DEF Bind, Asked
<1>7. /\ Or(r.bind, cfg.default_bind) \in Option(Text)
      /\ Or(r.protocol, cfg.default_protocol) \in Option(Text)
  BY <1>3, <1>4 DEF ClientRecordConfig, Or
<1> HIDE DEF r
<1> QED BY <1>1, <1>2, <1>3, <1>4, <1>6, <1>7, MessageInType DEF r

(* What get_iface_addr looks for is what the record asks for.               *)
LEMMA AddressOfRecord ==
    ASSUME machine \in Machine, NEW i, Bind(i) \in Option(Text),
           Asked(i, "protocol", "default_protocol") \in Option(Text)
    PROVE  LET addr == get_iface_addr(Bind(i), Asked(i, "protocol", "default_protocol"))
           IN  /\ Bind(i) = None =>
                     addr = IF Protocol(i) \in Families THEN machine.local[Protocol(i)]
                            ELSE Failed
               /\ Bind(i) # None /\ machine.ifaces = Failed => addr = Panicked
               /\ Bind(i) # None /\ machine.ifaces # Failed /\ Candidates(i) = {} => addr = Failed
               /\ Bind(i) # None /\ machine.ifaces # Failed /\ Candidates(i) # {} =>
                     \E j \in Candidates(i) : /\ addr = machine.ifaces[j].addr
                                              /\ \A k \in Candidates(i) : j <= k
<1> DEFINE asked == Asked(i, "protocol", "default_protocol")
           desired == Or(asked, Lower("ipv4"))
<1>1. desired \in Text
  <2>1. Lower("ipv4") \in Text
    BY StringsAssumption DEF Lower, Text
  <2>2. asked # None => asked \in Text
    BY DEF Option
  <2> HIDE DEF asked
  <2> QED BY <2>1, <2>2 DEF Or
<1>2. Protocol(i) = desired.word
  BY DEF Protocol, Or, Lower
<1>3. Bind(i) # None => Bind(i) \in Text
  BY DEF Option
<1>4. get_iface_addr(Bind(i), asked) =
          IF Bind(i) = None THEN LocalAddr(desired) ELSE FindIface(Bind(i), desired)
  BY DEF get_iface_addr
<1>5. Candidates(i) = Matches(Bind(i), desired)
  BY <1>2 DEF Candidates, Matches
<1> HIDE DEF asked, desired
<1>6. Bind(i) = None => get_iface_addr(Bind(i), asked) =
          IF Protocol(i) \in Families THEN machine.local[Protocol(i)] ELSE Failed
  BY <1>2, <1>4 DEF LocalAddr
<1>7. ASSUME Bind(i) # None, machine.ifaces # Failed
      PROVE  IF Candidates(i) = {} THEN get_iface_addr(Bind(i), asked) = Failed
             ELSE \E j \in Candidates(i) :
                     /\ \A k \in Candidates(i) : j <= k
                     /\ get_iface_addr(Bind(i), asked) = machine.ifaces[j].addr
  BY <1>1, <1>3, <1>4, <1>5, <1>7, FindIfaceIsFirst
<1>8. Bind(i) # None /\ machine.ifaces = Failed => get_iface_addr(Bind(i), asked) = Panicked
  BY <1>4 DEF FindIface
<1> QED BY <1>6, <1>7, <1>8 DEF asked

(* Every message carries the address, the URL and the type that its         *)
(* configuration asks for.                                                  *)
THEOREM ClientSendsWhatIsConfigured == Spec => []AddressAsConfigured
<1>1. SettingsInv => AddressAsConfigured
  <2> SUFFICES ASSUME SettingsInv, NEW i \in DOMAIN sent, sent[i] \notin Errors
               PROVE  /\ IF Bind(i) = None THEN sent[i].value = machine.local[Protocol(i)]
                         ELSE \E j \in Candidates(i) :
                                 /\ sent[i].value = machine.ifaces[j].addr
                                 /\ \A k \in Candidates(i) : j <= k
                      /\ Asked(i, "server_url", "default_server_url")
                             \in {None, sent[i].url}
                      /\ sent[i].type = get_ip_addr_record_type(sent[i].value)
    BY DEF AddressAsConfigured
  <2> DEFINE addr == get_iface_addr(Bind(i), Asked(i, "protocol", "default_protocol"))
  <2>1. machine \in Machine
    BY DEF SettingsInv, InputInv
  <2>2. /\ addr \notin Errors /\ sent[i].value = addr
        /\ sent[i].type = get_ip_addr_record_type(addr)
        /\ sent[i].url = Or(Asked(i, "server_url", "default_server_url"),
                            "http://127.0.0.1:8080")
    BY SentAsAsked
  <2>3. Bind(i) \in Option(Text) /\ Asked(i, "protocol", "default_protocol") \in Option(Text)
    BY SentAsAsked
  <2>4. /\ Bind(i) = None =>
              addr = IF Protocol(i) \in Families THEN machine.local[Protocol(i)] ELSE Failed
        /\ Bind(i) # None /\ machine.ifaces = Failed => addr = Panicked
        /\ Bind(i) # None /\ machine.ifaces # Failed /\ Candidates(i) = {} => addr = Failed
        /\ Bind(i) # None /\ machine.ifaces # Failed /\ Candidates(i) # {} =>
              \E j \in Candidates(i) : /\ addr = machine.ifaces[j].addr
                                       /\ \A k \in Candidates(i) : j <= k
    BY <2>1, <2>3, AddressOfRecord
  <2> HIDE DEF addr
  <2>5. Asked(i, "server_url", "default_server_url") \in {None, sent[i].url}
    BY <2>2 DEF Or
  <2> QED BY <2>2, <2>4, <2>5 DEF Errors
<1> QED BY <1>1, SettingsInvariant, PTL

(* A record is given up only for want of an address, and the client dies    *)
(* only if the interfaces cannot be listed.                                 *)
THEOREM ClientFailsForACause == Spec => []FailureHasCause
<1>1. SettingsInv => FailureHasCause
  <2> SUFFICES ASSUME SettingsInv, NEW i \in DOMAIN sent
               PROVE  /\ sent[i] = Failed =>
                            \/ Protocol(i) \notin Families
                            \/ IF Bind(i) = None THEN machine.local[Protocol(i)] = Failed
                               ELSE machine.ifaces # Failed /\ Candidates(i) = {}
                      /\ sent[i] = Panicked => Bind(i) # None /\ machine.ifaces = Failed
    BY DEF FailureHasCause
  <2> DEFINE addr == get_iface_addr(Bind(i), Asked(i, "protocol", "default_protocol"))
  <2>1. machine \in Machine
    BY DEF SettingsInv, InputInv
  <2>2. sent[i] \in Errors => sent[i] = addr
    BY SentAsAsked
  <2>3. Bind(i) \in Option(Text) /\ Asked(i, "protocol", "default_protocol") \in Option(Text)
    BY SentAsAsked
  <2>4. /\ Bind(i) = None =>
              addr = IF Protocol(i) \in Families THEN machine.local[Protocol(i)] ELSE Failed
        /\ Bind(i) # None /\ machine.ifaces = Failed => addr = Panicked
        /\ Bind(i) # None /\ machine.ifaces # Failed /\ Candidates(i) # {} =>
              \E j \in Candidates(i) : addr = machine.ifaces[j].addr
    BY <2>1, <2>3, AddressOfRecord
  <2>5. ASSUME machine.ifaces # Failed
        PROVE  \A j \in Candidates(i) : machine.ifaces[j].addr \in Address
    <3> DEFINE I == [name : Text, addr : Address]
    <3>1. machine.ifaces \in Seq(I)
      BY <2>1, <2>5 DEF Machine
    <3>2. \A j \in DOMAIN machine.ifaces : machine.ifaces[j] \in I
      <4> HIDE DEF I
      <4> QED BY <3>1
    <3> QED BY <3>2 DEF Candidates
  <2>6. Failed \notin Address /\ Panicked \notin Address /\ Failed # Panicked
    BY FailedAssumption DEF Errors
  <2>7. addr = Panicked => Bind(i) # None /\ machine.ifaces = Failed
    BY <2>1, <2>3, IfaceAddrType
  <2> HIDE DEF addr
  <2>8. ASSUME sent[i] = Failed
        PROVE  \/ Protocol(i) \notin Families
               \/ IF Bind(i) = None THEN machine.local[Protocol(i)] = Failed
                  ELSE machine.ifaces # Failed /\ Candidates(i) = {}
    BY <2>2, <2>4, <2>5, <2>6, <2>8 DEF Errors
  <2> QED BY <2>2, <2>7, <2>8 DEF Errors
<1> QED BY <1>1, SettingsInvariant, PTL

(* The settings of a server that has been configured.                       *)
LEMMA ServerSettings ==
    ASSUME SettingsInv, ServerLoaded
    PROVE  /\ machine \in Machine /\ cfg.bind \in Option(Text)
           /\ cfg.dns_port \in Port /\ cfg.api_port \in Port
           /\ cfg.nameservers \in Seq(NameserverText) /\ cfg.zones \in Seq(ZoneConfig)
<1>1. machine \in Machine /\ cfg = Merge(Default.server)
      /\ file \in Layer.server /\ env \in Layer.server
  BY DEF SettingsInv, InputInv, ServerLoaded
<1> QED BY <1>1, ServerMerge

(* What the nameservers of the configuration are parsed to.                 *)
LEMMA ParsedNameservers ==
    ASSUME cfg.nameservers \in Seq(NameserverText)
    PROVE  /\ Failed \in Parsed <=> BadNameserver
           /\ (Failed \notin Parsed /\ cfg.zones # <<>>) =>
                 \A n \in ToSet(cfg.nameservers) : \E u \in Parsed :
                     /\ u.ip = n.ip
                     /\ u.port = IF n.form = "socket" THEN n.port ELSE 53
<1> DEFINE Servers == ToSet(cfg.nameservers)
           Sockets == [ip : Address, port : Port]
<1>1. Servers \subseteq NameserverText
  <2> HIDE DEF NameserverText
  <2> QED BY DEF ToSet
<1>2. \A n \in NameserverText :
         \/ n.form = "ip" /\ n.ip \in Address
         \/ n.form = "socket" /\ n.ip \in Address /\ n.port \in Port
         \/ n.form = "text"
  BY DEF NameserverText
<1>3. \A n \in NameserverText : n.form # "text" =>
         /\ parse_ip_optional_socket(n, 53) \in Sockets
         /\ parse_ip_optional_socket(n, 53).ip = n.ip
         /\ parse_ip_optional_socket(n, 53).port = IF n.form = "socket" THEN n.port ELSE 53
  <2>1. 53 \in Port
    BY DEF Port
  <2> QED BY <1>2, <2>1 DEF parse_ip_optional_socket
<1>4. \A n \in NameserverText : n.form = "text" => parse_ip_optional_socket(n, 53) = Failed
  BY DEF parse_ip_optional_socket
<1>5. Parsed = {parse_ip_optional_socket(n, 53) : n \in IF cfg.zones = <<>> THEN {} ELSE Servers}
  BY DEF Parsed
<1>6. Failed \notin Sockets
  BY FailedAssumption DEF Errors
<1> HIDE DEF Servers, Sockets
<1>7. Failed \in Parsed <=> cfg.zones # <<>> /\ \E n \in Servers : n.form = "text"
  BY <1>1, <1>3, <1>4, <1>5, <1>6
<1>9. BadNameserver <=> cfg.zones # <<>> /\ \E n \in Servers : n.form = "text"
  BY DEF BadNameserver, Servers, ToSet
<1>8. ASSUME Failed \notin Parsed, cfg.zones # <<>>, NEW n \in Servers
      PROVE  \E u \in Parsed : /\ u.ip = n.ip
                               /\ u.port = IF n.form = "socket" THEN n.port ELSE 53
  <2>1. parse_ip_optional_socket(n, 53) \in Parsed
    BY <1>5, <1>8
  <2> QED BY <1>1, <1>3, <1>4, <1>8, <2>1
<1> QED BY <1>7, <1>8, <1>9 DEF Servers

(* A zone that does not load is one whose name, key or value is bad.        *)
LEMMA BadZones ==
    ASSUME cfg.zones \in Seq(ZoneConfig)
    PROVE  BadZone <=> ~\A z \in ToSet(cfg.zones) : ZoneParses(z)
<1> DEFINE R == [key : Syntax, value : Syntax]
<1>1. ASSUME NEW i \in DOMAIN cfg.zones
      PROVE  cfg.zones[i].name \in Syntax /\ cfg.zones[i].records \in Seq(R)
  <2>1. cfg.zones[i] \in ZoneConfig
    <3> HIDE DEF ZoneConfig
    <3> QED BY <1>1
  <2> QED BY <2>1 DEF ZoneConfig
<1>2. ASSUME NEW i \in DOMAIN cfg.zones, NEW j \in DOMAIN cfg.zones[i].records
      PROVE  /\ cfg.zones[i].records[j].key \in Syntax
             /\ cfg.zones[i].records[j].value \in Syntax
  <2>1. cfg.zones[i].records[j] \in R
    <3> HIDE DEF R
    <3> QED BY <1>1, <1>2
  <2> QED BY <2>1
<1>3. ASSUME NEW i \in DOMAIN cfg.zones
      PROVE  ZoneParses(cfg.zones[i]) <=>
                /\ cfg.zones[i].name # "bad"
                /\ \A j \in DOMAIN cfg.zones[i].records :
                      /\ cfg.zones[i].records[j].key # "bad"
                      /\ cfg.zones[i].records[j].value # "bad"
  BY <1>1, <1>2 DEF ZoneParses, ToSet, Syntax
<1> HIDE DEF R
<1>4. (\A z \in ToSet(cfg.zones) : ZoneParses(z)) <=>
          \A i \in DOMAIN cfg.zones : ZoneParses(cfg.zones[i])
  BY DEF ToSet
<1> QED BY <1>3, <1>4 DEF BadZone

(* A server that does not come up has a reason, which decides whether the   *)
(* process ends, and a DNS server that does come up has loaded every zone   *)
(* and forwards to all nameservers.                                         *)
THEOREM ServerComesUp == Spec => []ComesUpAsConfigured
<1>1. SettingsInv => ComesUpAsConfigured
  <2> SUFFICES ASSUME SettingsInv PROVE ComesUpAsConfigured
    OBVIOUS
  <2>1. CASE dns = "starting" /\ rpc = "starting"
    BY <2>1 DEF ComesUpAsConfigured
  <2>2. CASE ServerLoaded
    <3>1. /\ machine \in Machine /\ cfg.bind \in Option(Text)
          /\ cfg.dns_port \in Port /\ cfg.api_port \in Port
          /\ cfg.nameservers \in Seq(NameserverText) /\ cfg.zones \in Seq(ZoneConfig)
      BY <2>2, ServerSettings
    <3>2. /\ Failed \in Parsed <=> BadNameserver
          /\ (Failed \notin Parsed /\ cfg.zones # <<>>) =>
                 \A n \in ToSet(cfg.nameservers) : \E u \in Parsed :
                     /\ u.ip = n.ip
                     /\ u.port = IF n.form = "socket" THEN n.port ELSE 53
      BY <3>1, ParsedNameservers
    <3>3. ZonesLoaded <=> ~BadZone /\ ~BadNameserver
      BY <3>1, <3>2, BadZones DEF ZonesLoaded
    <3> DEFINE ip == ListenIp(cfg.bind, None)
    <3>4. /\ DnsAddr \in Errors <=> ip \in Errors
          /\ RpcAddr \in Errors <=> ip \in Errors
          /\ ip \in Errors => DnsAddr = ip
          /\ ip = Panicked <=> NotListed
          /\ ip = Failed <=> NoIpv4
      BY <3>1, SocketAddrs
    <3> HIDE DEF ip
    <3>5. /\ DnsAddr = Failed <=> NoIpv4
          /\ DnsAddr = Panicked <=> NotListed
          /\ RpcAddr \in Errors <=> NotListed \/ NoIpv4
          /\ DnsAddr \in Errors <=> NotListed \/ NoIpv4
      BY <3>4 DEF Errors
    <3>6. ListenInv
      BY DEF SettingsInv
    <3>7. dns = "listening" =>
              /\ ~BadZone /\ ~BadNameserver /\ ~NotListed /\ ~NoIpv4
              /\ cfg.zones # <<>> => \A n \in ToSet(cfg.nameservers) : \E u \in upstream :
                     /\ u.ip = n.ip
                     /\ u.port = IF n.form = "socket" THEN n.port ELSE 53
      BY <3>2, <3>3, <3>5, <3>6 DEF ListenInv
    <3> QED BY <3>3, <3>5, <3>6, <3>7 DEF ListenInv, ComesUpAsConfigured
  <2> QED BY <2>1, <2>2 DEF SettingsInv, ListenInv
<1> QED BY <1>1, SettingsInvariant, PTL
=============================================================================
