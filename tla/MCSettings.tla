----------------------------- MODULE MCSettings -----------------------------
(* A small instance of the settings for TLC. *)
EXTENDS Settings

eth0 == Lower("eth0")
ETH0 == [word |-> "eth0", spelling |-> "upper"]
wlan == Lower("wlan")
IPv6 == [word |-> "ipv6", spelling |-> "upper"]

a4 == [id |-> "a", family |-> "ipv4"]
b4 == [id |-> "b", family |-> "ipv4"]
a6 == [id |-> "a", family |-> "ipv6"]
b6 == [id |-> "b", family |-> "ipv6"]

MCRecords == [server_url : {None, "http://b"}, bind : {None, ETH0},
            protocol : {None, Lower("ipv4"), IPv6}]

ClientLayers(lists) ==
    [default_server_url : {None, "http://a"}, default_bind : {None, eth0, wlan},
     default_protocol : {None, IPv6, Lower("ipx")}, records : lists]

ip == [form |-> "ip", ip |-> a4]
socket == [form |-> "socket", ip |-> a6, port |-> 5353]
notAnAddress == [form |-> "text"]

\* A zone that parses, and one whose name, key or value does not.
good == [name |-> "good", records |-> <<[key |-> "good", value |-> "good"]>>]
badName == [name |-> "bad", records |-> <<>>]
badKey == [name |-> "good", records |-> <<[key |-> "bad", value |-> "good"]>>]
badValue == [name |-> "good", records |-> <<[key |-> "good", value |-> "good"],
                                            [key |-> "good", value |-> "bad"]>>]

\* A record of the environment, which replaces those of the file.
EnvRecord == [server_url |-> None, bind |-> wlan, protocol |-> None]

\* Nameservers and zones are in the file only.
MCFiles == [client |-> ClientLayers({None} \cup {<<r>> : r \in MCRecords}),
            server |-> [bind : {None, eth0}, dns_port : {None, 0, 53}, api_port : {None, 0, 53},
                        nameservers : {None, <<ip>>, <<socket, ip>>, <<ip, notAnAddress>>},
                        zones : {None, <<good>>, <<badName>>, <<good, badKey>>, <<badValue>>}]]
MCEnvs == [client |-> ClientLayers({None, <<EnvRecord>>}),
           server |-> [bind : {None, ETH0}, dns_port : {None, 8080}, api_port : {None},
                       nameservers : {None}, zones : {None}]]

\* Interfaces that cannot be listed, no interface, one with two addresses of a
\* family, one of each family; and a port that is refused for one transport.
MCInterfaces ==
    {Failed, <<>>,
     <<[name |-> eth0, addr |-> a6], [name |-> eth0, addr |-> b6], [name |-> wlan, addr |-> a4]>>,
     <<[name |-> wlan, addr |-> a6], [name |-> ETH0, addr |-> b4], [name |-> eth0, addr |-> a4]>>}
MCMachines ==
    {[ifaces |-> i, local |-> l[1], refused |-> l[2]] : i \in MCInterfaces,
        l \in {<<[ipv4 |-> a4, ipv6 |-> Failed], {}>>,
               <<[ipv4 |-> Failed, ipv6 |-> b6], {<<"udp", 53>>}>>,
               <<[ipv4 |-> a4, ipv6 |-> b6], {<<"tcp", 53>>}>>}}
=============================================================================
