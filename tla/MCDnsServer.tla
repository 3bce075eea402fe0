---------------------------- MODULE MCDnsServer ----------------------------
(* Small instances of the DNS server for TLC. *)
EXTENDS DnsServer

lan == <<"lan">>
homelan == <<"home", "lan">>
org == <<"org">>

ip4 == [id |-> "ip4", family |-> "A"]
ip6 == [id |-> "ip6", family |-> "AAAA"]
text == [id |-> "text", family |-> "none"]

MCValues == {ip4, ip6, text}
MCWritten == {ip6, text}

\* A zone within another, with both types, and a name of a zone apart.
MCQuestions == {[name |-> homelan, type |-> "A"], [name |-> homelan, type |-> "AAAA"],
                [name |-> <<"www", "org">>, type |-> "A"]}

\* All configurations of at most two of these entries: zones that are equal, nested
\* or apart, with and without a record or a wildcard for the questions, and one
\* that does not parse.
Record(k, v) == [key |-> k, value |-> v]
Zone(n, lists) == {[name |-> n, records |-> l] : l \in lists}
Entries ==
    Zone(lan, {{}, {Record(<<"home">>, ip4)}, {Record(<<"*">>, ip4)}, {Record(<<"home">>, text)}})
    \cup Zone(homelan, {{}, {Record(<<>>, ip6)}, {Record(<<>>, ip4), Record(<<"*">>, ip6)}})
    \cup Zone(org, {{}, {Record(<<"www">>, ip4)}, {Record(<<"*">>, ip4)}})
MCConfigs == {<<e>> : e \in Entries} \cup {<<e, f>> : e, f \in Entries}

Lower == {"lower"}
LowerAndOther == {"lower", "other"}
=============================================================================
