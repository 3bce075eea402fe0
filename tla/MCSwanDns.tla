----------------------------- MODULE MCSwanDns -----------------------------
(* Small instances of the whole system for TLC. *)
EXTENDS SwanDns, Sequences

v4 == [id |-> "v4", family |-> "A"]
w4 == [id |-> "w4", family |-> "A"]
v6 == [id |-> "v6", family |-> "AAAA"]
MCAddrs == {v4, w4, v6}

\* One machine with an IPv4 and an IPv6 address under one name.
host == <<"host", "lan">>
MCName == <<host, host>>
MCFamily == <<"A", "AAAA">>
MCConfigs == {<<[name |-> <<"lan">>, records |-> {}]>>}

\* The machine has both addresses when the client starts; a change takes one of
\* them away or replaces it.
MCInit == Init /\ addr = <<v4, v6>>
MCSpec == MCInit /\ [][Next]_vars /\ Fairness
=============================================================================
