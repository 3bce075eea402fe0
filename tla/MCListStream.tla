---------------------------- MODULE MCListStream ----------------------------
(* A small instance of the list stream for TLC. *)
EXTENDS ListStream

CONSTANTS k1, k2, k3, k4, k5, k6, v1, v2

MCKeys == {k1, k2, k3, k4, k5, k6}
MCValues == {v1, v2}

\* No rows, as many as the channel holds, and more, so that the task waits.
Rows == <<k1, k2, k3, k4, k5, k6>>
MCTables == {[i \in 1..n |-> [key |-> Rows[i], data |-> v1]] : n \in {0, 1, 4, 6}}
=============================================================================
