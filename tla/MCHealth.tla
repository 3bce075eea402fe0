------------------------------ MODULE MCHealth ------------------------------
(* A small instance of the health of records.  Healthy age, period and accuracy *)
(* are 3, 2 and 1 units of time for seven, five and one minutes: a period and a *)
(* late timer use up the margin.                                                *)
EXTENDS Health, TLC

CallSymmetry == Permutations(Calls)
=============================================================================
