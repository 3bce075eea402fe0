------------------------ MODULE MCRecordRepository ------------------------
(* Small instances of the record store for TLC. *)
EXTENDS RecordRepository, TLC

CallSymmetry == Permutations(Calls)

Symmetry == Permutations(Calls) \cup Permutations(Keys) \cup Permutations(Values)
============================================================================
