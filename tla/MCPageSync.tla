------------------------------ MODULE MCPageSync ------------------------------
(* PageSync for TLC: any naming of the payload hashes is as good as another. *)
EXTENDS PageSync, TLC

Symmetry == Permutations(Record) \cup Permutations(Hash)
=============================================================================
