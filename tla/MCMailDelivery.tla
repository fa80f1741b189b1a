---------------------------- MODULE MCMailDelivery ----------------------------
(* MailDelivery for TLC: versions, workers and builds are interchangeable.  *)
EXTENDS MailDelivery, TLC

Symmetry == Permutations(Version) \cup Permutations(Worker) \cup Permutations(Builder)
=============================================================================
