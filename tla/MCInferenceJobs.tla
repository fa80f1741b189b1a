---------------------------- MODULE MCInferenceJobs ----------------------------
(* InferenceJobs for TLC: jobs are interchangeable.                         *)
EXTENDS InferenceJobs, TLC

Symmetry == Permutations(Job)
=============================================================================
