---------------------------- MODULE MC_LlmCalls ----------------------------
(* Instances of LlmCalls for TLC. *)
EXTENDS LlmCalls, TLC

CONSTANTS p1, m1, m2, r1, r2

Symmetry == Permutations(Models) \cup Permutations(Reqs)
=============================================================================
