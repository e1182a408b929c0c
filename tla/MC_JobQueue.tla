---------------------------- MODULE MC_JobQueue ----------------------------
(***************************************************************************)
(* Small instances of JobQueue: two workers and up to two jobs.            *)
(***************************************************************************)
EXTENDS JobQueue, TLC

CONSTANTS w1, w2, j1, j2

Sym == Permutations({w1, w2}) \cup Permutations({j1, j2})

=============================================================================
