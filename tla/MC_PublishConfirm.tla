------------------------- MODULE MC_PublishConfirm -------------------------
(***************************************************************************)
(* Small instances of PublishConfirm: three requests, two keys, and two    *)
(* sessions, one of a plain member and one of an editor.                   *)
(***************************************************************************)
EXTENDS PublishConfirm, TLC

CONSTANTS r1, r2, r3, k1, k2, s1, s2

Sym == Permutations({r1, r2, r3}) \cup Permutations({k1, k2})

=============================================================================
