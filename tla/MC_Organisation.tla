-------------------------- MODULE MC_Organisation --------------------------
(* Model-checking instance of Organisation.                                *)
EXTENDS Organisation, TLC

Symmetry == Permutations(Users) \cup Permutations(Invites) \cup Permutations(Reqs)
            \cup Permutations(Products)

(* An install without its settings row is followed up to the first invite:  *)
(* from there on it differs from a seeded one in nothing.                   *)
UnseededUntilInvites == seeded \/ \A i \in Invites : ~invites[i].there
============================================================================
