---------------------------- MODULE MC_Connections ----------------------------
(* Instances of Connections: two organisations of one install.                  *)
EXTENDS Connections, TLC

CONSTANTS o1, o2, i1, b1, b2, a1, a2

TwoOrgs == (o1 :> i1 @@ o2 :> i1)
Symmetry == Permutations(Browsers) \cup Permutations(Accounts)
=============================================================================
