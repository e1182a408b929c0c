------------------------ MODULE MC_StorageMigration ------------------------
(***************************************************************************)
(* Small instances of StorageMigration.                                    *)
(***************************************************************************)
EXTENDS StorageMigration

CONSTANTS k1, k2, old, b1, b2, a1, a2, r1, r2
=============================================================================
