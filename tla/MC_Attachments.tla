--------------------------- MODULE MC_Attachments ---------------------------
(***************************************************************************)
(* Small instances of Attachments.                                         *)
(***************************************************************************)
EXTENDS Attachments

CONSTANTS w1, w2, t1, t2
=============================================================================
