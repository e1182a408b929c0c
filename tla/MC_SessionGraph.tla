-------------------------- MODULE MC_SessionGraph --------------------------
(***************************************************************************)
(* SessionGraph for TLC: one citation that is not a row (what is a row is  *)
(* never dropped and adds no case), a transcript of a few messages, recap  *)
(* numbers small enough for several folds in it.                           *)
(***************************************************************************)
EXTENDS SessionGraph

MCRefs == {"gone"}
MCKnown == {}
=============================================================================
