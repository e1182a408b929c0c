------------------------- MODULE MC_QuestionPipeline -------------------------
(***************************************************************************)
(* A corpus of four signals, the first two of one topic.                   *)
(***************************************************************************)
EXTENDS QuestionPipeline

CONSTANTS s1, s2, s3, s4

MCCorpus == <<s1, s2, s3, s4>>
MCTopic(s) == IF s = s2 THEN s1 ELSE s
=============================================================================
