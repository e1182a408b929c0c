--------------------------- MODULE MC_QuestionRuns ---------------------------
(***************************************************************************)
(* Small instances of QuestionRuns: two workers, a request, and perhaps an *)
(* execution of the ops CLI.                                               *)
(***************************************************************************)
EXTENDS QuestionRuns

CONSTANTS w1, w2, q1, c1, j1, j2, r1, r2
=============================================================================
