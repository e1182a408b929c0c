------------------------- MODULE MC_SessionTurns -------------------------
(***************************************************************************)
(* Small instances of SessionTurns: three requests against one session.    *)
(* Two preview revisions exist at most at the start and each request adds  *)
(* one at most, so five revisions are never exceeded.                      *)
(***************************************************************************)
EXTENDS SessionTurns, TLC

CONSTANTS r1, r2, r3

Sym == Permutations({r1, r2, r3})
AnyKind == AllKinds

(* Symmetry is not sound for liveness, so the requests are told apart: a   *)
(* turn, a Stop of either mode, and one that gets in their way.            *)
LiveKinds == {<<"message", "stop", "message">>, <<"message", "stop", "edit">>,
              <<"message", "interrupt", "stop">>, <<"execute", "stop", "stop">>,
              <<"execute", "interrupt", "edit">>, <<"message", "stop", "redirect">>}

LiveInit == Init /\ <<kind[r1], kind[r2], kind[r3]>> \in LiveKinds

LiveSpec == LiveInit /\ FairSpec

=============================================================================
