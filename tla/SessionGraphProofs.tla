------------------------ MODULE SessionGraphProofs ------------------------
(***************************************************************************)
(* Proofs about SessionGraph for any signals, limits and transcripts: that *)
(* it implements HumanOK, that an owed picture is planned, that what has   *)
(* been reviewed cites rows only, that no message falls between recap and  *)
(* live window, and that trust in the signals is of the running turn.      *)
(*                                                                         *)
(* First what each node and each other step does (the ...Does lemmas), in  *)
(* the terms of the invariants; then that each part of the invariant is    *)
(* kept (Keeps...); then the theorems.                                     *)
(***************************************************************************)
EXTENDS SessionGraph, TLAPS

(* The numbers of the recap are natural numbers.                           *)
LEMMA RecapType ==
    ASSUME TypeOK, NEW v \in Values
    PROVE  /\ Prefix \in Nat /\ Upto(v) \in Nat /\ LiveStart(v) \in Nat
           /\ Upto(v) <= Prefix /\ Upto(v) <= v.upto
           /\ Bump(v) \in Values
  BY GraphAssumption DEF TypeOK, Values, Prefix, Upto, LiveStart, Least, Most, Bump

(* A step of a node keeps the types if its values and channels have them.  *)
LEMMA StepType ==
    ASSUME TypeOK, NEW n, NEW v \in Values, NEW c \in Channels,
           NEW next \in Nodes \cup {"END"}, NEW r \in Runs,
           Step(n, v, c, next, r)
    PROVE  TypeOK'
<1>1. [r EXCEPT !.go = FALSE] \in Runs
  BY DEF Runs
<1>2. QED
  BY <1>1 DEF Step, Put, TypeOK, Threads

(* Every node keeps the types.                                             *)
LEMMA NodeType ==
    ASSUME TypeOK, Node PROVE TypeOK'
<1>1. V \in Values /\ C \in Channels /\ run \in Runs
  BY DEF TypeOK, Threads, V, C
<1>2. CASE FastRuleChecker
  BY <1>1, <1>2, StepType DEF FastRuleChecker, ResearchRulePass, SemanticRoutes, Channels, Nodes
<1>3. CASE ThreadRecap
  BY <1>1, <1>3, StepType, RecapType DEF ThreadRecap, Values, Runs, Nodes
<1>4. CASE RouteIntent
  <2>1. PICK i \in IntentsIn(C.mode) : Routed([C EXCEPT !.trusted = FALSE], i)
    BY <1>4 DEF RouteIntent
  <2>2. i \in Intents /\ ByIntent(i) \in Nodes
    BY DEF IntentsIn, Intents, ByIntent, Nodes
  <2> DEFINE c == [C EXCEPT !.trusted = FALSE]
  <2>3. /\ [c EXCEPT !.rule = FALSE] \in Channels
        /\ [c EXCEPT !.rule = FALSE, !.intent = i] \in Channels
    BY <1>1, <2>2 DEF Channels
  <2> HIDE DEF c
  <2>4. QED
    BY <1>1, <2>1, <2>2, <2>3, StepType DEF Routed, Nodes, c
<1>5. CASE QueryGenerator
  BY <1>1, <1>5, StepType DEF QueryGenerator, AgentHasQueries, Channels, Nodes
<1>6. CASE ResearchIngest
  <2>1. PICK hits \in Hits : \E ids \in Merged(hits) :
          Step("research_ingest", [V EXCEPT !.cited = ids],
             [C EXCEPT !.pool = ids # {}, !.intent = "chat",
                       !.guessed = FALSE,
                       !.trusted = ~C.guessed /\ hits # {}],
             ByIntent(C.intent), [run EXCEPT !.fresh = TRUE])
    BY <1>6 DEF ResearchIngest
  <2>2. PICK ids \in Merged(hits) :
          Step("research_ingest", [V EXCEPT !.cited = ids],
             [C EXCEPT !.pool = ids # {}, !.intent = "chat",
                       !.guessed = FALSE,
                       !.trusted = ~C.guessed /\ hits # {}],
             ByIntent(C.intent), [run EXCEPT !.fresh = TRUE])
    BY <2>1
  <2>3. ids \subseteq Refs
    BY <2>2, GraphAssumption DEF Hits, Merged
  <2>4. [V EXCEPT !.cited = ids] \in Values /\ [run EXCEPT !.fresh = TRUE] \in Runs
    BY <1>1, <2>3 DEF Values, Runs
  <2>5. (~C.guessed /\ hits # {}) \in BOOLEAN /\ (ids # {}) \in BOOLEAN
    OBVIOUS
  <2>6. [C EXCEPT !.pool = ids # {}, !.intent = "chat", !.guessed = FALSE,
                  !.trusted = ~C.guessed /\ hits # {}] \in Channels
    BY <1>1, <2>5 DEF Channels, Intents
  <2>7. ByIntent(C.intent) \in Nodes
    BY DEF ByIntent, Nodes
  <2>8. QED
    BY <2>2, <2>4, <2>6, <2>7, StepType
<1>7. CASE LoadContext \/ ProductMatcher
  BY <1>1, <1>7, StepType DEF LoadContext, ProductMatcher, Channels, Modes, Nodes
<1>8. CASE TrendSearcher
  BY <1>1, <1>8, StepType, GraphAssumption DEF TrendSearcher, Values, Nodes
<1>9. CASE Brainstormer
  BY <1>1, <1>9, StepType DEF Brainstormer, RouteAfterBrainstormer, Values, Channels, Modes, Nodes
<1>10. CASE AngleGate
  BY <1>1, <1>10, StepType DEF AngleGate, RouteAfterAngleGate, Channels, Picks, Nodes
<1>11. CASE ExecutorPost
  BY <1>1, <1>11, StepType DEF ExecutorPost, DraftCites, Values, Channels, Picks, Runs, Nodes
<1>12. CASE GroundingCheck
  <2>1. PICK numbers \in BOOLEAN :
          Step("grounding_check", [V EXCEPT !.cited = @ \cap Known],
               [C EXCEPT !.grounded = V.cited \subseteq Known /\ numbers],
               "reviewer", run)
    BY <1>12 DEF GroundingCheck
  <2>2. (V.cited \subseteq Known /\ numbers) \in BOOLEAN
    OBVIOUS
  <2>3. [V EXCEPT !.cited = @ \cap Known] \in Values
    BY <1>1 DEF Values
  <2>4. [C EXCEPT !.grounded = V.cited \subseteq Known /\ numbers] \in Channels
    BY <1>1, <2>2 DEF Channels
  <2>5. QED
    BY <1>1, <2>1, <2>3, <2>4, StepType DEF Nodes
<1>13. CASE Reviewer
  BY <1>1, <1>13, StepType DEF Reviewer, RouteAfterReviewer, Channels, Nodes
<1>14. CASE ReviewerFailBump \/ ReviewExhausted
  BY <1>1, <1>14, StepType, RecapType DEF ReviewerFailBump, ReviewExhausted, Runs, Nodes
<1>15. CASE EditCopy
  <2>1. PICK wants \in BOOLEAN, ids \in EditCites(V.cited \cup V.ranked, V.cited) :
          Step("edit_copy",
             [V EXCEPT !.cited = ids, !.need = wants \/ ImageStillPending(V, C)],
             [C EXCEPT !.grounded = TRUE], "grounding_check",
             [run EXCEPT !.owed = @ \/ (wants /\ ~C.hold)])
    BY <1>15 DEF EditCopy
  <2>2. /\ (wants \/ ImageStillPending(V, C)) \in BOOLEAN
        /\ (run.owed \/ (wants /\ ~C.hold)) \in BOOLEAN
    BY <1>1 DEF ImageStillPending
  <2>3. ids \subseteq Refs
    BY <1>1 DEF EditCites, Values
  <2>4. [V EXCEPT !.cited = ids, !.need = wants \/ ImageStillPending(V, C)] \in Values
    BY <1>1, <2>2, <2>3 DEF Values
  <2>5. /\ [C EXCEPT !.grounded = TRUE] \in Channels
        /\ [run EXCEPT !.owed = @ \/ (wants /\ ~C.hold)] \in Runs
    BY <1>1, <2>2 DEF Channels, Runs
  <2>6. QED
    BY <2>1, <2>4, <2>5, StepType DEF Nodes
<1>16. CASE ExecutorImagePlan \/ HoldLockedPlan \/ ExecutorImageGen \/ PersistPreview
  BY <1>1, <1>16, StepType
     DEF ExecutorImagePlan, HoldLockedPlan, ExecutorImageGen, PersistPreview,
         Values, Channels, Modes, Runs, Nodes
<1>17. CASE Chat \/ AckConfirm
  BY <1>1, <1>17, StepType DEF Chat, AckConfirm, Channels, Modes, Runs, Nodes
<1>18. QED
  BY <1>2, <1>3, <1>4, <1>5, <1>6, <1>7, <1>8, <1>9, <1>10, <1>11, <1>12,
     <1>13, <1>14, <1>15, <1>16, <1>17 DEF Node

(* The version Discard goes back to is a version.                          *)
LEMMA AnchorType ==
    ASSUME TypeOK, NEW n \in Nat
    PROVE  AnchorWith(n) \in Anchors
<1>1. /\ row.v \in Values /\ row.mode \in Modes /\ row.anchor \in Anchors
      /\ row.anchor.on \in BOOLEAN /\ row.anchor.v \in Values
      /\ row.anchor.mode \in Modes /\ row.anchor.n \in Nat
  BY DEF TypeOK, Rows, Anchors
<1>2. PreState \in Values /\ PreMode \in Modes
  BY <1>1 DEF PreState, PreMode
<1>3. NoAnchor \in Anchors
  BY DEF NoAnchor, Anchors, NoValues, Values, Modes
<1>4. [row.anchor EXCEPT !.n = @ + n] \in Anchors
  BY <1>1 DEF Anchors
<1>5. [on |-> TRUE, v |-> PreState, mode |-> PreMode, n |-> n] \in Anchors
  BY <1>2 DEF Anchors
<1>6. QED
  BY <1>3, <1>4, <1>5 DEF AnchorWith

(* The thread that is parked again is a thread.                            *)
LEMMA ReparkType ==
    ASSUME NEW r, r.v \in Values, r.mode \in Modes, NEW kind, Repark(kind, r)
    PROVE  thread' \in Threads
<1>1. (kind = "image" \/ r.v.need) \in BOOLEAN
  BY DEF Values
<1>2. [r.v EXCEPT !.need = kind = "image" \/ @] \in Values
  BY <1>1 DEF Values
<1>3. [NoChannels EXCEPT !.mode = r.mode] \in Channels
  BY DEF NoChannels, Channels, Intents, Picks, Modes
<1>4. QED
  BY <1>2, <1>3 DEF Repark, Threads, RouteAfterBrainstormer, Nodes

(* Init and the steps that begin, end or undo a turn have the types.       *)
LEMMA InitType == Init => TypeOK
  BY GraphAssumption
     DEF Init, TypeOK, Rows, Threads, NoThread, NoValues, NoChannels, NoAnchor,
         NoRun, Values, Channels, Modes, Intents, Picks, Parks, Anchors, Runs, Nodes

LEMMA StartType ==
    ASSUME TypeOK, Message \/ Revise \/ ChooseAngle \/ Execute
    PROVE  TypeOK'
<1>1. /\ V \in Values /\ C \in Channels /\ thread \in Threads
      /\ row \in Rows /\ row.v \in Values /\ row.mode \in Modes
      /\ thread.at \in Nodes \cup {"END"} /\ C.trusted \in BOOLEAN
      /\ msgs \in Nat
  BY DEF TypeOK, Threads, V, C, Rows, Channels
<1>2. NoRun \in Runs /\ NoChannels \in Channels
  BY DEF NoRun, Runs, NoChannels, Channels, Modes, Intents, Picks
<1>3. ASSUME NEW b \in BOOLEAN, Says(b) PROVE msgs' \in Nat
  BY <1>1, <1>3 DEF Says
<1>4. CASE Message
  <2>1. PICK ids \in {row.v.cited} \cup SUBSET Refs :
          GraphValues([row.v EXCEPT !.cited = ids], C, row.mode, FALSE)
    BY <1>4 DEF Message
  <2>2. [row.v EXCEPT !.cited = ids] \in Values
    BY <1>1, <2>1 DEF Values
  <2>3. [C EXCEPT !.mode = row.mode, !.hold = FALSE] \in Channels
    BY <1>1 DEF Channels
  <2>4. thread' \in Threads
    BY <2>1, <2>2, <2>3 DEF GraphValues, Put, Threads, Nodes
  <2>5. QED
    BY <1>2, <1>3, <1>4, <2>4 DEF Message, TypeOK
<1>5. CASE Revise
  <2>1. [NoChannels EXCEPT !.mode = "PREVIEW", !.hold = TRUE] \in Channels
    BY <1>2 DEF Channels, Modes
  <2>2. thread' \in Threads
    BY <1>1, <1>5, <2>1 DEF Revise, GraphValues, Put, Threads, Nodes
  <2>3. QED
    BY <1>2, <1>3, <1>5, <2>2 DEF Revise, TypeOK
<1>6. CASE ChooseAngle
  <2>1. PICK pick \in {"match", "other"}, typed \in BOOLEAN :
           /\ LET c == [C EXCEPT !.chosen = pick]
              IN  Put(V, c, CASE thread.at = "angle_gate" ->
                                    RouteAfterBrainstormer(V, c)
                              [] thread.at = "brainstormer" ->
                                    RouteAfterAngleGate(c)
                              [] OTHER -> thread.at)
           /\ run' = [NoRun EXCEPT !.ok = "angle", !.go = TRUE,
                                    !.typed = typed, !.fresh = C.trusted]
           /\ Says(typed)
    BY <1>6 DEF ChooseAngle
  <2>2. [C EXCEPT !.chosen = pick] \in Channels
    BY <1>1, <2>1 DEF Channels, Picks
  <2>3. thread' \in Threads
    BY <1>1, <2>1, <2>2
       DEF Put, Threads, RouteAfterBrainstormer, RouteAfterAngleGate, Nodes
  <2>4. run' \in Runs
    BY <1>1, <2>1 DEF NoRun, Runs
  <2>5. QED
    BY <1>3, <1>6, <2>1, <2>3, <2>4 DEF ChooseAngle, TypeOK
<1>7. CASE Execute
  <2>1. run' \in Runs
    BY <1>1, <1>7 DEF Execute, NoRun, Runs
  <2>2. QED
    BY <1>7, <2>1 DEF Execute, TypeOK
<1>8. QED
  BY <1>4, <1>5, <1>6, <1>7

LEMMA EndType ==
    ASSUME TypeOK, Finish \/ PauseAtAngle \/ PauseAtImage
    PROVE  TypeOK'
<1>1. /\ V \in Values /\ C \in Channels /\ thread \in Threads
      /\ C.mode \in Modes /\ V.cited \subseteq Refs
      /\ row \in Rows /\ row.v \in Values
      /\ run.added \in {0, 1} /\ Own \in Nat /\ msgs \in Nat
  BY DEF TypeOK, Threads, V, C, Rows, Channels, Values, Runs, Own
<1>2. NoRun \in Runs /\ NoAnchor \in Anchors /\ AnchorWith(Own) \in Anchors
  BY <1>1, AnchorType DEF NoRun, Runs, NoAnchor, Anchors, NoValues, Values, Modes
<1>3. CASE Finish
  BY <1>1, <1>2, <1>3 DEF Finish, Rest, TypeOK, Rows, Parks
<1>4. CASE PauseAtAngle
  BY <1>1, <1>2, <1>4 DEF PauseAtAngle, Rest, TypeOK, Rows, Parks
<1>5. CASE PauseAtImage
  <2> DEFINE v(staged) == IF staged THEN [V EXCEPT !.pic = "planned"] ELSE V
             w == [row.v EXCEPT !.need = TRUE, !.pic = "planned"]
  <2>1. PICK staged \in BOOLEAN :
          /\ row' = [v |-> v(staged), park |-> "image",
                     mode |-> IF staged THEN "PREVIEW" ELSE C.mode,
                     anchor |-> AnchorWith(Own), pend |-> V.cited]
          /\ IF staged
             THEN Put(w, [C EXCEPT !.mode = "PREVIEW"], "executor_image_gen")
             ELSE UNCHANGED thread
    BY <1>5 DEF PauseAtImage
  <2>2. v(staged) \in Values /\ w \in Values /\ [C EXCEPT !.mode = "PREVIEW"] \in Channels
    BY <1>1 DEF Values, Channels, Modes
  <2> HIDE DEF v, w
  <2>3. row' \in Rows /\ thread' \in Threads
    BY <1>1, <1>2, <2>1, <2>2 DEF Rows, Parks, Modes, Put, Threads, Nodes
  <2>4. QED
    BY <1>2, <1>5, <2>3 DEF PauseAtImage, Rest, TypeOK
<1>6. QED
  BY <1>3, <1>4, <1>5

LEMMA FaultType ==
    ASSUME TypeOK, ProviderError \/ NodeError \/ Crash
    PROVE  TypeOK'
<1>1. /\ V \in Values /\ C.mode \in Modes /\ thread \in Threads
      /\ row \in Rows /\ row.mode \in Modes /\ row.pend \subseteq Refs
      /\ Own \in Nat /\ msgs \in Nat /\ Before(Own) \in Nat
  BY DEF TypeOK, Threads, V, C, Rows, Channels, Own, Before
<1>2. /\ NoRun \in Runs /\ NoAnchor \in Anchors /\ NoValues \in Values
      /\ AnchorWith(Own + 1) \in Anchors
  <2>1. NoRun \in Runs /\ NoAnchor \in Anchors /\ NoValues \in Values
    BY DEF NoRun, Runs, NoAnchor, Anchors, NoValues, Values, Modes
  <2>2. Own + 1 \in Nat
    BY <1>1
  <2>3. QED
    BY <2>1, <2>2, AnchorType
<1>3. Fault => faults' \in 0..MaxFaults
  BY GraphAssumption DEF Fault, TypeOK
<1>4. CASE ProviderError
  <2> DEFINE v == [V EXCEPT !.need = turn = "image" \/ @]
             r == [v |-> v, mode |-> C.mode, park |-> ParkAfterError,
                   anchor |-> AnchorWith(Own + 1),
                   pend |-> IF turn = "image" THEN row.pend ELSE {}]
  <2>1. v \in Values
    <3>1. (turn = "image" \/ V.need) \in BOOLEAN
      BY <1>1 DEF Values
    <3>2. QED
      BY <1>1, <3>1 DEF Values
  <2>2. ParkAfterError \in Parks
    BY DEF ParkAfterError, Resumed, Parks
  <2> HIDE DEF v
  <2>3. r \in Rows
    BY <1>1, <1>2, <2>1, <2>2 DEF Rows
  <2>4. /\ row' = r /\ (IF Resumed THEN Repark(turn, r) ELSE UNCHANGED thread)
        /\ msgs' = msgs + 1 /\ Rest /\ Fault
    BY <1>4 DEF ProviderError, v
  <2>5. r.v \in Values /\ r.mode \in Modes
    BY <1>1, <2>1
  <2> HIDE DEF r
  <2>6. thread' \in Threads
    BY <1>1, <2>4, <2>5, ReparkType
  <2>7. QED
    BY <1>1, <1>2, <1>3, <2>3, <2>4, <2>6 DEF Rest, TypeOK
<1>5. CASE NodeError
  BY <1>1, <1>2, <1>3, <1>5 DEF NodeError, Rest, TypeOK, Rows, Parks
<1>6. CASE Crash
  BY <1>1, <1>2, <1>3, <1>6 DEF Crash, Rest, TypeOK
<1>7. QED
  BY <1>4, <1>5, <1>6

LEMMA StopType ==
    ASSUME TypeOK, StopTurn \/ InterruptTurn \/ StopResume \/ StopParked
    PROVE  TypeOK'
<1>1. /\ row \in Rows /\ row.v \in Values /\ row.mode \in Modes
      /\ row.anchor.v \in Values /\ row.anchor.mode \in Modes
      /\ row.anchor.n \in Nat /\ run.added \in {0, 1}
      /\ Own \in Nat /\ msgs \in Nat
      /\ \A n \in Nat : Before(n) \in Nat
  BY DEF TypeOK, Rows, Anchors, Runs, Own, Before
<1>2. /\ NoRun \in Runs /\ NoAnchor \in Anchors /\ NoValues \in Values
      /\ NoThread \in Threads /\ PreState \in Values
  BY <1>1 DEF NoRun, Runs, NoAnchor, Anchors, NoValues, Values, Modes, NoThread,
              NoChannels, Channels, Intents, Picks, Threads, PreState
<1>3. ASSUME NEW v \in Values, NEW mode \in Modes, NEW n \in Nat,
             Discard(v, mode, n)
      PROVE  row' \in Rows /\ msgs' \in Nat /\ thread' \in Threads
  BY <1>1, <1>2, <1>3 DEF Discard, Rows, Parks
<1>4. CASE StopTurn
  BY <1>1, <1>2, <1>3, <1>4 DEF StopTurn, Rest, TypeOK, Modes
<1>5. CASE InterruptTurn
  <2>1. row' \in Rows
    BY <1>1, <1>5 DEF InterruptTurn, Rows, Parks, Modes
  <2>2. QED
    BY <1>1, <1>2, <1>5, <2>1 DEF InterruptTurn, Rest, TypeOK
<1>6. CASE StopResume
  <2>1. row' \in Rows
    BY <1>1, <1>6 DEF StopResume, Rows, Parks, Resumed
  <2>2. thread' \in Threads
    BY <1>1, <1>6, ReparkType DEF StopResume
  <2>3. QED
    BY <1>1, <1>2, <1>6, <2>1, <2>2 DEF StopResume, Rest, TypeOK
<1>7. CASE StopParked
  BY <1>1, <1>2, <1>3, <1>7 DEF StopParked, TypeOK
<1>8. QED
  BY <1>4, <1>5, <1>6, <1>7

(* Every variable has its type, in every reachable state.                  *)
THEOREM TypeCorrect == Spec => []TypeOK
<1>1. TypeOK /\ [Next]_vars => TypeOK'
  BY NodeType, StartType, EndType, FaultType, StopType DEF Next, Progress, vars, TypeOK
<1>2. QED
  BY <1>1, InitType, PTL DEF Spec

----------------------------------------------------------------------------
(* What a node does, in the terms of the invariants below.                 *)

Moves(n, next) ==
    /\ turn # "none" /\ thread.at = n /\ (n \in Interrupts => run.go)
    /\ thread'.at \in next /\ run'.go = FALSE
    /\ turn' = turn /\ msgs' = msgs /\ row' = row

SameCited == V'.cited = V.cited
SamePlan == V'.need = V.need /\ C'.hold = C.hold /\ run'.owed = run.owed
SameBrief == V'.offered = V.offered /\ C'.chosen = C.chosen
SameAnswer == run'.ok = run.ok /\ run'.drafted = run.drafted
SameRecap == V'.upto = V.upto /\ run'.missed = run.missed
SameTrust == C'.trusted = C.trusted /\ run'.fresh = run.fresh

LEMMA Typed ==
    ASSUME TypeOK
    PROVE  V \in Values /\ C \in Channels /\ run \in Runs
  BY DEF TypeOK, Threads, V, C

LEMMA FastRuleCheckerDoes ==
    ASSUME TypeOK, FastRuleChecker
    PROVE  /\ Moves("fast_rule_checker", {"thread_recap"})
           /\ SameCited /\ SamePlan /\ SameBrief /\ SameAnswer /\ SameRecap /\ SameTrust
  BY Typed
     DEF FastRuleChecker, ResearchRulePass, SemanticRoutes, Step, At, Put, V, C,
         Moves, SameCited, SamePlan, SameBrief, SameAnswer, SameRecap,
         SameTrust, Values, Channels, Runs

LEMMA ThreadRecapDoes ==
    ASSUME TypeOK, ThreadRecap
    PROVE  /\ Moves("thread_recap", {"route_intent"})
           /\ SameCited /\ SamePlan /\ SameBrief /\ SameAnswer /\ SameTrust
           /\ V'.upto = V.upto \/ V'.upto = Prefix
           /\ ~run'.missed /\ RecapDue(V) => V'.upto = Prefix
           /\ ~run'.missed => ~run.missed
           /\ ~RecapDue(V) => V'.upto = V.upto
<1>1. CASE RecapDue(V) /\ Step("thread_recap", V, C, "route_intent",
                              [run EXCEPT !.missed = TRUE])
  BY Typed, <1>1 DEF Step, At, Put, V, C, Moves, SameCited, SamePlan,
         SameBrief, SameAnswer, SameRecap, SameTrust, Values, Channels, Runs
<1>2. CASE RecapDue(V) /\ Step("thread_recap", [V EXCEPT !.upto = Prefix], C,
                              "route_intent", run)
  BY Typed, <1>2 DEF Step, At, Put, V, C, Moves, SameCited, SamePlan,
         SameBrief, SameAnswer, SameRecap, SameTrust, Values, Channels, Runs
<1>3. CASE ~RecapDue(V) /\ Step("thread_recap", V, C, "route_intent", run)
  BY Typed, <1>3 DEF Step, At, Put, V, C, Moves, SameCited, SamePlan,
         SameBrief, SameAnswer, SameRecap, SameTrust, Values, Channels, Runs
<1>4. QED
  BY <1>1, <1>2, <1>3 DEF ThreadRecap

LEMMA RouteIntentDoes ==
    ASSUME TypeOK, RouteIntent
    PROVE  /\ Moves("route_intent", {"load_context", "edit_copy", "ack_confirm", "chat", "query_generator"})
           /\ SameCited /\ SamePlan /\ SameBrief /\ SameAnswer /\ SameRecap
           /\ C'.trusted = FALSE
<1>1. PICK i \in IntentsIn(C.mode) : Routed([C EXCEPT !.trusted = FALSE], i)
  BY DEF RouteIntent
<1>2. /\ i \in Intents
      /\ ByIntent(i) \in {"load_context", "edit_copy", "ack_confirm", "chat"}
  BY DEF IntentsIn, Intents, ByIntent
<1> DEFINE a == [[C EXCEPT !.trusted = FALSE] EXCEPT !.rule = FALSE]
           b == [[C EXCEPT !.trusted = FALSE] EXCEPT !.rule = FALSE, !.intent = i]
<1>3. /\ a.hold = C.hold /\ a.chosen = C.chosen /\ a.trusted = FALSE
      /\ b.hold = C.hold /\ b.chosen = C.chosen /\ b.trusted = FALSE
  BY Typed DEF Channels
<1>4. \/ Step("route_intent", V, a, ByIntent(i), run)
      \/ Step("route_intent", V, b, "query_generator", run)
  BY <1>1 DEF Routed
<1> HIDE DEF a, b
<1>5. CASE Step("route_intent", V, a, ByIntent(i), run)
  BY <1>2, <1>3, <1>5, Typed
     DEF Step, At, Put, V, C, Moves, SameCited, SamePlan,
         SameBrief, SameAnswer, SameRecap, SameTrust, Runs
<1>6. CASE Step("route_intent", V, b, "query_generator", run)
  BY <1>2, <1>3, <1>6, Typed
     DEF Step, At, Put, V, C, Moves, SameCited, SamePlan,
         SameBrief, SameAnswer, SameRecap, SameTrust, Runs
<1>7. QED
  BY <1>4, <1>5, <1>6

LEMMA QueryGeneratorDoes ==
    ASSUME TypeOK, QueryGenerator
    PROVE  /\ Moves("query_generator", {"research_ingest"})
           /\ SameCited /\ SamePlan /\ SameBrief /\ SameAnswer /\ SameRecap /\ SameTrust
  BY Typed
     DEF QueryGenerator, AgentHasQueries, Step, At, Put, V, C, Moves, SameCited,
         SamePlan, SameBrief, SameAnswer, SameRecap, SameTrust, Values,
         Channels, Runs

LEMMA ResearchIngestDoes ==
    ASSUME TypeOK, ResearchIngest
    PROVE  /\ Moves("research_ingest", {"load_context", "edit_copy", "ack_confirm", "chat"})
           /\ SamePlan /\ SameBrief /\ SameAnswer /\ SameRecap
           /\ run'.fresh = TRUE
<1>1. PICK hits \in Hits : \E ids \in Merged(hits) :
         Step("research_ingest", [V EXCEPT !.cited = ids],
              [C EXCEPT !.pool = ids # {}, !.intent = "chat",
                        !.guessed = FALSE,
                        !.trusted = ~C.guessed /\ hits # {}],
              ByIntent(C.intent), [run EXCEPT !.fresh = TRUE])
  BY DEF ResearchIngest
<1>2. PICK ids \in Merged(hits) :
         Step("research_ingest", [V EXCEPT !.cited = ids],
              [C EXCEPT !.pool = ids # {}, !.intent = "chat",
                        !.guessed = FALSE,
                        !.trusted = ~C.guessed /\ hits # {}],
              ByIntent(C.intent), [run EXCEPT !.fresh = TRUE])
  BY <1>1
<1>3. QED
  BY <1>2, Typed
     DEF ByIntent, Step, At, Put, V, C, Moves, SameCited, SamePlan,
         SameBrief, SameAnswer, SameRecap, SameTrust, Values, Channels, Runs

LEMMA LoadContextDoes ==
    ASSUME TypeOK, LoadContext
    PROVE  /\ Moves("load_context", {"trend_searcher"})
           /\ SameCited /\ SamePlan /\ SameBrief /\ SameAnswer /\ SameRecap /\ SameTrust
  BY Typed
     DEF LoadContext, Modes, Step, At, Put, V, C, Moves, SameCited, SamePlan,
         SameBrief, SameAnswer, SameRecap, SameTrust, Values, Channels, Runs

LEMMA TrendSearcherDoes ==
    ASSUME TypeOK, TrendSearcher
    PROVE  /\ Moves("trend_searcher", {"product_matcher"})
           /\ SamePlan /\ SameBrief /\ SameAnswer /\ SameRecap /\ SameTrust
<1>1. PICK ids : Step("trend_searcher", [V EXCEPT !.cited = ids, !.ranked = ids],
                      C, "product_matcher", run)
  BY DEF TrendSearcher
<1>2. QED
  BY <1>1, Typed DEF Step, At, Put, V, C, Moves, SameCited, SamePlan,
         SameBrief, SameAnswer, SameRecap, SameTrust, Values, Channels, Runs

LEMMA ProductMatcherDoes ==
    ASSUME TypeOK, ProductMatcher
    PROVE  /\ Moves("product_matcher", {"brainstormer", "chat"})
           /\ SameCited /\ SamePlan /\ SameBrief /\ SameAnswer /\ SameRecap /\ SameTrust
  BY Typed
     DEF ProductMatcher, Step, At, Put, V, C, Moves, SameCited, SamePlan,
         SameBrief, SameAnswer, SameRecap, SameTrust, Values, Channels, Runs

LEMMA BrainstormerDoes ==
    ASSUME TypeOK, Brainstormer
    PROVE  /\ Moves("brainstormer", {"angle_gate", "executor_post"})
           /\ SameCited /\ SamePlan /\ SameAnswer /\ SameRecap /\ SameTrust
           /\ C'.chosen = C.chosen
           /\ thread'.at = "angle_gate" <=> V'.offered
  BY Typed
     DEF Brainstormer, RouteAfterBrainstormer, Modes, Step, At, Put, V, C,
         Moves, SameCited, SamePlan, SameAnswer, SameRecap, SameTrust, Values,
         Channels, Runs

LEMMA AngleGateDoes ==
    ASSUME TypeOK, AngleGate
    PROVE  /\ Moves("angle_gate", {"executor_post", "brainstormer"})
           /\ SameCited /\ SamePlan /\ SameAnswer /\ SameRecap /\ SameTrust
           /\ V'.offered = V.offered
           /\ C'.chosen = IF C.chosen = "match" THEN "match" ELSE "none"
           /\ thread'.at = "executor_post" <=> C.chosen = "match"
  BY Typed
     DEF AngleGate, RouteAfterAngleGate, Picks, Step, At, Put, V, C, Moves,
         SameCited, SamePlan, SameAnswer, SameRecap, SameTrust, Values,
         Channels, Runs

LEMMA ExecutorPostDoes ==
    ASSUME TypeOK, ExecutorPost
    PROVE  /\ Moves("executor_post", {"grounding_check"})
           /\ V'.need = TRUE /\ C'.hold = C.hold /\ C'.chosen = "none"
           /\ V'.offered = V.offered /\ run'.ok = run.ok /\ run'.drafted = TRUE
           /\ SameRecap /\ SameTrust
<1>1. PICK ids :
         Step("executor_post", [V EXCEPT !.cited = ids, !.need = TRUE],
              [C EXCEPT !.grounded = TRUE, !.chosen = "none"],
              "grounding_check", [run EXCEPT !.drafted = TRUE, !.owed = TRUE])
  BY DEF ExecutorPost
<1>2. QED
  BY <1>1, Typed
     DEF Step, At, Put, V, C, Moves, SameCited, SamePlan,
         SameBrief, SameAnswer, SameRecap, SameTrust, Values, Channels, Runs

LEMMA GroundingCheckDoes ==
    ASSUME TypeOK, GroundingCheck
    PROVE  /\ Moves("grounding_check", {"reviewer"})
           /\ SamePlan /\ SameBrief /\ SameAnswer /\ SameRecap /\ SameTrust
           /\ V'.cited \subseteq Known
<1>1. PICK numbers \in BOOLEAN :
         Step("grounding_check", [V EXCEPT !.cited = @ \cap Known],
              [C EXCEPT !.grounded = V.cited \subseteq Known /\ numbers],
              "reviewer", run)
  BY DEF GroundingCheck
<1>2. V'.cited = V.cited \cap Known
  BY <1>1, Typed DEF Step, Put, V, Values
<1>3. QED
  BY <1>1, <1>2, Typed DEF Step, At, Put, V, C, Moves, SameCited, SamePlan,
         SameBrief, SameAnswer, SameRecap, SameTrust, Values, Channels, Runs

LEMMA ReviewerDoes ==
    ASSUME TypeOK, Reviewer
    PROVE  /\ Moves("reviewer", {"review_exhausted", "_reviewer_fail_bump", "executor_image_plan", "hold_locked_plan", "persist_preview"})
           /\ SameCited /\ SamePlan /\ SameBrief /\ SameAnswer /\ SameRecap /\ SameTrust
           /\ thread'.at = "persist_preview" => ~V.need /\ ~C.hold
  BY Typed
     DEF Reviewer, RouteAfterReviewer, Step, At, Put, V, C, Moves, SameCited,
         SamePlan, SameBrief, SameAnswer, SameRecap, SameTrust, Values,
         Channels, Runs

LEMMA ReviewerFailBumpDoes ==
    ASSUME TypeOK, ReviewerFailBump
    PROVE  /\ Moves("_reviewer_fail_bump", {"edit_copy"})
           /\ SameCited /\ SamePlan /\ SameBrief /\ SameAnswer /\ SameRecap /\ SameTrust
  BY Typed
     DEF ReviewerFailBump, Bump, Step, At, Put, V, C, Moves, SameCited,
         SamePlan, SameBrief, SameAnswer, SameRecap, SameTrust, Values,
         Channels, Runs

LEMMA EditCopyDoes ==
    ASSUME TypeOK, EditCopy
    PROVE  /\ Moves("edit_copy", {"grounding_check"})
           /\ C'.hold = C.hold
           /\ run'.owed => C.hold \/ V'.need \/ (run.owed /\ ~V.need)
           /\ SameBrief /\ SameAnswer /\ SameRecap /\ SameTrust
<1>1. PICK wants \in BOOLEAN, ids \in EditCites(V.cited \cup V.ranked, V.cited) :
         Step("edit_copy",
              [V EXCEPT !.cited = ids, !.need = wants \/ ImageStillPending(V, C)],
              [C EXCEPT !.grounded = TRUE], "grounding_check",
              [run EXCEPT !.owed = @ \/ (wants /\ ~C.hold)])
  BY DEF EditCopy
<1>2. /\ V'.need = (wants \/ ImageStillPending(V, C)) /\ C'.hold = C.hold
      /\ run'.owed = (run.owed \/ (wants /\ ~C.hold))
  BY <1>1, Typed DEF Step, Put, V, C, Values, Channels, Runs
<1>3. run'.owed => C.hold \/ V'.need \/ (run.owed /\ ~V.need)
  BY <1>2 DEF ImageStillPending
<1>4. QED
  BY <1>1, <1>2, <1>3, Typed DEF Step, At, Put, V, C, Moves, SameCited, SamePlan,
         SameBrief, SameAnswer, SameRecap, SameTrust, Values, Channels, Runs

LEMMA ExecutorImagePlanDoes ==
    ASSUME TypeOK, ExecutorImagePlan
    PROVE  /\ Moves("executor_image_plan", {"executor_image_gen"})
           /\ run'.owed = FALSE
           /\ SameCited /\ SameBrief /\ SameAnswer /\ SameRecap /\ SameTrust
  BY Typed
     DEF ExecutorImagePlan, Step, At, Put, V, C, Moves, SameCited, SameBrief,
         SameAnswer, SameRecap, SameTrust, Values, Channels, Runs

LEMMA HoldLockedPlanDoes ==
    ASSUME TypeOK, HoldLockedPlan
    PROVE  /\ Moves("hold_locked_plan", {"executor_image_gen"})
           /\ SameCited /\ SameBrief /\ SameAnswer /\ SameRecap /\ SameTrust
  BY Typed
     DEF HoldLockedPlan, Step, At, Put, V, C, Moves, SameCited, SameBrief,
         SameAnswer, SameRecap, SameTrust, Values, Channels, Runs

LEMMA ExecutorImageGenDoes ==
    ASSUME TypeOK, ExecutorImageGen
    PROVE  /\ Moves("executor_image_gen", {"persist_preview"})
           /\ run'.ok = "used" /\ run'.drafted = run.drafted /\ run'.owed = run.owed
           /\ SameCited /\ SameBrief /\ SameRecap /\ SameTrust
  BY Typed
     DEF ExecutorImageGen, Interrupts, Step, At, Put, V, C, Moves, SameCited,
         SameBrief, SameRecap, SameTrust, Values, Channels, Runs

LEMMA PersistPreviewDoes ==
    ASSUME TypeOK, PersistPreview
    PROVE  /\ Moves("persist_preview", {"END"})
           /\ run'.owed = run.owed
           /\ SameCited /\ SameBrief /\ SameAnswer /\ SameRecap /\ SameTrust
  BY Typed
     DEF PersistPreview, Modes, Step, At, Put, V, C, Moves, SameCited,
         SameBrief, SameAnswer, SameRecap, SameTrust, Values, Channels, Runs

LEMMA ChatDoes ==
    ASSUME TypeOK, Chat
    PROVE  /\ Moves("chat", {"END"})
           /\ SameCited /\ SamePlan /\ SameBrief /\ SameAnswer /\ SameRecap /\ SameTrust
  BY Typed
     DEF Chat, Modes, Step, At, Put, V, C, Moves, SameCited, SamePlan,
         SameBrief, SameAnswer, SameRecap, SameTrust, Values, Channels, Runs

LEMMA AckConfirmDoes ==
    ASSUME TypeOK, AckConfirm
    PROVE  /\ Moves("ack_confirm", {"END"})
           /\ SameCited /\ SamePlan /\ SameBrief /\ SameAnswer /\ SameRecap /\ SameTrust
  BY Typed
     DEF AckConfirm, Step, At, Put, V, C, Moves, SameCited, SamePlan, SameBrief,
         SameAnswer, SameRecap, SameTrust, Values, Channels, Runs

LEMMA ReviewExhaustedDoes ==
    ASSUME TypeOK, ReviewExhausted
    PROVE  /\ Moves("review_exhausted", {"END"})
           /\ SameCited /\ SamePlan /\ SameBrief /\ SameAnswer /\ SameRecap /\ SameTrust
  BY Typed
     DEF ReviewExhausted, Bump, Step, At, Put, V, C, Moves, SameCited, SamePlan,
         SameBrief, SameAnswer, SameRecap, SameTrust, Values, Channels, Runs


----------------------------------------------------------------------------
(* What the other steps do.                                                *)

(* What the session waits for, by the row or else by the thread.           *)
LEMMA Parked ==
    /\ ParkKind = "none" => row.park = "none" /\ thread.at = "END"
    /\ ParkKind = "angle" =>
          row.park = "angle" \/ (row.park = "none" /\ thread.at = "angle_gate")
    /\ ParkKind = "image" =>
          row.park = "image" \/ (row.park = "none" /\ thread.at = "executor_image_gen")
    /\ row.park \in {"angle", "image"} => ParkKind = row.park
    /\ row.park = "none" /\ thread.at = "angle_gate" => ParkKind = "angle"
    /\ row.park = "none" /\ thread.at = "executor_image_gen" => ParkKind = "image"
    /\ row.park = "none" /\ thread.at = "END" => ParkKind = "none"
    /\ row.park = "none" /\ thread.at \notin {"executor_image_gen", "angle_gate"}
          => ParkKind \in {"none", "unknown"}
<1>1. CASE row.park # "none"
  BY <1>1 DEF ParkKind
<1>2. CASE row.park = "none" /\ thread.at = "executor_image_gen"
  BY <1>2 DEF ParkKind
<1>3. CASE row.park = "none" /\ thread.at = "angle_gate"
  BY <1>3 DEF ParkKind
<1>4. CASE row.park = "none" /\ thread.at \notin {"executor_image_gen", "angle_gate"}
  BY <1>4 DEF ParkKind
<1>5. QED
  BY <1>1, <1>2, <1>3, <1>4

(* A turn begins from a message.                                           *)
LEMMA MessageDoes ==
    ASSUME TypeOK, Message
    PROVE  /\ turn = "none" /\ turn' = "message" /\ row.park = "none"
           /\ thread.at = "END" /\ thread'.at = "fast_rule_checker"
           /\ C'.chosen = C.chosen /\ row' = row /\ run' = NoRun
<1>1. PICK w : Put(w, [C EXCEPT !.mode = row.mode, !.hold = FALSE], "fast_rule_checker")
  BY DEF Message, GraphValues
<1>2. thread'.at = "fast_rule_checker" /\ C'.chosen = C.chosen
  BY <1>1, Typed DEF Put, C, Channels
<1>3. QED
  BY <1>2, Parked DEF Message, Waiting

LEMMA ReviseDoes ==
    ASSUME TypeOK, Revise
    PROVE  /\ turn = "none" /\ turn' = "hold" /\ ParkKind = "image"
           /\ thread'.at = "fast_rule_checker"
           /\ C'.chosen = "none" /\ row' = row /\ run' = NoRun
  BY DEF Revise, Waiting, GraphValues, Put, C, V, NoChannels

(* A pick resumes the thread at a place its routers lead to.               *)
LEMMA ChooseAngleDoes ==
    ASSUME TypeOK, ChooseAngle
    PROVE  /\ turn = "none" /\ turn' = "angle" /\ ParkKind = "angle"
           /\ V' = V /\ C'.chosen \in {"match", "other"} /\ row' = row
           /\ C'.trusted = C.trusted /\ run'.fresh = C.trusted
           /\ run'.ok = "angle" /\ run'.go = TRUE
           /\ run'.owed = FALSE /\ run'.drafted = FALSE
           /\ thread.at = "angle_gate" =>
                 thread'.at = IF V.offered THEN "angle_gate" ELSE "executor_post"
           /\ thread.at = "brainstormer" => thread'.at = "executor_post"
           /\ thread.at \notin {"angle_gate", "brainstormer"} => thread'.at = thread.at
<1>1. PICK pick \in {"match", "other"}, typed \in BOOLEAN :
           /\ LET c == [C EXCEPT !.chosen = pick]
              IN  Put(V, c, CASE thread.at = "angle_gate" ->
                                    RouteAfterBrainstormer(V, c)
                              [] thread.at = "brainstormer" ->
                                    RouteAfterAngleGate(c)
                              [] OTHER -> thread.at)
           /\ run' = [NoRun EXCEPT !.ok = "angle", !.go = TRUE,
                                    !.typed = typed, !.fresh = C.trusted]
  BY DEF ChooseAngle
<1>2. /\ run'.ok = "angle" /\ run'.go = TRUE /\ run'.owed = FALSE
      /\ run'.drafted = FALSE /\ run'.fresh = C.trusted
  BY <1>1 DEF NoRun
<1>3. /\ V' = V /\ C' = [C EXCEPT !.chosen = pick]
      /\ thread'.at = CASE thread.at = "angle_gate" ->
                             RouteAfterBrainstormer(V, C')
                        [] thread.at = "brainstormer" -> RouteAfterAngleGate(C')
                        [] OTHER -> thread.at
  BY <1>1 DEF Put, V, C
<1>4. C'.chosen = pick /\ C'.trusted = C.trusted
  BY <1>3, Typed DEF Channels
<1>5. turn = "none" /\ turn' = "angle" /\ ParkKind = "angle" /\ row' = row
  BY DEF ChooseAngle, Waiting
<1>6. RouteAfterBrainstormer(V, C') = IF V.offered THEN "angle_gate" ELSE "executor_post"
  BY DEF RouteAfterBrainstormer
<1>7. RouteAfterAngleGate(C') = "executor_post"
  BY <1>1, <1>4 DEF RouteAfterAngleGate
<1>8. QED
  BY <1>1, <1>2, <1>3, <1>4, <1>5, <1>6, <1>7

LEMMA ExecuteDoes ==
    ASSUME TypeOK, Execute
    PROVE  /\ turn = "none" /\ turn' = "image" /\ ParkKind = "image"
           /\ thread' = thread /\ V' = V /\ C' = C /\ row' = row
           /\ run'.ok = "image" /\ run'.go = TRUE /\ run'.fresh = C.trusted
           /\ run'.owed = FALSE /\ run'.drafted = FALSE
  BY DEF Execute, Waiting, V, C, NoRun

(* A turn ends.                                                            *)
LEMMA FinishDoes ==
    ASSUME TypeOK, Finish
    PROVE  /\ turn # "none" /\ turn' = "none" /\ run' = NoRun
           /\ thread.at = "END" /\ thread' = thread /\ V' = V /\ C' = C
           /\ row'.park = "none"
  BY DEF Finish, Rest, V, C

LEMMA PauseAtAngleDoes ==
    ASSUME TypeOK, PauseAtAngle
    PROVE  /\ turn # "none" /\ ~run.go /\ turn' = "none" /\ run' = NoRun
           /\ thread.at = "angle_gate" /\ thread' = thread /\ V' = V /\ C' = C
           /\ row'.park = "angle"
  BY DEF PauseAtAngle, Rest, V, C

LEMMA PauseAtImageDoes ==
    ASSUME TypeOK, PauseAtImage
    PROVE  /\ turn # "none" /\ ~run.go /\ turn' = "none" /\ run' = NoRun
           /\ thread.at = "executor_image_gen" /\ thread'.at = "executor_image_gen"
           /\ C'.chosen = C.chosen /\ row'.park = "image"
<1>1. /\ turn # "none" /\ ~run.go /\ turn' = "none" /\ run' = NoRun
      /\ thread.at = "executor_image_gen" /\ row'.park = "image"
  BY DEF PauseAtImage, Rest
<1>2. \/ thread' = thread
      \/ \E w : Put(w, [C EXCEPT !.mode = "PREVIEW"], "executor_image_gen")
  BY DEF PauseAtImage
<1>3. QED
  BY <1>1, <1>2, Typed DEF Put, C, Channels

(* What is parked again: at the image, or where the brief leads.           *)
LEMMA ReparkDoes ==
    ASSUME NEW kind, NEW r, r.v \in Values, Repark(kind, r)
    PROVE  /\ C'.chosen = "none" /\ V'.offered = r.v.offered
           /\ thread'.at = IF kind = "image" THEN "executor_image_gen"
                           ELSE IF r.v.offered THEN "angle_gate" ELSE "executor_post"
  BY DEF Repark, C, V, NoChannels, RouteAfterBrainstormer, Values

LEMMA ProviderErrorDoes ==
    ASSUME TypeOK, ProviderError
    PROVE  /\ turn # "none" /\ turn' = "none" /\ run' = NoRun
           /\ IF turn \in {"angle", "image"}
              THEN /\ row'.park = turn /\ C'.chosen = "none"
                   /\ thread'.at = IF turn = "image" THEN "executor_image_gen"
                                   ELSE IF V.offered THEN "angle_gate" ELSE "executor_post"
                   /\ V'.offered = V.offered
              ELSE row'.park = "none" /\ thread' = thread /\ V' = V /\ C' = C
<1> DEFINE v == [V EXCEPT !.need = turn = "image" \/ @]
           r == [v |-> v, mode |-> C.mode, park |-> ParkAfterError,
                 anchor |-> AnchorWith(Own + 1),
                 pend |-> IF turn = "image" THEN row.pend ELSE {}]
<1>1. /\ turn # "none" /\ Rest /\ row' = r
      /\ IF Resumed THEN Repark(turn, r) ELSE UNCHANGED thread
  BY DEF ProviderError, At
<1>2. v \in Values /\ v.offered = V.offered
  <2>1. (turn = "image" \/ V.need) \in BOOLEAN
    BY Typed DEF Values
  <2>2. QED
    BY <2>1, Typed DEF Values
<1> HIDE DEF v
<1>3. r.v = v /\ r.park = ParkAfterError
  OBVIOUS
<1> HIDE DEF r
<1>4. CASE Resumed
  BY <1>1, <1>2, <1>3, <1>4, ReparkDoes DEF Resumed, ParkAfterError, Rest
<1>5. CASE ~Resumed
  BY <1>1, <1>3, <1>5 DEF Resumed, ParkAfterError, Rest, V, C
<1>6. QED
  BY <1>4, <1>5

LEMMA NodeErrorDoes ==
    ASSUME TypeOK, NodeError
    PROVE  /\ turn # "none" /\ turn' = "none" /\ run' = NoRun
           /\ thread' = thread /\ V' = V /\ C' = C /\ row'.park = "none"
  BY DEF NodeError, Rest, At, V, C

LEMMA CrashDoes ==
    ASSUME TypeOK, Crash
    PROVE  /\ turn # "none" /\ turn \in Crashes /\ turn' = "none" /\ run' = NoRun
           /\ thread' = thread /\ V' = V /\ C' = C /\ row' = row
  BY GraphAssumption DEF Crash, Rest, V, C

LEMMA StopTurnDoes ==
    ASSUME TypeOK, StopTurn \/ InterruptTurn
    PROVE  /\ turn \in {"message", "hold"} /\ turn' = "none" /\ run' = NoRun
           /\ thread'.at = "END" /\ C'.chosen = "none"
           /\ V'.offered = FALSE /\ row'.park \in {"none", row.park}
<1>1. thread' = NoThread /\ turn \in {"message", "hold"} /\ Rest
  BY DEF StopTurn, InterruptTurn, Discard
<1>2. CASE StopTurn
  <2>1. row'.park = "none"
    BY <1>2 DEF StopTurn, Discard
  <2>2. QED
    BY <1>1, <2>1 DEF Rest, NoThread, NoChannels, NoValues, C, V
<1>3. CASE InterruptTurn
  <2>1. row' \in {row, [row EXCEPT !.park = "none", !.mode = "PREVIEW"]}
    BY <1>3 DEF InterruptTurn
  <2>2. row'.park \in {"none", row.park}
    BY <2>1 DEF TypeOK, Rows
  <2>3. QED
    BY <1>1, <2>2 DEF Rest, NoThread, NoChannels, NoValues, C, V
<1>4. QED
  BY <1>2, <1>3

LEMMA StopResumeDoes ==
    ASSUME TypeOK, StopResume
    PROVE  /\ turn \in {"angle", "image"} /\ turn' = "none" /\ run' = NoRun
           /\ row'.park = turn /\ C'.chosen = "none"
           /\ thread'.at = IF turn = "image" THEN "executor_image_gen"
                           ELSE IF row.v.offered THEN "angle_gate" ELSE "executor_post"
           /\ V'.offered = row.v.offered
<1>1. row.v \in Values /\ row \in Rows
  BY DEF TypeOK, Rows
<1>2. Repark(turn, row)
  BY DEF StopResume
<1>3. QED
  BY <1>1, <1>2, ReparkDoes DEF StopResume, Resumed, Rest, Rows

LEMMA StopParkedDoes ==
    ASSUME TypeOK, StopParked
    PROVE  /\ turn = "none" /\ turn' = "none" /\ run' = run /\ ParkKind # "none"
           /\ thread'.at = "END" /\ C'.chosen = "none" /\ row'.park = "none"
<1>1. /\ thread' = NoThread /\ turn = "none" /\ turn' = turn /\ run' = run
      /\ row'.park = "none" /\ ParkKind # "none"
  BY DEF StopParked, Discard
<1>2. QED
  BY <1>1 DEF NoThread, NoChannels, C

----------------------------------------------------------------------------
(* Each part of the invariant is kept.                                     *)

LEMMA KeepsDebt ==
    ASSUME TypeOK, DebtKept, Next
    PROVE  DebtKept'
<1>1. CASE FastRuleChecker \/ ThreadRecap \/ RouteIntent \/ QueryGenerator
  BY <1>1, FastRuleCheckerDoes, ThreadRecapDoes, RouteIntentDoes,
     QueryGeneratorDoes
     DEF DebtKept, AfterDraft, Interrupts, Moves, SamePlan, NoRun
<1>2. CASE ResearchIngest \/ LoadContext \/ TrendSearcher \/ ProductMatcher
  BY <1>2, ResearchIngestDoes, LoadContextDoes, TrendSearcherDoes,
     ProductMatcherDoes
     DEF DebtKept, AfterDraft, Interrupts, Moves, SamePlan, NoRun
<1>3. CASE Brainstormer \/ AngleGate \/ ExecutorPost \/ GroundingCheck
  BY <1>3, BrainstormerDoes, AngleGateDoes, ExecutorPostDoes,
     GroundingCheckDoes
     DEF DebtKept, AfterDraft, Interrupts, Moves, SamePlan, NoRun
<1>4. CASE Reviewer \/ ReviewerFailBump \/ EditCopy \/ ExecutorImagePlan
  BY <1>4, ReviewerDoes, ReviewerFailBumpDoes, EditCopyDoes,
     ExecutorImagePlanDoes
     DEF DebtKept, AfterDraft, Interrupts, Moves, SamePlan, NoRun
<1>5. CASE HoldLockedPlan \/ ExecutorImageGen \/ PersistPreview \/ Chat
  BY <1>5, HoldLockedPlanDoes, ExecutorImageGenDoes, PersistPreviewDoes,
     ChatDoes
     DEF DebtKept, AfterDraft, Interrupts, Moves, SamePlan, NoRun
<1>6. CASE AckConfirm \/ ReviewExhausted
  BY <1>6, AckConfirmDoes, ReviewExhaustedDoes
     DEF DebtKept, AfterDraft, Interrupts, Moves, SamePlan, NoRun
<1>7. CASE Message \/ Revise \/ ChooseAngle \/ Execute \/ Finish
  BY <1>7, MessageDoes, ReviseDoes, ChooseAngleDoes, ExecuteDoes, FinishDoes
     DEF DebtKept, AfterDraft, Interrupts, Moves, SamePlan, NoRun
<1>8. CASE PauseAtAngle \/ PauseAtImage \/ ProviderError \/ NodeError \/ Crash
  BY <1>8, PauseAtAngleDoes, PauseAtImageDoes, ProviderErrorDoes,
     NodeErrorDoes, CrashDoes
     DEF DebtKept, AfterDraft, Interrupts, Moves, SamePlan, NoRun
<1>9. CASE StopTurn \/ InterruptTurn \/ StopResume \/ StopParked
  BY <1>9, StopTurnDoes, StopResumeDoes, StopParkedDoes
     DEF DebtKept, AfterDraft, Interrupts, Moves, SamePlan, NoRun
<1>10. QED
  BY <1>1, <1>2, <1>3, <1>4, <1>5, <1>6, <1>7, <1>8, <1>9 DEF Next, Progress,
     Node

LEMMA KeepsAnswers ==
    ASSUME TypeOK, ResumesAnswered, Next
    PROVE  ResumesAnswered'
<1>1. CASE FastRuleChecker \/ ThreadRecap \/ RouteIntent \/ QueryGenerator \/
        ResearchIngest \/ LoadContext
  BY <1>1, FastRuleCheckerDoes, ThreadRecapDoes, RouteIntentDoes,
     QueryGeneratorDoes, ResearchIngestDoes, LoadContextDoes
     DEF ResumesAnswered, Resumed, Moves, NoRun
<1>2. CASE TrendSearcher \/ ProductMatcher \/ Brainstormer \/ AngleGate \/
        ExecutorPost \/ GroundingCheck
  BY <1>2, TrendSearcherDoes, ProductMatcherDoes, BrainstormerDoes,
     AngleGateDoes, ExecutorPostDoes, GroundingCheckDoes
     DEF ResumesAnswered, Resumed, Moves, NoRun
<1>3. CASE Reviewer \/ ReviewerFailBump \/ EditCopy \/ ExecutorImagePlan \/
        HoldLockedPlan \/ ExecutorImageGen
  BY <1>3, ReviewerDoes, ReviewerFailBumpDoes, EditCopyDoes,
     ExecutorImagePlanDoes, HoldLockedPlanDoes, ExecutorImageGenDoes
     DEF ResumesAnswered, Resumed, Moves, NoRun
<1>4. CASE PersistPreview \/ Chat \/ AckConfirm \/ ReviewExhausted
  BY <1>4, PersistPreviewDoes, ChatDoes, AckConfirmDoes, ReviewExhaustedDoes
     DEF ResumesAnswered, Resumed, Moves, NoRun
<1>5. CASE Message \/ Revise
  BY <1>5, MessageDoes, ReviseDoes DEF ResumesAnswered, Resumed, NoRun
<1>6. CASE ChooseAngle \/ Execute
  BY <1>6, ChooseAngleDoes, ExecuteDoes DEF ResumesAnswered, Resumed
<1>7. CASE \/ Finish \/ PauseAtAngle \/ PauseAtImage
           \/ ProviderError \/ NodeError \/ Crash
           \/ StopTurn \/ InterruptTurn \/ StopResume
  <2>1. run' = NoRun
    BY <1>7, FinishDoes, PauseAtAngleDoes, PauseAtImageDoes, ProviderErrorDoes,
       NodeErrorDoes, CrashDoes, StopTurnDoes, StopResumeDoes
  <2>2. QED
    BY <2>1 DEF ResumesAnswered, NoRun
<1>8. CASE StopParked
  BY <1>8, StopParkedDoes DEF ResumesAnswered, Resumed, NoRun
<1>9. QED
  BY <1>1, <1>2, <1>3, <1>4, <1>5, <1>6, <1>7, <1>8 DEF Next, Progress, Node

LEMMA KeepsCitations ==
    ASSUME TypeOK, ResumesAnswered, CitesRows, Next
    PROVE  CitesRows'
<1>1. CASE FastRuleChecker \/ ThreadRecap \/ RouteIntent \/ QueryGenerator
  BY <1>1, FastRuleCheckerDoes, ThreadRecapDoes, RouteIntentDoes,
     QueryGeneratorDoes
     DEF CitesRows, ResumesAnswered, Resumed, Interrupts, Moves, SameCited
<1>2. CASE ResearchIngest \/ LoadContext \/ TrendSearcher \/ ProductMatcher
  BY <1>2, ResearchIngestDoes, LoadContextDoes, TrendSearcherDoes,
     ProductMatcherDoes
     DEF CitesRows, ResumesAnswered, Resumed, Interrupts, Moves, SameCited
<1>3. CASE Brainstormer \/ AngleGate \/ ExecutorPost \/ GroundingCheck
  BY <1>3, BrainstormerDoes, AngleGateDoes, ExecutorPostDoes,
     GroundingCheckDoes
     DEF CitesRows, ResumesAnswered, Resumed, Interrupts, Moves, SameCited
<1>4. CASE Reviewer \/ ReviewerFailBump \/ EditCopy \/ ExecutorImagePlan
  BY <1>4, ReviewerDoes, ReviewerFailBumpDoes, EditCopyDoes,
     ExecutorImagePlanDoes
     DEF CitesRows, ResumesAnswered, Resumed, Interrupts, Moves, SameCited
<1>5. CASE HoldLockedPlan \/ ExecutorImageGen \/ PersistPreview \/ Chat
  BY <1>5, HoldLockedPlanDoes, ExecutorImageGenDoes, PersistPreviewDoes,
     ChatDoes
     DEF CitesRows, ResumesAnswered, Resumed, Interrupts, Moves, SameCited
<1>6. CASE AckConfirm \/ ReviewExhausted
  BY <1>6, AckConfirmDoes, ReviewExhaustedDoes
     DEF CitesRows, ResumesAnswered, Resumed, Interrupts, Moves, SameCited
<1>7. CASE Message \/ Revise \/ ChooseAngle \/ Execute \/ Finish
  BY <1>7, MessageDoes, ReviseDoes, ChooseAngleDoes, ExecuteDoes, FinishDoes
     DEF CitesRows, ResumesAnswered, Resumed, Interrupts, Moves, SameCited
<1>8. CASE PauseAtAngle \/ PauseAtImage \/ ProviderError \/ NodeError \/ Crash
  BY <1>8, PauseAtAngleDoes, PauseAtImageDoes, ProviderErrorDoes,
     NodeErrorDoes, CrashDoes
     DEF CitesRows, ResumesAnswered, Resumed, Interrupts, Moves, SameCited
<1>9. CASE StopTurn \/ InterruptTurn \/ StopResume \/ StopParked
  BY <1>9, StopTurnDoes, StopResumeDoes, StopParkedDoes
     DEF CitesRows, ResumesAnswered, Resumed, Interrupts, Moves, SameCited
<1>10. QED
  BY <1>1, <1>2, <1>3, <1>4, <1>5, <1>6, <1>7, <1>8, <1>9 DEF Next, Progress,
     Node


LEMMA KeepsTrust ==
    ASSUME TypeOK, ResumesAnswered, TrustIsOfThisTurn, Next
    PROVE  TrustIsOfThisTurn'
<1>1. CASE FastRuleChecker \/ ThreadRecap \/ RouteIntent \/ QueryGenerator
  BY <1>1, FastRuleCheckerDoes, ThreadRecapDoes, RouteIntentDoes,
     QueryGeneratorDoes
     DEF TrustIsOfThisTurn, ResumesAnswered, Moves, SameTrust, NoRun
<1>2. CASE ResearchIngest \/ LoadContext \/ TrendSearcher \/ ProductMatcher
  BY <1>2, ResearchIngestDoes, LoadContextDoes, TrendSearcherDoes,
     ProductMatcherDoes
     DEF TrustIsOfThisTurn, ResumesAnswered, Moves, SameTrust, NoRun
<1>3. CASE Brainstormer \/ AngleGate \/ ExecutorPost \/ GroundingCheck
  BY <1>3, BrainstormerDoes, AngleGateDoes, ExecutorPostDoes,
     GroundingCheckDoes
     DEF TrustIsOfThisTurn, ResumesAnswered, Moves, SameTrust, NoRun
<1>4. CASE Reviewer \/ ReviewerFailBump \/ EditCopy \/ ExecutorImagePlan
  BY <1>4, ReviewerDoes, ReviewerFailBumpDoes, EditCopyDoes,
     ExecutorImagePlanDoes
     DEF TrustIsOfThisTurn, ResumesAnswered, Moves, SameTrust, NoRun
<1>5. CASE HoldLockedPlan \/ ExecutorImageGen \/ PersistPreview \/ Chat
  BY <1>5, HoldLockedPlanDoes, ExecutorImageGenDoes, PersistPreviewDoes,
     ChatDoes
     DEF TrustIsOfThisTurn, ResumesAnswered, Moves, SameTrust, NoRun
<1>6. CASE AckConfirm \/ ReviewExhausted
  BY <1>6, AckConfirmDoes, ReviewExhaustedDoes
     DEF TrustIsOfThisTurn, ResumesAnswered, Moves, SameTrust, NoRun
<1>7. CASE Message \/ Revise \/ ChooseAngle \/ Execute
  BY <1>7, MessageDoes, ReviseDoes, ChooseAngleDoes, ExecuteDoes
     DEF TrustIsOfThisTurn, ResumesAnswered, Moves, SameTrust, NoRun
<1>8. CASE Finish \/ PauseAtAngle \/ PauseAtImage \/ ProviderError
  BY <1>8, FinishDoes, PauseAtAngleDoes, PauseAtImageDoes, ProviderErrorDoes
     DEF TrustIsOfThisTurn, ResumesAnswered, Moves, SameTrust, NoRun
<1>9. CASE NodeError \/ Crash \/ StopTurn \/ InterruptTurn \/ StopResume
  BY <1>9, NodeErrorDoes, CrashDoes, StopTurnDoes, StopResumeDoes
     DEF TrustIsOfThisTurn, ResumesAnswered, Moves, SameTrust, NoRun
<1>10. CASE StopParked
  BY <1>10, StopParkedDoes
     DEF TrustIsOfThisTurn, ResumesAnswered, Moves, SameTrust, NoRun
<1>11. QED
  BY <1>1, <1>2, <1>3, <1>4, <1>5, <1>6, <1>7, <1>8, <1>9, <1>10 DEF Next,
     Progress, Node

(* The fold moves the recap up to the live window, or is not due.          *)
LEMMA RecapCovers ==
    ASSUME TypeOK, NEW v \in Values, v.upto = Prefix \/ ~RecapDue(v)
    PROVE  LiveStart(v) <= Upto(v)
  BY GraphAssumption
     DEF TypeOK, Values, RecapDue, LiveStart, Upto, Prefix, Least, Most

(* What is left of the transcript and where the live window begins depend  *)
(* on summary_upto and on the number of messages only.                     *)
LEMMA BandOf ==
    ASSUME V'.upto = V.upto, msgs' = msgs
    PROVE  (LiveStart(V) <= Upto(V))' <=> LiveStart(V) <= Upto(V)
  BY DEF LiveStart, Upto, Prefix, Least, Most

LEMMA KeepsBand ==
    ASSUME TypeOK, TypeOK', BandCovered, Next
    PROVE  BandCovered'
<1>1. CASE ThreadRecap
  <2>1. SUFFICES ASSUME ~run'.missed
                 PROVE  (LiveStart(V) <= Upto(V))'
    BY DEF BandCovered
  <2>2. CASE RecapDue(V)
    <3>1. V'.upto = Prefix /\ msgs' = msgs
      BY <1>1, <2>1, <2>2, ThreadRecapDoes DEF Moves
    <3>2. Prefix' = Prefix /\ msgs \in Nat
      BY <3>1 DEF Prefix, TypeOK
    <3>3. Upto(V)' = Prefix
      BY <3>1, <3>2 DEF Upto, Least
    <3>4. Prefix \in Nat /\ Prefix >= msgs - RawTail /\ Prefix >= 0
      BY <3>2, GraphAssumption DEF Prefix
    <3>5. LiveStart(V)' = Most(Prefix, IF msgs >= RawTail + MinNew - 1
                                       THEN msgs - (RawTail + MinNew - 1) ELSE 0)
      BY <3>1, <3>3 DEF LiveStart
    <3>6. QED
      BY <3>2, <3>3, <3>4, <3>5, GraphAssumption DEF Most
  <2>3. CASE ~RecapDue(V)
    <3>1. V'.upto = V.upto /\ msgs' = msgs
      BY <1>1, <2>3, ThreadRecapDoes DEF Moves
    <3>2. LiveStart(V) <= Upto(V)
      BY <2>3, Typed, RecapCovers
    <3>3. QED
      BY <3>1, <3>2, BandOf
  <2>4. QED
    BY <2>2, <2>3
<1>2. ASSUME Node, ~ThreadRecap, thread.at \notin {"fast_rule_checker", "thread_recap"}
      PROVE  /\ V'.upto = V.upto /\ run'.missed = run.missed
             /\ turn' = turn /\ msgs' = msgs
  <2>1. CASE \/ FastRuleChecker \/ RouteIntent \/ QueryGenerator
             \/ ResearchIngest \/ LoadContext \/ TrendSearcher
    BY <2>1, FastRuleCheckerDoes, RouteIntentDoes, QueryGeneratorDoes,
       ResearchIngestDoes, LoadContextDoes, TrendSearcherDoes DEF Moves, SameRecap
  <2>2. CASE \/ ProductMatcher \/ Brainstormer \/ AngleGate \/ ExecutorPost
             \/ GroundingCheck \/ Reviewer \/ ReviewerFailBump
    BY <2>2, ProductMatcherDoes, BrainstormerDoes, AngleGateDoes,
       ExecutorPostDoes, GroundingCheckDoes, ReviewerDoes,
       ReviewerFailBumpDoes DEF Moves, SameRecap
  <2>3. CASE \/ EditCopy \/ ExecutorImagePlan \/ HoldLockedPlan
             \/ ExecutorImageGen \/ PersistPreview
    BY <2>3, EditCopyDoes, ExecutorImagePlanDoes, HoldLockedPlanDoes,
       ExecutorImageGenDoes, PersistPreviewDoes DEF Moves, SameRecap
  <2>4. CASE Chat \/ AckConfirm \/ ReviewExhausted
    BY <2>4, ChatDoes, AckConfirmDoes, ReviewExhaustedDoes DEF Moves, SameRecap
  <2>5. QED
    BY <1>2, <2>1, <2>2, <2>3, <2>4 DEF Node
<1>3. CASE Node /\ ~ThreadRecap
  <2>1. CASE thread.at = "fast_rule_checker"
    <3>1. FastRuleChecker
      BY <1>3, <2>1 DEF Node, ThreadRecap, RouteIntent, Routed, QueryGenerator,
         ResearchIngest, LoadContext, TrendSearcher, ProductMatcher,
         Brainstormer, AngleGate, ExecutorPost, GroundingCheck, Reviewer,
         ReviewerFailBump, EditCopy, ExecutorImagePlan, HoldLockedPlan,
         ExecutorImageGen, PersistPreview, Chat, AckConfirm, ReviewExhausted,
         Step, At
    <3>2. QED
      BY <3>1, FastRuleCheckerDoes DEF BandCovered, Moves
  <2>2. thread.at # "thread_recap"
    BY <1>3 DEF Node, FastRuleChecker, RouteIntent, Routed, QueryGenerator,
       ResearchIngest, LoadContext, TrendSearcher, ProductMatcher,
       Brainstormer, AngleGate, ExecutorPost, GroundingCheck, Reviewer,
       ReviewerFailBump, EditCopy, ExecutorImagePlan, HoldLockedPlan,
       ExecutorImageGen, PersistPreview, Chat, AckConfirm, ReviewExhausted,
       Step, At
  <2>3. CASE thread.at # "fast_rule_checker"
    BY <1>2, <1>3, <2>2, <2>3, BandOf DEF BandCovered
  <2>4. QED
    BY <2>1, <2>3
<1>4. CASE Message \/ Revise \/ ChooseAngle \/ Execute
  BY <1>4, MessageDoes, ReviseDoes, ChooseAngleDoes, ExecuteDoes DEF BandCovered
<1>5. CASE \/ Finish \/ PauseAtAngle \/ PauseAtImage
           \/ ProviderError \/ NodeError \/ Crash
           \/ StopTurn \/ InterruptTurn \/ StopResume \/ StopParked
  BY <1>5, FinishDoes, PauseAtAngleDoes, PauseAtImageDoes, ProviderErrorDoes,
     NodeErrorDoes, CrashDoes, StopTurnDoes, StopResumeDoes, StopParkedDoes
     DEF BandCovered
<1>6. QED
  BY <1>1, <1>3, <1>4, <1>5 DEF Next, Progress

LEMMA KeepsGates ==
    ASSUME TypeOK, ResumesAnswered, GatesHeld, "angle" \notin Crashes, Next
    PROVE  GatesHeld'
<1>1. CASE FastRuleChecker \/ ThreadRecap
  BY <1>1, Parked, FastRuleCheckerDoes, ThreadRecapDoes
     DEF GatesHeld, AfterDraft, Interrupts, ResumesAnswered, Resumed, Moves,
        SameBrief, SameAnswer, NoRun
<1>2. CASE RouteIntent \/ QueryGenerator
  BY <1>2, Parked, RouteIntentDoes, QueryGeneratorDoes
     DEF GatesHeld, AfterDraft, Interrupts, ResumesAnswered, Resumed, Moves,
        SameBrief, SameAnswer, NoRun
<1>3. CASE ResearchIngest \/ LoadContext
  BY <1>3, Parked, ResearchIngestDoes, LoadContextDoes
     DEF GatesHeld, AfterDraft, Interrupts, ResumesAnswered, Resumed, Moves,
        SameBrief, SameAnswer, NoRun
<1>4. CASE TrendSearcher \/ ProductMatcher
  BY <1>4, Parked, TrendSearcherDoes, ProductMatcherDoes
     DEF GatesHeld, AfterDraft, Interrupts, ResumesAnswered, Resumed, Moves,
        SameBrief, SameAnswer, NoRun
<1>5. CASE Brainstormer \/ AngleGate
  BY <1>5, Parked, BrainstormerDoes, AngleGateDoes
     DEF GatesHeld, AfterDraft, Interrupts, ResumesAnswered, Resumed, Moves,
        SameBrief, SameAnswer, NoRun
<1>6. CASE ExecutorPost \/ GroundingCheck
  BY <1>6, Parked, ExecutorPostDoes, GroundingCheckDoes
     DEF GatesHeld, AfterDraft, Interrupts, ResumesAnswered, Resumed, Moves,
        SameBrief, SameAnswer, NoRun
<1>7. CASE Reviewer \/ ReviewerFailBump
  BY <1>7, Parked, ReviewerDoes, ReviewerFailBumpDoes
     DEF GatesHeld, AfterDraft, Interrupts, ResumesAnswered, Resumed, Moves,
        SameBrief, SameAnswer, NoRun
<1>8. CASE EditCopy \/ ExecutorImagePlan
  BY <1>8, Parked, EditCopyDoes, ExecutorImagePlanDoes
     DEF GatesHeld, AfterDraft, Interrupts, ResumesAnswered, Resumed, Moves,
        SameBrief, SameAnswer, NoRun
<1>9. CASE HoldLockedPlan \/ ExecutorImageGen
  BY <1>9, Parked, HoldLockedPlanDoes, ExecutorImageGenDoes
     DEF GatesHeld, AfterDraft, Interrupts, ResumesAnswered, Resumed, Moves,
        SameBrief, SameAnswer, NoRun
<1>10. CASE PersistPreview \/ Chat
  BY <1>10, Parked, PersistPreviewDoes, ChatDoes
     DEF GatesHeld, AfterDraft, Interrupts, ResumesAnswered, Resumed, Moves,
        SameBrief, SameAnswer, NoRun
<1>11. CASE AckConfirm \/ ReviewExhausted
  BY <1>11, Parked, AckConfirmDoes, ReviewExhaustedDoes
     DEF GatesHeld, AfterDraft, Interrupts, ResumesAnswered, Resumed, Moves,
        SameBrief, SameAnswer, NoRun
<1>12. CASE Message
  BY <1>12, Parked, MessageDoes
     DEF GatesHeld, AfterDraft, Interrupts, ResumesAnswered, Resumed, Moves,
        SameBrief, SameAnswer, NoRun
<1>13. CASE Revise
  BY <1>13, Parked, ReviseDoes
     DEF GatesHeld, AfterDraft, Interrupts, ResumesAnswered, Resumed, Moves,
        SameBrief, SameAnswer, NoRun
<1>14. CASE ChooseAngle
  BY <1>14, Parked, ChooseAngleDoes
     DEF GatesHeld, AfterDraft, Interrupts, ResumesAnswered, Resumed, Moves,
        SameBrief, SameAnswer, NoRun
<1>15. CASE Execute
  BY <1>15, Parked, ExecuteDoes
     DEF GatesHeld, AfterDraft, Interrupts, ResumesAnswered, Resumed, Moves,
        SameBrief, SameAnswer, NoRun
<1>16. CASE Finish
  BY <1>16, Parked, FinishDoes
     DEF GatesHeld, AfterDraft, Interrupts, ResumesAnswered, Resumed, Moves,
        SameBrief, SameAnswer, NoRun
<1>17. CASE PauseAtAngle
  BY <1>17, Parked, PauseAtAngleDoes
     DEF GatesHeld, AfterDraft, Interrupts, ResumesAnswered, Resumed, Moves,
        SameBrief, SameAnswer, NoRun
<1>18. CASE PauseAtImage
  BY <1>18, Parked, PauseAtImageDoes
     DEF GatesHeld, AfterDraft, Interrupts, ResumesAnswered, Resumed, Moves,
        SameBrief, SameAnswer, NoRun
<1>19. CASE ProviderError
  BY <1>19, Parked, ProviderErrorDoes
     DEF GatesHeld, AfterDraft, Interrupts, ResumesAnswered, Resumed, Moves,
        SameBrief, SameAnswer, NoRun
<1>20. CASE NodeError
  BY <1>20, Parked, NodeErrorDoes
     DEF GatesHeld, AfterDraft, Interrupts, ResumesAnswered, Resumed, Moves,
        SameBrief, SameAnswer, NoRun
<1>21. CASE Crash
  BY <1>21, Parked, CrashDoes
     DEF GatesHeld, AfterDraft, Interrupts, ResumesAnswered, Resumed, Moves,
        SameBrief, SameAnswer, NoRun
<1>22. CASE StopTurn \/ InterruptTurn
  <2>1. row'.park # "angle"
    BY <1>22, StopTurnDoes DEF GatesHeld
  <2>2. /\ turn' = "none" /\ run' = NoRun /\ thread'.at = "END"
        /\ C'.chosen = "none"
    BY <1>22, StopTurnDoes
  <2>3. QED
    BY <2>1, <2>2 DEF GatesHeld, NoRun
<1>23. CASE StopResume
  BY <1>23, Parked, StopResumeDoes
     DEF GatesHeld, AfterDraft, Interrupts, ResumesAnswered, Resumed, Moves,
        SameBrief, SameAnswer, NoRun
<1>24. CASE StopParked
  BY <1>24, Parked, StopParkedDoes
     DEF GatesHeld, AfterDraft, Interrupts, ResumesAnswered, Resumed, Moves,
        SameBrief, SameAnswer, NoRun
<1>25. QED
  BY <1>1, <1>2, <1>3, <1>4, <1>5, <1>6, <1>7, <1>8, <1>9, <1>10, <1>11, <1>12,
     <1>13, <1>14, <1>15, <1>16, <1>17, <1>18, <1>19, <1>20, <1>21, <1>22,
     <1>23, <1>24 DEF Next, Progress, Node

----------------------------------------------------------------------------
(* The invariant, and what follows from it.                                *)

GraphInv ==
    /\ TypeOK
    /\ DebtKept
    /\ CitesRows
    /\ BandCovered
    /\ ResumesAnswered
    /\ TrustIsOfThisTurn

LEMMA InitInv == Init => GraphInv /\ GatesHeld
  BY InitType DEF Init, GraphInv, NoRun, NoThread, NoChannels, NoValues, NoAnchor,
     DebtKept, CitesRows, BandCovered, ResumesAnswered, Resumed,
     TrustIsOfThisTurn, GatesHeld, V, C

LEMMA StepInv == GraphInv /\ [Next]_vars => GraphInv'
<1>1. ASSUME GraphInv, Next PROVE GraphInv'
  <2>1. TypeOK'
    BY <1>1, NodeType, StartType, EndType, FaultType, StopType
       DEF GraphInv, Next, Progress
  <2>2. QED
    BY <1>1, <2>1, KeepsDebt, KeepsCitations, KeepsBand, KeepsAnswers, KeepsTrust
       DEF GraphInv
<1>2. ASSUME GraphInv, UNCHANGED vars PROVE GraphInv'
  BY <1>2 DEF vars, GraphInv, TypeOK, DebtKept, CitesRows, BandCovered,
     ResumesAnswered, Resumed, TrustIsOfThisTurn, V, C, LiveStart, Upto, Prefix
<1>3. QED
  BY <1>1, <1>2

THEOREM GraphInvariant == Spec => []GraphInv
  BY InitInv, StepInv, PTL DEF Spec

(* A draft that needs a picture gets its plan before it becomes a preview, *)
(* however many retries, re-parks, errors and restarts lie between.        *)
THEOREM DebtIsPaid == Spec => []OwedImageIsPlanned
<1>1. GraphInv => OwedImageIsPlanned
  BY DEF GraphInv, DebtKept, OwedImageIsPlanned, At
<1>2. QED
  BY <1>1, GraphInvariant, PTL

(* What the reviewer has passed cites rows of the signals table only.      *)
THEOREM ReviewGrounds == Spec => []ReviewedIsGrounded
<1>1. GraphInv => ReviewedIsGrounded
  BY DEF GraphInv, TypeOK, CitesRows, ReviewedIsGrounded, At, Resumed
<1>2. QED
  BY <1>1, GraphInvariant, PTL

(* Recap and live window are the whole transcript.                         *)
THEOREM BandIsSeen == Spec => []NoBlindBand
<1>1. GraphInv => NoBlindBand
  BY DEF GraphInv, TypeOK, BandCovered, NoBlindBand, At, Resumed
<1>2. QED
  BY <1>1, GraphInvariant, PTL

(* Trust in the signals is never left over from an earlier turn.           *)
THEOREM TrustIsFresh == Spec => []TrustIsOfThisTurn
  BY GraphInvariant, PTL DEF GraphInv

----------------------------------------------------------------------------
(* The graph keeps the promise of HumanOK as long as no restart cuts off   *)
(* the resume of an angle pick.                                            *)

THEOREM GatesInvariant ==
    ASSUME "angle" \notin Crashes PROVE Spec => []GatesHeld
<1>1. GraphInv /\ GatesHeld /\ [Next]_vars => GatesHeld'
  <2>1. ASSUME GraphInv, GatesHeld, UNCHANGED vars PROVE GatesHeld'
    BY <2>1 DEF vars, GatesHeld, V, C
  <2>2. QED
    BY <2>1, KeepsGates DEF GraphInv
<1>2. QED
  BY <1>1, InitInv, GraphInvariant, PTL DEF Spec

(* A turn that ends leaves nothing behind.                                 *)
LEMMA Settles ==
    ASSUME turn # "none", turn' = "none", run' = NoRun
    PROVE  Contract!Settle
<1>1. Phase = "running" /\ Phase' \in {"rest", "angle", "image"}
  BY DEF Phase
<1>2. Held' = "none" /\ ~Offered' /\ run'.drafted = FALSE
  BY DEF Held, Offered, NoRun
<1>3. QED
  BY <1>1, <1>2 DEF Contract!Settle, Contract!Phases

(* A turn that goes on with the same brief and answer is a stutter.        *)
LEMMA GoesOn ==
    ASSUME turn # "none", turn' = turn, SameBrief, SameAnswer
    PROVE  UNCHANGED Contract!vars
  BY DEF SameBrief, SameAnswer, Contract!vars, Phase, Held, Offered

LEMMA NodeRefines ==
    ASSUME GraphInv, TypeOK', GatesHeld, Node
    PROVE  [Contract!Next]_Contract!vars
<1>1. CASE \/ FastRuleChecker \/ ThreadRecap \/ RouteIntent \/ QueryGenerator
           \/ ResearchIngest \/ LoadContext \/ TrendSearcher \/ ProductMatcher
  BY <1>1, FastRuleCheckerDoes, ThreadRecapDoes, RouteIntentDoes,
     QueryGeneratorDoes, ResearchIngestDoes, LoadContextDoes, TrendSearcherDoes,
     ProductMatcherDoes, GoesOn DEF GraphInv, Moves
<1>2. CASE \/ GroundingCheck \/ Reviewer \/ ReviewerFailBump \/ EditCopy
           \/ HoldLockedPlan \/ PersistPreview
  BY <1>2, GroundingCheckDoes, ReviewerDoes, ReviewerFailBumpDoes, EditCopyDoes,
     HoldLockedPlanDoes, PersistPreviewDoes, GoesOn DEF GraphInv, Moves
<1>3. CASE ExecutorImagePlan \/ Chat \/ AckConfirm \/ ReviewExhausted
  BY <1>3, ExecutorImagePlanDoes, ChatDoes, AckConfirmDoes, ReviewExhaustedDoes,
     GoesOn DEF GraphInv, Moves
<1>4. CASE AngleGate
  BY <1>4, AngleGateDoes
     DEF GraphInv, Moves, SameAnswer, Contract!vars, Phase, Held, Offered
<1>5. CASE Brainstormer
  <2>1. Offered' \in BOOLEAN
    BY DEF Offered
  <2>2. Phase = "running" /\ Phase' = Phase /\ Held' = Held /\ run'.drafted = run.drafted
    BY <1>5, BrainstormerDoes DEF GraphInv, Moves, SameAnswer, Phase, Held
  <2>3. Contract!Offer
    BY <2>1, <2>2 DEF Contract!Offer
  <2>4. QED
    BY <2>3 DEF Contract!Next
<1>6. CASE ExecutorPost
  <2>1. /\ Phase = "running" /\ Phase' = Phase /\ Offered' = Offered
        /\ run'.drafted = TRUE
    BY <1>6, ExecutorPostDoes DEF GraphInv, Moves, Phase, Offered
  <2>2. ~run.drafted /\ (Offered => Held = "angle")
    BY <1>6, ExecutorPostDoes
       DEF GraphInv, Moves, GatesHeld, AfterDraft, Offered, Held
  <2>3. Held' \in {Held, "none"}
    BY <1>6, ExecutorPostDoes DEF GraphInv, Held
  <2>4. Contract!Draft
    BY <2>1, <2>2, <2>3 DEF Contract!Draft
  <2>5. QED
    BY <2>4 DEF Contract!Next
<1>7. CASE ExecutorImageGen
  <2>1. /\ Phase = "running" /\ Phase' = Phase /\ Offered' = Offered
        /\ run'.drafted = run.drafted
    BY <1>7, ExecutorImageGenDoes DEF GraphInv, Moves, SameBrief, Phase, Offered
  <2>2. run.ok = "image"
    BY <1>7, ExecutorImageGenDoes
       DEF GraphInv, Moves, Interrupts, GatesHeld, ResumesAnswered, Resumed
  <2>3. Held = "image" /\ Held' = "used"
    BY <1>7, <2>2, ExecutorImageGenDoes DEF GraphInv, Held
  <2>4. Contract!Render
    BY <2>1, <2>3 DEF Contract!Render
  <2>5. QED
    BY <2>4 DEF Contract!Next
<1>8. QED
  BY <1>1, <1>2, <1>3, <1>4, <1>5, <1>6, <1>7 DEF Node

LEMMA StartRefines ==
    ASSUME GraphInv, TypeOK', Message \/ Revise \/ ChooseAngle \/ Execute
    PROVE  Contract!Start \/ Contract!Answer
<1>1. Offered' \in BOOLEAN
  BY DEF Offered
<1>2. CASE Message \/ Revise
  <2>1. Phase \in {"rest", "image"}
    BY <1>2, MessageDoes, ReviseDoes, Parked
       DEF GraphInv, Phase, Message, Waiting
  <2>2. Phase' = "running" /\ Held' = "none" /\ run'.drafted = FALSE
    BY <1>2, MessageDoes, ReviseDoes DEF GraphInv, Phase, Held, NoRun
  <2>3. QED
    BY <1>1, <2>1, <2>2 DEF Contract!Start
<1>3. CASE ChooseAngle
  <2>1. Phase = "angle" /\ Phase' = "running" /\ run'.drafted = FALSE
    BY <1>3, ChooseAngleDoes DEF GraphInv, Phase
  <2>2. Held' \in {"angle", "none"}
    BY <1>3, ChooseAngleDoes DEF GraphInv, Held
  <2>3. QED
    BY <1>1, <2>1, <2>2 DEF Contract!Answer
<1>4. CASE Execute
  <2>1. Phase = "image" /\ Phase' = "running" /\ run'.drafted = FALSE
    BY <1>4, ExecuteDoes DEF GraphInv, Phase
  <2>2. Held' = "image"
    BY <1>4, ExecuteDoes DEF GraphInv, Held
  <2>3. QED
    BY <1>1, <2>1, <2>2 DEF Contract!Answer
<1>5. QED
  BY <1>2, <1>3, <1>4

LEMMA StopParkedRefines ==
    ASSUME GraphInv, StopParked
    PROVE  Contract!Settle \/ UNCHANGED Contract!vars
<1>1. /\ turn = "none" /\ turn' = "none" /\ run' = run /\ run = NoRun
      /\ thread'.at = "END" /\ row'.park = "none"
  BY StopParkedDoes DEF GraphInv, ResumesAnswered
<1>2. /\ Held = "none" /\ Held' = "none" /\ ~Offered /\ ~Offered'
      /\ run.drafted = FALSE /\ run'.drafted = FALSE
  BY <1>1 DEF Held, Offered, NoRun
<1>3. Phase' = "rest" /\ Phase \in {"rest", "angle", "image"}
  BY <1>1 DEF Phase, ParkKind
<1>4. CASE Phase = "rest"
  BY <1>1, <1>2, <1>3, <1>4 DEF Contract!vars, Offered
<1>5. CASE Phase # "rest"
  BY <1>2, <1>3, <1>5 DEF Contract!Settle, Contract!Phases
<1>6. QED
  BY <1>4, <1>5

(* A caption is drafted only from an angle the user has picked, unless the *)
(* brief offers none, and once in a turn; a picture is rendered only on    *)
(* Execute, once for each.                                                 *)
THEOREM HumanOKRefined ==
    ASSUME "angle" \notin Crashes PROVE Spec => HumanOKSpec
<1>1. Init => Contract!Init
  BY DEF Init, Contract!Init, Phase, ParkKind, Held, Offered, NoRun, NoThread
<1>2. GraphInv /\ GraphInv' /\ GatesHeld /\ [Next]_vars
        => [Contract!Next]_Contract!vars
  <2>1. ASSUME GraphInv, GraphInv', GatesHeld, Next
        PROVE  [Contract!Next]_Contract!vars
    <3>1. TypeOK /\ TypeOK'
      BY <2>1 DEF GraphInv
    <3>2. CASE Node
      BY <2>1, <3>1, <3>2, NodeRefines
    <3>3. CASE Message \/ Revise \/ ChooseAngle \/ Execute
      BY <2>1, <3>1, <3>3, StartRefines DEF Contract!Next
    <3>4. CASE \/ Finish \/ PauseAtAngle \/ PauseAtImage
               \/ ProviderError \/ NodeError \/ Crash
               \/ StopTurn \/ InterruptTurn \/ StopResume
      <4>1. turn # "none" /\ turn' = "none" /\ run' = NoRun
        BY <3>1, <3>4, FinishDoes, PauseAtAngleDoes, PauseAtImageDoes,
           ProviderErrorDoes, NodeErrorDoes, CrashDoes, StopTurnDoes,
           StopResumeDoes
      <4>2. QED
        BY <4>1, Settles DEF Contract!Next
    <3>5. CASE StopParked
      BY <2>1, <3>5, StopParkedRefines DEF Contract!Next
    <3>6. QED
      BY <2>1, <3>2, <3>3, <3>4, <3>5 DEF Next, Progress
  <2>2. ASSUME UNCHANGED vars PROVE UNCHANGED Contract!vars
    BY <2>2 DEF vars, Contract!vars, Phase, ParkKind, Held, Offered, V, C
  <2>3. QED
    BY <2>1, <2>2
<1>3. QED
  BY <1>1, <1>2, GraphInvariant, GatesInvariant, PTL
     DEF Spec, HumanOKSpec, Contract!Spec
=============================================================================
