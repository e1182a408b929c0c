---------------------------- MODULE SessionGraph ----------------------------
(***************************************************************************)
(* The LangGraph of one session: its nodes, its routers, its two           *)
(* interrupts, and what is carried from turn to turn in three places that  *)
(* do not hold the same fields: the sessions row, the checkpoint's         *)
(* channels and the transcript.                                            *)
(*                                                                         *)
(* internal/session/graph.py, nodes.py, harness.py, execute_harness.py,    *)
(* research_harness.py, fast_rules.py, semantic_gate.py, ingest.py, and    *)
(* the calls of service.py that start, resume, persist and undo a run.     *)
(*                                                                         *)
(* One turn runs at a time (SessionTurns); a step is one node.             *)
(***************************************************************************)
EXTENDS Naturals, FiniteSets

CONSTANTS
    Refs,        \* signal ids a brief or a question may refer to
    Known,       \* those that are rows of the signals table
    MaxRetries,  \* MAX_REVIEW_RETRIES
    RawTail,     \* RECAP_RAW_TAIL
    MinNew,      \* RECAP_MIN_NEW
    MaxMsgs,     \* bound on the messages a user writes to
    MaxFaults,   \* bound on the errors of nodes and the restarts
    Crashes      \* the kinds of turn a restart of the process may cut off

ASSUME GraphAssumption ==
    /\ Known \subseteq Refs
    /\ MaxRetries \in Nat
    /\ RawTail \in Nat
    /\ MinNew \in Nat \ {0}
    /\ MaxMsgs \in Nat
    /\ MaxFaults \in Nat
    /\ Crashes \subseteq {"message", "hold", "angle", "image"}

VARIABLES
    row,     \* sessions row: mode, state, park flags, turn_discard
    thread,  \* checkpoint: channels and the node that is next
    turn,    \* the running turn: what started it, or none
    msgs,    \* messages of the transcript
    run,    \* the running turn: its answer, its messages and its history
    faults  \* errors and restarts so far

vars == <<row, thread, turn, msgs, run, faults>>

----------------------------------------------------------------------------
(* Data.  Values are the fields of sessions.state that decide something:   *)
(* source_signal_ids, ranked_signals, need_image, review_attempts, whether *)
(* the brief offers angles, whether the image plan has been rendered, and  *)
(* summary_upto.  Channels are the fields only a checkpoint has.           *)

Values == [cited : SUBSET Refs, ranked : SUBSET Refs, need : BOOLEAN,
           attempts : Nat, offered : BOOLEAN,
           pic : {"none", "planned", "rendered"}, upto : Nat]
NoValues == [cited |-> {}, ranked |-> {}, need |-> FALSE, attempts |-> 0,
             offered |-> FALSE, pic |-> "none", upto |-> 0]

Modes == {"CHAT", "AGENT", "PREVIEW"}
Intents == {"chat", "start", "revise", "confirm_intent"}
Picks == {"none", "match", "other"}

(* Of research, signals_trusted and whether query_source is the fall-back  *)
(* (guessed).  intent, grounding_ok, research_rule_pass and query_source   *)
(* go back to their first value where they are read for the last time.     *)
Channels == [mode : Modes, intent : Intents, hold : BOOLEAN, chosen : Picks,
             grounded : BOOLEAN, pool : BOOLEAN, trusted : BOOLEAN,
             rule : BOOLEAN, guessed : BOOLEAN]
NoChannels == [mode |-> "CHAT", intent |-> "chat", hold |-> FALSE,
               chosen |-> "none", grounded |-> TRUE, pool |-> FALSE,
               trusted |-> FALSE, rule |-> FALSE, guessed |-> FALSE]

Nodes == {"fast_rule_checker", "thread_recap", "route_intent",
          "query_generator", "research_ingest", "load_context",
          "trend_searcher", "product_matcher", "brainstormer", "angle_gate",
          "executor_post", "grounding_check", "reviewer",
          "_reviewer_fail_bump", "edit_copy", "executor_image_plan",
          "hold_locked_plan", "executor_image_gen", "persist_preview",
          "chat", "ack_confirm", "review_exhausted"}
Interrupts == {"angle_gate", "executor_image_gen"}
NoThread == [v |-> NoValues, c |-> NoChannels, at |-> "END"]

Parks == {"none", "angle", "image"}
Anchors == [on : BOOLEAN, v : Values, mode : Modes, n : Nat]
NoAnchor == [on |-> FALSE, v |-> NoValues, mode |-> "CHAT", n |-> 0]

(* The nodes whose provider error surfaces; chat, ack_confirm and          *)
(* thread_recap catch it.                                                  *)
Raising == {"route_intent", "query_generator", "trend_searcher",
            "brainstormer", "executor_post", "reviewer", "edit_copy",
            "executor_image_plan", "executor_image_gen"}

Runs == [ok : {"none", "angle", "image", "used"}, drafted : BOOLEAN,
         owed : BOOLEAN, added : {0, 1}, typed : BOOLEAN,
         fresh : BOOLEAN, missed : BOOLEAN, go : BOOLEAN]
NoRun == [ok |-> "none", drafted |-> FALSE, owed |-> FALSE, added |-> 0,
          typed |-> FALSE, fresh |-> FALSE, missed |-> FALSE,
          go |-> FALSE]

Least(a, b) == IF a <= b THEN a ELSE b
Most(a, b) == IF a >= b THEN a ELSE b

----------------------------------------------------------------------------
(* The rolling recap.  _recap_due and _live_messages.                      *)

Prefix == IF msgs >= RawTail THEN msgs - RawTail ELSE 0
Upto(v) == Least(v.upto, Prefix)

(* Off by one: the fold is due one message late, past the live window.     *)
RecapDueLate(v) == Prefix - Upto(v) > MinNew

RecapDue(v) == Prefix - Upto(v) >= MinNew

(* Where the messages a prompt sees begin.                                 *)
LiveStart(v) ==
    LET cap == RawTail + MinNew - 1
    IN  Most(Upto(v), IF msgs >= cap THEN msgs - cap ELSE 0)

----------------------------------------------------------------------------
(* Routers.                                                                *)

ByIntent(i) == CASE i = "start" -> "load_context"
                 [] i = "revise" -> "edit_copy"
                 [] i = "confirm_intent" -> "ack_confirm"
                 [] OTHER -> "chat"

(* A pick that is still to be judged skips the gate.                       *)
RouteAfterBrainstormerOnPick(v, c) ==
    IF v.offered /\ c.chosen = "none" THEN "angle_gate" ELSE "executor_post"

RouteAfterBrainstormer(v, c) ==
    IF v.offered THEN "angle_gate" ELSE "executor_post"

RouteAfterAngleGate(c) ==
    IF c.chosen # "none" THEN "executor_post" ELSE "brainstormer"

RouteAfterReviewer(v, c, passed) ==
    IF ~passed
    THEN IF v.attempts + 1 > MaxRetries THEN "review_exhausted"
         ELSE "_reviewer_fail_bump"
    ELSE IF v.need THEN "executor_image_plan"
    ELSE IF c.hold THEN "hold_locked_plan"
    ELSE "persist_preview"

----------------------------------------------------------------------------
(* A node of the running turn.  An interrupt node pauses the run unless    *)
(* the turn was resumed right before it.                                   *)

At(n) == turn # "none" /\ thread.at = n /\ (n \in Interrupts => run.go)

Put(v, c, next) == thread' = [v |-> v, c |-> c, at |-> next]

Step(n, v, c, next, r) ==
    /\ At(n)
    /\ Put(v, c, next)
    /\ run' = [r EXCEPT !.go = FALSE]
    /\ UNCHANGED <<row, turn, msgs, faults>>

V == thread.v
C == thread.c

(* classify_semantic_route; unclear, switched off or failing says none.    *)
SemanticRoutes == {"need_search", "chitchat", "act_no_search", "none"}

(* Whether a turn may ask for facts at all; without a route a regular      *)
(* expression decides.                                                     *)
ResearchRulePass(route) ==
    CASE route = "need_search" -> {TRUE}
      [] route = "none" -> BOOLEAN
      [] OTHER -> {FALSE}

FastRuleChecker ==
    \E route \in SemanticRoutes : \E pass \in ResearchRulePass(route) :
        Step("fast_rule_checker", V, [C EXCEPT !.rule = pass],
             "thread_recap", run)

(* A failed recap leaves the summary as it is; a slice without text is     *)
(* marked as folded.                                                       *)
ThreadRecap ==
    \/ Step("thread_recap",
            IF RecapDue(V) THEN [V EXCEPT !.upto = Prefix] ELSE V,
            C, "route_intent", run)
    \/ RecapDue(V) /\ Step("thread_recap", V, C, "route_intent",
                           [run EXCEPT !.missed = TRUE])

(* What the classifier, or the key words without one, may answer, once     *)
(* revise and confirm_intent have been refused outside PREVIEW and a       *)
(* doubtful sense has been sent to chat.                                   *)
IntentsIn(mode) == IF mode = "PREVIEW" THEN Intents ELSE {"chat", "start"}

Routed(c, i) ==
    \/ Step("route_intent", V, [c EXCEPT !.rule = FALSE], ByIntent(i), run)
    \/ C.rule /\ Step("route_intent", V,
                      [c EXCEPT !.rule = FALSE, !.intent = i],
                      "query_generator", run)

(* The flags of an earlier turn are merged into the new ones.              *)
RouteIntentMerging == \E i \in IntentsIn(C.mode) : Routed(C, i)

(* research is replaced, so the signals of an earlier turn that are still  *)
(* in research_signals are no longer marked as trusted.                    *)
RouteIntent ==
    \E i \in IntentsIn(C.mode) : Routed([C EXCEPT !.trusted = FALSE], i)

(* run_query_generator_agent: whether it comes back with queries.          *)
AgentHasQueries == BOOLEAN

(* Queries from the cheap rewrite, from the agent or from the fall-back.   *)
QueryGenerator ==
    \E rewrite \in BOOLEAN, agent \in AgentHasQueries :
        Step("query_generator", V,
             [C EXCEPT !.guessed = ~rewrite /\ ~agent], "research_ingest", run)

(* fetch_and_upsert_tavily: a hit whose upsert has failed is a hit all the *)
(* same.                                                                   *)
Hits == SUBSET Refs

(* merge_pg_and_tavily: hits first, then rows of the table.                *)
Merged(hits) == {hits \cup rows : rows \in SUBSET Known}

(* The result replaces the citations of the session.                       *)
ResearchIngest ==
    \E hits \in Hits : \E ids \in Merged(hits) :
        Step("research_ingest", [V EXCEPT !.cited = ids],
             [C EXCEPT !.pool = ids # {}, !.intent = "chat",
                       !.guessed = FALSE,
                       !.trusted = ~C.guessed /\ hits # {}],
             ByIntent(C.intent), [run EXCEPT !.fresh = TRUE])

LoadContext == Step("load_context", V, [C EXCEPT !.mode = "AGENT"],
                    "trend_searcher", run)

(* research_signals, of whichever turn, come before the signals table.     *)
TrendSearcher ==
    \E ids \in SUBSET (IF C.pool THEN Refs ELSE Known) :
        Step("trend_searcher", [V EXCEPT !.cited = ids, !.ranked = ids], C,
             "product_matcher", run)

(* More than one product fits: ask in chat.                                *)
ProductMatcher ==
    \E next \in {"brainstormer", "chat"} :
        Step("product_matcher", V, C, next, run)

Brainstormer ==
    \E some \in BOOLEAN :
        LET v == [V EXCEPT !.offered = some]
            c == [C EXCEPT !.mode = "AGENT"]
        IN  Step("brainstormer", v, c, RouteAfterBrainstormer(v, c), run)

(* A pick that is none of the offered angles becomes feedback.             *)
AngleGate ==
    LET c == [C EXCEPT !.chosen = IF @ = "match" THEN @ ELSE "none"]
    IN  Step("angle_gate", V, c, RouteAfterAngleGate(c), run)

(* run_executor_post_agent: of what it cites, what was allowed; the draft  *)
(* written without it cites one signal at most.                            *)
DraftCites(allowed) == SUBSET allowed

(* run_edit_copy_agent: a revision that cites nothing keeps the citations. *)
EditCites(allowed, before) == {before} \cup ((SUBSET allowed) \ {{}})

ExecutorPost ==
    \E ids \in DraftCites(V.cited) :
        Step("executor_post", [V EXCEPT !.cited = ids, !.need = TRUE],
             [C EXCEPT !.grounded = TRUE, !.chosen = "none"],
             "grounding_check", [run EXCEPT !.drafted = TRUE, !.owed = TRUE])

(* Nothing checks that the ids are rows.                                   *)
GroundingCheckNumbers ==
    \E numbers \in BOOLEAN :
        Step("grounding_check", V, [C EXCEPT !.grounded = numbers],
             "reviewer", run)

(* Every cited id is a row, and the numbers of the caption are those of    *)
(* the product; ids that are not rows are dropped.                         *)
GroundingCheck ==
    \E numbers \in BOOLEAN :
        Step("grounding_check", [V EXCEPT !.cited = @ \cap Known],
             [C EXCEPT !.grounded = V.cited \subseteq Known /\ numbers],
             "reviewer", run)

(* Without grounding the model is not asked; an answer that cannot be      *)
(* parsed is a refusal.                                                    *)
Reviewer ==
    \E says \in BOOLEAN :
        Step("reviewer", V, [C EXCEPT !.grounded = TRUE],
             RouteAfterReviewer(V, C, C.grounded /\ says), run)

(* The attempt is not counted.                                             *)
BumpNothing(v) == v

(* review_attempts, counted up to the first number past the limit: only    *)
(* the comparison with the limit looks at it.                              *)
Bump(v) == [v EXCEPT !.attempts = Least(@ + 1, MaxRetries + 1)]

ReviewerFailBump ==
    Step("_reviewer_fail_bump", Bump(V), C, "edit_copy", run)

(* A retry forgets that the draft is still waiting for its image.          *)
ImageStillPendingNever(v, c) == FALSE

ImageStillPending(v, c) == v.need /\ ~c.hold

(* wants: the words of the user, or the editor, ask for another picture.   *)
EditCopy ==
    \E wants \in BOOLEAN,
       ids \in EditCites(V.cited \cup V.ranked, V.cited) :
        Step("edit_copy",
             [V EXCEPT !.cited = ids, !.need = wants \/ ImageStillPending(V, C)],
             [C EXCEPT !.grounded = TRUE], "grounding_check",
             [run EXCEPT !.owed = @ \/ (wants /\ ~C.hold)])

ExecutorImagePlan ==
    Step("executor_image_plan", [V EXCEPT !.pic = "planned"], C,
         "executor_image_gen", [run EXCEPT !.owed = FALSE])

HoldLockedPlan ==
    Step("hold_locked_plan", [V EXCEPT !.need = FALSE],
         [C EXCEPT !.hold = FALSE], "executor_image_gen", run)

ExecutorImageGen ==
    Step("executor_image_gen",
         [V EXCEPT !.pic = IF @ = "planned" THEN "rendered" ELSE @], C,
         "persist_preview", [run EXCEPT !.ok = "used"])

PersistPreview ==
    Step("persist_preview", [V EXCEPT !.need = FALSE],
         [C EXCEPT !.mode = "PREVIEW"], "END", run)

(* A provider error in chat becomes its reply.                             *)
Chat == Step("chat", V, [C EXCEPT !.mode = "CHAT"], "END",
             [run EXCEPT !.added = 1])

AckConfirm == Step("ack_confirm", V, C, "END", [run EXCEPT !.added = 1])

ReviewExhausted ==
    Step("review_exhausted", Bump(V), C, "END", [run EXCEPT !.added = 1])

Node ==
    \/ FastRuleChecker \/ ThreadRecap \/ RouteIntent \/ QueryGenerator
    \/ ResearchIngest \/ LoadContext \/ TrendSearcher \/ ProductMatcher
    \/ Brainstormer \/ AngleGate \/ ExecutorPost \/ GroundingCheck
    \/ Reviewer \/ ReviewerFailBump \/ EditCopy \/ ExecutorImagePlan
    \/ HoldLockedPlan \/ ExecutorImageGen \/ PersistPreview
    \/ Chat \/ AckConfirm \/ ReviewExhausted

----------------------------------------------------------------------------
(* What the session waits for: the flags of the row first, then the node   *)
(* the checkpoint stopped before.                                          *)

ParkKind ==
    IF row.park # "none" THEN row.park
    ELSE CASE thread.at = "executor_image_gen" -> "image"
           [] thread.at = "angle_gate" -> "angle"
           [] thread.at = "END" -> "none"
           [] OTHER -> "unknown"

Waiting(kind) == turn = "none" /\ ParkKind = kind

Says(b) == (b => msgs < MaxMsgs) /\ msgs' = IF b THEN msgs + 1 ELSE msgs

(* The fields the row has go into the thread; the others stay.             *)
GraphValues(v, c, mode, hold) ==
    Put(v, [c EXCEPT !.mode = mode, !.hold = hold], "fast_rule_checker")

(* run_session_turn; a question that was handed over brings its citations. *)
Message ==
    /\ Waiting("none")
    /\ \E ids \in {row.v.cited} \cup SUBSET Refs :
           GraphValues([row.v EXCEPT !.cited = ids], C, row.mode, FALSE)
    /\ turn' = "message" /\ run' = NoRun /\ Says(TRUE)
    /\ UNCHANGED <<row, faults>>

(* revise_while_image_parked: the thread of the pending script is deleted. *)
Revise ==
    /\ Waiting("image")
    /\ GraphValues(row.v, NoChannels, "PREVIEW", TRUE)
    /\ turn' = "hold" /\ run' = NoRun /\ Says(TRUE)
    /\ UNCHANGED <<row, faults>>

(* choose_angle_turn.  The update is attributed to the node that ran last, *)
(* whose router is asked again.                                            *)
ChooseAngle ==
    /\ Waiting("angle")
    /\ \E pick \in {"match", "other"}, typed \in BOOLEAN :
           /\ LET c == [C EXCEPT !.chosen = pick]
              IN  Put(V, c, CASE thread.at = "angle_gate" ->
                                    RouteAfterBrainstormer(V, c)
                              [] thread.at = "brainstormer" ->
                                    RouteAfterAngleGate(c)
                              [] OTHER -> thread.at)
           /\ run' = [NoRun EXCEPT !.ok = "angle", !.go = TRUE,
                                    !.typed = typed, !.fresh = C.trusted]
           /\ Says(typed)
    /\ turn' = "angle"
    /\ UNCHANGED <<row, faults>>

(* resume_image_turn.                                                      *)
Execute ==
    /\ Waiting("image")
    /\ turn' = "image"
    /\ run' = [NoRun EXCEPT !.ok = "image", !.go = TRUE, !.fresh = C.trusted]
    /\ UNCHANGED <<row, thread, msgs, faults>>

----------------------------------------------------------------------------
(* The end of a run.                                                       *)

Resumed == turn \in {"angle", "image"}

(* The messages of the request that is running.                            *)
Own == IF Resumed /\ ~run.typed THEN 0 ELSE 1

Before(n) == IF msgs >= n THEN msgs - n ELSE 0

(* What Discard goes back to.  A revision of a pending script goes back to *)
(* the last accepted version, not to the script it replaces.               *)
PreState == IF turn = "hold" /\ row.anchor.on THEN row.anchor.v ELSE row.v
PreMode == IF turn = "hold" /\ row.anchor.on THEN row.anchor.mode ELSE row.mode

AnchorWith(n) ==
    IF ~Resumed THEN [on |-> TRUE, v |-> PreState, mode |-> PreMode, n |-> n]
    ELSE IF row.anchor.on THEN [row.anchor EXCEPT !.n = @ + n]
    ELSE NoAnchor

Rest == turn' = "none" /\ run' = NoRun

Finish ==
    /\ turn # "none" /\ thread.at = "END"
    /\ row' = [v |-> V, mode |-> C.mode, park |-> "none", anchor |-> NoAnchor,
               pend |-> {}]
    /\ msgs' = msgs + run.added
    /\ Rest
    /\ UNCHANGED <<thread, faults>>

PauseAtAngle ==
    /\ turn # "none" /\ ~run.go /\ thread.at = "angle_gate"
    /\ row' = [v |-> V, mode |-> C.mode, park |-> "angle",
               anchor |-> AnchorWith(Own), pend |-> {}]
    /\ Rest
    /\ UNCHANGED <<thread, msgs, faults>>

(* The pending revision is inserted, unless the latest one has the same    *)
(* caption and plan, and the thread is written from the row, which is      *)
(* still the one the turn began with.                                      *)
PauseAtImage ==
    /\ turn # "none" /\ ~run.go /\ thread.at = "executor_image_gen"
    /\ \E staged \in IF V.pic = "none" THEN {FALSE}
                     ELSE IF row.v.pic = "none" THEN {TRUE} ELSE BOOLEAN :
           LET v == IF staged THEN [V EXCEPT !.pic = "planned"] ELSE V
               w == [row.v EXCEPT !.need = TRUE, !.pic = "planned"]
           IN  /\ row' = [v |-> v, park |-> "image",
                          mode |-> IF staged THEN "PREVIEW" ELSE C.mode,
                          anchor |-> AnchorWith(Own), pend |-> V.cited]
               /\ IF staged
                  THEN Put(w, [C EXCEPT !.mode = "PREVIEW"],
                           "executor_image_gen")
                  ELSE UNCHANGED thread
    /\ Rest
    /\ UNCHANGED <<msgs, faults>>

(* _repark_graph_at_interrupt.                                             *)
Repark(kind, r) ==
    thread' =
      [v |-> [r.v EXCEPT !.need = kind = "image" \/ @],
       c |-> [NoChannels EXCEPT !.mode = r.mode],
       at |-> IF kind = "image" THEN "executor_image_gen"
              ELSE RouteAfterBrainstormer(r.v, NoChannels)]

----------------------------------------------------------------------------
(* Failures.                                                               *)

Fault == faults < MaxFaults /\ faults' = faults + 1

(* Whatever failed is parked again.                                        *)
ParkAfterErrorAlways == turn

ParkAfterError == IF Resumed THEN turn ELSE "none"

(* A provider error is told to the user.  A resumed park is parked again;  *)
(* another thread stays before the node that failed.                       *)
ProviderError ==
    /\ Fault /\ thread.at \in Raising /\ At(thread.at)
    /\ LET v == [V EXCEPT !.need = turn = "image" \/ @]
           r == [v |-> v, mode |-> C.mode,
                 park |-> ParkAfterError,
                 anchor |-> AnchorWith(Own + 1),
                 pend |-> IF turn = "image" THEN row.pend ELSE {}]
       IN  /\ row' = r
           /\ IF Resumed THEN Repark(turn, r) ELSE UNCHANGED thread
    /\ msgs' = msgs + 1
    /\ Rest

(* Any other error: the transaction is rolled back, the user's message     *)
(* with it, and what is persisted is the error alone.                      *)
NodeError ==
    /\ Fault /\ At(thread.at) /\ thread.at # "END"
    /\ row' = [v |-> NoValues, mode |-> row.mode, park |-> "none",
               anchor |-> NoAnchor, pend |-> {}]
    /\ msgs' = Before(Own) + 1
    /\ Rest
    /\ UNCHANGED thread

(* The process stops: the checkpoint is kept, the transaction is not.      *)
Crash ==
    /\ Fault /\ turn \in Crashes
    /\ msgs' = Before(Own)
    /\ Rest
    /\ UNCHANGED <<row, thread>>

----------------------------------------------------------------------------
(* Stop.                                                                   *)

(* _discard_turn_state: the row is what it was before the turn.            *)
Discard(v, mode, n) ==
    /\ row' = [v |-> v, mode |-> mode, park |-> "none", anchor |-> NoAnchor,
               pend |-> {}]
    /\ msgs' = Before(n)
    /\ thread' = NoThread

(* Stop of a turn that started from a message.                             *)
StopTurn ==
    /\ turn \in {"message", "hold"}
    /\ Discard(PreState, IF turn = "hold" THEN "PREVIEW" ELSE row.mode, Own)
    /\ Rest
    /\ UNCHANGED faults

(* Stop that keeps the messages, and those of the nodes that are done.     *)
InterruptTurn ==
    /\ turn \in {"message", "hold"}
    /\ row' = IF turn = "hold"
              THEN [row EXCEPT !.park = "none", !.mode = "PREVIEW"] ELSE row
    /\ msgs' = msgs + run.added
    /\ thread' = NoThread
    /\ Rest
    /\ UNCHANGED faults

(* Stop of a resumed turn: parked as before.                               *)
StopResume ==
    /\ Resumed
    /\ row' = [row EXCEPT !.park = turn]
    /\ Repark(turn, row)
    /\ msgs' = Before(Own)
    /\ Rest
    /\ UNCHANGED faults

(* Stop while parked, also before a node that failed.                      *)
StopParked ==
    /\ turn = "none" /\ ParkKind # "none"
    /\ IF row.anchor.on
       THEN Discard(row.anchor.v, row.anchor.mode, row.anchor.n)
       ELSE Discard(NoValues, row.mode, 0)
    /\ UNCHANGED <<turn, run, faults>>

----------------------------------------------------------------------------
Init ==
    /\ row = [v |-> NoValues, mode |-> "CHAT", park |-> "none",
              anchor |-> NoAnchor, pend |-> {}]
    /\ thread = NoThread
    /\ turn = "none"
    /\ msgs = 0
    /\ run = NoRun
    /\ faults = 0

Progress == Node \/ Finish \/ PauseAtAngle \/ PauseAtImage

Next ==
    \/ Progress
    \/ Message \/ Revise \/ ChooseAngle \/ Execute
    \/ StopTurn \/ InterruptTurn \/ StopResume \/ StopParked
    \/ ProviderError \/ NodeError \/ Crash

(* The task of a turn runs until it ends: the event loop is fair to it and *)
(* every provider call has a timeout.                                      *)
Spec == Init /\ [][Next]_vars /\ WF_vars(Progress)

----------------------------------------------------------------------------
Rows == [v : Values, mode : Modes, park : Parks, anchor : Anchors,
         pend : SUBSET Refs]
Threads == [v : Values, c : Channels, at : Nodes \cup {"END"}]

(* Every variable has its type.                                            *)
TypeOK ==
    /\ row \in Rows
    /\ thread \in Threads
    /\ turn \in {"none", "message", "hold", "angle", "image"}
    /\ msgs \in Nat
    /\ run \in Runs
    /\ faults \in 0..MaxFaults

(* Where a caption that a turn has drafted may be.                         *)
AfterDraft == {"grounding_check", "reviewer", "_reviewer_fail_bump",
               "edit_copy", "review_exhausted", "executor_image_plan",
               "hold_locked_plan", "executor_image_gen", "persist_preview",
               "END"}

(* Strengthens OwedImageIsPlanned: until its plan is written, a draft that *)
(* needs a picture says so, or belongs to a pending script, whose plan is  *)
(* locked and whose run stops before the image.                            *)
DebtKept ==
    turn # "none" /\ run.owed =>
        /\ ~run.go
        /\ thread.at \in AfterDraft \ {"persist_preview"}
        /\ V.need \/ C.hold \/ thread.at = "executor_image_gen"

(* Strengthens ReviewedIsGrounded: from the check to the reviewer's word,  *)
(* in any thread, whoever runs it.                                         *)
CitesRows ==
    (\/ thread.at \in {"reviewer", "executor_image_plan", "hold_locked_plan"}
     \/ thread.at = "persist_preview" /\ turn \in {"message", "hold"})
    => V.cited \subseteq Known

(* Strengthens NoBlindBand: from the recap on to the end of the turn.      *)
BandCovered ==
    turn \in {"message", "hold"} /\ ~run.missed
        /\ thread.at \notin {"fast_rule_checker", "thread_recap"}
    => LiveStart(V) <= Upto(V)

(* A step is resumed only by an answer; a run that has ended left nothing. *)
ResumesAnswered ==
    /\ run.go => Resumed
    /\ turn = "none" => run = NoRun

(* What keeps the two gates as long as no angle pick is cut off by a       *)
(* restart: where a session is when it is parked at the angles, who holds  *)
(* the pick and until when, and that one turn drafts once.                 *)
GatesHeld ==
    /\ row.park = "angle" =>
          \/ turn = "angle"
          \/ turn = "none" /\ thread.at \in {"angle_gate", "executor_post"}
    /\ row.park # "none" /\ turn = "none" /\ thread.at = "executor_post" => ~V.offered
    /\ run.go /\ turn = "angle" => thread.at \in {"angle_gate", "executor_post"}
    /\ run.go /\ turn = "image" => run.ok = "image"
    /\ run.ok = "angle" => turn = "angle"
    /\ turn # "none" /\ thread.at = "executor_post" /\ V.offered =>
          run.ok = "angle" /\ C.chosen = "match"
    /\ C.chosen # "none" =>
          /\ thread.at \in {"angle_gate", "executor_post"}
          /\ \/ turn = "none" /\ row.park = "none"
             \/ /\ turn = "angle" /\ run.ok = "angle"
                /\ thread.at = "angle_gate" => run.go
    /\ run.drafted => thread.at \in AfterDraft

(* A draft that needs a picture does not reach a preview before a plan for *)
(* it has been written (_image_still_pending, nodes.py), however many      *)
(* retries, re-parks and failures lie between.                             *)
OwedImageIsPlanned == At("persist_preview") => ~run.owed

(* What the reviewer has passed cites rows only (grounding_check).         *)
ReviewedIsGrounded ==
    (\/ At("executor_image_plan") \/ At("hold_locked_plan")
     \/ At("persist_preview") /\ ~Resumed)
    => V.cited \subseteq Known

(* Signals are told to be trusted only in the turn whose search has found  *)
(* them, or in the resumes of that turn (_signals_trusted, nodes.py).      *)
TrustIsOfThisTurn ==
    turn # "none" /\ C.trusted /\ thread.at \notin
        {"fast_rule_checker", "thread_recap", "route_intent"} => run.fresh

(* ADR 0057: recap and live window are the whole transcript, unless the    *)
(* fold of this very turn has failed.                                      *)
NoBlindBand ==
    (At("route_intent") \/ At("query_generator") \/ At("chat"))
        /\ ~Resumed /\ ~run.missed => LiveStart(V) <= Upto(V)

(* The session as HumanOK sees it; a pick that is none of the angles is no  *)
(* answer.                                                                 *)
Phase == IF turn # "none" THEN "running"
         ELSE IF ParkKind \in {"angle", "image"} THEN ParkKind ELSE "rest"
Held == IF run.ok = "angle" /\ C.chosen # "match" THEN "none" ELSE run.ok
Offered == turn # "none" /\ V.offered

(* The promise of HumanOK.                                                 *)
Contract == INSTANCE HumanOK WITH
    phase <- Phase, ok <- Held, options <- Offered, drafted <- run.drafted
HumanOKSpec == Contract!Spec

(* Every turn ends.                                                        *)
RunEnds == turn # "none" ~> turn = "none"

(* What is executed is what was reviewed: Execute accepts the version that *)
(* is pending, citations included (executor_post, nodes.py: an empty list  *)
(* is not a reason to attach unrelated signals).                           *)
ExecutedAsReviewed ==
    At("persist_preview") /\ turn = "image" => V.cited = row.pend

(* review_exhausted tells of MaxRetries retries: a turn starts with none.   *)
TurnHasItsRetries == At("fast_rule_checker") => V.attempts = 0

(* A version that is accepted has its picture.                             *)
AcceptedImageIsRendered == At("persist_preview") => V.pic # "planned"
=============================================================================
