--------------------------- MODULE SessionTurns ---------------------------
(***************************************************************************)
(* The turn lifecycle of one chat session: the HTTP requests that drive it *)
(* (send a message, Execute, pick an angle, Stop, interrupt, edit the      *)
(* draft or its pictures), the in-process turn registry, the sessions row  *)
(* and its Postgres row lock, the preview_drafts and messages tables, and  *)
(* the LangGraph checkpoint, which is committed on its own connection and  *)
(* therefore survives a rollback and a crash.                              *)
(*                                                                         *)
(* internal/session/service.py, internal/session/turn_registry.py,         *)
(* cmd/api/routes/sessions.py.                                             *)
(*                                                                         *)
(* Each request is one asyncio task with one database session.  A task     *)
(* runs alone between two awaits, so an action is the code between two     *)
(* awaits at which another request may observe or change something.        *)
(***************************************************************************)
EXTENDS Naturals, FiniteSets

CONSTANTS
    Req,        \* the requests a client may send
    NoReq,      \* "no request": free lock, empty registry, no author
    Seed,       \* the author of the versions that exist initially
    Kinds,      \* the kinds of request that are sent
    MaxRev,     \* bound on preview revisions
    Crashes     \* whether the process may be restarted

AllKinds == {"message", "execute", "pick", "stop", "interrupt", "edit", "image",
             "redirect"}

ASSUME SessionAssumption ==
    /\ NoReq \notin Req
    /\ Seed \notin Req
    /\ Seed # NoReq
    /\ Kinds \subseteq AllKinds
    /\ MaxRev \in Nat \ {0}
    /\ Crashes \in BOOLEAN

VARIABLES
    row,        \* committed sessions row
    drafts,     \* committed preview_drafts rows
    msgs,       \* committed session messages of the modelled requests
    graph,      \* LangGraph checkpoint: the pending node and its version
    reg,        \* SessionTurnRegistry: the request that is registered
    cancelling, \* the requests whose entry.cancelling is set
    keep,       \* the requests whose entry.mode is "interrupt"
    discarded,  \* the requests whose entry.discarded event is set
    lock,       \* the request whose transaction holds the sessions row lock
    kind,       \* what each request is
    pc,         \* where each request is
    turn,       \* what kind of turn it has become
    sess,       \* its ORM copy of the sessions row
    pre,        \* entry.pre_state / entry.parked_restore
    run,        \* the outcome of its graph run and the version it works on
    tgt,        \* stop: the entry it cancels
    tx          \* its uncommitted transaction

tables == <<row, drafts, msgs>>
entry == <<reg, cancelling, keep, discarded>>
vars == <<tables, graph, entry, lock, kind, pc, turn, sess, pre, run, tgt, tx>>

----------------------------------------------------------------------------
(* Data. A version is a preview revision together with the request that    *)
(* minted its approval token; an anchor is session.state["turn_discard"].  *)

Version == [rev : 0..MaxRev, by : Req \cup {Seed, NoReq}]
NoVersion == [rev |-> 0, by |-> NoReq]
Messages == Req \X {"user", "assistant"}

Anchor == [on : BOOLEAN, ver : Version, preview : BOOLEAN,
           msgs : SUBSET Messages]
NoAnchor == [on |-> FALSE, ver |-> NoVersion, preview |-> FALSE, msgs |-> {}]

Parks == {"none", "image", "angle"}
Row == [ver : Version, preview : BOOLEAN, park : Parks, anchor : Anchor]
BlankRow == [ver |-> NoVersion, preview |-> FALSE, park |-> "none",
             anchor |-> NoAnchor]

Nodes == {"none", "image", "angle", "mid"}
NoGraph == [next |-> "none", ver |-> NoVersion]

(* A transaction has touched the sessions row or not; it has written these *)
(* columns of it, and inserted and deleted these rows.                     *)
Columns == {"state", "mode"}
Tx == [row : BOOLEAN, cols : SUBSET Columns, add : SUBSET Version,
       del : SUBSET Version, addm : SUBSET Messages, delm : SUBSET Messages]
NoTx == [row |-> FALSE, cols |-> {}, add |-> {}, del |-> {}, addm |-> {}, delm |-> {}]

Outcomes == {"chat", "accept", "image", "angle", "error", "blank"}
NoRun == [out |-> "chat", preview |-> FALSE, ver |-> NoVersion]

InFlight == {"running", "ended", "staged"}
Final == {"ok", "refused", "failed", "discarded", "kept", "reparked"}
Steps == {"idle", "check", "ask", "wipe", "add", "begin", "committing",
          "handled", "waiting", "following", "drop", "dropping", "render",
          "insert", "stage", "inserted"} \cup InFlight \cup Final

Done(r) == pc[r] \in Final
IsStop(r) == kind[r] \in {"stop", "interrupt"}
IsResume(r) == turn[r] \in {"image", "angle"}

(* SessionTurnRegistry.is_busy: registered and entry.task is not done. *)
IsBusy == reg # NoReq /\ ~Done(reg)

(* Discard deletes the turn's own messages: entry.message_ids. A resume    *)
(* starts with no user row unless the pick was typed.                      *)
TurnMessages(r) == {<<r, "user">>, <<r, "assistant">>}

----------------------------------------------------------------------------
(* What a transaction sees, and what committing it does.                   *)

Visible(r) == (drafts \ tx[r].del) \cup tx[r].add

(* repos.get_latest_preview_draft, or the given version without a draft.   *)
Latest(D, v) == IF D = {} THEN {v}
                ELSE {d \in D : \A e \in D : e.rev <= d.rev}

(* Off by one: a pending revision right above the accepted one survives.   *)
AboveOffByOne(D, v) == {d \in D : d.rev > v.rev + 1}

Above(D, v) == {d \in D : d.rev > v.rev}

(* The unique (session_id, revision) index: another transaction that has   *)
(* inserted or deleted this revision and has not ended makes us wait.      *)
RevBlocked(r, n) == \E o \in Req \ {r} :
    \E d \in tx[o].add \cup tx[o].del : d.rev = n

RevTaken(r, n) == \E d \in Visible(r) : d.rev = n

LockFree(r) == lock \in {NoReq, r}

(* SQLAlchemy writes the columns whose value has changed in the request's  *)
(* copy of the row (repos.touch_session says so of an equal state); state  *)
(* holds more than is modelled, so it may count as changed or not when     *)
(* what is modelled of it is the same.                                     *)
SameState(a, b) == [a EXCEPT !.preview = b.preview] = b

Dirty(r, s) ==
    LET c == tx[r].cols \cup (IF s.preview = sess[r].preview THEN {} ELSE {"mode"})
    IN  {c \cup {"state"}} \cup (IF SameState(sess[r], s) THEN {c} ELSE {})

Commit(r) ==
    /\ row' = IF ~tx[r].row THEN row
              ELSE [IF "state" \in tx[r].cols THEN sess[r] ELSE row EXCEPT
                      !.preview = IF "mode" \in tx[r].cols THEN sess[r].preview
                                  ELSE row.preview]
    /\ drafts' = Visible(r)
    /\ msgs' = (msgs \ tx[r].delm) \cup tx[r].addm

Goto(r, where) == pc' = [pc EXCEPT ![r] = where]

(* The task ends and its database session closes: whatever it did not      *)
(* commit is rolled back, and the row lock it held is released.            *)
End(r, how) ==
    /\ Goto(r, how)
    /\ sess' = [sess EXCEPT ![r] = BlankRow]
    /\ run' = [run EXCEPT ![r] = NoRun]
    /\ tx' = [tx EXCEPT ![r] = NoTx]
    /\ tgt' = [tgt EXCEPT ![r] = NoReq]
    /\ lock' = IF lock = r THEN NoReq ELSE lock

(* Deletes whichever entry is registered: the identity check is dropped.   *)
ClearAny(e) == reg' = NoReq

(* The finally clause that clears the entry is dropped.                    *)
ClearNever(e) == reg' = reg

(* turn_registry.clear(session_id, entry=...): only the caller's own entry. *)
Clear(e) == reg' = IF reg = e THEN NoReq ELSE reg

----------------------------------------------------------------------------
(* Sending a message, Execute and picking an angle: who is let in.         *)

(* The route reads the sessions row, without a lock.                       *)
Load(r) ==
    /\ pc[r] = "idle"
    /\ sess' = [sess EXCEPT ![r] = row]
    /\ Goto(r, "check")
    /\ UNCHANGED <<tables, graph, entry, lock, kind, turn, pre, run, tgt, tx>>

(* What a turn does when the session turns out to be parked at p.  A typed *)
(* reply is a pick at the angle gate and a revision at the image park; a   *)
(* park nobody models refuses it, and a resume needs the park it resumes.  *)
Refuses(r, p) ==
    \/ turn[r] = "message" /\ (p = "mid" \/ (p # "none" /\ IsBusy))
    \/ IsResume(r) /\ p # turn[r]

Admit(r, p) ==
    \/ /\ Refuses(r, p)
       /\ End(r, "refused")
       /\ UNCHANGED turn
    \/ /\ ~Refuses(r, p)
       /\ turn[r] = "message" /\ p # "none"
       /\ turn' = [turn EXCEPT ![r] = IF p = "image" THEN "revise" ELSE "angle"]
       /\ Goto(r, IF p = "image" THEN "wipe"
                  ELSE IF sess[r].park = "angle" THEN "add" ELSE "ask")
       /\ UNCHANGED <<lock, sess, run, tgt, tx>>
    \/ /\ ~Refuses(r, p)
       /\ turn[r] # "message" \/ p = "none"
       /\ Goto(r, "add")
       /\ UNCHANGED <<turn, lock, sess, run, tgt, tx>>

(* is_busy, then session_park_kind: the row's flags decide without an      *)
(* await; without flags the checkpoint is asked.                           *)
CheckTurn(r) ==
    /\ pc[r] = "check" /\ turn[r] # "none"
    /\ \/ IsBusy /\ End(r, "refused") /\ UNCHANGED turn
       \/ ~IsBusy /\ sess[r].park # "none" /\ Admit(r, sess[r].park)
       \/ /\ ~IsBusy /\ sess[r].park = "none"
          /\ Goto(r, "ask")
          /\ UNCHANGED <<turn, lock, sess, run, tgt, tx>>
    /\ UNCHANGED <<tables, graph, entry, kind, pre>>

AskGraph(r) ==
    /\ pc[r] = "ask" /\ turn[r] # "none"
    /\ Admit(r, graph.next)
    /\ UNCHANGED <<tables, graph, entry, kind, pre>>

Stripped(s) == [s EXCEPT !.park = "none", !.anchor = NoAnchor]

(* revise_while_image_parked deletes the checkpoint first; run_session_turn *)
(* then looks at the registry again.  The discard anchor stays the last    *)
(* accepted version.                                                       *)
Wipe(r) ==
    /\ pc[r] = "wipe"
    /\ graph' = NoGraph
    /\ \/ IsBusy /\ End(r, "refused") /\ UNCHANGED pre
       \/ /\ ~IsBusy
          /\ pre' = [pre EXCEPT ![r] =
                IF sess[r].anchor.on
                THEN [BlankRow EXCEPT !.ver = sess[r].anchor.ver,
                                      !.preview = sess[r].anchor.preview]
                ELSE Stripped(sess[r])]
          /\ LET s == [sess[r] EXCEPT !.park = IF @ = "image" THEN "none" ELSE @,
                                      !.preview = TRUE]
             IN  /\ sess' = [sess EXCEPT ![r] = s]
                 /\ \E c \in Dirty(r, s) : tx' = [tx EXCEPT ![r] = [tx[r] EXCEPT !.cols = c]]
          /\ Goto(r, "add")
          /\ UNCHANGED <<lock, run, tgt>>
    /\ UNCHANGED <<tables, entry, kind, turn>>

(* The user row, then touch_session and list_session_messages: the         *)
(* autoflushed UPDATE takes the sessions row lock, which is held until the *)
(* request ends.  A card pick and Execute write no user row, nor does a    *)
(* typed pick whose row an earlier attempt left as the last message.       *)
UserRows(r) ==
    CASE turn[r] \in {"message", "revise"} -> {{<<r, "user">>}}
      [] turn[r] = "angle" /\ kind[r] = "message" -> {{}, {<<r, "user">>}}
      [] OTHER -> {{}}

AddMsg(r) ==
    /\ pc[r] = "add"
    /\ lock = NoReq
    /\ lock' = r
    /\ \E m \in UserRows(r) :
          tx' = [tx EXCEPT ![r] = [tx[r] EXCEPT !.row = TRUE, !.addm = m]]
    /\ pre' = [pre EXCEPT ![r] =
                 CASE turn[r] = "message" -> Stripped(sess[r])
                   [] IsResume(r) -> [sess[r] EXCEPT !.park = turn[r]]
                   [] OTHER -> @]
    /\ Goto(r, "begin")
    /\ UNCHANGED <<tables, graph, entry, kind, turn, sess, run, tgt>>

(* Registration loses against another registered turn.  A new turn starts  *)
(* the graph on the request's own values, a resume continues the           *)
(* checkpoint; applying a pick to a deleted checkpoint raises.             *)
Begin(r) ==
    /\ pc[r] = "begin"
    /\ \/ /\ IsBusy
          /\ End(r, "refused")
          /\ UNCHANGED <<graph, entry>>
       \/ /\ ~IsBusy
          /\ turn[r] = "angle" /\ graph.next = "none"
          /\ reg' = NoReq
          /\ End(r, "failed")
          /\ UNCHANGED <<graph, cancelling, keep, discarded>>
       \/ /\ ~IsBusy
          /\ ~(turn[r] = "angle" /\ graph.next = "none")
          /\ reg' = r
          /\ graph' = IF ~IsResume(r) THEN [next |-> "mid", ver |-> sess[r].ver]
                      ELSE IF graph.next = "none" THEN graph
                      ELSE [graph EXCEPT !.next = "mid"]
          /\ run' = [run EXCEPT ![r].ver = graph'.ver]
          /\ Goto(r, "running")
          /\ UNCHANGED <<cancelling, keep, discarded, lock, sess, tgt, tx>>
    /\ UNCHANGED <<tables, kind, turn, pre>>

----------------------------------------------------------------------------
(* The graph run and what is persisted after it.                           *)

(* A cancelled task resumes with CancelledError, never with a result.      *)
Uncancelled(r) == r \notin cancelling

(* A revise never accepts (hold_image_park), Execute runs from the image   *)
(* node straight to persist_preview, and a deleted checkpoint only raises. *)
CanEnd(r) ==
    IF graph.next = "none" THEN {"blank"}
    ELSE CASE turn[r] = "revise" -> Outcomes \ {"accept"}
           [] turn[r] = "image" -> {"accept", "error", "blank"}
           [] OTHER -> Outcomes

(* _invoke_graph: the run ends, parks, or stops at a provider error with   *)
(* its checkpoint in the middle.  Any other exception rolls the request's  *)
(* transaction back, user row and row lock included, and leaves only an    *)
(* error to persist ("blank").                                             *)
GraphEnd(r) ==
    /\ pc[r] = "running" /\ Uncancelled(r)
    /\ \E o \in CanEnd(r) :
        /\ o = "accept" => run[r].ver.rev < MaxRev
        /\ \E p \in CASE o = "accept" -> {TRUE}
                       [] o = "angle" -> {FALSE}
                       [] o = "blank" -> {row.preview}
                       [] OTHER -> {FALSE, sess[r].preview} :
            run' = [run EXCEPT ![r] =
                [out |-> o, preview |-> p,
                 ver |-> CASE o = "accept" -> [rev |-> @.ver.rev + 1, by |-> r]
                           [] o = "blank" -> NoVersion
                           [] OTHER -> @.ver]]
        /\ graph' = CASE o \in {"chat", "accept"} -> NoGraph
                      [] o \in {"image", "angle"} -> [graph EXCEPT !.next = o]
                      [] OTHER -> graph
        /\ \/ /\ o = "blank"
              /\ tx' = [tx EXCEPT ![r] = NoTx]
              /\ sess' = [sess EXCEPT ![r] = row]
              /\ lock' = NoReq
           \/ o # "blank" /\ UNCHANGED <<tx, sess, lock>>
    /\ Goto(r, "ended")
    /\ UNCHANGED <<tables, entry, kind, turn, pre, tgt>>

(* The preview_drafts row a finished run inserts.  Parking before image    *)
(* generation stages a new revision above the latest one; an accepted run  *)
(* inserts its revision only when that is above the latest one.            *)
Wanted(r) ==
    CASE run[r].out = "image" ->
           {[rev |-> v.rev + 1, by |-> r] : v \in Latest(Visible(r), sess[r].ver)}
      [] run[r].out = "accept" /\ \A d \in Visible(r) : d.rev < run[r].ver.rev ->
           {run[r].ver}
      [] OTHER -> {}

(* _stage_pending_image_draft: insert the pending revision, then write it  *)
(* to the checkpoint; nothing when the latest draft already says the same. *)
Stage(r) ==
    /\ pc[r] = "ended" /\ run[r].out = "image" /\ Uncancelled(r)
    /\ \/ \E d \in Wanted(r) :
            /\ d.rev <= MaxRev /\ ~RevBlocked(r, d.rev)
            /\ tx' = [tx EXCEPT ![r].add = @ \cup {d}]
            /\ run' = [run EXCEPT ![r] = [run[r] EXCEPT !.ver = d, !.preview = TRUE]]
            /\ graph' = [next |-> "image", ver |-> d]
       \/ Visible(r) # {} /\ UNCHANGED <<tx, run, graph>>
    /\ Goto(r, "staged")
    /\ UNCHANGED <<tables, entry, lock, kind, turn, sess, pre, tgt>>

(* The discard anchor written with the new state.  A run that ended leaves *)
(* none; a park writes one for its own user row, and a resume extends the  *)
(* anchor of the park it came from.                                        *)
NextAnchor(r) ==
    IF run[r].out \notin {"image", "angle", "error"} THEN NoAnchor
    ELSE IF ~IsResume(r)
    THEN [on |-> TRUE, ver |-> pre[r].ver, preview |-> pre[r].preview,
          msgs |-> TurnMessages(r)]
    ELSE IF sess[r].anchor.on
    THEN [sess[r].anchor EXCEPT !.msgs =
            @ \cup {<<r, "assistant">>} \cup (tx[r].addm \cap TurnMessages(r))]
    ELSE NoAnchor

NextPark(r) ==
    CASE run[r].out \in {"image", "angle"} -> run[r].out
      [] run[r].out = "error" /\ IsResume(r) -> turn[r]
      [] OTHER -> "none"

(* The revision is bumped a second time on its way into the state.         *)
NextRowBumpedTwice(r) ==
    [ver |-> [run[r].ver EXCEPT !.rev = @ + 1], preview |-> run[r].preview,
     park |-> NextPark(r), anchor |-> NextAnchor(r)]

NextRow(r) == [ver |-> run[r].ver, preview |-> run[r].preview,
               park |-> NextPark(r), anchor |-> NextAnchor(r)]

(* _persist_after_invoke: the assistant reply, the whole session state, an *)
(* accepted draft, and the registry entry cleared on the way out.  A       *)
(* resume that met a provider error re-seats its park in the checkpoint.   *)
Persist(r) ==
    /\ pc[r] = IF run[r].out = "image" THEN "staged" ELSE "ended"
    /\ Uncancelled(r)
    /\ LockFree(r) /\ lock' = r
    /\ sess' = [sess EXCEPT ![r] = NextRow(r)]
    /\ LET new == IF run[r].out = "accept" THEN Wanted(r) ELSE {}
       IN  /\ \A d \in new : ~RevBlocked(r, d.rev)
           /\ \E c \in Dirty(r, NextRow(r)) :
                tx' = [tx EXCEPT ![r] =
                         [tx[r] EXCEPT !.row = TRUE, !.cols = c, !.add = @ \cup new,
                                   !.addm = @ \cup {<<r, "assistant">>}]]
    /\ graph' = IF run[r].out = "error" /\ IsResume(r)
                THEN [next |-> turn[r], ver |-> run[r].ver] ELSE graph
    /\ Clear(r)
    /\ Goto(r, "committing")
    /\ UNCHANGED <<tables, cancelling, keep, discarded, kind, turn, pre, run, tgt>>

(* The route commits after the registry entry is gone.                     *)
CommitTurn(r) ==
    /\ pc[r] = "committing"
    /\ Commit(r)
    /\ End(r, "ok")
    /\ UNCHANGED <<graph, entry, kind, turn, pre>>

----------------------------------------------------------------------------
(* Stop.                                                                   *)

(* _discard_turn_state: back to version v, the drafts above it and the     *)
(* turn's messages deleted, state repaired from the surviving draft, and   *)
(* the checkpoint wiped.  The request r does it in its own transaction.    *)
Discard(r, v, preview, ms) ==
    LET left == Visible(r) \ Above(Visible(r), v)
    IN  /\ \E top \in Latest(left, v) :
              LET s == [ver |-> top, preview |-> preview,
                        park |-> "none", anchor |-> NoAnchor]
              IN  /\ sess' = [sess EXCEPT ![r] = s]
                  /\ \E c \in Dirty(r, s) :
                       tx' = [tx EXCEPT ![r] =
                                [row |-> TRUE, cols |-> c, add |-> @.add \cap left,
                                 del |-> drafts \ left,
                                 addm |-> @.addm \ ms, delm |-> @.delm \cup ms]]
        /\ graph' = NoGraph

(* _restore_parked_after_resume_cancel: the parked state comes back, the   *)
(* resume's messages go, and the park is re-seated.                        *)
Repark(r, e, ms) ==
    /\ LET s == [pre[e] EXCEPT !.preview = sess[r].preview]
       IN  /\ sess' = [sess EXCEPT ![r] = s]
           /\ \E c \in Dirty(r, s) :
                tx' = [tx EXCEPT ![r] =
                         [tx[r] EXCEPT !.row = TRUE, !.cols = c,
                                   !.addm = @ \ ms, !.delm = @ \cup ms]]
    /\ graph' = [next |-> turn[e], ver |-> pre[e].ver]

(* _interrupt_turn_state: nothing is deleted or restored; assistant output *)
(* found in the checkpoint is kept.                                        *)
Interrupt(r, e) ==
    /\ \E m \in SUBSET {<<e, "assistant">>} :
          tx' = [tx EXCEPT ![r].addm = @ \cup m]
    /\ graph' = NoGraph
    /\ UNCHANGED sess

(* What cancelling e undoes, done in r's transaction: e's own handler, or  *)
(* a Stop that has waited for it in vain.                                  *)
Undo(r, e) ==
    CASE IsResume(e) -> Repark(r, e, TurnMessages(e))
      [] ~IsResume(e) /\ e \in keep -> Interrupt(r, e)
      [] OTHER -> Discard(r, pre[e].ver, sess[r].preview, TurnMessages(e))

(* The CancelledError handlers of run_session_turn and _resume_parked_turn. *)
Cancelled(r) ==
    /\ pc[r] \in InFlight /\ ~Uncancelled(r)
    /\ LockFree(r) /\ lock' = r
    /\ Undo(r, r)
    /\ Goto(r, "handled")
    /\ UNCHANGED <<tables, entry, kind, turn, pre, run, tgt>>

(* ... which commit before they signal the Stop that waits.                *)
CommitCancelled(r) ==
    /\ pc[r] = "handled"
    /\ Commit(r)
    /\ discarded' = discarded \cup {r}
    /\ End(r, IF IsResume(r) THEN "reparked" ELSE IF r \in keep THEN "kept" ELSE "discarded")
    /\ UNCHANGED <<graph, reg, cancelling, keep, kind, turn, pre>>

(* stop_session_turn: cancel a turn in flight, or follow the Stop that     *)
(* already does, or discard what is parked.  Its copy of the row may be    *)
(* older than the registry it looks at.                                    *)
StopCheck(s) ==
    /\ pc[s] = "check" /\ IsStop(s)
    /\ \/ /\ IsBusy /\ reg \in cancelling
          /\ Goto(s, "following")
          /\ tgt' = [tgt EXCEPT ![s] = reg]
          /\ UNCHANGED <<cancelling, keep>>
       \/ /\ IsBusy /\ reg \notin cancelling
          /\ cancelling' = cancelling \cup {reg}
          /\ keep' = IF kind[s] = "interrupt" /\ ~IsResume(reg)
                     THEN keep \cup {reg} ELSE keep
          /\ Goto(s, "waiting")
          /\ tgt' = [tgt EXCEPT ![s] = reg]
       \/ /\ ~IsBusy
          /\ Goto(s, IF sess[s].park # "none" THEN "drop" ELSE "ask")
          /\ UNCHANGED <<cancelling, keep, tgt>>
    /\ UNCHANGED <<tables, graph, reg, discarded, lock, kind, turn, sess, pre, run, tx>>

StopAsk(s) ==
    /\ pc[s] = "ask" /\ IsStop(s)
    /\ \/ graph.next = "none" /\ End(s, "ok")
       \/ graph.next # "none" /\ Goto(s, "drop")
          /\ UNCHANGED <<lock, sess, run, tgt, tx>>
    /\ UNCHANGED <<tables, graph, entry, kind, turn, pre>>

(* Parked discard: to the anchor of the row this request has read, which   *)
(* without an anchor is the empty state.                                   *)
Drop(s) ==
    /\ pc[s] = "drop"
    /\ LET a == sess[s].anchor
       IN  Discard(s, a.ver, IF a.on THEN a.preview ELSE sess[s].preview, a.msgs)
    /\ Goto(s, "dropping")
    /\ UNCHANGED <<tables, entry, lock, kind, turn, pre, run, tgt>>

(* The entry's discarded event ends the wait; only the own entry is        *)
(* cleared.                                                                *)
StopDone(s) ==
    /\ pc[s] = "waiting" /\ tgt[s] \in discarded
    /\ Clear(tgt[s])
    /\ End(s, "ok")
    /\ UNCHANGED <<tables, graph, cancelling, keep, discarded, kind, turn, pre>>

FollowDone(s) ==
    /\ pc[s] = "following" /\ tgt[s] \in discarded
    /\ End(s, "ok")
    /\ UNCHANGED <<tables, graph, entry, kind, turn, pre>>

(* After 60 seconds the Stop undoes the turn itself.                       *)
StopTimeout(s) ==
    /\ pc[s] = "waiting" /\ tgt[s] \notin discarded
    /\ Undo(s, tgt[s])
    /\ Goto(s, "dropping")
    /\ UNCHANGED <<tables, entry, lock, kind, turn, pre, run, tgt>>

(* The Stop that timed out does not set the event it took over.            *)
StopCommitSilent(s) ==
    /\ pc[s] = "dropping"
    /\ tx[s].row => lock = NoReq
    /\ Commit(s)
    /\ Clear(tgt[s])
    /\ End(s, "ok")
    /\ UNCHANGED <<graph, cancelling, keep, discarded, kind, turn, pre>>

(* The flush of the restored row waits for the row lock; then a Stop that  *)
(* timed out signals the event and clears its entry, and the route commits. *)
StopCommit(s) ==
    /\ pc[s] = "dropping"
    /\ tx[s].row => lock = NoReq
    /\ Commit(s)
    /\ discarded' = discarded \cup ({tgt[s]} \ {NoReq})
    /\ Clear(tgt[s])
    /\ End(s, "ok")
    /\ UNCHANGED <<graph, cancelling, keep, kind, turn, pre>>

----------------------------------------------------------------------------
(* Edits of the draft by hand: its copy, and its pictures (add, remove,    *)
(* upload, re-sample, or an image plan of another direction, which stages  *)
(* a version before image generation).  No turn, no registry, only the row *)
(* lock at the flush.                                                      *)

EditCheck(r) ==
    /\ pc[r] = "check" /\ kind[r] = "edit"
    /\ \/ /\ ~sess[r].preview
          /\ End(r, "refused")
       \/ /\ sess[r].preview
          /\ \E v \in Latest(drafts, sess[r].ver) :
                /\ v.rev < MaxRev
                /\ run' = [run EXCEPT ![r].ver = [rev |-> v.rev + 1, by |-> r]]
          /\ Goto(r, "insert")
          /\ UNCHANGED <<lock, sess, tgt, tx>>
    /\ UNCHANGED <<tables, graph, entry, kind, turn, pre>>

(* The session has a draft whose pictures can be changed.                  *)
HasDraft(r) == sess[r].preview /\ drafts # {}

(* A re-sample takes the plan as it stands: not while one is to be decided. *)
MayResample(r) == HasDraft(r) /\ sess[r].park # "image"

(* A new direction parks the session, so no turn may be under way -- now.  *)
MayRedirect(r) == HasDraft(r) /\ ~IsBusy

ImageCheck(r) ==
    /\ pc[r] = "check"
    /\ \/ /\ \/ kind[r] = "image" /\ ~MayResample(r)
             \/ kind[r] = "redirect" /\ ~MayRedirect(r)
          /\ End(r, "refused")
       \/ /\ \/ kind[r] = "image" /\ HasDraft(r)
             \/ kind[r] = "redirect" /\ MayRedirect(r)
          /\ Goto(r, "render")
          /\ UNCHANGED <<lock, sess, run, tgt, tx>>
    /\ UNCHANGED <<tables, graph, entry, kind, turn, pre>>

(* The bytes are stored, the image model or the copy agent has answered;   *)
(* the latest draft is read again.  The call fails, or what it comes to is *)
(* what the latest draft already says.                                     *)
ImageReady(r) ==
    /\ pc[r] = "render"
    /\ \/ End(r, "refused")
       \/ /\ \E v \in Latest(drafts, sess[r].ver) :
                /\ v.rev < MaxRev
                /\ run' = [run EXCEPT ![r].ver = [rev |-> v.rev + 1, by |-> r]]
          /\ Goto(r, IF kind[r] = "redirect" THEN "stage" ELSE "insert")
          /\ UNCHANGED <<lock, sess, tgt, tx>>
    /\ UNCHANGED <<tables, graph, entry, kind, turn, pre>>

(* _apply_pending_image_state: parked, with an anchor at what the request  *)
(* has read unless there was one.                                          *)
PendingRow(r) ==
    [sess[r] EXCEPT !.ver = run[r].ver, !.preview = TRUE, !.park = "image",
        !.anchor = IF @.on THEN @
                   ELSE [on |-> TRUE, ver |-> sess[r].ver, preview |-> sess[r].preview,
                         msgs |-> {}]]

(* _stage_pending_image_draft for a new direction: the revision and the    *)
(* parked checkpoint, over which a run under way may write its own.        *)
RedirectInsert(r) ==
    /\ pc[r] = "stage"
    /\ \/ /\ RevTaken(r, run[r].ver.rev)
          /\ End(r, "failed")
          /\ UNCHANGED graph
       \/ /\ ~RevTaken(r, run[r].ver.rev) /\ ~RevBlocked(r, run[r].ver.rev)
          /\ sess' = [sess EXCEPT ![r] = PendingRow(r)]
          /\ \E c \in Dirty(r, PendingRow(r)) :
                tx' = [tx EXCEPT ![r] =
                         [tx[r] EXCEPT !.row = TRUE, !.cols = c, !.add = {run[r].ver}]]
          /\ \/ graph' = [next |-> "image", ver |-> run[r].ver]
             \/ (\E o \in Req : pc[o] = "running") /\ UNCHANGED graph
          /\ Goto(r, "inserted")
          /\ UNCHANGED <<lock, run, tgt>>
    /\ UNCHANGED <<tables, entry, kind, turn, pre>>

(* _bump_preview_revision: insert the row (a revision taken meanwhile is a *)
(* unique violation), leave the image park in the state but not in the     *)
(* checkpoint, whose values alone are synchronised.                        *)
EditInsert(r) ==
    /\ pc[r] = "insert"
    /\ \/ /\ RevTaken(r, run[r].ver.rev)
          /\ End(r, "failed")
          /\ UNCHANGED graph
       \/ /\ ~RevTaken(r, run[r].ver.rev) /\ ~RevBlocked(r, run[r].ver.rev)
          /\ LET s == [sess[r] EXCEPT !.ver = run[r].ver, !.preview = TRUE,
                          !.anchor = NoAnchor, !.park = IF @ = "image" THEN "none" ELSE @]
             IN  /\ sess' = [sess EXCEPT ![r] = s]
                 /\ \E c \in Dirty(r, s) :
                      tx' = [tx EXCEPT ![r] =
                               [tx[r] EXCEPT !.row = TRUE, !.cols = c, !.add = {run[r].ver}]]
          /\ graph' = IF graph.next \in {"image", "angle"}
                      THEN [graph EXCEPT !.ver = run[r].ver] ELSE graph
          /\ Goto(r, "inserted")
          /\ UNCHANGED <<lock, run, tgt>>
    /\ UNCHANGED <<tables, entry, kind, turn, pre>>

(* The edit commits without its flush having waited for the row lock.      *)
EditCommitUnlocked(r) ==
    /\ pc[r] = "inserted"
    /\ Commit(r)
    /\ End(r, "ok")
    /\ UNCHANGED <<graph, entry, kind, turn, pre>>

EditCommit(r) ==
    /\ pc[r] = "inserted"
    /\ lock = NoReq
    /\ Commit(r)
    /\ End(r, "ok")
    /\ UNCHANGED <<graph, entry, kind, turn, pre>>

----------------------------------------------------------------------------
(* Failures.                                                               *)

(* An exception ends the request: the transaction is rolled back and the   *)
(* finally clause clears the entry unless a Stop is cancelling it.         *)
Abort(r) ==
    /\ IF Uncancelled(r) THEN Clear(r) ELSE UNCHANGED reg
    /\ End(r, "failed")
    /\ UNCHANGED <<tables, graph, cancelling, keep, discarded, kind, turn, pre>>

(* A turn fails in the graph, in persisting, or in the handler of a cancel *)
(* that interrupted a database call and so spoiled the connection.         *)
Fail(r) == pc[r] \in InFlight \cup {"handled"} /\ Abort(r)

(* A turn holds the row lock and waits for a revision; the other request   *)
(* holds that revision and waits for the row lock.  Postgres aborts one.   *)
Deadlocked(h, o) ==
    /\ lock = h /\ pc[h] = "ended" /\ Uncancelled(h)
    /\ pc[o] \in {"inserted", "dropping"} /\ tx[o].row
    /\ \E d \in Wanted(h) : \E e \in tx[o].add \cup tx[o].del : d.rev = e.rev

DeadlockVictim(r) ==
    /\ \E o \in Req \ {r} : Deadlocked(r, o) \/ Deadlocked(o, r)
    /\ Abort(r)

(* The process restarts: tasks, registry and open transactions are gone,   *)
(* what was committed and the checkpoint stay.                             *)
Restart ==
    /\ Crashes
    /\ \E r \in Req : pc[r] # "idle" /\ ~Done(r)
    /\ pc' = [r \in Req |-> IF pc[r] = "idle" \/ Done(r) THEN pc[r] ELSE "failed"]
    /\ sess' = [r \in Req |-> BlankRow]
    /\ run' = [r \in Req |-> NoRun]
    /\ tx' = [r \in Req |-> NoTx]
    /\ tgt' = [r \in Req |-> NoReq]
    /\ lock' = NoReq /\ reg' = NoReq
    /\ UNCHANGED <<tables, graph, cancelling, keep, discarded, kind, turn, pre>>

----------------------------------------------------------------------------
(* The session at rest: new, showing an accepted preview, parked before    *)
(* image generation above an accepted preview, or parked at the angles.    *)

SeedVersion(n) == [rev |-> n, by |-> Seed]
SeedAnchor(v, p) == [on |-> TRUE, ver |-> v, preview |-> p, msgs |-> {}]

AtRest(d, v, p, park, a) ==
    /\ drafts = d
    /\ row = [ver |-> v, preview |-> p, park |-> park, anchor |-> a]
    /\ graph = IF park = "none" THEN NoGraph ELSE [next |-> park, ver |-> v]

Init ==
    /\ \/ AtRest({}, NoVersion, FALSE, "none", NoAnchor)
       \/ AtRest({SeedVersion(1)}, SeedVersion(1), TRUE, "none", NoAnchor)
       \/ AtRest({}, NoVersion, FALSE, "angle", SeedAnchor(NoVersion, FALSE))
       \/ /\ MaxRev > 1
          /\ AtRest({SeedVersion(1), SeedVersion(2)}, SeedVersion(2), TRUE, "image",
                    SeedAnchor(SeedVersion(1), TRUE))
    /\ msgs = {}
    /\ reg = NoReq /\ cancelling = {} /\ keep = {} /\ discarded = {}
    /\ lock = NoReq
    /\ kind \in [Req -> Kinds]
    /\ pc = [r \in Req |-> "idle"]
    /\ turn = [r \in Req |-> CASE kind[r] = "message" -> "message"
                               [] kind[r] = "execute" -> "image"
                               [] kind[r] = "pick" -> "angle"
                               [] OTHER -> "none"]
    /\ sess = [r \in Req |-> BlankRow]
    /\ pre = [r \in Req |-> BlankRow]
    /\ run = [r \in Req |-> NoRun]
    /\ tgt = [r \in Req |-> NoReq]
    /\ tx = [r \in Req |-> NoTx]

(* The steps a request takes once it was sent.                             *)
Progress(r) ==
    \/ CheckTurn(r) \/ AskGraph(r) \/ Wipe(r) \/ AddMsg(r) \/ Begin(r)
    \/ GraphEnd(r) \/ Stage(r) \/ Persist(r) \/ CommitTurn(r)
    \/ Cancelled(r) \/ CommitCancelled(r)
    \/ StopCheck(r) \/ StopAsk(r) \/ Drop(r) \/ StopDone(r) \/ FollowDone(r)
    \/ StopTimeout(r) \/ StopCommit(r)
    \/ EditCheck(r) \/ EditInsert(r) \/ EditCommit(r)
    \/ ImageCheck(r) \/ ImageReady(r) \/ RedirectInsert(r)
    \/ DeadlockVictim(r)

Next ==
    \/ \E r \in Req : Load(r) \/ Fail(r) \/ Progress(r)
    \/ Restart

Spec == Init /\ [][Next]_vars

(* Tasks are scheduled, model calls and transactions end, the Stop timer   *)
(* fires, and Postgres resolves deadlocks.  Nothing makes a client send a  *)
(* request or a request fail.                                              *)
FairSpec == Spec /\ \A r \in Req : WF_vars(Progress(r))

----------------------------------------------------------------------------
(* Properties.                                                             *)

(* Every variable holds a value of its kind; revisions stay within MaxRev. *)
TypeOK ==
    /\ row \in Row
    /\ drafts \in SUBSET Version
    /\ msgs \in SUBSET Messages
    /\ graph \in [next : Nodes, ver : Version]
    /\ reg \in Req \cup {NoReq}
    /\ cancelling \in SUBSET Req /\ keep \in SUBSET Req
    /\ discarded \in SUBSET Req
    /\ lock \in Req \cup {NoReq}
    /\ kind \in [Req -> AllKinds]
    /\ pc \in [Req -> Steps]
    /\ turn \in [Req -> {"message", "revise", "image", "angle", "none"}]
    /\ sess \in [Req -> Row]
    /\ pre \in [Req -> Row]
    /\ run \in [Req -> [out : Outcomes, preview : BOOLEAN, ver : Version]]
    /\ tgt \in [Req -> Req \cup {NoReq}]
    /\ tx \in [Req -> Tx]

(* A turn that runs and that nobody is cancelling yet is the registered    *)
(* one, so a Stop finds it: an entry is cleared only by its own turn, or   *)
(* by a Stop that cancelled it (turn_registry.clear's "current is not      *)
(* entry").                                                                *)
LiveTurnIsRegistered ==
    \A r \in Req : pc[r] \in InFlight /\ r \notin cancelling => reg = r

(* From the user row's flush to the end of the graph run no other request  *)
(* changes the sessions row or the drafts: an edit or a Stop that is ready *)
(* to commit waits for the row lock that the turn's autoflush took.        *)
RowStableDuringTurn ==
    [][\A r \in Req : pc[r] = "running" /\ pc'[r] \in InFlight
                         => UNCHANGED <<row, drafts>>]_vars

(* A discarded turn, and a request refused with 409, leave no message      *)
(* behind, at whatever await the cancel arrived, nor a draft above the     *)
(* version the turn is taken back to (ADR 0004: "delete messages created   *)
(* by that turn").                                                         *)
DiscardLeavesNothing ==
    \A r \in Req : pc[r] \in {"discarded", "refused"} =>
        /\ TurnMessages(r) \cap msgs = {}
        /\ \A d \in drafts : d.by = r => pc[r] = "discarded" /\ d.rev <= pre[r].ver.rev

(* A registry entry outlives its turn only while a Stop that will clear it *)
(* is still on its way.                                                    *)
NoGhostEntry ==
    reg # NoReq /\ Done(reg) =>
        \E s \in Req : pc[s] \in {"waiting", "dropping"} /\ tgt[s] = reg

(* Every request that was sent is answered: no Stop waits for ever for a   *)
(* turn, no turn or edit for ever for the row lock.                        *)
EveryRequestEnds == \A r \in Req : pc[r] # "idle" ~> Done(r)

----------------------------------------------------------------------------
(* What makes the safety properties inductive.                             *)

(* A Stop only ever waits for, follows or clears an entry that somebody    *)
(* has started to cancel.                                                  *)
StopsTargetCancelled ==
    \A s \in Req :
        /\ tgt[s] \in cancelling \cup {NoReq}
        /\ pc[s] \in {"waiting", "following"} => tgt[s] # NoReq

(* The requests that hold the sessions row lock.                           *)
LockIsHeld ==
    \A r \in Req : pc[r] \in {"begin", "running", "committing", "handled"} => lock = r

(* Whoever writes drafts also writes the row, and so needs its lock.       *)
DraftsComeWithRow ==
    \A r \in Req :
        /\ ~tx[r].row => tx[r].add = {} /\ tx[r].del = {}
        /\ pc[r] \in {"begin", "running"} => tx[r].row
        /\ pc[r] = "ended" /\ run[r].out # "blank" => tx[r].row

SessionInv ==
    /\ TypeOK
    /\ StopsTargetCancelled
    /\ LiveTurnIsRegistered
    /\ LockIsHeld
    /\ DraftsComeWithRow

(* An entry nobody cancels is that of a turn in flight; one that a Stop    *)
(* cancels has that Stop to clear it.  A cancelled turn never gets on.     *)
EntryHasOwner ==
    /\ reg # NoReq /\ reg \notin cancelling => pc[reg] \in InFlight
    /\ reg # NoReq /\ reg \in cancelling =>
          \E s \in Req : pc[s] \in {"waiting", "dropping"} /\ tgt[s] = reg
    /\ \A r \in cancelling :
          pc[r] \in InFlight \cup {"handled", "failed", "kept", "reparked", "discarded"}

(* The turns whose messages an interrupt keeps.                            *)
Kept(r) == r \in cancelling /\ r \in keep /\ ~IsResume(r)

(* A transaction adds its own request's rows and the messages of a turn    *)
(* that is kept; of a turn that is being discarded it adds no message and  *)
(* no draft above the version that comes back.                             *)
OwnWrites ==
    \A r \in Req :
        /\ \A m \in tx[r].addm : m[1] = r \/ Kept(m[1])
        /\ \A d \in tx[r].add : d.by = r
        /\ run[r].out = "accept" => pc[r] \in {"ended", "committing", "handled"}
        /\ run[r].out = "accept" \/ pc[r] \in {"insert", "stage"} => run[r].ver.by = r
        /\ pc[r] \in {"handled", "discarded"} => r \in cancelling
        /\ pc[r] = "discarded" => r \notin keep
        /\ pc[r] = "handled" /\ ~IsResume(r) /\ r \notin keep =>
              /\ \A m \in tx[r].addm : m[1] # r
              /\ \A d \in tx[r].add : d.rev <= pre[r].ver.rev

(* What is committed of a request was committed by a request that ended    *)
(* well, or belongs to a turn that is kept, or is below the threshold.     *)
OwnRows ==
    /\ \A m \in msgs : pc[m[1]] \in {"ok", "reparked", "kept"} \/ Kept(m[1])
    /\ \A d \in drafts : d.by \in Req =>
          \/ pc[d.by] \in {"ok", "reparked", "kept"}
          \/ pc[d.by] = "discarded" /\ d.rev <= pre[d.by].ver.rev

DiscardInv == SessionInv /\ EntryHasOwner /\ OwnWrites /\ OwnRows

----------------------------------------------------------------------------
(* What the documents promise and the code does not keep.                  *)

(* ADR 0036 section 7: "Discard restores the last accepted version".  The  *)
(* version accepted before any of these requests is never deleted.         *)
DiscardKeepsAccepted ==
    [][SeedVersion(1) \in drafts => SeedVersion(1) \in drafts']_vars

(* ADR 0036 section 7 again, for versions accepted later: while a version  *)
(* is pending, every version above the one that Discard goes back to is     *)
(* pending too, none is what an edit by hand has put in place.              *)
OnlyPendingAboveAnchor ==
    row.park = "image" /\ row.anchor.on =>
        \A d \in Above(drafts, row.anchor.ver) :
            d.by \in Req => kind[d.by] \notin {"edit", "image"}

(* ADR 0004 section 2: "Do not keep partial graph progress".  The drafts   *)
(* deleted are those above the revision that the turn has read when it     *)
(* came in; a Discard that went further back makes the revisions start     *)
(* again below it.  It takes five requests to show.                        *)
DiscardTakesDrafts ==
    \A r \in Req : pc[r] = "discarded" => \A d \in drafts : d.by # r

Quiet == \A r \in Req : pc[r] = "idle" \/ Done(r)

(* ADR 0036 sections 2 and 6: a pending version stays pending until        *)
(* Execute or Discard, so while it is the newest draft the session is       *)
(* parked, where Stop still discards it.                                   *)
PendingStaysActionable ==
    Quiet /\ SeedVersion(2) \in drafts /\ Above(drafts, SeedVersion(2)) = {}
        => row.park # "none"

(* The approval token the session hands out for Confirm belongs to a       *)
(* stored preview draft.                                                   *)
TokenIsStored == Quiet /\ row.ver.rev > 0 => row.ver \in drafts

=============================================================================
