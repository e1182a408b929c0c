------------------------ MODULE SessionTurnsProofs ------------------------
(***************************************************************************)
(* Proofs about SessionTurns for every set of requests and every bound:    *)
(* type correctness, that a live turn is always the registered one, that   *)
(* the row lock keeps the session row and the drafts stable while a graph  *)
(* run is in progress, that no entry outlives its turn for good, and that  *)
(* a discarded turn leaves nothing.                                        *)
(***************************************************************************)
EXTENDS SessionTurns, TLAPS

RunRecord == [out : Outcomes, preview : BOOLEAN, ver : Version]

(* The constant records are of their types. *)
LEMMA Blanks ==
    /\ NoVersion \in Version
    /\ NoAnchor \in Anchor
    /\ BlankRow \in Row
    /\ NoRun \in RunRecord
    /\ NoTx \in Tx
    /\ NoGraph \in [next : Nodes, ver : Version]
BY SessionAssumption DEF NoVersion, Version, NoAnchor, Anchor, BlankRow, Row, NoRun,
   RunRecord, NoTx, Tx, NoGraph, Nodes, Parks, Outcomes

(* Ending a request resets its locals within their types. *)
LEMMA EndTypes ==
    ASSUME TypeOK, NEW r \in Req, NEW how \in Steps, End(r, how)
    PROVE  /\ pc' \in [Req -> Steps]
           /\ sess' \in [Req -> Row]
           /\ run' \in [Req -> RunRecord]
           /\ tx' \in [Req -> Tx]
           /\ tgt' \in [Req -> Req \cup {NoReq}]
           /\ lock' \in Req \cup {NoReq}
BY Blanks DEF End, Goto, TypeOK, RunRecord

(* Committing writes values of the tables' types. *)
LEMMA CommitTypes ==
    ASSUME TypeOK, NEW r \in Req, Commit(r)
    PROVE  /\ row' \in Row
           /\ drafts' \in SUBSET Version
           /\ msgs' \in SUBSET Messages
<1>1. sess[r] \in Row /\ tx[r] \in Tx /\ row \in Row
  BY DEF TypeOK
<1>2. row' \in Row
  BY <1>1 DEF Commit, Row
<1>3. QED
  BY <1>1, <1>2 DEF Commit, Visible, Tx, TypeOK

(* Only columns are written.                                               *)
LEMMA DirtyTypes ==
    ASSUME NEW r \in Req, tx[r] \in Tx, NEW s, NEW c \in Dirty(r, s)
    PROVE  c \in SUBSET Columns
BY DEF Dirty, Tx, Columns

(* The latest draft among versions, or the default, is a version. *)
LEMMA LatestTypes ==
    ASSUME NEW D \in SUBSET Version, NEW v \in Version
    PROVE  Latest(D, v) \in SUBSET Version
BY DEF Latest

(* A transaction sees versions only.                                       *)
LEMMA VisibleTypes ==
    ASSUME TypeOK, NEW r \in Req
    PROVE  Visible(r) \in SUBSET Version
<1>1. tx[r] \in Tx
  BY DEF TypeOK
<1>2. QED
  BY <1>1 DEF Visible, Tx, TypeOK

(* Letting a turn in, or refusing it, keeps the locals well typed.         *)
LEMMA AdmitTypes ==
    ASSUME TypeOK, NEW r \in Req, NEW p, Admit(r, p)
    PROVE  /\ pc' \in [Req -> Steps]
           /\ turn' \in [Req -> {"message", "revise", "image", "angle", "none"}]
           /\ sess' \in [Req -> Row]
           /\ run' \in [Req -> RunRecord]
           /\ tx' \in [Req -> Tx]
           /\ tgt' \in [Req -> Req \cup {NoReq}]
           /\ lock' \in Req \cup {NoReq}
<1>1. "refused" \in Steps /\ "wipe" \in Steps /\ "add" \in Steps /\ "ask" \in Steps
  BY DEF Steps, Final
<1>2. CASE Refuses(r, p) /\ End(r, "refused") /\ UNCHANGED turn
  BY <1>1, <1>2, EndTypes DEF TypeOK
<1>3. CASE /\ turn' = [turn EXCEPT ![r] = IF p = "image" THEN "revise" ELSE "angle"]
           /\ Goto(r, IF p = "image" THEN "wipe"
                      ELSE IF sess[r].park = "angle" THEN "add" ELSE "ask")
           /\ UNCHANGED <<lock, sess, run, tgt, tx>>
  BY <1>1, <1>3 DEF Goto, TypeOK, RunRecord
<1>4. CASE Goto(r, "add") /\ UNCHANGED <<turn, lock, sess, run, tgt, tx>>
  BY <1>1, <1>4 DEF Goto, TypeOK, RunRecord
<1>5. QED
  BY <1>2, <1>3, <1>4, Zenon DEF Admit

(* Restoring the state of a cancelled turn, whichever way, keeps the types. *)
LEMMA DiscardTypes ==
    ASSUME TypeOK, NEW r \in Req, NEW v \in Version, NEW p \in BOOLEAN,
           NEW ms \in SUBSET Messages, Discard(r, v, p, ms)
    PROVE  /\ sess' \in [Req -> Row]
           /\ tx' \in [Req -> Tx]
           /\ graph' \in [next : Nodes, ver : Version]
<1> DEFINE left == Visible(r) \ Above(Visible(r), v)
<1>1. left \in SUBSET Version
  BY VisibleTypes
<1> DEFINE s(top) == [ver |-> top, preview |-> p, park |-> "none", anchor |-> NoAnchor]
           t(c) == [row |-> TRUE, cols |-> c, add |-> tx[r].add \cap left,
                    del |-> drafts \ left,
                    addm |-> tx[r].addm \ ms, delm |-> tx[r].delm \cup ms]
<1>2. PICK top \in Latest(left, v) :
        /\ sess' = [sess EXCEPT ![r] = s(top)]
        /\ \E c \in Dirty(r, s(top)) : tx' = [tx EXCEPT ![r] = t(c)]
  BY DEF Discard, TypeOK
<1>3. top \in Version
  BY <1>1, LatestTypes
<1>4. [ver |-> top, preview |-> p, park |-> "none", anchor |-> NoAnchor] \in Row
  BY <1>3, Blanks DEF Row, Parks
<1>5. sess' \in [Req -> Row]
  BY <1>2, <1>4 DEF TypeOK
<1>6. tx[r] \in Tx /\ drafts \in SUBSET Version
  BY DEF TypeOK
<1>7. PICK c \in Dirty(r, s(top)) : tx' = [tx EXCEPT ![r] = t(c)]
  BY <1>2
<1>8. t(c) \in Tx
  <2>1. c \in SUBSET Columns
    BY <1>6, DirtyTypes
  <2>2. QED
    BY <1>1, <1>6, <2>1 DEF Tx
<1>9. tx' \in [Req -> Tx]
  BY <1>7, <1>8 DEF TypeOK
<1>10. QED
  BY <1>5, <1>9, Blanks DEF Discard

(* So does undoing a cancelled turn in any of its three ways.              *)
LEMMA UndoTypes ==
    ASSUME TypeOK, NEW r \in Req, NEW e \in Req, Undo(r, e)
    PROVE  /\ sess' \in [Req -> Row]
           /\ tx' \in [Req -> Tx]
           /\ graph' \in [next : Nodes, ver : Version]
<1>1. TurnMessages(e) \in SUBSET Messages /\ {<<e, "assistant">>} \in SUBSET Messages
  BY DEF TurnMessages, Messages
<1>2. pre[e] \in Row /\ sess[r] \in Row /\ tx[r] \in Tx
  BY DEF TypeOK
<1>3. CASE IsResume(e) /\ Repark(r, e, TurnMessages(e))
  <2>1. graph' \in [next : Nodes, ver : Version]
    BY <1>2, <1>3 DEF Repark, IsResume, Nodes, Row
  <2> DEFINE s == [pre[e] EXCEPT !.preview = sess[r].preview]
  <2>2. s \in Row /\ sess' = [sess EXCEPT ![r] = s]
    BY <1>2, <1>3 DEF Repark, Row
  <2>3. PICK c \in Dirty(r, s) :
          tx' = [tx EXCEPT ![r] =
                   [tx[r] EXCEPT !.row = TRUE, !.cols = c, !.addm = @ \ TurnMessages(e),
                                 !.delm = @ \cup TurnMessages(e)]]
    BY <1>3 DEF Repark
  <2>4. tx' \in [Req -> Tx] /\ sess' \in [Req -> Row]
    <3>1. c \in SUBSET Columns
      BY <1>2, DirtyTypes
    <3>2. [tx[r] EXCEPT !.row = TRUE, !.cols = c, !.addm = @ \ TurnMessages(e),
                        !.delm = @ \cup TurnMessages(e)] \in Tx
      BY <1>1, <1>2, <3>1 DEF Tx
    <3>3. QED
      BY <2>2, <2>3, <3>2 DEF TypeOK
  <2>5. QED
    BY <2>1, <2>4
<1>4. CASE Interrupt(r, e)
  <2>1. PICK m \in SUBSET {<<e, "assistant">>} :
          tx' = [tx EXCEPT ![r].addm = @ \cup m]
    BY <1>4 DEF Interrupt
  <2>2. tx' \in [Req -> Tx]
    BY <1>1, <1>2, <2>1 DEF TypeOK, Tx
  <2>3. QED
    BY <1>4, <2>2, Blanks DEF Interrupt, TypeOK
<1>5. CASE Discard(r, pre[e].ver, sess[r].preview, TurnMessages(e))
  <2>1. pre[e].ver \in Version /\ sess[r].preview \in BOOLEAN
    BY <1>2 DEF Row
  <2>2. QED
    BY <1>1, <1>5, <2>1, DiscardTypes
<1>6. QED
  BY <1>3, <1>4, <1>5 DEF Undo

----------------------------------------------------------------------------
(* Type correctness.                                                       *)

(* Every session at rest is well typed.                                    *)
LEMMA InitTypes == Init => TypeOK
<1> SUFFICES ASSUME Init PROVE TypeOK
  OBVIOUS
<1>1. \A n \in 0..MaxRev : SeedVersion(n) \in Version
  BY DEF SeedVersion, Version
<1>2. 1 \in 0..MaxRev /\ (MaxRev > 1 => 2 \in 0..MaxRev)
  BY SessionAssumption
<1>3. \A v \in Version, p \in BOOLEAN : SeedAnchor(v, p) \in Anchor
  BY DEF SeedAnchor, Anchor
<1>4. \A d \in SUBSET Version, v \in Version, p \in BOOLEAN, k \in Parks, a \in Anchor :
         AtRest(d, v, p, k, a) =>
            row \in Row /\ drafts \in SUBSET Version /\ graph \in [next : Nodes, ver : Version]
  BY Blanks DEF AtRest, Row, Nodes, Parks
<1>5. row \in Row /\ drafts \in SUBSET Version /\ graph \in [next : Nodes, ver : Version]
  <2>1. CASE AtRest({}, NoVersion, FALSE, "none", NoAnchor)
    BY <1>4, <2>1, Blanks DEF Parks
  <2>2. CASE AtRest({SeedVersion(1)}, SeedVersion(1), TRUE, "none", NoAnchor)
    BY <1>1, <1>2, <1>4, <2>2, Blanks DEF Parks
  <2>3. CASE AtRest({}, NoVersion, FALSE, "angle", SeedAnchor(NoVersion, FALSE))
    BY <1>3, <1>4, <2>3, Blanks DEF Parks
  <2>4. CASE /\ MaxRev > 1
             /\ AtRest({SeedVersion(1), SeedVersion(2)}, SeedVersion(2), TRUE, "image",
                       SeedAnchor(SeedVersion(1), TRUE))
    BY <1>1, <1>2, <1>3, <1>4, <2>4 DEF Parks
  <2>5. QED
    BY <2>1, <2>2, <2>3, <2>4 DEF Init
<1>6. kind \in [Req -> AllKinds]
  BY SessionAssumption DEF Init
<1>7. pc \in [Req -> Steps] /\ turn \in [Req -> {"message", "revise", "image", "angle", "none"}]
  BY DEF Init, Steps
<1>8. QED
  BY <1>5, <1>6, <1>7, Blanks DEF Init, TypeOK, RunRecord

(* Each action of a turn keeps the types. *)
LEMMA TurnTypes ==
    ASSUME TypeOK, NEW r \in Req,
           Load(r) \/ CheckTurn(r) \/ AskGraph(r) \/ Wipe(r) \/ AddMsg(r) \/ Begin(r)
    PROVE  TypeOK'
<1> USE DEF tables, entry
<1>1. /\ {"check", "refused", "failed", "ask", "add", "begin", "running"} \subseteq Steps
      /\ sess[r] \in Row /\ tx[r] \in Tx /\ run[r] \in RunRecord
      /\ graph \in [next : Nodes, ver : Version] /\ row \in Row
  BY DEF Steps, Final, InFlight, TypeOK, RunRecord
<1>2. CASE Load(r)
  BY <1>1, <1>2 DEF Load, Goto, TypeOK
<1>3. CASE CheckTurn(r)
  <2>1. CASE End(r, "refused") /\ UNCHANGED turn
    BY <1>1, <1>3, <2>1, EndTypes DEF CheckTurn, TypeOK, RunRecord
  <2>2. CASE Admit(r, sess[r].park)
    BY <1>3, <2>2, AdmitTypes DEF CheckTurn, TypeOK, RunRecord
  <2>3. CASE Goto(r, "ask") /\ UNCHANGED <<turn, lock, sess, run, tgt, tx>>
    BY <1>1, <1>3, <2>3 DEF CheckTurn, Goto, TypeOK
  <2>4. QED
    BY <1>3, <2>1, <2>2, <2>3 DEF CheckTurn
<1>4. CASE AskGraph(r)
  BY <1>4, AdmitTypes DEF AskGraph, TypeOK, RunRecord
<1>5. CASE Wipe(r)
  <2>1. CASE End(r, "refused") /\ UNCHANGED pre
    BY <1>1, <1>5, <2>1, EndTypes, Blanks DEF Wipe, TypeOK, RunRecord
  <2>2. CASE ~IsBusy
    <3>1. Stripped(sess[r]) \in Row
      BY <1>1, Blanks DEF Stripped, Row, Parks
    <3>2. [BlankRow EXCEPT !.ver = sess[r].anchor.ver, !.preview = sess[r].anchor.preview] \in Row
      BY <1>1, Blanks DEF BlankRow, Row, Anchor, Parks
    <3>3. pre' \in [Req -> Row]
      BY <1>5, <2>2, <3>1, <3>2 DEF Wipe, TypeOK
    <3> DEFINE s == [sess[r] EXCEPT !.park = IF @ = "image" THEN "none" ELSE @,
                                    !.preview = TRUE]
    <3>4. s \in Row
      BY <1>1 DEF Row, Parks
    <3>5. /\ sess' = [sess EXCEPT ![r] = s]
          /\ \E c \in Dirty(r, s) : tx' = [tx EXCEPT ![r] = [tx[r] EXCEPT !.cols = c]]
      BY <1>5, <2>2 DEF Wipe, IsBusy, End
    <3>6. PICK c \in Dirty(r, s) : tx' = [tx EXCEPT ![r] = [tx[r] EXCEPT !.cols = c]]
      BY <3>5
    <3>7. [tx[r] EXCEPT !.cols = c] \in Tx
      <4>1. c \in SUBSET Columns
        BY <1>1, DirtyTypes
      <4>2. QED
        BY <1>1, <4>1 DEF Tx
    <3>8. sess' \in [Req -> Row] /\ tx' \in [Req -> Tx]
      BY <3>4, <3>5, <3>6, <3>7 DEF TypeOK
    <3>9. QED
      BY <1>1, <1>5, <2>2, <3>3, <3>8, Blanks DEF Wipe, Goto, TypeOK
  <2>3. QED
    BY <1>5, <2>1, <2>2 DEF Wipe
<1>6. CASE AddMsg(r)
  <2>1. \A m \in UserRows(r) : m \in SUBSET Messages
    BY DEF UserRows, Messages
  <2>2. tx' \in [Req -> Tx]
    <3>1. PICK m \in UserRows(r) :
            tx' = [tx EXCEPT ![r] = [tx[r] EXCEPT !.row = TRUE, !.addm = m]]
      BY <1>6 DEF AddMsg
    <3>2. [tx[r] EXCEPT !.row = TRUE, !.addm = m] \in Tx
      BY <1>1, <2>1 DEF Tx
    <3>3. QED
      BY <3>1, <3>2 DEF TypeOK
  <2>3. Stripped(sess[r]) \in Row
    BY <1>1, Blanks DEF Stripped, Row, Parks
  <2>4. IsResume(r) => [sess[r] EXCEPT !.park = turn[r]] \in Row
    BY <1>1 DEF IsResume, Row, Parks
  <2>5. pre' \in [Req -> Row]
    BY <1>6, <2>3, <2>4 DEF AddMsg, TypeOK
  <2>6. QED
    BY <1>1, <1>6, <2>2, <2>5 DEF AddMsg, Goto, TypeOK
<1>7. CASE Begin(r)
  <2>1. CASE IsBusy
    BY <1>1, <1>7, <2>1, EndTypes DEF Begin, TypeOK, RunRecord
  <2>2. CASE End(r, "failed") /\ reg' = NoReq /\ UNCHANGED <<graph, cancelling, keep, discarded>>
    BY <1>1, <1>7, <2>2, EndTypes DEF Begin, TypeOK, RunRecord
  <2>3. CASE /\ reg' = r
             /\ graph' = IF ~IsResume(r) THEN [next |-> "mid", ver |-> sess[r].ver]
                         ELSE IF graph.next = "none" THEN graph
                         ELSE [graph EXCEPT !.next = "mid"]
             /\ run' = [run EXCEPT ![r].ver = graph'.ver]
             /\ Goto(r, "running")
             /\ UNCHANGED <<cancelling, keep, discarded, lock, sess, tgt, tx>>
    <3>1. graph' \in [next : Nodes, ver : Version]
      BY <1>1, <2>3 DEF Nodes, Row
    <3>2. run' \in [Req -> RunRecord]
      BY <1>1, <2>3, <3>1 DEF TypeOK, RunRecord
    <3>3. QED
      BY <1>1, <1>7, <2>3, <3>1, <3>2 DEF Begin, Goto, TypeOK, RunRecord
  <2>4. QED
    BY <1>7, <2>1, <2>2, <2>3 DEF Begin
<1>8. QED
  BY <1>2, <1>3, <1>4, <1>5, <1>6, <1>7

(* A draft staged within the bound on revisions is a version.              *)
LEMMA WantedTypes ==
    ASSUME TypeOK, NEW r \in Req, NEW d \in Wanted(r), d.rev <= MaxRev
    PROVE  d \in Version
<1>1. run[r] \in RunRecord /\ sess[r] \in Row
  BY DEF TypeOK, RunRecord
<1>2. CASE run[r].out = "image"
  <2>1. PICK v \in Latest(Visible(r), sess[r].ver) : d = [rev |-> v.rev + 1, by |-> r]
    BY <1>2 DEF Wanted
  <2>2. v \in Version
    BY <1>1, VisibleTypes, LatestTypes DEF Row
  <2>3. QED
    BY <2>1, <2>2, SessionAssumption DEF Version
<1>3. CASE run[r].out # "image"
  BY <1>1, <1>3 DEF Wanted, RunRecord
<1>4. QED
  BY <1>2, <1>3

(* The state persisted after a run is a sessions row.                      *)
LEMMA NextRowTypes ==
    ASSUME TypeOK, NEW r \in Req
    PROVE  NextRow(r) \in Row
<1>1. run[r] \in RunRecord /\ sess[r] \in Row /\ pre[r] \in Row /\ tx[r] \in Tx
  BY DEF TypeOK, RunRecord
<1>2. TurnMessages(r) \in SUBSET Messages
  BY DEF TurnMessages, Messages
<1>3. NextPark(r) \in Parks
  BY <1>1 DEF NextPark, Parks, IsResume, RunRecord
<1>4. NextAnchor(r) \in Anchor
  <2>1. [on |-> TRUE, ver |-> pre[r].ver, preview |-> pre[r].preview,
         msgs |-> TurnMessages(r)] \in Anchor
    BY <1>1, <1>2 DEF Anchor, Row
  <2>2. [sess[r].anchor EXCEPT !.msgs =
           @ \cup {<<r, "assistant">>} \cup (tx[r].addm \cap TurnMessages(r))] \in Anchor
    BY <1>1, <1>2 DEF Anchor, Row, Messages
  <2>3. QED
    BY <2>1, <2>2, Blanks DEF NextAnchor
<1>5. QED
  BY <1>1, <1>3, <1>4 DEF NextRow, Row, RunRecord

(* Running the graph and persisting what it produced keeps the types. *)
LEMMA RunTypes ==
    ASSUME TypeOK, NEW r \in Req,
           \/ GraphEnd(r) \/ Stage(r) \/ Persist(r) \/ CommitTurn(r)
           \/ Cancelled(r) \/ CommitCancelled(r)
    PROVE  TypeOK'
<1> USE DEF tables, entry
<1>1. /\ {"ended", "staged", "committing", "handled", "ok", "kept", "reparked", "discarded"}
            \subseteq Steps
      /\ sess[r] \in Row /\ tx[r] \in Tx /\ run[r] \in RunRecord
      /\ graph \in [next : Nodes, ver : Version] /\ row \in Row
  BY DEF Steps, Final, InFlight, TypeOK, RunRecord
<1>2. CASE GraphEnd(r)
  <2>1. PICK o \in CanEnd(r) :
          /\ o = "accept" => run[r].ver.rev < MaxRev
          /\ \E p \in CASE o = "accept" -> {TRUE}
                         [] o = "angle" -> {FALSE}
                         [] o = "blank" -> {row.preview}
                         [] OTHER -> {FALSE, sess[r].preview} :
                run' = [run EXCEPT ![r] =
                  [out |-> o, preview |-> p,
                   ver |-> CASE o = "accept" -> [rev |-> run[r].ver.rev + 1, by |-> r]
                             [] o = "blank" -> NoVersion
                             [] OTHER -> run[r].ver]]
          /\ graph' = CASE o \in {"chat", "accept"} -> NoGraph
                        [] o \in {"image", "angle"} -> [graph EXCEPT !.next = o]
                        [] OTHER -> graph
          /\ \/ /\ o = "blank"
                /\ tx' = [tx EXCEPT ![r] = NoTx]
                /\ sess' = [sess EXCEPT ![r] = row]
                /\ lock' = NoReq
             \/ o # "blank" /\ UNCHANGED <<tx, sess, lock>>
    BY <1>2 DEF GraphEnd, TypeOK
  <2>2. o \in Outcomes
    BY DEF CanEnd, Outcomes
  <2>3. graph' \in [next : Nodes, ver : Version]
    BY <1>1, <2>1, Blanks DEF Nodes
  <2>4. sess' \in [Req -> Row] /\ tx' \in [Req -> Tx] /\ lock' \in Req \cup {NoReq}
    <3>1. CASE /\ tx' = [tx EXCEPT ![r] = NoTx]
               /\ sess' = [sess EXCEPT ![r] = row]
               /\ lock' = NoReq
      BY <1>1, <3>1, Blanks DEF TypeOK
    <3>2. CASE UNCHANGED <<tx, sess, lock>>
      BY <3>2 DEF TypeOK
    <3>3. QED
      BY <2>1, <3>1, <3>2, Zenon
  <2>5. (CASE o = "accept" -> [rev |-> run[r].ver.rev + 1, by |-> r]
           [] o = "blank" -> NoVersion
           [] OTHER -> run[r].ver) \in Version
    BY <1>1, <2>1, Blanks, SessionAssumption DEF RunRecord, Version
  <2>6. \A p \in CASE o = "accept" -> {TRUE}
                   [] o = "angle" -> {FALSE}
                   [] o = "blank" -> {row.preview}
                   [] OTHER -> {FALSE, sess[r].preview} : p \in BOOLEAN
    BY <1>1 DEF Row
  <2> DEFINE w == CASE o = "accept" -> [rev |-> run[r].ver.rev + 1, by |-> r]
                    [] o = "blank" -> NoVersion
                    [] OTHER -> run[r].ver
  <2>7. run' \in [Req -> RunRecord]
    <3>1. PICK p \in BOOLEAN :
            run' = [run EXCEPT ![r] = [out |-> o, preview |-> p, ver |-> w]]
      BY <2>1, <2>6, Zenon
    <3>2. [out |-> o, preview |-> p, ver |-> w] \in RunRecord
      BY <2>2, <2>5 DEF RunRecord
    <3>3. run \in [Req -> RunRecord]
      BY DEF TypeOK, RunRecord
    <3>4. QED
      BY <3>1, <3>2, <3>3
  <2>8. QED
    BY <1>1, <1>2, <2>3, <2>4, <2>7 DEF GraphEnd, Goto, TypeOK, RunRecord
<1>3. CASE Stage(r)
  <2>1. CASE UNCHANGED <<tx, run, graph>>
    BY <1>1, <1>3, <2>1 DEF Stage, Goto, TypeOK
  <2>2. CASE \E d \in Wanted(r) :
               /\ d.rev <= MaxRev /\ ~RevBlocked(r, d.rev)
               /\ tx' = [tx EXCEPT ![r].add = @ \cup {d}]
               /\ run' = [run EXCEPT ![r] = [run[r] EXCEPT !.ver = d, !.preview = TRUE]]
               /\ graph' = [next |-> "image", ver |-> d]
    <3>1. PICK d \in Wanted(r) :
               /\ d.rev <= MaxRev
               /\ tx' = [tx EXCEPT ![r].add = @ \cup {d}]
               /\ run' = [run EXCEPT ![r] = [run[r] EXCEPT !.ver = d, !.preview = TRUE]]
               /\ graph' = [next |-> "image", ver |-> d]
      BY <2>2
    <3>2. d \in Version
      BY <3>1, WantedTypes
    <3>3. run' \in [Req -> RunRecord]
      BY <1>1, <3>1, <3>2 DEF TypeOK, RunRecord
    <3>4. tx' \in [Req -> Tx]
      BY <1>1, <3>1, <3>2 DEF TypeOK, Tx
    <3>5. graph' \in [next : Nodes, ver : Version]
      BY <3>1, <3>2 DEF Nodes
    <3>6. QED
      BY <1>1, <1>3, <3>3, <3>4, <3>5 DEF Stage, Goto, TypeOK, RunRecord
  <2>3. QED
    BY <1>3, <2>1, <2>2 DEF Stage
<1>4. CASE Persist(r)
  <2> DEFINE new == IF run[r].out = "accept" THEN Wanted(r) ELSE {}
  <2>1. new \in SUBSET Version
    BY <1>1 DEF Wanted, RunRecord
  <2>2. PICK c \in Dirty(r, NextRow(r)) :
          tx' = [tx EXCEPT ![r] = [tx[r] EXCEPT !.row = TRUE, !.cols = c, !.add = @ \cup new,
                                                !.addm = @ \cup {<<r, "assistant">>}]]
    BY <1>4 DEF Persist
  <2>3. tx' \in [Req -> Tx]
    <3>1. {<<r, "assistant">>} \in SUBSET Messages
      BY DEF Messages
    <3>2. c \in SUBSET Columns
      BY <1>1, DirtyTypes
    <3>3. [tx[r] EXCEPT !.row = TRUE, !.cols = c, !.add = @ \cup new,
                        !.addm = @ \cup {<<r, "assistant">>}] \in Tx
      BY <1>1, <2>1, <3>1, <3>2 DEF Tx
    <3>4. QED
      BY <2>2, <3>3 DEF TypeOK
  <2>4. sess' \in [Req -> Row]
    BY <1>4, NextRowTypes DEF Persist, TypeOK
  <2>5. graph' \in [next : Nodes, ver : Version]
    BY <1>1, <1>4 DEF Persist, IsResume, Nodes, RunRecord
  <2>6. reg' \in Req \cup {NoReq}
    BY <1>4 DEF Persist, Clear, TypeOK
  <2>7. QED
    BY <1>1, <1>4, <2>3, <2>4, <2>5, <2>6 DEF Persist, Goto, TypeOK, RunRecord
<1>5. CASE CommitTurn(r)
  BY <1>1, <1>5, EndTypes, CommitTypes DEF CommitTurn, TypeOK, RunRecord
<1>6. CASE Cancelled(r)
  BY <1>1, <1>6, UndoTypes DEF Cancelled, Goto, TypeOK
<1>7. CASE CommitCancelled(r)
  <2>1. (IF IsResume(r) THEN "reparked" ELSE IF r \in keep THEN "kept" ELSE "discarded")
          \in Steps
    BY <1>1
  <2>2. QED
    BY <1>7, <2>1, EndTypes, CommitTypes DEF CommitCancelled, TypeOK, RunRecord
<1>8. QED
  BY <1>2, <1>3, <1>4, <1>5, <1>6, <1>7

(* Stopping, editing, failing and restarting keep the types.               *)
LEMMA OtherTypes ==
    ASSUME TypeOK, StopsTargetCancelled, NEW r \in Req,
           \/ StopCheck(r) \/ StopAsk(r) \/ Drop(r) \/ StopDone(r) \/ FollowDone(r)
           \/ StopTimeout(r) \/ StopCommit(r)
           \/ EditCheck(r) \/ EditInsert(r) \/ EditCommit(r)
           \/ Abort(r) \/ Restart
    PROVE  TypeOK'
<1> USE DEF tables, entry
<1>1. /\ {"following", "waiting", "drop", "ask", "dropping", "refused", "failed", "ok",
          "insert", "inserted"} \subseteq Steps
      /\ sess[r] \in Row /\ tx[r] \in Tx /\ run[r] \in RunRecord
      /\ graph \in [next : Nodes, ver : Version] /\ row \in Row
      /\ tgt[r] \in Req \cup {NoReq} /\ pc \in [Req -> Steps]
  BY DEF Steps, Final, InFlight, TypeOK, RunRecord
<1>2. CASE StopCheck(r)
  <2>1. IsBusy => reg \in Req
    BY DEF IsBusy, TypeOK
  <2>2. cancelling' \in SUBSET Req /\ keep' \in SUBSET Req
    BY <1>2, <2>1 DEF StopCheck, TypeOK
  <2>3. tgt' \in [Req -> Req \cup {NoReq}]
    BY <1>2, <2>1 DEF StopCheck, TypeOK
  <2>4. pc' \in [Req -> Steps]
    BY <1>1, <1>2 DEF StopCheck, Goto
  <2>5. QED
    BY <1>2, <2>2, <2>3, <2>4 DEF StopCheck, TypeOK
<1>3. CASE StopAsk(r)
  <2>1. CASE End(r, "ok")
    BY <1>1, <1>3, <2>1, EndTypes DEF StopAsk, TypeOK, RunRecord
  <2>2. CASE Goto(r, "drop") /\ UNCHANGED <<lock, sess, run, tgt, tx>>
    BY <1>1, <1>3, <2>2 DEF StopAsk, Goto, TypeOK
  <2>3. QED
    BY <1>3, <2>1, <2>2 DEF StopAsk
<1>4. CASE Drop(r)
  <2>1. /\ sess[r].anchor.ver \in Version
        /\ (IF sess[r].anchor.on THEN sess[r].anchor.preview ELSE sess[r].preview) \in BOOLEAN
        /\ sess[r].anchor.msgs \in SUBSET Messages
    BY <1>1 DEF Row, Anchor
  <2>2. Discard(r, sess[r].anchor.ver,
                IF sess[r].anchor.on THEN sess[r].anchor.preview ELSE sess[r].preview,
                sess[r].anchor.msgs)
    BY <1>4 DEF Drop
  <2>3. /\ sess' \in [Req -> Row] /\ tx' \in [Req -> Tx]
        /\ graph' \in [next : Nodes, ver : Version]
    BY <2>1, <2>2, DiscardTypes
  <2>4. QED
    BY <1>1, <1>4, <2>3 DEF Drop, Goto, TypeOK
<1>5. CASE StopDone(r)
  BY <1>1, <1>5, EndTypes DEF StopDone, Clear, TypeOK, RunRecord
<1>6. CASE FollowDone(r)
  BY <1>1, <1>6, EndTypes DEF FollowDone, TypeOK, RunRecord
<1>7. CASE StopTimeout(r)
  <2>1. tgt[r] \in Req
    BY <1>1, <1>7 DEF StopTimeout, StopsTargetCancelled
  <2>2. /\ sess' \in [Req -> Row] /\ tx' \in [Req -> Tx]
        /\ graph' \in [next : Nodes, ver : Version]
    BY <1>7, <2>1, UndoTypes DEF StopTimeout
  <2>3. QED
    BY <1>1, <1>7, <2>2 DEF StopTimeout, Goto, TypeOK
<1>8. CASE StopCommit(r)
  BY <1>1, <1>8, EndTypes, CommitTypes DEF StopCommit, Clear, TypeOK, RunRecord
<1>9. CASE EditCheck(r)
  <2>1. CASE End(r, "refused")
    BY <1>1, <1>9, <2>1, EndTypes DEF EditCheck, TypeOK, RunRecord
  <2>2. CASE /\ \E v \in Latest(drafts, sess[r].ver) :
                  /\ v.rev < MaxRev
                  /\ run' = [run EXCEPT ![r].ver = [rev |-> v.rev + 1, by |-> r]]
             /\ Goto(r, "insert")
             /\ UNCHANGED <<lock, sess, tgt, tx>>
    <3>1. PICK v \in Latest(drafts, sess[r].ver) :
                  /\ v.rev < MaxRev
                  /\ run' = [run EXCEPT ![r].ver = [rev |-> v.rev + 1, by |-> r]]
      BY <2>2
    <3>2. v \in Version
      BY <1>1, LatestTypes DEF TypeOK, Row
    <3>3. [rev |-> v.rev + 1, by |-> r] \in Version
      BY <3>1, <3>2, SessionAssumption DEF Version
    <3>4. run' \in [Req -> RunRecord]
      BY <1>1, <3>1, <3>3 DEF TypeOK, RunRecord
    <3>5. QED
      BY <1>1, <1>9, <2>2, <3>4 DEF EditCheck, Goto, TypeOK, RunRecord
  <2>3. QED
    BY <1>9, <2>1, <2>2 DEF EditCheck
<1>10. CASE EditInsert(r)
  <2>1. CASE End(r, "failed") /\ UNCHANGED graph
    BY <1>1, <1>10, <2>1, EndTypes DEF EditInsert, TypeOK, RunRecord
  <2> DEFINE u == [sess[r] EXCEPT !.ver = run[r].ver, !.preview = TRUE, !.anchor = NoAnchor,
                                  !.park = IF @ = "image" THEN "none" ELSE @]
  <2>2. CASE /\ sess' = [sess EXCEPT ![r] = u]
             /\ \E c \in Dirty(r, u) :
                   tx' = [tx EXCEPT ![r] =
                            [tx[r] EXCEPT !.row = TRUE, !.cols = c, !.add = {run[r].ver}]]
             /\ graph' = IF graph.next \in {"image", "angle"}
                         THEN [graph EXCEPT !.ver = run[r].ver] ELSE graph
             /\ Goto(r, "inserted")
             /\ UNCHANGED <<lock, run, tgt>>
    <3>1. PICK c \in Dirty(r, u) :
            tx' = [tx EXCEPT ![r] =
                     [tx[r] EXCEPT !.row = TRUE, !.cols = c, !.add = {run[r].ver}]]
      BY <2>2
    <3>2. c \in SUBSET Columns
      BY <1>1, DirtyTypes
    <3>3. [tx[r] EXCEPT !.row = TRUE, !.cols = c, !.add = {run[r].ver}] \in Tx
      BY <1>1, <3>2 DEF Tx, RunRecord
    <3>4. u \in Row
      BY <1>1, Blanks DEF Row, Parks, RunRecord
    <3>5. graph' \in [next : Nodes, ver : Version]
      BY <1>1, <2>2 DEF RunRecord
    <3>6. tx' \in [Req -> Tx] /\ sess' \in [Req -> Row]
      BY <2>2, <3>1, <3>3, <3>4 DEF TypeOK
    <3>7. QED
      BY <1>1, <1>10, <2>2, <3>5, <3>6 DEF EditInsert, Goto, TypeOK
  <2>3. QED
    BY <1>10, <2>1, <2>2 DEF EditInsert
<1>11. CASE EditCommit(r)
  BY <1>1, <1>11, EndTypes, CommitTypes DEF EditCommit, TypeOK, RunRecord
<1>12. CASE Abort(r)
  BY <1>1, <1>12, EndTypes DEF Abort, Clear, TypeOK, RunRecord
<1>13. CASE Restart
  <2>1. pc' \in [Req -> Steps]
    BY <1>1, <1>13 DEF Restart
  <2>2. QED
    BY <1>13, <2>1, Blanks DEF Restart, TypeOK, RunRecord
<1>14. QED
  BY <1>2, <1>3, <1>4, <1>5, <1>6, <1>7, <1>8, <1>9, <1>10, <1>11, <1>12, <1>13

(* A row parked with a pending version is a row.                           *)
LEMMA PendingTypes ==
    ASSUME NEW r, sess[r] \in Row, run[r] \in RunRecord
    PROVE  PendingRow(r) \in Row
<1> DEFINE a == IF sess[r].anchor.on THEN sess[r].anchor
                ELSE [on |-> TRUE, ver |-> sess[r].ver, preview |-> sess[r].preview, msgs |-> {}]
<1>1. a \in Anchor
  BY DEF Row, Anchor
<1>2. PendingRow(r) = [sess[r] EXCEPT !.ver = run[r].ver, !.preview = TRUE, !.park = "image",
                                      !.anchor = a]
  BY DEF PendingRow, Row
<1> HIDE DEF a
<1>3. QED
  BY <1>1, <1>2 DEF Row, Parks, RunRecord

(* Changing the pictures keeps the types.                                  *)
LEMMA ImageTypes ==
    ASSUME TypeOK, NEW r \in Req, ImageCheck(r) \/ ImageReady(r) \/ RedirectInsert(r)
    PROVE  TypeOK'
<1> USE DEF tables, entry
<1>1. /\ {"refused", "failed", "render", "insert", "stage", "inserted"} \subseteq Steps
      /\ sess[r] \in Row /\ tx[r] \in Tx /\ run[r] \in RunRecord
      /\ graph \in [next : Nodes, ver : Version]
  BY DEF Steps, Final, TypeOK, RunRecord
<1>2. CASE ImageCheck(r)
  <2>1. CASE End(r, "refused")
    BY <1>1, <1>2, <2>1, EndTypes DEF ImageCheck, TypeOK, RunRecord
  <2>2. CASE Goto(r, "render") /\ UNCHANGED <<lock, sess, run, tgt, tx>>
    BY <1>1, <1>2, <2>2 DEF ImageCheck, Goto, TypeOK
  <2>3. QED
    BY <1>2, <2>1, <2>2 DEF ImageCheck
<1>3. CASE ImageReady(r)
  <2>1. CASE End(r, "refused")
    BY <1>1, <1>3, <2>1, EndTypes DEF ImageReady, TypeOK, RunRecord
  <2>2. CASE /\ \E v \in Latest(drafts, sess[r].ver) :
                  /\ v.rev < MaxRev
                  /\ run' = [run EXCEPT ![r].ver = [rev |-> v.rev + 1, by |-> r]]
             /\ Goto(r, IF kind[r] = "redirect" THEN "stage" ELSE "insert")
             /\ UNCHANGED <<lock, sess, tgt, tx>>
    <3>1. PICK v \in Latest(drafts, sess[r].ver) :
                  /\ v.rev < MaxRev
                  /\ run' = [run EXCEPT ![r].ver = [rev |-> v.rev + 1, by |-> r]]
      BY <2>2
    <3>2. v \in Version
      BY <1>1, LatestTypes DEF TypeOK, Row
    <3>3. [rev |-> v.rev + 1, by |-> r] \in Version
      BY <3>1, <3>2, SessionAssumption DEF Version
    <3>4. run' \in [Req -> RunRecord]
      BY <1>1, <3>1, <3>3 DEF TypeOK, RunRecord
    <3>5. QED
      BY <1>1, <1>3, <2>2, <3>4 DEF ImageReady, Goto, TypeOK, RunRecord
  <2>3. QED
    BY <1>3, <2>1, <2>2 DEF ImageReady
<1>4. CASE RedirectInsert(r)
  <2>1. CASE End(r, "failed") /\ UNCHANGED graph
    BY <1>1, <1>4, <2>1, EndTypes DEF RedirectInsert, TypeOK, RunRecord
  <2> DEFINE u == PendingRow(r)
  <2>2. CASE /\ sess' = [sess EXCEPT ![r] = u]
             /\ \E c \in Dirty(r, u) :
                   tx' = [tx EXCEPT ![r] =
                            [tx[r] EXCEPT !.row = TRUE, !.cols = c, !.add = {run[r].ver}]]
             /\ \/ graph' = [next |-> "image", ver |-> run[r].ver]
                \/ UNCHANGED graph
             /\ Goto(r, "inserted")
             /\ UNCHANGED <<lock, run, tgt>>
    <3>1. PICK c \in Dirty(r, u) :
            tx' = [tx EXCEPT ![r] =
                     [tx[r] EXCEPT !.row = TRUE, !.cols = c, !.add = {run[r].ver}]]
      BY <2>2
    <3>2. c \in SUBSET Columns
      BY <1>1, DirtyTypes
    <3>3. [tx[r] EXCEPT !.row = TRUE, !.cols = c, !.add = {run[r].ver}] \in Tx
      BY <1>1, <3>2 DEF Tx, RunRecord
    <3>4. u \in Row
      BY <1>1, PendingTypes
    <3>5. graph' \in [next : Nodes, ver : Version]
      BY <1>1, <2>2 DEF RunRecord, Nodes
    <3>6. tx' \in [Req -> Tx] /\ sess' \in [Req -> Row]
      BY <2>2, <3>1, <3>3, <3>4 DEF TypeOK
    <3>7. QED
      BY <1>1, <1>4, <2>2, <3>5, <3>6 DEF RedirectInsert, Goto, TypeOK
  <2>3. QED
    BY <1>4, <2>1, <2>2 DEF RedirectInsert
<1>5. QED
  BY <1>2, <1>3, <1>4

(* Every step keeps the types.                                             *)
LEMMA StepTypes == TypeOK /\ StopsTargetCancelled /\ [Next]_vars => TypeOK'
<1> SUFFICES ASSUME TypeOK, StopsTargetCancelled, [Next]_vars PROVE TypeOK'
  OBVIOUS
<1>1. CASE Next
  <2>1. CASE \E r \in Req : Load(r) \/ Fail(r) \/ Progress(r)
    <3>1. PICK r \in Req : Load(r) \/ Fail(r) \/ Progress(r)
      BY <2>1
    <3>2. Fail(r) => Abort(r)
      BY DEF Fail
    <3>3. DeadlockVictim(r) => Abort(r)
      BY DEF DeadlockVictim
    <3>4. QED
      BY <3>1, <3>2, <3>3, TurnTypes, RunTypes, OtherTypes, ImageTypes, Zenon DEF Progress
  <2>2. CASE Restart
    <3>1. PICK r \in Req : pc[r] # "idle"
      BY <2>2 DEF Restart
    <3>2. QED
      BY <2>2, OtherTypes
  <2>3. QED
    BY <1>1, <2>1, <2>2 DEF Next
<1>2. CASE UNCHANGED vars
  BY <1>2 DEF vars, tables, entry, TypeOK
<1>3. QED
  BY <1>1, <1>2

----------------------------------------------------------------------------
(* Safety. Every action touches the locals of one request only; the lemmas *)
(* below look at that request and leave the others to the frame.           *)

(* The inductive invariant holds of a session at rest.                     *)
LEMMA SessionInit == Init => SessionInv
<1> SUFFICES ASSUME Init PROVE SessionInv
  OBVIOUS
<1>1. TypeOK
  BY InitTypes
<1>2. \A r \in Req : pc[r] = "idle" /\ tgt[r] = NoReq /\ tx[r] = NoTx
  BY DEF Init
<1>3. StopsTargetCancelled
  BY <1>2 DEF StopsTargetCancelled
<1>4. LiveTurnIsRegistered
  BY <1>2 DEF LiveTurnIsRegistered, InFlight
<1>5. LockIsHeld
  BY <1>2 DEF LockIsHeld
<1>6. DraftsComeWithRow
  BY <1>2 DEF DraftsComeWithRow, NoTx
<1>7. QED
  BY <1>1, <1>3, <1>4, <1>5, <1>6 DEF SessionInv

(* A Stop takes aim at the registered entry and marks it as it does; only  *)
(* ending the Stop lets go of the target, and no mark is ever removed.     *)
LEMMA TargetStep ==
    ASSUME SessionInv, NEW r \in Req, Load(r) \/ Fail(r) \/ Progress(r)
    PROVE  StopsTargetCancelled'
<1>1. /\ pc \in [Req -> Steps] /\ tgt \in [Req -> Req \cup {NoReq}]
      /\ StopsTargetCancelled
  BY DEF SessionInv, TypeOK
<1>2. cancelling \subseteq cancelling'
  BY DEF Load, Fail, Abort, Progress, CheckTurn, AskGraph, Wipe, AddMsg, Begin, GraphEnd,
     Stage, Persist, CommitTurn, Cancelled, CommitCancelled, StopCheck, StopAsk, Drop,
     StopDone, FollowDone, StopTimeout, StopCommit, EditCheck, EditInsert,
     ImageCheck, ImageReady, RedirectInsert, EditCommit,
     DeadlockVictim, entry
<1>3. ASSUME NEW how \in Final, End(r, how) PROVE StopsTargetCancelled'
  BY <1>1, <1>2, <1>3 DEF End, Goto, StopsTargetCancelled, Final
<1>4. ASSUME NEW where, where \notin {"waiting", "following"}, Goto(r, where), UNCHANGED tgt
      PROVE StopsTargetCancelled'
  BY <1>1, <1>2, <1>4 DEF Goto, StopsTargetCancelled
<1>5. CASE StopCheck(r)
  <2>1. CASE ~IsBusy
    BY <1>4, <1>5, <2>1 DEF StopCheck
  <2>2. CASE IsBusy
    <3>1. reg \in Req /\ reg \in cancelling' /\ tgt' = [tgt EXCEPT ![r] = reg]
      BY <1>5, <2>2 DEF StopCheck, IsBusy, SessionInv, TypeOK
    <3>2. \E where : pc' = [pc EXCEPT ![r] = where]
      BY <1>5 DEF StopCheck, Goto
    <3>3. QED
      BY <1>1, <1>2, <3>1, <3>2, SessionAssumption DEF StopsTargetCancelled
  <2>3. QED
    BY <2>1, <2>2
<1>6. CASE Load(r) \/ AddMsg(r) \/ GraphEnd(r) \/ Stage(r) \/ Persist(r) \/ Cancelled(r)
           \/ Drop(r) \/ StopTimeout(r)
  BY <1>4, <1>6, Zenon DEF Load, AddMsg, GraphEnd, Stage, Persist, Cancelled, Drop, StopTimeout
<1>7. CASE CommitTurn(r) \/ CommitCancelled(r) \/ StopDone(r) \/ FollowDone(r)
           \/ StopCommit(r) \/ EditCommit(r) \/ Fail(r) \/ DeadlockVictim(r)
  BY <1>3, <1>7 DEF CommitTurn, CommitCancelled, StopDone, FollowDone, StopCommit,
     EditCommit, Fail, DeadlockVictim, Abort, Final
<1>8. CASE CheckTurn(r) \/ AskGraph(r) \/ Wipe(r) \/ Begin(r) \/ StopAsk(r)
           \/ EditCheck(r) \/ EditInsert(r)
           \/ ImageCheck(r) \/ ImageReady(r) \/ RedirectInsert(r)
  BY <1>3, <1>4, <1>8 DEF CheckTurn, AskGraph, Admit, Wipe, Begin, StopAsk, EditCheck,
     EditInsert, ImageCheck, ImageReady, RedirectInsert, Final
<1>9. QED
  BY <1>5, <1>6, <1>7, <1>8, Zenon DEF Progress

(* A step of request r keeps live turns registered if it enters the graph  *)
(* run only by registering, and empties the registry only of an entry that *)
(* is its own, being cancelled, or done.                                   *)
LEMMA KeepsRegistered ==
    ASSUME SessionInv, NEW r \in Req, NEW w, Goto(r, w), cancelling \subseteq cancelling',
           w \in InFlight => (reg' = r \/ (pc[r] \in InFlight /\ reg' = reg)),
           \/ reg' = reg
           \/ (reg = r /\ w \notin InFlight)
           \/ reg \in cancelling
           \/ ~IsBusy
    PROVE  LiveTurnIsRegistered'
<1> SUFFICES ASSUME NEW o \in Req, pc'[o] \in InFlight, o \notin cancelling'
             PROVE  reg' = o
  BY DEF LiveTurnIsRegistered
<1>1. /\ pc' = [pc EXCEPT ![r] = w] /\ pc \in [Req -> Steps]
      /\ LiveTurnIsRegistered /\ o \notin cancelling
  BY DEF SessionInv, TypeOK, Goto
<1>2. CASE o = r
  BY <1>1, <1>2 DEF LiveTurnIsRegistered
<1>3. CASE o # r
  <2>1. pc[o] \in InFlight /\ reg = o
    BY <1>1, <1>3 DEF LiveTurnIsRegistered
  <2>2. IsBusy
    BY <2>1, SessionAssumption DEF IsBusy, Done, Final, InFlight
  <2>3. QED
    BY <1>1, <1>3, <2>1, <2>2
<1>4. QED
  BY <1>2, <1>3

(* No step of a request deregisters a live turn of another.                *)
LEMMA RegisteredStep ==
    ASSUME SessionInv, NEW r \in Req, Load(r) \/ Fail(r) \/ Progress(r)
    PROVE  LiveTurnIsRegistered'
<1>1. cancelling \subseteq cancelling'
  BY DEF Load, Fail, Abort, Progress, CheckTurn, AskGraph, Wipe, AddMsg, Begin, GraphEnd,
     Stage, Persist, CommitTurn, Cancelled, CommitCancelled, StopCheck, StopAsk, Drop,
     StopDone, FollowDone, StopTimeout, StopCommit, EditCheck, EditInsert,
     ImageCheck, ImageReady, RedirectInsert, EditCommit,
     DeadlockVictim, entry
<1>2. ASSUME NEW w, w \notin InFlight, Goto(r, w), UNCHANGED reg
      PROVE LiveTurnIsRegistered'
  BY <1>1, <1>2, KeepsRegistered
<1>3. ASSUME NEW how \in Final, End(r, how), UNCHANGED reg
      PROVE LiveTurnIsRegistered'
  BY <1>2, <1>3 DEF End, Final, InFlight
<1>4. CASE Load(r) \/ AddMsg(r) \/ Cancelled(r) \/ Drop(r) \/ StopTimeout(r) \/ StopCheck(r)
  BY <1>2, <1>4 DEF Load, AddMsg, Cancelled, Drop, StopTimeout, StopCheck, InFlight, entry
<1>5. CASE CheckTurn(r) \/ AskGraph(r) \/ Wipe(r) \/ StopAsk(r) \/ EditCheck(r)
           \/ EditInsert(r)
           \/ ImageCheck(r) \/ ImageReady(r) \/ RedirectInsert(r)
           \/ CommitTurn(r) \/ CommitCancelled(r) \/ FollowDone(r)
           \/ EditCommit(r)
  BY <1>2, <1>3, <1>5 DEF CheckTurn, AskGraph, Admit, Wipe, StopAsk, EditCheck, EditInsert,
     ImageCheck, ImageReady, RedirectInsert,
     CommitTurn, CommitCancelled, FollowDone, EditCommit, Final, InFlight, entry
<1>6. CASE Begin(r)
  <2>1. CASE IsBusy
    BY <1>3, <1>6, <2>1 DEF Begin, Final, entry
  <2>2. CASE ~IsBusy /\ End(r, "failed")
    BY <1>1, <2>2, KeepsRegistered DEF End, InFlight
  <2>3. CASE ~IsBusy /\ reg' = r /\ Goto(r, "running")
    BY <1>1, <2>3, KeepsRegistered
  <2>4. QED
    BY <1>6, <2>1, <2>2, <2>3 DEF Begin
<1>7. CASE GraphEnd(r) \/ Stage(r)
  <2>1. pc[r] \in InFlight /\ reg' = reg /\ (Goto(r, "ended") \/ Goto(r, "staged"))
    BY <1>7 DEF GraphEnd, Stage, InFlight, entry
  <2>2. QED
    BY <1>1, <2>1, KeepsRegistered
<1>8. CASE Persist(r)
  <2>1. Goto(r, "committing") /\ (reg' = reg \/ reg = r)
    BY <1>8 DEF Persist, Clear
  <2>2. QED
    BY <1>1, <2>1, KeepsRegistered DEF InFlight
<1>9. CASE StopDone(r) \/ StopCommit(r)
  <2>1. Goto(r, "ok") /\ (reg' = reg \/ reg = tgt[r])
    BY <1>9 DEF StopDone, StopCommit, Clear, End
  <2>2. reg = tgt[r] => reg \in cancelling \/ ~IsBusy
    BY DEF SessionInv, StopsTargetCancelled, IsBusy
  <2>3. QED
    BY <1>1, <2>1, <2>2, KeepsRegistered DEF InFlight
<1>10. CASE Abort(r)
  <2>1. Goto(r, "failed") /\ (reg' = reg \/ reg = r)
    BY <1>10 DEF Abort, Clear, End
  <2>2. QED
    BY <1>1, <2>1, KeepsRegistered DEF InFlight
<1>11. Fail(r) \/ DeadlockVictim(r) => Abort(r)
  BY DEF Fail, DeadlockVictim
<1>12. QED
  BY <1>4, <1>5, <1>6, <1>7, <1>8, <1>9, <1>10, <1>11, Zenon DEF Progress

(* A step of request r that ends at w respects the row lock if it takes it *)
(* only when nobody holds it and gives up only its own.                    *)
LEMMA KeepsLock ==
    ASSUME SessionInv, NEW r \in Req, NEW w, Goto(r, w),
           lock' = lock \/ lock = NoReq \/ lock = r,
           w \in {"begin", "running", "committing", "handled"} => lock' = r
    PROVE  LockIsHeld'
<1>1. /\ pc' = [pc EXCEPT ![r] = w] /\ pc \in [Req -> Steps] /\ LockIsHeld
  BY DEF SessionInv, TypeOK, Goto
<1>2. QED
  BY <1>1, SessionAssumption DEF LockIsHeld

(* No step of a request takes the row lock away from its holder.           *)
LEMMA LockStep ==
    ASSUME SessionInv, NEW r \in Req, Load(r) \/ Fail(r) \/ Progress(r)
    PROVE  LockIsHeld'
<1>1. ASSUME NEW how \in Final, End(r, how) PROVE LockIsHeld'
  BY <1>1, KeepsLock DEF End, Final
<1>2. ASSUME NEW w, w \notin {"begin", "running", "committing", "handled"}, Goto(r, w),
             UNCHANGED lock
      PROVE LockIsHeld'
  BY <1>2, KeepsLock
<1>3. CASE CommitTurn(r) \/ CommitCancelled(r) \/ StopDone(r) \/ FollowDone(r)
           \/ StopCommit(r) \/ EditCommit(r) \/ Fail(r) \/ DeadlockVictim(r)
  BY <1>1, <1>3 DEF CommitTurn, CommitCancelled, StopDone, FollowDone, StopCommit,
     EditCommit, Fail, DeadlockVictim, Abort, Final
<1>4. CASE Load(r) \/ Stage(r) \/ Drop(r) \/ StopTimeout(r) \/ StopCheck(r)
  BY <1>2, <1>4 DEF Load, Stage, Drop, StopTimeout, StopCheck
<1>5. CASE CheckTurn(r) \/ AskGraph(r) \/ Wipe(r) \/ StopAsk(r) \/ EditCheck(r)
           \/ EditInsert(r) \/ ImageCheck(r) \/ ImageReady(r) \/ RedirectInsert(r)
  BY <1>1, <1>2, <1>5 DEF CheckTurn, AskGraph, Admit, Wipe, StopAsk, EditCheck, EditInsert,
     ImageCheck, ImageReady, RedirectInsert,
     Final
<1>6. CASE AddMsg(r)
  BY <1>6, KeepsLock DEF AddMsg
<1>7. CASE Begin(r)
  <2>1. pc[r] = "begin" => lock = r
    BY DEF SessionInv, LockIsHeld
  <2>2. CASE \E how \in Final : End(r, how)
    BY <1>1, <2>2
  <2>3. CASE Goto(r, "running") /\ UNCHANGED lock /\ lock = r
    BY <2>3, KeepsLock
  <2>4. QED
    BY <1>7, <2>1, <2>2, <2>3 DEF Begin, Final
<1>8. CASE GraphEnd(r)
  <2>1. lock = r
    BY <1>8 DEF GraphEnd, SessionInv, LockIsHeld
  <2>2. QED
    BY <1>8, <2>1, KeepsLock DEF GraphEnd
<1>9. CASE Persist(r) \/ Cancelled(r)
  BY <1>9, KeepsLock DEF Persist, Cancelled, LockFree
<1>10. QED
  BY <1>3, <1>4, <1>5, <1>6, <1>7, <1>8, <1>9, Zenon DEF Progress

(* DraftsComeWithRow only needs to be looked at for the request that moves. *)
WithRow(p, t, out) ==
    /\ ~t.row => t.add = {} /\ t.del = {}
    /\ p \in {"begin", "running"} => t.row
    /\ p = "ended" /\ out # "blank" => t.row

(* The frame: a step that is good for the request that moves is good.      *)
LEMMA KeepsWithRow ==
    ASSUME SessionInv, NEW r \in Req, NEW w, Goto(r, w),
           NEW t, tx' = [tx EXCEPT ![r] = t],
           NEW u, run' = [run EXCEPT ![r] = u],
           WithRow(w, t, u.out)
    PROVE  DraftsComeWithRow'
<1>1. /\ pc' = [pc EXCEPT ![r] = w] /\ pc \in [Req -> Steps] /\ tx \in [Req -> Tx]
      /\ run \in [Req -> RunRecord] /\ DraftsComeWithRow
  BY DEF SessionInv, TypeOK, Goto, RunRecord
<1>2. QED
  BY <1>1 DEF DraftsComeWithRow, WithRow

(* A discard touches the row.                                              *)
LEMMA DiscardWithRow ==
    ASSUME tx \in [Req -> Tx], NEW r \in Req, NEW v, NEW p, NEW ms, Discard(r, v, p, ms)
    PROVE  \E t : tx' = [tx EXCEPT ![r] = t] /\ t.row
<1> DEFINE left == Visible(r) \ Above(Visible(r), v)
           s(top) == [ver |-> top, preview |-> p, park |-> "none", anchor |-> NoAnchor]
           t(c) == [row |-> TRUE, cols |-> c, add |-> tx[r].add \cap left,
                    del |-> drafts \ left,
                    addm |-> tx[r].addm \ ms, delm |-> tx[r].delm \cup ms]
<1>1. PICK top \in Latest(left, v) :
        /\ sess' = [sess EXCEPT ![r] = s(top)]
        /\ \E c \in Dirty(r, s(top)) : tx' = [tx EXCEPT ![r] = t(c)]
  BY DEF Discard
<1>2. PICK c : tx' = [tx EXCEPT ![r] = t(c)]
  BY <1>1
<1>3. t(c).row
  OBVIOUS
<1> HIDE DEF t
<1>4. QED
  BY <1>2, <1>3

(* Undoing a turn writes drafts only together with the row.                *)
LEMMA UndoWithRow ==
    ASSUME SessionInv, NEW r \in Req, NEW e, Undo(r, e)
    PROVE  \E t : /\ tx' = [tx EXCEPT ![r] = t]
                  /\ ~t.row => t.add = {} /\ t.del = {}
<1>1. /\ tx \in [Req -> Tx] /\ tx[r] \in Tx
      /\ ~tx[r].row => tx[r].add = {} /\ tx[r].del = {}
  BY DEF SessionInv, TypeOK, DraftsComeWithRow
<1>2. CASE \E ms : Repark(r, e, ms)
  <2>1. PICK c, ms : tx' = [tx EXCEPT ![r] =
                [tx[r] EXCEPT !.row = TRUE, !.cols = c, !.addm = @ \ ms, !.delm = @ \cup ms]]
    BY <1>2 DEF Repark
  <2>2. [tx[r] EXCEPT !.row = TRUE, !.cols = c, !.addm = @ \ ms, !.delm = @ \cup ms].row
    BY <1>1 DEF Tx
  <2>3. QED
    BY <2>1, <2>2
<1>3. CASE Interrupt(r, e)
  <2>1. PICK m : tx' = [tx EXCEPT ![r] = [tx[r] EXCEPT !.addm = @ \cup m]]
    BY <1>1, <1>3 DEF Interrupt
  <2> DEFINE t == [tx[r] EXCEPT !.addm = @ \cup m]
  <2>2. t.row = tx[r].row /\ t.add = tx[r].add /\ t.del = tx[r].del
    BY <1>1 DEF Tx
  <2>3. QED
    BY <1>1, <2>1, <2>2
<1>4. CASE \E v, p, ms : Discard(r, v, p, ms)
  BY <1>1, <1>4, DiscardWithRow
<1>5. QED
  BY <1>2, <1>3, <1>4 DEF Undo

(* No step writes drafts without the row.                                  *)
LEMMA DraftsStep ==
    ASSUME SessionInv, NEW r \in Req, Load(r) \/ Fail(r) \/ Progress(r)
    PROVE  DraftsComeWithRow'
<1>1. /\ tx \in [Req -> Tx] /\ run \in [Req -> RunRecord]
      /\ tx[r] \in Tx /\ run[r] \in RunRecord
      /\ WithRow(pc[r], tx[r], run[r].out)
  BY DEF SessionInv, TypeOK, DraftsComeWithRow, WithRow, RunRecord
<1>2. tx = [tx EXCEPT ![r] = tx[r]] /\ run = [run EXCEPT ![r] = run[r]]
  BY <1>1
<1>3. ASSUME NEW how \in Final, End(r, how) PROVE DraftsComeWithRow'
  <2>1. WithRow(how, NoTx, NoRun.out)
    BY <1>3 DEF WithRow, NoTx, Final
  <2>2. QED
    BY <1>3, <2>1, KeepsWithRow DEF End
<1>4. ASSUME NEW w, w \notin {"begin", "running", "ended"}, Goto(r, w), UNCHANGED <<tx, run>>
      PROVE DraftsComeWithRow'
  <2>1. WithRow(w, tx[r], run[r].out)
    BY <1>1, <1>4 DEF WithRow
  <2>2. QED
    BY <1>2, <1>4, <2>1, KeepsWithRow
<1>5. CASE CommitTurn(r) \/ CommitCancelled(r) \/ StopDone(r) \/ FollowDone(r)
           \/ StopCommit(r) \/ EditCommit(r) \/ Fail(r) \/ DeadlockVictim(r)
  BY <1>3, <1>5 DEF CommitTurn, CommitCancelled, StopDone, FollowDone, StopCommit,
     EditCommit, Fail, DeadlockVictim, Abort, Final
<1>6. CASE Load(r) \/ StopCheck(r)
  BY <1>4, <1>6 DEF Load, StopCheck
<1>7. CASE CheckTurn(r) \/ AskGraph(r) \/ StopAsk(r)
  BY <1>3, <1>4, <1>7 DEF CheckTurn, AskGraph, Admit, StopAsk, Final
<1>8. CASE Drop(r) \/ StopTimeout(r) \/ Cancelled(r)
  <2>1. PICK t : tx' = [tx EXCEPT ![r] = t] /\ (~t.row => t.add = {} /\ t.del = {})
    <3>1. CASE Drop(r)
      BY <1>1, <3>1, DiscardWithRow DEF Drop
    <3>2. CASE StopTimeout(r) \/ Cancelled(r)
      BY <3>2, UndoWithRow DEF StopTimeout, Cancelled
    <3>3. QED
      BY <1>8, <3>1, <3>2
  <2>2. UNCHANGED run /\ (Goto(r, "dropping") \/ Goto(r, "handled"))
    BY <1>8 DEF Drop, StopTimeout, Cancelled
  <2>3. WithRow("dropping", t, run[r].out) /\ WithRow("handled", t, run[r].out)
    BY <2>1 DEF WithRow
  <2>4. QED
    BY <1>2, <2>1, <2>2, <2>3, KeepsWithRow
<1>9. CASE AddMsg(r)
  <2>1. PICK m : tx' = [tx EXCEPT ![r] = [tx[r] EXCEPT !.row = TRUE, !.addm = m]]
    BY <1>9 DEF AddMsg
  <2>2. WithRow("begin", [tx[r] EXCEPT !.row = TRUE, !.addm = m], run[r].out)
    BY <1>1 DEF WithRow, Tx
  <2>3. Goto(r, "begin") /\ UNCHANGED run
    BY <1>9 DEF AddMsg
  <2>4. QED
    BY <1>2, <2>1, <2>2, <2>3, KeepsWithRow
<1>10. CASE Begin(r)
  <2>1. CASE \E how \in Final : End(r, how)
    BY <1>3, <2>1
  <2>2. CASE /\ run' = [run EXCEPT ![r].ver = graph'.ver]
             /\ Goto(r, "running")
             /\ UNCHANGED tx
    <3> DEFINE u == [run[r] EXCEPT !.ver = graph'.ver]
    <3>1. run' = [run EXCEPT ![r] = u]
      BY <1>1, <2>2
    <3>2. WithRow("running", tx[r], u.out)
      BY <1>1, <1>10 DEF WithRow, Begin
    <3>3. QED
      BY <1>2, <2>2, <3>1, <3>2, KeepsWithRow
  <2>3. QED
    BY <1>10, <2>1, <2>2 DEF Begin, Final
<1>11. CASE GraphEnd(r)
  <2> DEFINE version(o) == CASE o = "accept" -> [rev |-> run[r].ver.rev + 1, by |-> r]
                             [] o = "blank" -> NoVersion
                             [] OTHER -> run[r].ver
  <2>0. PICK o :
          /\ \E p : run' = [run EXCEPT ![r] =
                      [out |-> o, preview |-> p, ver |-> version(o)]]
          /\ \/ o = "blank" /\ tx' = [tx EXCEPT ![r] = NoTx]
             \/ o # "blank" /\ UNCHANGED tx
    BY <1>1, <1>11 DEF GraphEnd
  <2>1. PICK p : /\ run' = [run EXCEPT ![r] = [out |-> o, preview |-> p, ver |-> version(o)]]
                 /\ \/ o = "blank" /\ tx' = [tx EXCEPT ![r] = NoTx]
                    \/ o # "blank" /\ UNCHANGED tx
    BY <2>0
  <2> DEFINE u == [out |-> o, preview |-> p, ver |-> version(o)]
  <2>2. Goto(r, "ended") /\ tx[r].row
    BY <1>1, <1>11 DEF GraphEnd, WithRow
  <2>3. CASE o = "blank" /\ tx' = [tx EXCEPT ![r] = NoTx]
    <3>1. WithRow("ended", NoTx, u.out)
      BY <2>1, <2>3 DEF WithRow, NoTx
    <3>2. QED
      BY <2>1, <2>2, <2>3, <3>1, KeepsWithRow
  <2>4. CASE o # "blank" /\ UNCHANGED tx
    <3>1. WithRow("ended", tx[r], u.out)
      BY <2>2 DEF WithRow
    <3>2. QED
      BY <1>2, <2>1, <2>2, <2>4, <3>1, KeepsWithRow
  <2>5. QED
    BY <2>1, <2>3, <2>4
<1>12. CASE Stage(r)
  <2>1. Goto(r, "staged") /\ tx[r].row
    BY <1>1, <1>12 DEF Stage, WithRow
  <2>2. CASE UNCHANGED <<tx, run>>
    BY <1>4, <2>1, <2>2
  <2>3. CASE \E d \in Wanted(r) :
          /\ tx' = [tx EXCEPT ![r].add = @ \cup {d}]
          /\ run' = [run EXCEPT ![r] = [run[r] EXCEPT !.ver = d, !.preview = TRUE]]
    <3>1. PICK d :
          /\ tx' = [tx EXCEPT ![r].add = @ \cup {d}]
          /\ run' = [run EXCEPT ![r] = [run[r] EXCEPT !.ver = d, !.preview = TRUE]]
      BY <2>3
    <3> DEFINE t == [tx[r] EXCEPT !.add = @ \cup {d}]
    <3>2. tx' = [tx EXCEPT ![r] = t]
      BY <1>1, <3>1 DEF Tx
    <3>3. t.row
      BY <1>1, <2>1 DEF Tx
    <3>4. \A out : WithRow("staged", t, out)
      BY <3>3 DEF WithRow
    <3>5. QED
      BY <2>1, <3>1, <3>2, <3>4, KeepsWithRow
  <2>4. QED
    BY <1>12, <2>2, <2>3 DEF Stage
<1>13. CASE Persist(r)
  <2>1. PICK new, c : tx' = [tx EXCEPT ![r] =
          [tx[r] EXCEPT !.row = TRUE, !.cols = c, !.add = @ \cup new,
                        !.addm = @ \cup {<<r, "assistant">>}]]
    BY <1>13 DEF Persist
  <2> DEFINE t == [tx[r] EXCEPT !.row = TRUE, !.cols = c, !.add = @ \cup new,
                                !.addm = @ \cup {<<r, "assistant">>}]
  <2>2. t.row
    BY <1>1 DEF Tx
  <2>3. WithRow("committing", t, run[r].out)
    BY <2>2 DEF WithRow
  <2>4. Goto(r, "committing") /\ UNCHANGED run
    BY <1>13 DEF Persist
  <2>5. QED
    BY <1>2, <2>1, <2>3, <2>4, KeepsWithRow
<1>14. CASE EditCheck(r)
  <2>1. CASE End(r, "refused")
    BY <1>3, <2>1 DEF Final
  <2>2. CASE Goto(r, "insert") /\ UNCHANGED tx /\ \E v : run' = [run EXCEPT ![r].ver = v]
    <3>1. PICK v : run' = [run EXCEPT ![r] = [run[r] EXCEPT !.ver = v]]
      BY <1>1, <2>2
    <3>2. \A out : WithRow("insert", tx[r], out)
      BY <1>1 DEF WithRow
    <3>3. QED
      BY <1>2, <2>2, <3>1, <3>2, KeepsWithRow
  <2>3. QED
    BY <1>14, <2>1, <2>2 DEF EditCheck
<1>15. CASE EditInsert(r)
  <2>1. CASE End(r, "failed")
    BY <1>3, <2>1 DEF Final
  <2>2. CASE /\ Goto(r, "inserted") /\ UNCHANGED run
             /\ \E c : tx' = [tx EXCEPT ![r] =
                                [tx[r] EXCEPT !.row = TRUE, !.cols = c, !.add = {run[r].ver}]]
    <3>1. PICK c : tx' = [tx EXCEPT ![r] =
                            [tx[r] EXCEPT !.row = TRUE, !.cols = c, !.add = {run[r].ver}]]
      BY <2>2
    <3> DEFINE t == [tx[r] EXCEPT !.row = TRUE, !.cols = c, !.add = {run[r].ver}]
    <3>2. t.row
      BY <1>1 DEF Tx
    <3>3. WithRow("inserted", t, run[r].out)
      BY <3>2 DEF WithRow
    <3>4. QED
      BY <1>2, <2>2, <3>1, <3>3, KeepsWithRow
  <2>3. QED
    BY <1>15, <2>1, <2>2 DEF EditInsert
<1>16. CASE Wipe(r)
  <2>1. CASE End(r, "refused")
    BY <1>3, <2>1 DEF Final
  <2>2. CASE /\ Goto(r, "add") /\ UNCHANGED run
             /\ \E c : tx' = [tx EXCEPT ![r] = [tx[r] EXCEPT !.cols = c]]
    <3>1. PICK c : tx' = [tx EXCEPT ![r] = [tx[r] EXCEPT !.cols = c]]
      BY <2>2
    <3> DEFINE t == [tx[r] EXCEPT !.cols = c]
    <3>2. WithRow("add", t, run[r].out)
      <4>1. t.row = tx[r].row /\ t.add = tx[r].add /\ t.del = tx[r].del
        BY <1>1 DEF Tx
      <4>2. QED
        BY <1>1, <4>1 DEF WithRow
    <3>3. QED
      BY <1>2, <2>2, <3>1, <3>2, KeepsWithRow
  <2>3. QED
    BY <1>16, <2>1, <2>2 DEF Wipe
<1>17. CASE ImageCheck(r)
  <2>1. CASE End(r, "refused")
    BY <1>3, <2>1 DEF Final
  <2>2. CASE Goto(r, "render") /\ UNCHANGED <<tx, run>>
    <3>1. WithRow("render", tx[r], run[r].out)
      BY <1>1 DEF WithRow
    <3>2. QED
      BY <1>2, <2>2, <3>1, KeepsWithRow
  <2>3. QED
    BY <1>17, <2>1, <2>2 DEF ImageCheck
<1>18. CASE ImageReady(r)
  <2>1. CASE End(r, "refused")
    BY <1>3, <2>1 DEF Final
  <2>2. CASE /\ \E w \in {"insert", "stage"} : Goto(r, w)
             /\ UNCHANGED tx /\ \E v : run' = [run EXCEPT ![r].ver = v]
    <3>1. PICK w \in {"insert", "stage"} : Goto(r, w)
      BY <2>2
    <3>2. PICK v : run' = [run EXCEPT ![r] = [run[r] EXCEPT !.ver = v]]
      BY <1>1, <2>2
    <3>3. \A out : WithRow(w, tx[r], out)
      BY <1>1 DEF WithRow
    <3>4. QED
      BY <1>2, <2>2, <3>1, <3>2, <3>3, KeepsWithRow
  <2>3. QED
    BY <1>18, <2>1, <2>2 DEF ImageReady
<1>19. CASE RedirectInsert(r)
  <2>1. CASE End(r, "failed")
    BY <1>3, <2>1 DEF Final
  <2>2. CASE /\ Goto(r, "inserted") /\ UNCHANGED run
             /\ \E c : tx' = [tx EXCEPT ![r] =
                                [tx[r] EXCEPT !.row = TRUE, !.cols = c, !.add = {run[r].ver}]]
    <3>1. PICK c : tx' = [tx EXCEPT ![r] =
                            [tx[r] EXCEPT !.row = TRUE, !.cols = c, !.add = {run[r].ver}]]
      BY <2>2
    <3> DEFINE t == [tx[r] EXCEPT !.row = TRUE, !.cols = c, !.add = {run[r].ver}]
    <3>2. t.row
      BY <1>1 DEF Tx
    <3>3. WithRow("inserted", t, run[r].out)
      BY <3>2 DEF WithRow
    <3>4. QED
      BY <1>2, <2>2, <3>1, <3>3, KeepsWithRow
  <2>3. QED
    BY <1>19, <2>1, <2>2 DEF RedirectInsert
<1>20. QED
  BY <1>5, <1>6, <1>7, <1>8, <1>9, <1>10, <1>11, <1>12, <1>13, <1>14, <1>15, <1>16, <1>17,
     <1>18, <1>19, Zenon DEF Progress

(* After a restart nothing runs, nobody holds the lock, nothing is open.   *)
LEMMA RestartStep ==
    ASSUME SessionInv, Restart
    PROVE  StopsTargetCancelled' /\ LiveTurnIsRegistered' /\ LockIsHeld' /\ DraftsComeWithRow'
<1>1. \A r \in Req : /\ pc'[r] \in Final \cup {"idle"}
                     /\ tgt'[r] = NoReq /\ tx'[r] = NoTx
  BY DEF Restart, Done, Final
<1>2. StopsTargetCancelled'
  BY <1>1 DEF StopsTargetCancelled, Final
<1>3. LiveTurnIsRegistered'
  BY <1>1 DEF LiveTurnIsRegistered, Final, InFlight
<1>4. LockIsHeld'
  BY <1>1 DEF LockIsHeld, Final
<1>5. DraftsComeWithRow'
  BY <1>1 DEF DraftsComeWithRow, NoTx, Final
<1>6. QED
  BY <1>2, <1>3, <1>4, <1>5

(* Every step keeps the inductive invariant.                               *)
LEMMA SessionStep == SessionInv /\ [Next]_vars => SessionInv'
<1> SUFFICES ASSUME SessionInv, [Next]_vars PROVE SessionInv'
  OBVIOUS
<1>1. TypeOK'
  BY StepTypes DEF SessionInv
<1>2. CASE \E r \in Req : Load(r) \/ Fail(r) \/ Progress(r)
  BY <1>1, <1>2, TargetStep, RegisteredStep, LockStep, DraftsStep DEF SessionInv
<1>3. CASE Restart
  BY <1>1, <1>3, RestartStep DEF SessionInv
<1>4. CASE UNCHANGED vars
  BY <1>1, <1>4 DEF vars, tables, entry, SessionInv, StopsTargetCancelled,
     LiveTurnIsRegistered, LockIsHeld, DraftsComeWithRow
<1>5. QED
  BY <1>2, <1>3, <1>4 DEF Next

(* The inductive invariant holds in every reachable state.                 *)
THEOREM SessionInvariant == Spec => []SessionInv
BY SessionInit, SessionStep, PTL DEF Spec

(* Every reachable state is well typed, for any requests and any bound on  *)
(* revisions: the values the handlers compute stay in their ranges.        *)
THEOREM TypeCorrect == Spec => []TypeOK
<1>1. SessionInv => TypeOK
  BY DEF SessionInv
<1>2. QED
  BY <1>1, SessionInvariant, PTL

(* However many requests race, a turn in flight that nobody is cancelling  *)
(* is the registered one, so that the busy check sees it and Stop finds it. *)
THEOREM LiveTurnsRegistered == Spec => []LiveTurnIsRegistered
<1>1. SessionInv => LiveTurnIsRegistered
  BY DEF SessionInv
<1>2. QED
  BY <1>1, SessionInvariant, PTL

(* Two turns are never in flight at once unless one of them is already     *)
(* being cancelled.                                                        *)
THEOREM OneLiveTurn ==
    Spec => [](\A q, r \in Req : /\ pc[q] \in InFlight /\ q \notin cancelling
                                 /\ pc[r] \in InFlight /\ r \notin cancelling
                                 => q = r)
<1>1. LiveTurnIsRegistered =>
        \A q, r \in Req : /\ pc[q] \in InFlight /\ q \notin cancelling
                          /\ pc[r] \in InFlight /\ r \notin cancelling
                          => q = r
  BY DEF LiveTurnIsRegistered
<1>2. QED
  BY <1>1, LiveTurnsRegistered, PTL

(* Only four actions write the tables, and each of them holds the row lock *)
(* or waits until nobody does; a running turn holds it.                    *)
LEMMA RunningTurnKeepsRow ==
    ASSUME SessionInv, [Next]_vars, NEW r \in Req, pc[r] = "running", pc'[r] \in InFlight
    PROVE  UNCHANGED <<row, drafts>>
<1>1. lock = r /\ r # NoReq
  BY SessionAssumption DEF SessionInv, LockIsHeld
<1>2. CASE \E q \in Req : Load(q) \/ Fail(q) \/ Progress(q)
  <2>1. PICK q \in Req : Load(q) \/ Fail(q) \/ Progress(q)
    BY <1>2
  <2>2. CASE CommitTurn(q) \/ CommitCancelled(q)
    <3>1. pc[q] \in {"committing", "handled"}
      BY <2>2 DEF CommitTurn, CommitCancelled
    <3>2. lock = q
      BY <3>1 DEF SessionInv, LockIsHeld
    <3>3. QED
      BY <1>1, <3>1, <3>2
  <2>3. CASE EditCommit(q)
    BY <1>1, <2>3 DEF EditCommit
  <2>4. CASE StopCommit(q)
    <3>1. ~tx[q].row
      BY <1>1, <2>4 DEF StopCommit
    <3>2. tx[q].add = {} /\ tx[q].del = {}
      BY <3>1 DEF SessionInv, DraftsComeWithRow
    <3>3. Commit(q)
      BY <2>4 DEF StopCommit
    <3>4. QED
      BY <3>1, <3>2, <3>3 DEF Commit, Visible
  <2>5. CASE \/ Load(q) \/ Fail(q) \/ CheckTurn(q) \/ AskGraph(q) \/ Wipe(q) \/ AddMsg(q)
             \/ Begin(q) \/ GraphEnd(q) \/ Stage(q) \/ Persist(q) \/ Cancelled(q)
             \/ StopCheck(q) \/ StopAsk(q) \/ Drop(q) \/ StopDone(q) \/ FollowDone(q)
             \/ StopTimeout(q) \/ EditCheck(q) \/ EditInsert(q)
             \/ ImageCheck(q) \/ ImageReady(q) \/ RedirectInsert(q) \/ DeadlockVictim(q)
    BY <2>5 DEF Load, Fail, Abort, CheckTurn, AskGraph, Wipe, AddMsg, Begin, GraphEnd, Stage,
       Persist, Cancelled, StopCheck, StopAsk, Drop, StopDone, FollowDone, StopTimeout,
       EditCheck, EditInsert,
       ImageCheck, ImageReady, RedirectInsert, DeadlockVictim, tables
  <2>6. QED
    BY <2>1, <2>2, <2>3, <2>4, <2>5, Zenon DEF Progress
<1>3. CASE Restart
  BY <1>3 DEF Restart, tables
<1>4. CASE UNCHANGED vars
  BY <1>4 DEF vars, tables
<1>5. QED
  BY <1>2, <1>3, <1>4 DEF Next

(* From the flush of its user row to the end of the graph run a turn reads *)
(* and works on a session row and on drafts that nobody else changes.      *)
THEOREM RowStable == Spec => RowStableDuringTurn
<1>1. SessionInv /\ [Next]_vars =>
        [\A r \in Req : pc[r] = "running" /\ pc'[r] \in InFlight
                           => UNCHANGED <<row, drafts>>]_vars
  BY RunningTurnKeepsRow
<1>2. QED
  BY <1>1, SessionInvariant, PTL DEF Spec, RowStableDuringTurn

----------------------------------------------------------------------------
(* No ghosts: whose entry the registry holds.                              *)

Cancelable == InFlight \cup {"handled", "failed", "kept", "reparked", "discarded"}

(* A step of r moves r alone, which had not ended yet.                     *)
LEMMA StepFrame ==
    ASSUME NEW r \in Req, Load(r) \/ Fail(r) \/ Progress(r)
    PROVE  pc[r] \notin Final /\ \E w : Goto(r, w)
<1>1. CASE DeadlockVictim(r)
  BY <1>1, SMT DEF DeadlockVictim, Deadlocked, Abort, End, Final
<1>2. CASE \/ CommitTurn(r) \/ CommitCancelled(r) \/ StopDone(r) \/ FollowDone(r)
           \/ StopCommit(r) \/ EditCommit(r) \/ Fail(r)
  BY <1>2 DEF CommitTurn, CommitCancelled, StopDone, FollowDone, StopCommit,
     EditCommit, Fail, Abort, End, Final, InFlight
<1>3. CASE Load(r) \/ AddMsg(r) \/ GraphEnd(r) \/ Stage(r) \/ Persist(r) \/ Cancelled(r)
           \/ StopCheck(r) \/ Drop(r) \/ StopTimeout(r)
  BY <1>3 DEF Load, AddMsg, GraphEnd, Stage, Persist, Cancelled, StopCheck, Drop, StopTimeout,
     Final, InFlight
<1>4. CASE CheckTurn(r) \/ AskGraph(r) \/ Wipe(r) \/ Begin(r) \/ StopAsk(r)
           \/ EditCheck(r) \/ EditInsert(r)
           \/ ImageCheck(r) \/ ImageReady(r) \/ RedirectInsert(r)
  BY <1>4 DEF CheckTurn, AskGraph, Admit, Wipe, Begin, StopAsk, EditCheck, EditInsert,
     ImageCheck, ImageReady, RedirectInsert, End, Final
<1>5. QED
  BY <1>1, <1>2, <1>3, <1>4, Zenon DEF Progress

(* A step of r that marks nobody keeps the entries owned if it registers   *)
(* only itself, leaves its own entry only with the flight, and lets go of  *)
(* the entry it cancels only by clearing it.                               *)
LEMMA KeepsOwner ==
    ASSUME SessionInv, EntryHasOwner, NEW r \in Req, NEW w, Goto(r, w), UNCHANGED cancelling,
           \A s \in Req \ {r} : tgt'[s] = tgt[s],
           reg' \in {reg, NoReq} \/ (reg' = r /\ w \in InFlight /\ r \notin cancelling),
           r \in cancelling => w \in Cancelable,
           reg' = reg /\ reg = r /\ r \notin cancelling => w \in InFlight,
           reg' = reg /\ reg # NoReq /\ reg \in cancelling
                      /\ pc[r] \in {"waiting", "dropping"} /\ tgt[r] = reg =>
              w \in {"waiting", "dropping"} /\ tgt'[r] = tgt[r]
    PROVE  EntryHasOwner'
<1>1. /\ pc' = [pc EXCEPT ![r] = w] /\ pc \in [Req -> Steps]
      /\ r # NoReq /\ reg \in Req \cup {NoReq}
  BY SessionAssumption DEF SessionInv, TypeOK, Goto
<1>2. \A q \in cancelling' : pc'[q] \in Cancelable
  BY <1>1 DEF EntryHasOwner, Cancelable, SessionInv, TypeOK
<1>3. ASSUME reg' # NoReq, reg' \notin cancelling' PROVE pc'[reg'] \in InFlight
  BY <1>1, <1>3 DEF EntryHasOwner
<1>4. ASSUME reg' # NoReq, reg' \in cancelling'
      PROVE  \E s \in Req : pc'[s] \in {"waiting", "dropping"} /\ tgt'[s] = reg'
  <2>1. CASE reg' = r /\ r \notin cancelling
    BY <1>4, <2>1
  <2>2. CASE reg' = reg
    <3>1. PICK s \in Req : pc[s] \in {"waiting", "dropping"} /\ tgt[s] = reg
      BY <1>4, <2>2 DEF EntryHasOwner
    <3>2. QED
      BY <1>1, <1>4, <2>2, <3>1
  <2>3. QED
    BY <1>4, <2>1, <2>2
<1>5. QED
  BY <1>2, <1>3, <1>4 DEF EntryHasOwner, Cancelable

(* Whatever request moves, the registry holds no entry without an owner.   *)
LEMMA OwnerStep ==
    ASSUME SessionInv, EntryHasOwner, NEW r \in Req, Load(r) \/ Fail(r) \/ Progress(r)
    PROVE  EntryHasOwner'
<1>1. /\ pc \in [Req -> Steps] /\ tgt \in [Req -> Req \cup {NoReq}]
      /\ reg \in Req \cup {NoReq} /\ r # NoReq
  BY SessionAssumption DEF SessionInv, TypeOK
<1>2. r \in cancelling => pc[r] \in Cancelable
  BY DEF EntryHasOwner, Cancelable
<1>3. reg # NoReq /\ reg \notin cancelling => pc[reg] \in InFlight
  BY DEF EntryHasOwner
<1>4. pc[r] \in InFlight /\ r \notin cancelling => reg = r
  BY DEF SessionInv, LiveTurnIsRegistered
<1>5. ASSUME NEW how \in Final, End(r, how), UNCHANGED <<reg, cancelling>>,
             pc[r] \notin {"waiting", "dropping"}, pc[r] \notin InFlight,
             r \in cancelling => how \in Cancelable
      PROVE  EntryHasOwner'
  <2>1. reg = r => r \in cancelling
    BY <1>1, <1>3, <1>5
  <2>2. Goto(r, how) /\ \A s \in Req \ {r} : tgt'[s] = tgt[s]
    BY <1>1, <1>5 DEF End
  <2>3. QED
    BY <1>5, <2>1, <2>2, KeepsOwner
<1>6. ASSUME NEW w, Goto(r, w), UNCHANGED <<reg, cancelling, tgt>>,
             pc[r] \notin {"waiting", "dropping"} \/ w \in {"waiting", "dropping"},
             pc[r] \notin InFlight \/ w \in InFlight \/ r \in cancelling,
             r \in cancelling => w \in Cancelable
      PROVE  EntryHasOwner'
  <2>1. reg = r /\ r \notin cancelling => w \in InFlight
    BY <1>1, <1>3, <1>6
  <2>2. QED
    BY <1>6, <2>1, KeepsOwner
<1>7. CASE Load(r) \/ AddMsg(r) \/ Drop(r)
  <2>1. pc[r] \in {"idle", "add", "drop"} /\ \E w \in {"check", "begin", "dropping"} : Goto(r, w)
    BY <1>7 DEF Load, AddMsg, Drop
  <2>2. UNCHANGED <<reg, cancelling, tgt>>
    BY <1>7 DEF Load, AddMsg, Drop, entry
  <2>3. QED
    BY <1>2, <1>6, <2>1, <2>2 DEF Cancelable, InFlight
<1>8. CASE StopTimeout(r) \/ Cancelled(r) \/ GraphEnd(r) \/ Stage(r)
  <2>1. UNCHANGED <<reg, cancelling, tgt>>
    BY <1>8 DEF StopTimeout, Cancelled, GraphEnd, Stage, entry
  <2>2. CASE StopTimeout(r)
    BY <1>2, <1>6, <2>1, <2>2 DEF StopTimeout, Cancelable, InFlight
  <2>3. CASE Cancelled(r)
    BY <1>6, <2>1, <2>3 DEF Cancelled, Uncancelled, Cancelable, InFlight
  <2>4. CASE GraphEnd(r) \/ Stage(r)
    BY <1>6, <2>1, <2>4 DEF GraphEnd, Stage, Cancelable, InFlight
  <2>5. QED
    BY <1>8, <2>2, <2>3, <2>4
<1>9. CASE CheckTurn(r) \/ AskGraph(r) \/ Wipe(r) \/ StopAsk(r) \/ EditCheck(r) \/ EditInsert(r)
           \/ ImageCheck(r) \/ ImageReady(r) \/ RedirectInsert(r)
  <2>1. /\ pc[r] \in {"check", "ask", "wipe", "render", "insert", "stage"}
        /\ UNCHANGED <<reg, cancelling>>
    BY <1>9 DEF CheckTurn, AskGraph, Wipe, StopAsk, EditCheck, EditInsert,
       ImageCheck, ImageReady, RedirectInsert, entry
  <2>2. r \notin cancelling
    BY <1>2, <2>1 DEF Cancelable, InFlight
  <2>3. \/ \E how \in Final : End(r, how)
        \/ \E w : Goto(r, w) /\ UNCHANGED tgt
    BY <1>9 DEF CheckTurn, AskGraph, Admit, Wipe, StopAsk, EditCheck, EditInsert,
       ImageCheck, ImageReady, RedirectInsert, Final
  <2>4. QED
    BY <1>5, <1>6, <2>1, <2>2, <2>3 DEF InFlight
<1>10. CASE CommitTurn(r) \/ CommitCancelled(r) \/ FollowDone(r) \/ EditCommit(r)
  <2>1. UNCHANGED <<reg, cancelling>>
    BY <1>10 DEF CommitTurn, CommitCancelled, FollowDone, EditCommit, entry
  <2>2. CASE CommitCancelled(r)
    BY <1>5, <2>1, <2>2 DEF CommitCancelled, Final, Cancelable, InFlight
  <2>3. CASE CommitTurn(r) \/ FollowDone(r) \/ EditCommit(r)
    BY <1>2, <1>5, <2>1, <2>3 DEF CommitTurn, FollowDone, EditCommit, Final, Cancelable, InFlight
  <2>4. QED
    BY <1>10, <2>2, <2>3
<1>11. CASE Begin(r)
  <2>1. pc[r] = "begin" /\ UNCHANGED cancelling
    BY <1>11 DEF Begin, End, entry
  <2>2. r \notin cancelling
    BY <1>2, <2>1 DEF Cancelable, InFlight
  <2>3. CASE IsBusy
    BY <1>5, <1>11, <2>1, <2>2, <2>3 DEF Begin, Final, InFlight, entry
  <2>4. CASE End(r, "failed") /\ reg' = NoReq
    <3>1. Goto(r, "failed") /\ \A s \in Req \ {r} : tgt'[s] = tgt[s]
      BY <1>1, <2>4 DEF End
    <3>2. QED
      BY <1>1, <2>1, <2>2, <2>4, <3>1, KeepsOwner
  <2>5. CASE Goto(r, "running") /\ reg' = r /\ UNCHANGED tgt
    <3>1. "running" \in InFlight
      BY DEF InFlight
    <3>2. QED
      BY <2>1, <2>2, <2>5, <3>1, KeepsOwner
  <2>6. QED
    BY <1>11, <2>3, <2>4, <2>5 DEF Begin
<1>12. CASE Persist(r)
  <2>1. /\ pc[r] \in InFlight /\ r \notin cancelling /\ reg' = NoReq
        /\ Goto(r, "committing") /\ UNCHANGED <<cancelling, tgt>>
    BY <1>4, <1>12 DEF Persist, Uncancelled, Clear, InFlight
  <2>2. QED
    BY <1>1, <2>1, KeepsOwner
<1>13. CASE StopDone(r) \/ StopCommit(r)
  <2>1. /\ pc[r] \in {"waiting", "dropping"} /\ UNCHANGED cancelling
        /\ reg' = IF reg = tgt[r] THEN NoReq ELSE reg
        /\ End(r, "ok")
    BY <1>13 DEF StopDone, StopCommit, Clear
  <2>2. r \notin cancelling /\ pc[r] \notin InFlight
    BY <1>2, <2>1 DEF Cancelable, InFlight
  <2>3. Goto(r, "ok") /\ \A s \in Req \ {r} : tgt'[s] = tgt[s]
    BY <1>1, <2>1 DEF End
  <2>4. reg' = reg /\ reg # NoReq => tgt[r] # reg
    BY <2>1
  <2>5. reg # r
    BY <1>1, <1>3, <2>2
  <2>6. QED
    BY <2>1, <2>2, <2>3, <2>4, <2>5, KeepsOwner
<1>14. CASE Fail(r) \/ DeadlockVictim(r)
  <2>1. /\ Abort(r) /\ UNCHANGED cancelling
        /\ Goto(r, "failed") /\ \A s \in Req \ {r} : tgt'[s] = tgt[s]
    BY <1>1, <1>14 DEF Fail, DeadlockVictim, Abort, End
  <2>2. reg' \in {reg, NoReq} /\ (r \notin cancelling /\ reg = r => reg' = NoReq)
    BY <1>1, <2>1 DEF Abort, Uncancelled, Clear
  <2>3. reg # NoReq /\ reg \in cancelling => pc[r] \notin {"waiting", "dropping"}
    <3>1. CASE Fail(r)
      BY <3>1 DEF Fail, InFlight
    <3>2. CASE DeadlockVictim(r)
      <4>1. PICK h \in Req, o \in Req : Deadlocked(h, o) /\ r \in {h, o}
        BY <3>2 DEF DeadlockVictim
      <4>2. reg = h /\ h \notin cancelling
        BY <4>1 DEF Deadlocked, Uncancelled, InFlight, SessionInv, LiveTurnIsRegistered
      <4>3. QED
        BY <4>2
    <3>3. QED
      BY <1>14, <3>1, <3>2
  <2>4. QED
    BY <1>1, <2>1, <2>2, <2>3, KeepsOwner DEF Cancelable
<1>15. CASE StopCheck(r)
  <2>1. /\ pc[r] = "check" /\ r \notin cancelling /\ UNCHANGED reg
        /\ reg # r
    BY <1>1, <1>2, <1>3, <1>15 DEF StopCheck, Cancelable, InFlight
  <2>2. CASE UNCHANGED <<cancelling, tgt>>
    BY <1>6, <1>15, <2>1, <2>2 DEF StopCheck, InFlight
  <2>3. CASE /\ IsBusy /\ reg \in cancelling
             /\ Goto(r, "following")
             /\ tgt' = [tgt EXCEPT ![r] = reg]
             /\ UNCHANGED cancelling
    BY <1>1, <2>1, <2>3, KeepsOwner
  <2>4. CASE /\ IsBusy /\ reg \notin cancelling
             /\ cancelling' = cancelling \cup {reg}
             /\ Goto(r, "waiting")
             /\ tgt' = [tgt EXCEPT ![r] = reg]
    <3>1. pc[reg] \in InFlight /\ reg \in Req
      BY <1>1, <1>3, <2>4 DEF IsBusy
    <3>2. \A q \in cancelling' : pc[q] \in Cancelable /\ q # r
      BY <2>1, <2>4, <3>1 DEF EntryHasOwner, Cancelable
    <3>3. cancelling' \subseteq Req
      BY <2>4, <3>1 DEF SessionInv, TypeOK
    <3>4. \A q \in cancelling' : pc'[q] \in Cancelable
      BY <1>1, <2>4, <3>2, <3>3 DEF Goto
    <3>5. pc'[r] = "waiting" /\ tgt'[r] = reg' /\ reg' \in cancelling'
      BY <1>1, <2>1, <2>4 DEF Goto
    <3>6. QED
      BY <3>4, <3>5 DEF EntryHasOwner, Cancelable
  <2>5. QED
    BY <1>15, <2>2, <2>3, <2>4 DEF StopCheck
<1>16. QED
  BY <1>7, <1>8, <1>9, <1>10, <1>11, <1>12, <1>13, <1>14, <1>15, Zenon DEF Progress

----------------------------------------------------------------------------
(* What a discarded turn leaves: nothing but drafts below the threshold.   *)

(* What has been marked stays marked, and a turn that is being cancelled   *)
(* keeps its kind, its mode and the state it goes back to.                 *)
LEMMA MarksFrame ==
    ASSUME SessionInv, EntryHasOwner, NEW r \in Req, Load(r) \/ Fail(r) \/ Progress(r)
    PROVE  /\ cancelling \subseteq cancelling' /\ keep \subseteq keep'
           /\ \A q \in cancelling : /\ q \in keep' => q \in keep
                                    /\ turn'[q] = turn[q]
           /\ \A q \in Req \ {r} : turn'[q] = turn[q] /\ pre'[q] = pre[q]
<1>1. /\ turn \in [Req -> {"message", "revise", "image", "angle", "none"}]
      /\ pre \in [Req -> Row] /\ cancelling \subseteq Req
  BY DEF SessionInv, TypeOK
<1>2. r \in cancelling => pc[r] \in Cancelable
  BY DEF EntryHasOwner, Cancelable
<1>3. CASE CheckTurn(r) \/ AskGraph(r)
  <2>1. /\ UNCHANGED <<cancelling, keep, pre>> /\ pc[r] \in {"check", "ask"}
        /\ turn' = turn \/ \E k : turn' = [turn EXCEPT ![r] = k]
    BY <1>3 DEF CheckTurn, AskGraph, Admit, entry
  <2>2. QED
    BY <1>1, <1>2, <2>1 DEF Cancelable, InFlight
<1>4. CASE Wipe(r) \/ AddMsg(r)
  <2>1. /\ UNCHANGED <<cancelling, keep, turn>>
        /\ pre' = pre \/ \E k : pre' = [pre EXCEPT ![r] = k]
    BY <1>4 DEF Wipe, AddMsg, entry
  <2>2. QED
    BY <1>1, <2>1
<1>5. CASE StopCheck(r)
  BY <1>5 DEF StopCheck
<1>6. CASE \/ Load(r) \/ Fail(r) \/ Begin(r) \/ GraphEnd(r) \/ Stage(r) \/ Persist(r)
           \/ CommitTurn(r) \/ Cancelled(r) \/ CommitCancelled(r) \/ StopAsk(r) \/ Drop(r)
           \/ StopDone(r) \/ FollowDone(r) \/ StopTimeout(r) \/ StopCommit(r)
           \/ EditCheck(r) \/ EditInsert(r)
           \/ ImageCheck(r) \/ ImageReady(r) \/ RedirectInsert(r)
           \/ EditCommit(r) \/ DeadlockVictim(r)
  <2>1. UNCHANGED <<cancelling, keep, turn, pre>>
    BY <1>6 DEF Load, Fail, Abort, Begin, End, GraphEnd, Stage, Persist, CommitTurn, Cancelled,
       CommitCancelled, StopAsk, Drop, StopDone, FollowDone, StopTimeout, StopCommit,
       EditCheck, EditInsert,
       ImageCheck, ImageReady, RedirectInsert, EditCommit, DeadlockVictim, entry
  <2>2. QED
    BY <2>1
<1>7. QED
  BY <1>3, <1>4, <1>5, <1>6, Zenon DEF Progress

(* OwnWrites of one request r at w, with transaction t and run u.          *)
Writes(r, w, t, u) ==
    /\ \A m \in t.addm : m[1] = r \/ Kept(m[1])
    /\ \A d \in t.add : d.by = r
    /\ u.out = "accept" => w \in {"ended", "committing", "handled"}
    /\ u.out = "accept" \/ w \in {"insert", "stage"} => u.ver.by = r
    /\ w \in {"handled", "discarded"} => r \in cancelling
    /\ w = "discarded" => r \notin keep
    /\ w = "handled" /\ ~IsResume(r) /\ r \notin keep =>
          /\ \A m \in t.addm : m[1] # r
          /\ \A d \in t.add : d.rev <= pre[r].ver.rev

WritesOf(r) == Writes(r, pc[r], tx[r], run[r])

(* A step of r keeps it if it does of r.                                   *)
LEMMA KeepsWrites ==
    ASSUME SessionInv, EntryHasOwner, OwnWrites,
           NEW r \in Req, Load(r) \/ Fail(r) \/ Progress(r),
           NEW w, NEW t, NEW u, Goto(r, w),
           tx' = [tx EXCEPT ![r] = t], run' = [run EXCEPT ![r] = u],
           Writes(r, w, t, u), w = "handled" => UNCHANGED <<turn, pre, keep>>,
           w = "discarded" => UNCHANGED keep
    PROVE  OwnWrites'
<1>1. /\ pc \in [Req -> Steps] /\ tx \in [Req -> Tx] /\ run \in [Req -> RunRecord]
      /\ pc' = [pc EXCEPT ![r] = w]
  BY DEF SessionInv, TypeOK, Goto, RunRecord
<1>2. \A q : Kept(q) => Kept(q)'
  BY MarksFrame DEF Kept, IsResume
<1>3. WritesOf(r)'
  <2>1. pc'[r] = w /\ tx'[r] = t /\ run'[r] = u
    BY <1>1
  <2>2. cancelling \subseteq cancelling'
    BY MarksFrame
  <2>3. w = "handled" => turn'[r] = turn[r] /\ pre'[r] = pre[r] /\ keep' = keep
    OBVIOUS
  <2>4. w = "discarded" => keep' = keep
    OBVIOUS
  <2>5. QED
    BY <1>2, <2>1, <2>2, <2>3, <2>4 DEF WritesOf, Writes, IsResume
<1>4. ASSUME NEW o \in Req, o # r PROVE WritesOf(o)'
  <2>1. pc'[o] = pc[o] /\ tx'[o] = tx[o] /\ run'[o] = run[o]
    BY <1>1, <1>4
  <2>2. WritesOf(o)
    BY DEF OwnWrites, Writes, WritesOf
  <2>3. turn'[o] = turn[o] /\ pre'[o] = pre[o]
    BY <1>4, MarksFrame
  <2>4. /\ cancelling \subseteq cancelling' /\ keep \subseteq keep'
        /\ o \in cancelling /\ o \in keep' => o \in keep
    BY MarksFrame
  <2>5. QED
    BY <1>2, <2>1, <2>2, <2>3, <2>4 DEF WritesOf, Writes, IsResume
<1>5. QED
  BY <1>3, <1>4 DEF OwnWrites, Writes, WritesOf

(* Undoing turn e in r's transaction adds no message but those of a kept e, *)
(* and no draft; of a discarded turn nothing above the threshold stays.     *)
LEMMA UndoWrites ==
    ASSUME SessionInv, OwnWrites, NEW r \in Req, NEW e \in cancelling, Undo(r, e)
    PROVE  \E t : /\ tx' = [tx EXCEPT ![r] = t]
                  /\ t.add \subseteq tx[r].add
                  /\ \A m \in t.addm : m \in tx[r].addm \/ (m[1] = e /\ Kept(e))
                  /\ ~IsResume(e) /\ e \notin keep =>
                        /\ \A m \in t.addm : m[1] # e
                        /\ \A d \in t.add : d.rev <= pre[e].ver.rev
<1>1. /\ tx \in [Req -> Tx] /\ tx[r] \in Tx /\ tx[r].addm \subseteq Messages
      /\ e \in Req /\ pre[e] \in Row /\ Visible(r) \subseteq Version
  BY VisibleTypes DEF SessionInv, TypeOK, Tx
<1>2. CASE IsResume(e) /\ \E ms : Repark(r, e, ms)
  <2>1. PICK c, ms : tx' = [tx EXCEPT ![r] =
                [tx[r] EXCEPT !.row = TRUE, !.cols = c, !.addm = @ \ ms, !.delm = @ \cup ms]]
    BY <1>2 DEF Repark
  <2> DEFINE t == [tx[r] EXCEPT !.row = TRUE, !.cols = c, !.addm = @ \ ms, !.delm = @ \cup ms]
  <2>2. t.add = tx[r].add /\ t.addm \subseteq tx[r].addm
    BY <1>1 DEF Tx
  <2>3. QED
    BY <1>2, <2>1, <2>2
<1>3. CASE Interrupt(r, e) /\ ~IsResume(e) /\ e \in keep
  <2>1. PICK k \in SUBSET {<<e, "assistant">>} : tx' = [tx EXCEPT ![r].addm = @ \cup k]
    BY <1>3 DEF Interrupt
  <2> DEFINE t == [tx[r] EXCEPT !.addm = @ \cup k]
  <2>2. t.add = tx[r].add /\ t.addm = tx[r].addm \cup k /\ tx' = [tx EXCEPT ![r] = t]
    BY <1>1, <2>1 DEF Tx
  <2>3. Kept(e) /\ \A m \in k : m[1] = e
    BY <1>3 DEF Kept
  <2> HIDE DEF t
  <2>4. QED
    BY <1>3, <2>2, <2>3
<1>4. CASE Discard(r, pre[e].ver, sess[r].preview, TurnMessages(e))
  <2> DEFINE left == Visible(r) \ Above(Visible(r), pre[e].ver)
             t(c) == [row |-> TRUE, cols |-> c, add |-> tx[r].add \cap left,
                      del |-> drafts \ left,
                      addm |-> tx[r].addm \ TurnMessages(e),
                      delm |-> tx[r].delm \cup TurnMessages(e)]
  <2>1. PICK c : tx' = [tx EXCEPT ![r] = t(c)]
    BY <1>1, <1>4 DEF Discard
  <2>2. \A d \in left : d.rev <= pre[e].ver.rev
    BY <1>1, SessionAssumption DEF Above, Version, Row
  <2>3. \A m \in tx[r].addm \ TurnMessages(e) : m[1] # e
    BY <1>1 DEF Messages, TurnMessages
  <2>4. t(c).add \subseteq left /\ t(c).add \subseteq tx[r].add
        /\ t(c).addm = tx[r].addm \ TurnMessages(e)
    OBVIOUS
  <2> HIDE DEF t, left
  <2>5. QED
    BY <2>1, <2>2, <2>3, <2>4
<1>5. QED
  BY <1>2, <1>3, <1>4 DEF Undo

(* Whatever request moves, transactions hold their own requests' rows.     *)
LEMMA WritesStep ==
    ASSUME SessionInv, EntryHasOwner, OwnWrites, NEW r \in Req,
           Load(r) \/ Fail(r) \/ Progress(r)
    PROVE  OwnWrites'
<1>1. /\ tx \in [Req -> Tx] /\ run \in [Req -> RunRecord]
      /\ tx[r] \in Tx /\ run[r] \in RunRecord
      /\ Writes(r, pc[r], tx[r], run[r])
  BY DEF SessionInv, TypeOK, RunRecord, OwnWrites, Writes
<1>2. tx = [tx EXCEPT ![r] = tx[r]] /\ run = [run EXCEPT ![r] = run[r]]
  BY <1>1
<1>3. ASSUME NEW how \in Final, End(r, how),
             how = "discarded" => r \in cancelling /\ r \notin keep /\ UNCHANGED keep
      PROVE  OwnWrites'
  <2>1. Writes(r, how, NoTx, NoRun)
    BY <1>3 DEF Writes, NoTx, NoRun, Final
  <2>2. QED
    BY <1>3, <2>1, KeepsWrites DEF End, Final
<1>4. ASSUME NEW w, w \notin {"handled", "discarded", "insert", "stage"}, Goto(r, w),
             run[r].out # "accept", UNCHANGED <<tx, run>>
      PROVE OwnWrites'
  <2>1. Writes(r, w, tx[r], run[r])
    BY <1>1, <1>4 DEF Writes
  <2>2. QED
    BY <1>2, <1>4, <2>1, KeepsWrites
<1>5. pc[r] \notin {"ended", "committing", "handled"} => run[r].out # "accept"
  BY <1>1 DEF Writes
<1>6. CASE CommitTurn(r) \/ StopDone(r) \/ FollowDone(r)
           \/ StopCommit(r) \/ EditCommit(r) \/ Fail(r) \/ DeadlockVictim(r)
  BY <1>3, <1>6 DEF CommitTurn, StopDone, FollowDone, StopCommit,
     EditCommit, Fail, DeadlockVictim, Abort, Final
<1>7. CASE CommitCancelled(r)
  <2>1. r \in cancelling /\ UNCHANGED keep
    BY <1>1, <1>7 DEF CommitCancelled, Writes
  <2>2. PICK how \in Final : End(r, how) /\ (how = "discarded" => r \notin keep)
    BY <1>7 DEF CommitCancelled, Final
  <2>3. QED
    BY <1>3, <2>1, <2>2
<1>8. CASE Load(r) \/ StopCheck(r)
  BY <1>4, <1>5, <1>8 DEF Load, StopCheck
<1>9. CASE CheckTurn(r) \/ AskGraph(r) \/ StopAsk(r)
  BY <1>3, <1>4, <1>5, <1>9 DEF CheckTurn, AskGraph, Admit, StopAsk, Final
<1>10. CASE Drop(r)
  <2> DEFINE a == sess[r].anchor
             left == Visible(r) \ Above(Visible(r), a.ver)
             t(c) == [row |-> TRUE, cols |-> c, add |-> tx[r].add \cap left,
                      del |-> drafts \ left,
                      addm |-> tx[r].addm \ a.msgs, delm |-> tx[r].delm \cup a.msgs]
  <2>0. Discard(r, a.ver, IF a.on THEN a.preview ELSE sess[r].preview, a.msgs)
    BY <1>10 DEF Drop
  <2>1. PICK c : tx' = [tx EXCEPT ![r] = t(c)]
    BY <1>1, <2>0 DEF Discard
  <2>2. t(c).add \subseteq tx[r].add /\ t(c).addm \subseteq tx[r].addm
    OBVIOUS
  <2> HIDE DEF t
  <2>3. pc[r] = "drop" /\ Goto(r, "dropping") /\ UNCHANGED run
    BY <1>10 DEF Drop
  <2>4. Writes(r, "dropping", t(c), run[r])
    BY <1>1, <1>5, <2>2, <2>3 DEF Writes
  <2>5. QED
    BY <1>2, <2>1, <2>3, <2>4, KeepsWrites
<1>11. CASE StopTimeout(r)
  <2>1. /\ pc[r] = "waiting" /\ Goto(r, "dropping") /\ UNCHANGED run
        /\ Undo(r, tgt[r]) /\ tgt[r] \in cancelling
    BY <1>11 DEF StopTimeout, SessionInv, StopsTargetCancelled
  <2>2. PICK t : /\ tx' = [tx EXCEPT ![r] = t]
                 /\ t.add \subseteq tx[r].add
                 /\ \A m \in t.addm : m \in tx[r].addm \/ (m[1] = tgt[r] /\ Kept(tgt[r]))
    BY <2>1, UndoWrites
  <2>3. Writes(r, "dropping", t, run[r])
    BY <1>1, <1>5, <2>1, <2>2 DEF Writes
  <2>4. QED
    BY <1>2, <2>1, <2>2, <2>3, KeepsWrites
<1>12. CASE Cancelled(r)
  <2>1. /\ pc[r] \in InFlight /\ Goto(r, "handled") /\ UNCHANGED <<run, turn, pre, keep>>
        /\ Undo(r, r) /\ r \in cancelling
    BY <1>12 DEF Cancelled, Uncancelled, entry
  <2>2. PICK t : /\ tx' = [tx EXCEPT ![r] = t]
                 /\ t.add \subseteq tx[r].add
                 /\ \A m \in t.addm : m \in tx[r].addm \/ (m[1] = r /\ Kept(r))
                 /\ ~IsResume(r) /\ r \notin keep =>
                        /\ \A m \in t.addm : m[1] # r
                        /\ \A d \in t.add : d.rev <= pre[r].ver.rev
    BY <2>1, UndoWrites
  <2>3. Writes(r, "handled", t, run[r])
    BY <1>1, <2>1, <2>2 DEF Writes, InFlight
  <2>4. QED
    BY <1>2, <2>1, <2>2, <2>3, KeepsWrites
<1>13. CASE AddMsg(r)
  <2>1. PICK m \in UserRows(r) : tx' = [tx EXCEPT ![r] = [tx[r] EXCEPT !.row = TRUE, !.addm = m]]
    BY <1>13 DEF AddMsg
  <2> DEFINE t == [tx[r] EXCEPT !.row = TRUE, !.addm = m]
  <2>2. t.add = tx[r].add /\ t.addm = m /\ \A x \in m : x[1] = r
    BY <1>1, <2>1 DEF Tx, UserRows
  <2>3. pc[r] = "add" /\ Goto(r, "begin") /\ UNCHANGED run
    BY <1>13 DEF AddMsg
  <2>4. Writes(r, "begin", t, run[r])
    BY <1>1, <1>5, <2>2, <2>3 DEF Writes
  <2>5. QED
    BY <1>2, <2>1, <2>3, <2>4, KeepsWrites
<1>14. CASE Begin(r)
  <2>1. CASE \E how \in Final \ {"discarded"} : End(r, how)
    BY <1>3, <2>1
  <2>2. CASE /\ run' = [run EXCEPT ![r].ver = graph'.ver]
             /\ Goto(r, "running")
             /\ UNCHANGED tx
    <3> DEFINE u == [run[r] EXCEPT !.ver = graph'.ver]
    <3>1. run' = [run EXCEPT ![r] = u] /\ u.out = run[r].out
      BY <1>1, <2>2 DEF RunRecord
    <3>2. pc[r] = "begin"
      BY <1>14 DEF Begin
    <3>3. Writes(r, "running", tx[r], u)
      BY <1>1, <1>5, <3>1, <3>2 DEF Writes
    <3>4. QED
      BY <1>2, <2>2, <3>1, <3>3, KeepsWrites
  <2>3. QED
    BY <1>14, <2>1, <2>2 DEF Begin, Final
<1>15. CASE GraphEnd(r)
  <2> DEFINE version(o) == CASE o = "accept" -> [rev |-> run[r].ver.rev + 1, by |-> r]
                             [] o = "blank" -> NoVersion
                             [] OTHER -> run[r].ver
  <2>0. PICK o, p :
          /\ run' = [run EXCEPT ![r] = [out |-> o, preview |-> p, ver |-> version(o)]]
          /\ tx' = [tx EXCEPT ![r] = NoTx] \/ UNCHANGED tx
    BY <1>1, <1>15 DEF GraphEnd
  <2> DEFINE u == [out |-> o, preview |-> p, ver |-> version(o)]
  <2>1. Goto(r, "ended")
    BY <1>15 DEF GraphEnd
  <2>2. u.out = "accept" => u.ver.by = r
    OBVIOUS
  <2>3. PICK t \in {NoTx, tx[r]} : tx' = [tx EXCEPT ![r] = t]
    BY <1>2, <2>0
  <2>4. Writes(r, "ended", t, u)
    BY <1>1, <2>2, <2>3 DEF Writes, NoTx
  <2>5. QED
    BY <2>0, <2>1, <2>3, <2>4, KeepsWrites
<1>16. CASE Stage(r)
  <2>1. Goto(r, "staged") /\ run[r].out = "image"
    BY <1>16 DEF Stage
  <2>2. CASE UNCHANGED <<tx, run>>
    BY <1>4, <2>1, <2>2
  <2>3. CASE \E d \in Wanted(r) :
          /\ tx' = [tx EXCEPT ![r].add = @ \cup {d}]
          /\ run' = [run EXCEPT ![r] = [run[r] EXCEPT !.ver = d, !.preview = TRUE]]
    <3>1. PICK d \in Wanted(r) :
          /\ tx' = [tx EXCEPT ![r].add = @ \cup {d}]
          /\ run' = [run EXCEPT ![r] = [run[r] EXCEPT !.ver = d, !.preview = TRUE]]
      BY <2>3
    <3> DEFINE t == [tx[r] EXCEPT !.add = @ \cup {d}]
               u == [run[r] EXCEPT !.ver = d, !.preview = TRUE]
    <3>2. tx' = [tx EXCEPT ![r] = t] /\ t.add = tx[r].add \cup {d} /\ t.addm = tx[r].addm
      BY <1>1, <3>1 DEF Tx
    <3>3. u.out = "image" /\ run' = [run EXCEPT ![r] = u]
      BY <1>1, <2>1, <3>1 DEF RunRecord
    <3>4. d.by = r
      BY <2>1, <3>1 DEF Wanted
    <3> HIDE DEF t, u
    <3>5. Writes(r, "staged", t, u)
      BY <1>1, <3>2, <3>3, <3>4 DEF Writes
    <3>6. QED
      BY <2>1, <3>2, <3>3, <3>5, KeepsWrites
  <2>4. QED
    BY <1>16, <2>2, <2>3 DEF Stage
<1>17. CASE Persist(r)
  <2>1. PICK c :
         tx' = [tx EXCEPT ![r] =
          [tx[r] EXCEPT !.row = TRUE, !.cols = c,
                        !.add = @ \cup (IF run[r].out = "accept" THEN Wanted(r) ELSE {}),
                        !.addm = @ \cup {<<r, "assistant">>}]]
    BY <1>17 DEF Persist
  <2> DEFINE new == IF run[r].out = "accept" THEN Wanted(r) ELSE {}
             t == [tx[r] EXCEPT !.row = TRUE, !.cols = c, !.add = @ \cup new,
                                !.addm = @ \cup {<<r, "assistant">>}]
  <2>2. t.add = tx[r].add \cup new /\ t.addm = tx[r].addm \cup {<<r, "assistant">>}
    BY <1>1 DEF Tx
  <2>3. \A d \in new : d.by = r
    BY <1>1 DEF Wanted, Writes
  <2>4. Goto(r, "committing") /\ UNCHANGED run
    BY <1>17 DEF Persist
  <2>5. tx' = [tx EXCEPT ![r] = t]
    BY <2>1
  <2> HIDE DEF t, new
  <2>6. Writes(r, "committing", t, run[r])
    BY <1>1, <2>2, <2>3 DEF Writes
  <2>7. QED
    BY <1>2, <2>4, <2>5, <2>6, KeepsWrites
<1>18. CASE EditCheck(r)
  <2>1. CASE End(r, "refused")
    BY <1>3, <2>1 DEF Final
  <2>2. CASE /\ Goto(r, "insert") /\ UNCHANGED tx
             /\ \E n : run' = [run EXCEPT ![r].ver = [rev |-> n, by |-> r]]
    <3>1. PICK n : run' = [run EXCEPT ![r] = [run[r] EXCEPT !.ver = [rev |-> n, by |-> r]]]
      BY <1>1, <2>2
    <3> DEFINE u == [run[r] EXCEPT !.ver = [rev |-> n, by |-> r]]
    <3>2. u.out = run[r].out /\ u.ver.by = r
      BY <1>1 DEF RunRecord
    <3>3. pc[r] = "check"
      BY <1>18 DEF EditCheck
    <3>4. run' = [run EXCEPT ![r] = u]
      BY <3>1
    <3> HIDE DEF u
    <3>5. Writes(r, "insert", tx[r], u)
      BY <1>1, <1>5, <3>2, <3>3 DEF Writes
    <3>6. QED
      BY <1>2, <2>2, <3>4, <3>5, KeepsWrites
  <2>3. QED
    BY <1>18, <2>1, <2>2 DEF EditCheck
<1>19. CASE EditInsert(r)
  <2>0. pc[r] = "insert"
    BY <1>19 DEF EditInsert
  <2>1. CASE End(r, "failed")
    BY <1>3, <2>1 DEF Final
  <2>2. CASE /\ Goto(r, "inserted") /\ UNCHANGED run
             /\ \E c : tx' = [tx EXCEPT ![r] =
                                [tx[r] EXCEPT !.row = TRUE, !.cols = c, !.add = {run[r].ver}]]
    <3>1. PICK c : tx' = [tx EXCEPT ![r] =
                            [tx[r] EXCEPT !.row = TRUE, !.cols = c, !.add = {run[r].ver}]]
      BY <2>2
    <3> DEFINE t == [tx[r] EXCEPT !.row = TRUE, !.cols = c, !.add = {run[r].ver}]
    <3>2. t.add = {run[r].ver} /\ t.addm = tx[r].addm
      BY <1>1 DEF Tx
    <3>3. tx' = [tx EXCEPT ![r] = t]
      BY <3>1
    <3> HIDE DEF t
    <3>4. Writes(r, "inserted", t, run[r])
      BY <1>1, <1>5, <2>0, <3>2 DEF Writes
    <3>5. QED
      BY <1>2, <2>2, <3>3, <3>4, KeepsWrites
  <2>3. QED
    BY <1>19, <2>1, <2>2 DEF EditInsert
<1>20. CASE Wipe(r)
  <2>0. pc[r] = "wipe"
    BY <1>20 DEF Wipe
  <2>1. CASE End(r, "refused")
    BY <1>3, <2>1 DEF Final
  <2>2. CASE /\ Goto(r, "add") /\ UNCHANGED run
             /\ \E c : tx' = [tx EXCEPT ![r] = [tx[r] EXCEPT !.cols = c]]
    <3>1. PICK c : tx' = [tx EXCEPT ![r] = [tx[r] EXCEPT !.cols = c]]
      BY <2>2
    <3> DEFINE t == [tx[r] EXCEPT !.cols = c]
    <3>2. t.add = tx[r].add /\ t.addm = tx[r].addm
      BY <1>1 DEF Tx
    <3>3. Writes(r, "add", t, run[r])
      BY <1>1, <1>5, <2>0, <3>2 DEF Writes
    <3>4. QED
      BY <1>2, <2>2, <3>1, <3>3, KeepsWrites
  <2>3. QED
    BY <1>20, <2>1, <2>2 DEF Wipe
<1>21. CASE ImageCheck(r)
  BY <1>3, <1>4, <1>5, <1>21 DEF ImageCheck, Final
<1>22. CASE ImageReady(r)
  <2>1. CASE End(r, "refused")
    BY <1>3, <2>1 DEF Final
  <2>2. CASE /\ \E w \in {"insert", "stage"} : Goto(r, w)
             /\ UNCHANGED tx
             /\ \E n : run' = [run EXCEPT ![r].ver = [rev |-> n, by |-> r]]
    <3>0. PICK w \in {"insert", "stage"} : Goto(r, w)
      BY <2>2
    <3>1. PICK n : run' = [run EXCEPT ![r] = [run[r] EXCEPT !.ver = [rev |-> n, by |-> r]]]
      BY <1>1, <2>2
    <3> DEFINE u == [run[r] EXCEPT !.ver = [rev |-> n, by |-> r]]
    <3>2. u.out = run[r].out /\ u.ver.by = r
      BY <1>1 DEF RunRecord
    <3>3. pc[r] = "render"
      BY <1>22 DEF ImageReady
    <3>4. run' = [run EXCEPT ![r] = u]
      BY <3>1
    <3> HIDE DEF u
    <3>5. Writes(r, w, tx[r], u)
      BY <1>1, <1>5, <3>2, <3>3 DEF Writes
    <3>6. QED
      BY <1>2, <2>2, <3>0, <3>4, <3>5, KeepsWrites
  <2>3. QED
    BY <1>22, <2>1, <2>2 DEF ImageReady
<1>23. CASE RedirectInsert(r)
  <2>0. pc[r] = "stage"
    BY <1>23 DEF RedirectInsert
  <2>1. CASE End(r, "failed")
    BY <1>3, <2>1 DEF Final
  <2>2. CASE /\ Goto(r, "inserted") /\ UNCHANGED run
             /\ \E c : tx' = [tx EXCEPT ![r] =
                                [tx[r] EXCEPT !.row = TRUE, !.cols = c, !.add = {run[r].ver}]]
    <3>1. PICK c : tx' = [tx EXCEPT ![r] =
                            [tx[r] EXCEPT !.row = TRUE, !.cols = c, !.add = {run[r].ver}]]
      BY <2>2
    <3> DEFINE t == [tx[r] EXCEPT !.row = TRUE, !.cols = c, !.add = {run[r].ver}]
    <3>2. t.add = {run[r].ver} /\ t.addm = tx[r].addm
      BY <1>1 DEF Tx
    <3>3. tx' = [tx EXCEPT ![r] = t]
      BY <3>1
    <3> HIDE DEF t
    <3>4. Writes(r, "inserted", t, run[r])
      BY <1>1, <1>5, <2>0, <3>2 DEF Writes
    <3>5. QED
      BY <1>2, <2>2, <3>3, <3>4, KeepsWrites
  <2>3. QED
    BY <1>23, <2>1, <2>2 DEF RedirectInsert
<1>24. QED
  BY <1>6, <1>7, <1>8, <1>9, <1>10, <1>11, <1>12, <1>13, <1>14, <1>15, <1>16, <1>17, <1>18,
     <1>19, <1>20, <1>21, <1>22, <1>23, Zenon DEF Progress

(* A step that commits nothing leaves what is committed accounted for.     *)
LEMMA KeepsRows ==
    ASSUME SessionInv, EntryHasOwner, OwnRows, NEW r \in Req,
           Load(r) \/ Fail(r) \/ Progress(r), UNCHANGED tables
    PROVE  OwnRows'
<1>1. PICK w : pc' = [pc EXCEPT ![r] = w]
  BY StepFrame DEF Goto
<1>2. pc[r] \notin Final /\ pc \in [Req -> Steps]
  BY StepFrame DEF SessionInv, TypeOK
<1>3. \A q \in Req : pc[q] \in Final => pc'[q] = pc[q] /\ pre'[q] = pre[q]
  BY <1>1, <1>2, MarksFrame
<1>4. \A q : Kept(q) => Kept(q)'
  BY MarksFrame DEF Kept, IsResume
<1>5. \A m \in msgs : m[1] \in Req
  BY DEF SessionInv, TypeOK, Messages
<1>6. \A m \in msgs' : pc'[m[1]] \in {"ok", "reparked", "kept"} \/ Kept(m[1])'
  BY <1>3, <1>4, <1>5 DEF OwnRows, Final, tables
<1>7. \A d \in drafts' : d.by \in Req =>
          \/ pc'[d.by] \in {"ok", "reparked", "kept"}
          \/ pc'[d.by] = "discarded" /\ d.rev <= pre'[d.by].ver.rev
  BY <1>3 DEF OwnRows, Final, tables
<1>8. QED
  BY <1>6, <1>7 DEF OwnRows

(* A commit that ends r well, or as the Stop wanted it, does too.          *)
LEMMA CommitRows ==
    ASSUME SessionInv, EntryHasOwner, OwnWrites, OwnRows, NEW r \in Req,
           Load(r) \/ Fail(r) \/ Progress(r), Commit(r),
           NEW how \in {"ok", "reparked", "kept", "discarded"}, Goto(r, how),
           how = "discarded" => pc[r] = "handled" /\ ~IsResume(r) /\ r \notin keep
    PROVE  OwnRows'
<1>1. /\ pc' = [pc EXCEPT ![r] = how] /\ pc \in [Req -> Steps]
      /\ tx[r] \in Tx /\ pc[r] \notin Final
  BY StepFrame DEF SessionInv, TypeOK, Goto
<1>2. Writes(r, pc[r], tx[r], run[r])
  BY DEF OwnWrites, Writes
<1>3. \A q \in Req : pc[q] \in Final => pc'[q] = pc[q] /\ pre'[q] = pre[q]
  BY <1>1, MarksFrame
<1>4. \A q : Kept(q) => Kept(q)'
  BY MarksFrame DEF Kept, IsResume
<1>5. \A m \in msgs : m[1] \in Req
  BY DEF SessionInv, TypeOK, Messages
<1>6. pre'[r] = pre[r] \/ how # "discarded"
  <2>1. CASE CommitCancelled(r)
    BY <2>1 DEF CommitCancelled
  <2>2. CASE Cancelled(r) \/ ~(pc[r] = "handled")
    BY <1>1, <2>2 DEF Cancelled, InFlight
  <2>3. CASE pc[r] = "handled" /\ (Fail(r) \/ DeadlockVictim(r))
    BY <2>3 DEF Fail, DeadlockVictim, Abort
  <2>4. CASE pc[r] = "handled" /\ ~Fail(r) /\ ~DeadlockVictim(r) /\ ~CommitCancelled(r)
    BY <2>4 DEF Load, Progress, CheckTurn, AskGraph, Wipe, AddMsg, Begin, GraphEnd,
       Stage, Persist, CommitTurn, Cancelled, StopCheck, StopAsk, Drop,
       StopDone, FollowDone, StopTimeout, StopCommit, EditCheck, EditInsert,
       ImageCheck, ImageReady, RedirectInsert, EditCommit, InFlight
  <2>5. QED
    BY <2>1, <2>2, <2>3, <2>4
<1>7. ASSUME NEW m \in msgs'
      PROVE  pc'[m[1]] \in {"ok", "reparked", "kept"} \/ Kept(m[1])'
  <2>1. CASE m \in msgs
    BY <1>3, <1>4, <1>5, <2>1 DEF OwnRows, Final
  <2>2. CASE m \in tx[r].addm
    BY <1>1, <1>2, <1>4, <2>2 DEF Writes
  <2>3. QED
    BY <2>1, <2>2 DEF Commit
<1>8. ASSUME NEW d \in drafts', d.by \in Req
      PROVE  \/ pc'[d.by] \in {"ok", "reparked", "kept"}
             \/ pc'[d.by] = "discarded" /\ d.rev <= pre'[d.by].ver.rev
  <2>1. CASE d \in drafts
    BY <1>3, <1>8, <2>1 DEF OwnRows, Final
  <2>2. CASE d \in tx[r].add
    BY <1>1, <1>2, <1>6, <2>2 DEF Writes
  <2>3. QED
    BY <2>1, <2>2 DEF Commit, Visible
<1>9. QED
  BY <1>7, <1>8 DEF OwnRows

(* Whatever request moves, committed rows stay accounted for.              *)
LEMMA RowsStep ==
    ASSUME SessionInv, EntryHasOwner, OwnWrites, OwnRows, NEW r \in Req,
           Load(r) \/ Fail(r) \/ Progress(r)
    PROVE  OwnRows'
<1>1. CASE CommitTurn(r) \/ StopCommit(r) \/ EditCommit(r)
  <2>1. Commit(r) /\ Goto(r, "ok")
    BY <1>1 DEF CommitTurn, StopCommit, EditCommit, End
  <2>2. QED
    BY <2>1, CommitRows
<1>2. CASE CommitCancelled(r)
  <2>1. PICK how \in {"reparked", "kept", "discarded"} :
          Goto(r, how) /\ (how = "discarded" => ~IsResume(r) /\ r \notin keep)
    BY <1>2 DEF CommitCancelled, End
  <2>2. pc[r] = "handled" /\ Commit(r)
    BY <1>2 DEF CommitCancelled
  <2>3. QED
    BY <2>1, <2>2, CommitRows
<1>3. CASE \/ Load(r) \/ Fail(r) \/ CheckTurn(r) \/ AskGraph(r) \/ Wipe(r) \/ AddMsg(r)
           \/ Begin(r) \/ GraphEnd(r) \/ Stage(r) \/ Persist(r) \/ Cancelled(r)
           \/ StopCheck(r) \/ StopAsk(r) \/ Drop(r) \/ StopDone(r) \/ FollowDone(r)
           \/ StopTimeout(r) \/ EditCheck(r) \/ EditInsert(r)
           \/ ImageCheck(r) \/ ImageReady(r) \/ RedirectInsert(r) \/ DeadlockVictim(r)
  <2>1. UNCHANGED tables
    BY <1>3 DEF Load, Fail, Abort, CheckTurn, AskGraph, Wipe, AddMsg, Begin, GraphEnd, Stage,
       Persist, Cancelled, StopCheck, StopAsk, Drop, StopDone, FollowDone, StopTimeout,
       EditCheck, EditInsert,
       ImageCheck, ImageReady, RedirectInsert, DeadlockVictim, tables
  <2>2. QED
    BY <2>1, KeepsRows
<1>4. QED
  BY <1>1, <1>2, <1>3, Zenon DEF Progress

(* A restart ends what runs and keeps what is committed.                   *)
LEMMA RestartDiscards ==
    ASSUME SessionInv, EntryHasOwner, OwnWrites, OwnRows, Restart
    PROVE  EntryHasOwner' /\ OwnWrites' /\ OwnRows'
<1>1. /\ UNCHANGED <<drafts, msgs, cancelling, keep, turn, pre>> /\ reg' = NoReq
      /\ tx' = [r \in Req |-> NoTx] /\ run' = [r \in Req |-> NoRun]
      /\ pc' = [r \in Req |-> IF pc[r] = "idle" \/ Done(r) THEN pc[r] ELSE "failed"]
  BY DEF Restart, tables
<1>2. cancelling \subseteq Req /\ \A m \in msgs : m[1] \in Req
  BY DEF SessionInv, TypeOK, Messages
<1>3. EntryHasOwner'
  BY <1>1, <1>2 DEF EntryHasOwner, InFlight
<1>4. \A q : Kept(q)' <=> Kept(q)
  BY <1>1 DEF Kept, IsResume
<1>5. ASSUME NEW r \in Req PROVE WritesOf(r)'
  <2>1. Writes(r, pc[r], tx[r], run[r])
    BY DEF OwnWrites, Writes
  <2>2. tx'[r] = NoTx /\ run'[r] = NoRun /\ pc'[r] \in {pc[r], "failed"} /\ pc'[r] # "handled"
    BY <1>1 DEF Done, Final
  <2>3. NoTx.add = {} /\ NoTx.addm = {} /\ NoRun.out = "chat"
    BY DEF NoTx, NoRun
  <2>4. pc'[r] \notin {"insert", "stage"}
    BY <1>1 DEF Done, Final
  <2>5. QED
    BY <1>1, <2>1, <2>2, <2>3, <2>4 DEF Writes, WritesOf
<1>10. OwnWrites'
  BY <1>5 DEF OwnWrites, Writes, WritesOf
<1>6. \A q \in Req : pc[q] \in Final => pc'[q] = pc[q]
  BY <1>1 DEF Done
<1>7. \A m \in msgs' : pc'[m[1]] \in {"ok", "reparked", "kept"} \/ Kept(m[1])'
  BY <1>1, <1>2, <1>4, <1>6 DEF OwnRows, Final
<1>8. \A d \in drafts' : d.by \in Req =>
          \/ pc'[d.by] \in {"ok", "reparked", "kept"}
          \/ pc'[d.by] = "discarded" /\ d.rev <= pre'[d.by].ver.rev
  BY <1>1, <1>6 DEF OwnRows, Final
<1>9. QED
  BY <1>3, <1>7, <1>8, <1>10 DEF OwnRows

(* At rest nothing is registered, open or committed by any request.        *)
LEMMA DiscardInit == Init => DiscardInv
<1> SUFFICES ASSUME Init PROVE DiscardInv
  OBVIOUS
<1>1. SessionInv
  BY SessionInit
<1>2. EntryHasOwner
  BY DEF Init, EntryHasOwner
<1>3. OwnWrites
  <2>1. \A r \in Req : tx[r] = NoTx /\ run[r] = NoRun /\ pc[r] = "idle"
    BY DEF Init
  <2>2. NoTx.add = {} /\ NoTx.addm = {} /\ NoRun.out = "chat"
    BY DEF NoTx, NoRun
  <2>3. QED
    BY <2>1, <2>2 DEF OwnWrites
<1>4. \A d \in drafts : d.by = Seed
  <2>1. \A n : SeedVersion(n).by = Seed
    BY DEF SeedVersion
  <2>2. drafts \subseteq {SeedVersion(1), SeedVersion(2)}
    BY DEF Init, AtRest
  <2>3. QED
    BY <2>1, <2>2
<1>5. OwnRows
  BY <1>4, SessionAssumption DEF Init, OwnRows
<1>6. QED
  BY <1>1, <1>2, <1>3, <1>5 DEF DiscardInv

(* Every step keeps it.                                                    *)
LEMMA DiscardStep == DiscardInv /\ [Next]_vars => DiscardInv'
<1> SUFFICES ASSUME DiscardInv, [Next]_vars PROVE DiscardInv'
  OBVIOUS
<1>1. SessionInv'
  BY SessionStep DEF DiscardInv
<1>2. CASE \E r \in Req : Load(r) \/ Fail(r) \/ Progress(r)
  BY <1>1, <1>2, OwnerStep, WritesStep, RowsStep DEF DiscardInv
<1>3. CASE Restart
  BY <1>1, <1>3, RestartDiscards DEF DiscardInv
<1>4. CASE UNCHANGED vars
  <2>1. EntryHasOwner' /\ OwnWrites'
    BY <1>4 DEF vars, tables, entry, DiscardInv, EntryHasOwner, OwnWrites, Kept, IsResume
  <2>2. OwnRows'
    BY <1>4 DEF vars, tables, entry, DiscardInv, OwnRows, Kept, IsResume
  <2>3. QED
    BY <1>1, <2>1, <2>2 DEF DiscardInv
<1>5. QED
  BY <1>2, <1>3, <1>4 DEF Next

(* What has been added for the two theorems below holds in every state.    *)
THEOREM DiscardInvariant == Spec => []DiscardInv
BY DiscardInit, DiscardStep, PTL DEF Spec

(* No entry of a turn that has ended stays registered, so that a session   *)
(* is never busy for ever, unless a Stop that clears it is on its way.     *)
THEOREM NoGhosts == Spec => []NoGhostEntry
<1>1. DiscardInv => NoGhostEntry
  <2> SUFFICES ASSUME DiscardInv, reg # NoReq, Done(reg)
               PROVE  \E s \in Req : pc[s] \in {"waiting", "dropping"} /\ tgt[s] = reg
    BY DEF NoGhostEntry
  <2>1. pc[reg] \notin InFlight
    BY DEF Done, Final, InFlight
  <2>2. QED
    BY <2>1 DEF DiscardInv, EntryHasOwner
<1>2. QED
  BY <1>1, DiscardInvariant, PTL

(* However many requests race, a discarded turn and a refused request have *)
(* no message in the transcript and no draft above what was restored.      *)
THEOREM NothingLeft == Spec => []DiscardLeavesNothing
<1>1. DiscardInv => DiscardLeavesNothing
  <2> SUFFICES ASSUME DiscardInv, NEW r \in Req, pc[r] \in {"discarded", "refused"}
               PROVE  /\ TurnMessages(r) \cap msgs = {}
                      /\ \A d \in drafts : d.by = r =>
                            pc[r] = "discarded" /\ d.rev <= pre[r].ver.rev
    BY DEF DiscardLeavesNothing
  <2>1. ~Kept(r)
    BY DEF DiscardInv, EntryHasOwner, OwnWrites, Kept, InFlight
  <2>2. \A m \in msgs : m[1] # r
    BY <2>1 DEF DiscardInv, OwnRows
  <2>3. \A m \in TurnMessages(r) : m[1] = r
    BY DEF TurnMessages
  <2>4. \A d \in drafts : d.by = r => pc[r] = "discarded" /\ d.rev <= pre[r].ver.rev
    BY DEF DiscardInv, OwnRows
  <2>5. QED
    BY <2>2, <2>3, <2>4
<1>2. QED
  BY <1>1, DiscardInvariant, PTL

=============================================================================
