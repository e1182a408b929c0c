------------------------ MODULE PublishConfirmProofs ------------------------
(***************************************************************************)
(* Proofs about PublishConfirm for any requests, keys and sessions: that   *)
(* the receipts implement ReceiptLifecycle, that a parked Confirm is       *)
(* published by one approval at most, and that no answered post is         *)
(* forgotten or belongs to somebody else.                                  *)
(***************************************************************************)
EXTENDS PublishConfirm, TLAPS

USE DEF Lifecycle!Adapter

(* A step of request r that leaves the committed receipts alone keeps the  *)
(* invariant if what it does to r's own locals is legal: new locks are     *)
(* free, and the new step, writes and post of r match.                     *)
LEMMA LocalStep ==
    ASSUME PublishInv, NEW r \in Req, pc[r] \notin Answers,
           NEW w \in Steps, Goto(r, w),
           NEW t \in [Keys -> Status \cup {Untouched}], tx' = [tx EXCEPT ![r] = t],
           NEW v \in SUBSET Keys, victims' = [victims EXCEPT ![r] = v],
           UNCHANGED <<receipts, policy, turns, conf>>,
           posts' = posts \/ posts' = posts \cup {r},
           \A k \in Keys : t[k] # Untouched => tx[r][k] # Untouched \/ ~Blocked(r, k),
           \A k \in Keys : t[k] # Untouched => LegalWrite(r, t, k),
           StepMatches(r, w, t),
           \A k \in v : /\ k # key[r] /\ receipts[k].status # "none"
                        /\ receipts[k].session = session[r],
           r \in posts' => Tracked(r, w, t),
           OwnReply(r, w),
           \A q \in posts : /\ q # r /\ r \in posts' \ posts
                            /\ kind[q] = "approve" /\ kind[r] = "approve" /\ key[q] = key[r]
                            => pc[q] = "lost"
    PROVE  PublishInv'
<1>1. /\ pc \in [Req -> Steps] /\ tx \in [Req -> [Keys -> Status \cup {Untouched}]]
      /\ victims \in [Req -> SUBSET Keys] /\ pc' = [pc EXCEPT ![r] = w]
      /\ posts \in SUBSET Req /\ kind' = kind /\ key' = key /\ session' = session
      /\ key \in [Req -> Keys]
  BY DEF PublishInv, TypeOK, Goto, conf
<1>2. TypeOK'
  BY <1>1 DEF PublishInv, TypeOK
<1>3. LocksExclusive'
  BY <1>1 DEF PublishInv, LocksExclusive, Blocked
<1>4. \A q \in Req : q # r => pc'[q] = pc[q] /\ tx'[q] = tx[q] /\ victims'[q] = victims[q]
  BY <1>1
<1>5. pc'[r] = w /\ tx'[r] = t /\ victims'[r] = v
  BY <1>1
<1>6. WritesLegal'
  <2>1. SUFFICES ASSUME NEW q \in Req, NEW k \in Keys, tx'[q][k] # Untouched
                 PROVE  LegalWrite(q, tx[q], k)'
    BY DEF WritesLegal
  <2>2. LegalWrite(q, tx[q], k)' <=> LegalWrite(q, tx'[q], k)
    BY <1>1 DEF LegalWrite, Lifecycle!Pending
  <2>3. LegalWrite(q, tx'[q], k)
    <3>1. CASE q = r
      BY <1>5, <2>1, <3>1
    <3>2. CASE q # r
      BY <1>4, <2>1, <3>2 DEF PublishInv, WritesLegal
    <3>3. QED
      BY <3>1, <3>2
  <2>4. QED
    BY <2>2, <2>3
<1>7. StepsMatchWrites'
  BY <1>1, <1>4, <1>5 DEF PublishInv, StepsMatchWrites, StepMatches
<1>8. VictimsOfSession'
  BY <1>1, <1>4, <1>5 DEF PublishInv, VictimsOfSession
<1>9. PostsTracked'
  BY <1>1, <1>4, <1>5 DEF PublishInv, PostsTracked, Tracked
<1>10. RepliesOwn'
  BY <1>1, <1>4, <1>5 DEF PublishInv, RepliesOwn, OwnReply
<1>11. ApprovedOnce'
  <2>1. SUFFICES ASSUME NEW p \in posts', NEW q \in posts', p # q,
                        kind[p] = "approve", kind[q] = "approve", key[p] = key[q]
                 PROVE  pc'[p] = "lost" \/ pc'[q] = "lost"
    BY <1>1 DEF ApprovedOnce
  <2>2. \A x \in Req : pc[x] = "lost" => pc'[x] = "lost"
    BY <1>1, <1>4 DEF Answers
  <2>3. CASE p \in posts /\ q \in posts
    BY <1>1, <2>1, <2>2, <2>3 DEF PublishInv, ApprovedOnce
  <2>4. CASE p \notin posts
    BY <1>1, <2>1, <2>2, <2>4
  <2>5. CASE q \notin posts
    BY <1>1, <2>1, <2>2, <2>5
  <2>6. QED
    BY <2>3, <2>4, <2>5
<1>12. QED
  BY <1>2, <1>3, <1>6, <1>7, <1>8, <1>9, <1>10, <1>11 DEF PublishInv

(* Ending a request without a commit keeps the invariant.                  *)
LEMMA EndStep ==
    ASSUME PublishInv, NEW r \in Req, pc[r] \notin Answers,
           NEW how \in Answers, End(r, how), UNCHANGED <<receipts, policy, turns, posts, conf>>,
           r \in posts => how = "lost",
           OwnReply(r, how)
    PROVE  PublishInv'
<1>1. how \in Steps /\ NoTx \in [Keys -> Status \cup {Untouched}]
  BY DEF Steps, NoTx, Untouched
<1>2. /\ \A k \in Keys : NoTx[k] = Untouched
      /\ StepMatches(r, how, NoTx)
      /\ r \in posts => Tracked(r, how, NoTx)
  BY DEF NoTx, StepMatches, Tracked, Answers
<1>3. /\ Goto(r, how) /\ tx' = [tx EXCEPT ![r] = NoTx]
      /\ victims' = [victims EXCEPT ![r] = {}] /\ {} \in SUBSET Keys
      /\ posts' = posts
  BY DEF End
<1>4. /\ \A k \in Keys : NoTx[k] # Untouched => tx[r][k] # Untouched \/ ~Blocked(r, k)
      /\ \A k \in Keys : NoTx[k] # Untouched => LegalWrite(r, NoTx, k)
  BY <1>2
<1>5. r \in posts' => Tracked(r, how, NoTx)
  BY <1>2, <1>3
<1>6. \A q \in posts : /\ q # r /\ r \in posts' \ posts
                       /\ kind[q] = "approve" /\ kind[r] = "approve" /\ key[q] = key[r]
                       => pc[q] = "lost"
  BY <1>3
<1>7. QED
  BY <1>1, <1>2, <1>3, <1>4, <1>5, <1>6, LocalStep

(* Writing one receipt that nobody else has locked, and going on.          *)
LEMMA WriteStep ==
    ASSUME PublishInv, NEW r \in Req, pc[r] \notin Answers,
           NEW w \in Steps \ Answers, Goto(r, w),
           NEW st \in Status, Write(r, key[r], st), UNCHANGED victims,
           UNCHANGED <<receipts, policy, turns, conf>>,
           posts' = posts \/ posts' = posts \cup {r},
           tx[r] = NoTx \/ kind[r] = "approve",
           tx[r][key[r]] # Untouched \/ ~Blocked(r, key[r]),
           LegalWrite(r, [tx[r] EXCEPT ![key[r]] = st], key[r]),
           StepMatches(r, w, [tx[r] EXCEPT ![key[r]] = st]),
           r \in posts' => Tracked(r, w, [tx[r] EXCEPT ![key[r]] = st]),
           \A q \in posts : /\ q # r /\ r \in posts' \ posts
                            /\ kind[q] = "approve" /\ kind[r] = "approve" /\ key[q] = key[r]
                            => pc[q] = "lost"
    PROVE  PublishInv'
<1> DEFINE t == [tx[r] EXCEPT ![key[r]] = st]
<1>1. /\ tx \in [Req -> [Keys -> Status \cup {Untouched}]] /\ key[r] \in Keys
      /\ victims \in [Req -> SUBSET Keys]
  BY DEF PublishInv, TypeOK
<1>2. t \in [Keys -> Status \cup {Untouched}] /\ tx' = [tx EXCEPT ![r] = t]
  BY <1>1 DEF Write
<1>3. \A k \in Keys : t[k] # Untouched => k = key[r]
  <2>1. CASE tx[r] = NoTx
    BY <1>1, <2>1 DEF NoTx
  <2>2. CASE kind[r] = "approve"
    BY <1>1, <2>2 DEF PublishInv, WritesLegal, LegalWrite
  <2>3. QED
    BY <2>1, <2>2
<1>4. \A k \in Keys : t[k] # Untouched => tx[r][k] # Untouched \/ ~Blocked(r, k)
  BY <1>3
<1>5. \A k \in Keys : t[k] # Untouched => LegalWrite(r, t, k)
  BY <1>3
<1>6. \A k \in victims[r] : /\ k # key[r] /\ receipts[k].status # "none"
                            /\ receipts[k].session = session[r]
  BY DEF PublishInv, VictimsOfSession
<1>7. victims[r] \in SUBSET Keys /\ victims' = [victims EXCEPT ![r] = victims[r]]
  BY <1>1
<1>8. OwnReply(r, w) /\ w \in Steps
  BY DEF OwnReply, Answers
<1>9. QED
  BY <1>2, <1>4, <1>5, <1>6, <1>7, <1>8, LocalStep

(* Moving on without writing anything.                                     *)
LEMMA MoveStep ==
    ASSUME PublishInv, NEW r \in Req, pc[r] \notin Answers,
           NEW w \in Steps \ Answers, Goto(r, w), UNCHANGED tx,
           NEW v \in SUBSET Keys, victims' = [victims EXCEPT ![r] = v],
           UNCHANGED <<receipts, policy, turns, conf>>,
           posts' = posts \/ (posts' = posts \cup {r} /\ kind[r] = "confirm"),
           StepMatches(r, w, tx[r]),
           \A k \in v : /\ k # key[r] /\ receipts[k].status # "none"
                        /\ receipts[k].session = session[r],
           r \in posts' => Tracked(r, w, tx[r])
    PROVE  PublishInv'
<1>1. /\ tx \in [Req -> [Keys -> Status \cup {Untouched}]]
      /\ tx[r] \in [Keys -> Status \cup {Untouched}]
      /\ tx' = [tx EXCEPT ![r] = tx[r]]
  BY DEF PublishInv, TypeOK
<1>2. \A k \in Keys : tx[r][k] # Untouched => LegalWrite(r, tx[r], k)
  BY DEF PublishInv, WritesLegal
<1>3. OwnReply(r, w) /\ w \in Steps
  BY DEF OwnReply, Answers
<1>4. \A q \in posts : /\ q # r /\ r \in posts' \ posts
                       /\ kind[q] = "approve" /\ kind[r] = "approve" /\ key[q] = key[r]
                       => pc[q] = "lost"
  OBVIOUS
<1>5. posts' = posts \/ posts' = posts \cup {r}
  OBVIOUS
<1>6. \A k \in Keys : tx[r][k] # Untouched => tx[r][k] # Untouched \/ ~Blocked(r, k)
  OBVIOUS
<1>7. QED
  BY <1>1, <1>2, <1>3, <1>4, <1>5, <1>6, LocalStep

----------------------------------------------------------------------------
(* Each action keeps the invariant.                                        *)

LEMMA PublishInit == Init => PublishInv
<1> SUFFICES ASSUME Init PROVE PublishInv
  OBVIOUS
<1>1. /\ \A r \in Req : pc[r] = "idle" /\ tx[r] = NoTx /\ victims[r] = {}
      /\ posts = {}
  BY DEF Init
<1>2. NoTx \in [Keys -> Status \cup {Untouched}] /\ \A k \in Keys : NoTx[k] = Untouched
  BY DEF NoTx, Untouched
<1>3. TypeOK
  <2>1. receipts \in [Keys -> Lifecycle!Receipt]
    BY DEF Init, Lifecycle!Receipt, Lifecycle!Status
  <2>2. "idle" \in Steps
    BY DEF Steps
  <2>3. QED
    BY <1>2, <2>1, <2>2 DEF Init, TypeOK
<1>4. LocksExclusive /\ WritesLegal
  BY <1>1, <1>2 DEF LocksExclusive, WritesLegal
<1>5. StepsMatchWrites /\ VictimsOfSession
  BY <1>1 DEF StepsMatchWrites, StepMatches, VictimsOfSession
<1>6. PostsTracked /\ RepliesOwn /\ ApprovedOnce
  BY <1>1 DEF PostsTracked, RepliesOwn, OwnReply, ApprovedOnce
<1>7. QED
  BY <1>3, <1>4, <1>5, <1>6 DEF PublishInv

(* Inserting a receipt: lost to a committed one, or written.               *)
LEMMA InsertStep ==
    ASSUME PublishInv, NEW r \in Req, pc[r] \in {"insert"} \cup Lifecycle!Adapter,
           NEW st \in Lifecycle!Adapter \cup {"pending"}, NEW w \in {"find", "commit"},
           Insert(r, st, w), UNCHANGED <<receipts, policy, turns, posts, conf>>,
           w = "find" => st = "pending",
           r \in posts => st # "pending"
    PROVE  PublishInv'
<1>1. /\ tx[r] = NoTx /\ kind[r] = "confirm" /\ key[r] \in Keys
      /\ pc[r] \notin Answers
  BY DEF PublishInv, TypeOK, StepsMatchWrites, StepMatches, Answers
<1>2. CASE End(r, "lost")
  <2>1. OwnReply(r, "lost") /\ "lost" \in Answers
    BY DEF OwnReply, Answers
  <2>2. QED
    BY <1>1, <1>2, <2>1, EndStep
<1>3. CASE /\ receipts[key[r]].status = "none" /\ ~Blocked(r, key[r])
           /\ Write(r, key[r], st) /\ Goto(r, w) /\ UNCHANGED victims
  <2> DEFINE t == [tx[r] EXCEPT ![key[r]] = st]
  <2>1. t[key[r]] = st
    BY <1>1 DEF NoTx
  <2>2. LegalWrite(r, t, key[r])
    BY <1>1, <1>3, <2>1 DEF LegalWrite
  <2>3. w \in Steps \ Answers /\ st \in Status
    BY DEF Steps, Answers, Status, Lifecycle!Status, Lifecycle!Resolved
  <2>4. StepMatches(r, w, t)
    BY <1>1, <2>1 DEF StepMatches, Answers, Untouched
  <2>5. r \in posts => w = "commit" /\ st \in Lifecycle!Adapter
    BY DEF Answers
  <2>6. r \in posts' => Tracked(r, w, t)
    BY <2>1, <2>5 DEF Tracked
  <2>7. \A q \in posts : /\ q # r /\ r \in posts' \ posts
                         /\ kind[q] = "approve" /\ kind[r] = "approve" /\ key[q] = key[r]
                         => pc[q] = "lost"
    OBVIOUS
  <2>8. QED
    BY <1>1, <1>3, <2>2, <2>3, <2>4, <2>6, <2>7, WriteStep
<1>4. QED
  BY <1>2, <1>3 DEF Insert

LEMMA ConfirmStep ==
    ASSUME PublishInv, NEW r \in Req,
           Lookup(r) \/ Gate(r) \/ ParkInsert(r) \/ FindOlder(r) \/ Record(r)
    PROVE  PublishInv'
<1>1. /\ pc[r] \notin Answers
      /\ r \in posts => pc[r] \in Lifecycle!Adapter \cup {"commit"}
      /\ key[r] \in Keys /\ session[r] \in Sessions
      /\ tx[r] \in [Keys -> Status \cup {Untouched}]
      /\ victims[r] \in SUBSET Keys /\ victims = [victims EXCEPT ![r] = victims[r]]
      /\ \A k \in victims[r] : /\ k # key[r] /\ receipts[k].status # "none"
                               /\ receipts[k].session = session[r]
  <2>1. pc[r] \notin Answers
    BY DEF Lookup, Gate, ParkInsert, FindOlder, Record, Answers
  <2>2. QED
    BY <2>1 DEF PublishInv, TypeOK, PostsTracked, Tracked, Answers, VictimsOfSession
<1>2. StepMatches(r, pc[r], tx[r])
  BY DEF PublishInv, StepsMatchWrites
<1>3. CASE Lookup(r)
  <2>1. r \notin posts /\ tx[r] = NoTx /\ kind[r] = "confirm"
    BY <1>1, <1>2, <1>3 DEF Lookup, StepMatches
  <2>2. CASE receipts[key[r]].status = "none"
    <3>1. Goto(r, "gate") /\ UNCHANGED <<tx, victims>>
      BY <1>3, <2>2 DEF Lookup
    <3>2. StepMatches(r, "gate", tx[r]) /\ "gate" \in Steps \ Answers
      BY <2>1 DEF StepMatches, Steps, Answers
    <3>3. UNCHANGED <<receipts, policy, turns, posts, conf>>
      BY <1>3 DEF Lookup
    <3>4. victims' = [victims EXCEPT ![r] = victims[r]]
      BY <1>1, <3>1
    <3>5. r \notin posts'
      BY <2>1, <3>3
    <3>6. QED
      BY <1>1, <2>1, <3>1, <3>2, <3>3, <3>4, <3>5, MoveStep
  <2>3. CASE receipts[key[r]].status # "none"
    <3> DEFINE how == IF receipts[key[r]].session = session[r] THEN "replied" ELSE "refused"
    <3>1. End(r, how) /\ UNCHANGED <<receipts, policy, turns, posts, conf>>
      BY <1>3, <2>3 DEF Lookup
    <3>2. OwnReply(r, how) /\ how \in Answers
      BY <2>3 DEF OwnReply, Answers
    <3> HIDE DEF how
    <3>3. QED
      BY <1>1, <2>1, <3>1, <3>2, EndStep
  <2>4. QED
    BY <2>2, <2>3
<1>4. CASE Gate(r)
  <2>1. r \notin posts /\ tx[r] = NoTx /\ kind[r] = "confirm"
    BY <1>1, <1>2, <1>4 DEF Gate, StepMatches
  <2>2. UNCHANGED <<receipts, policy, turns, posts, conf>>
    BY <1>4 DEF Gate
  <2>3. CASE End(r, "refused")
    <3>1. OwnReply(r, "refused") /\ "refused" \in Answers
      BY DEF OwnReply, Answers
    <3>2. QED
      BY <1>1, <2>1, <2>2, <2>3, <3>1, EndStep
  <2>4. ASSUME NEW w \in {"insert", "post"}, Goto(r, w), UNCHANGED <<tx, victims>>
        PROVE  PublishInv'
    <3>1. StepMatches(r, w, tx[r]) /\ w \in Steps \ Answers
      BY <2>1 DEF StepMatches, Steps, Answers
    <3>2. victims' = [victims EXCEPT ![r] = victims[r]] /\ r \notin posts'
      BY <1>1, <2>1, <2>2, <2>4
    <3>3. QED
      BY <1>1, <2>1, <2>2, <2>4, <3>1, <3>2, MoveStep
  <2>5. QED
    BY <1>4, <2>3, <2>4 DEF Gate
<1>5. CASE ParkInsert(r)
  <2>1. /\ pc[r] = "insert" /\ Insert(r, "pending", "find")
        /\ UNCHANGED <<receipts, policy, turns, posts, conf>> /\ r \notin posts
    BY <1>1, <1>5 DEF ParkInsert
  <2>2. QED
    BY <2>1, InsertStep
<1>6. CASE FindOlder(r)
  <2> DEFINE v == Lifecycle!Pending(session[r]) \ {key[r]}
  <2>1. /\ victims' = [victims EXCEPT ![r] = v] /\ Goto(r, "supersede")
        /\ UNCHANGED <<receipts, policy, turns, posts, conf, tx>> /\ r \notin posts
    BY <1>1, <1>6 DEF FindOlder
  <2>2. v \in SUBSET Keys
    BY DEF Lifecycle!Pending
  <2>3. \A k \in v : /\ k # key[r] /\ receipts[k].status # "none"
                     /\ receipts[k].session = session[r]
    BY DEF Lifecycle!Pending
  <2>4. StepMatches(r, "supersede", tx[r]) /\ "supersede" \in Steps \ Answers
    BY <1>2, <1>6 DEF FindOlder, StepMatches, Steps, Answers
  <2> HIDE DEF v
  <2>5. QED
    BY <1>1, <2>1, <2>2, <2>3, <2>4, MoveStep
<1>7. CASE Record(r)
  <2>1. /\ pc[r] \in Lifecycle!Adapter /\ Insert(r, pc[r], "commit")
        /\ UNCHANGED <<receipts, policy, turns, posts, conf>>
    BY <1>7 DEF Record
  <2>2. QED
    BY <2>1, InsertStep
<1>8. QED
  BY <1>3, <1>4, <1>5, <1>6, <1>7

(* The UPDATE that supersedes has waited for the locks on its receipts.    *)
LEMMA SupersedeStep ==
    ASSUME PublishInv, NEW r \in Req, Supersede(r)
    PROVE  PublishInv'
<1> DEFINE hit(k) == k \in victims[r] /\ receipts[k].status = "pending"
           t == [k \in Keys |-> IF hit(k) THEN "superseded" ELSE tx[r][k]]
<1>1. /\ pc[r] = "supersede" /\ key[r] \in Keys /\ victims[r] \in SUBSET Keys
      /\ victims \in [Req -> SUBSET Keys]
      /\ tx[r] \in [Keys -> Status \cup {Untouched}]
      /\ receipts \in [Keys -> Lifecycle!Receipt]
  BY DEF PublishInv, TypeOK, Supersede
<1>2. /\ kind[r] = "confirm" /\ tx[r][key[r]] = "pending" /\ r \notin posts
  BY <1>1 DEF PublishInv, StepsMatchWrites, StepMatches, PostsTracked, Tracked
<1>3. \A k \in victims[r] : /\ k # key[r] /\ receipts[k].status # "none"
                            /\ receipts[k].session = session[r]
  BY DEF PublishInv, VictimsOfSession
<1>4. /\ tx' = [tx EXCEPT ![r] = t] /\ Goto(r, "commit")
      /\ UNCHANGED <<receipts, policy, turns, conf>> /\ posts' = posts
      /\ victims' = [victims EXCEPT ![r] = victims[r]]
      /\ \A k \in victims[r] : ~Blocked(r, k)
  BY <1>1 DEF Supersede
<1>5. t \in [Keys -> Status \cup {Untouched}]
  <2>1. "superseded" \in Status
    BY DEF Status, Lifecycle!Status, Lifecycle!Resolved
  <2>2. QED
    BY <1>1, <2>1
<1>6. t[key[r]] = "pending"
  BY <1>1, <1>2, <1>3
<1>7. \A k \in Keys : t[k] # Untouched => tx[r][k] # Untouched \/ ~Blocked(r, k)
  BY <1>4
<1>8. ASSUME NEW k \in Keys, t[k] # Untouched
      PROVE  LegalWrite(r, t, k)
  <2>1. CASE hit(k)
    <3>1. receipts[k] = [status |-> "pending", session |-> session[r]]
      BY <1>1, <1>3, <2>1 DEF Lifecycle!Receipt
    <3>2. k \in Lifecycle!Pending(session[r])
      BY <3>1 DEF Lifecycle!Pending
    <3>3. t[k] = "superseded" /\ k # key[r]
      BY <1>3, <2>1
    <3> HIDE DEF t
    <3>4. QED
      BY <1>2, <1>6, <3>2, <3>3 DEF LegalWrite
  <2>2. CASE ~hit(k)
    <3>1. t[k] = tx[r][k] /\ tx[r][k] # Untouched
      BY <1>8, <2>2
    <3>2. LegalWrite(r, tx[r], k)
      BY <3>1 DEF PublishInv, WritesLegal
    <3> HIDE DEF t
    <3>3. QED
      BY <1>2, <1>6, <3>1, <3>2 DEF LegalWrite
  <2>3. QED
    BY <2>1, <2>2
<1>9. StepMatches(r, "commit", t)
  BY <1>2, <1>6 DEF StepMatches, Untouched, Answers
<1>10. /\ "commit" \in Steps /\ pc[r] \notin Answers /\ OwnReply(r, "commit")
  BY <1>1 DEF Steps, Answers, OwnReply
<1>11. /\ posts' = posts \/ posts' = posts \cup {r}
       /\ r \in posts' => Tracked(r, "commit", t)
       /\ \A q \in posts : /\ q # r /\ r \in posts' \ posts
                           /\ kind[q] = "approve" /\ kind[r] = "approve" /\ key[q] = key[r]
                           => pc[q] = "lost"
  BY <1>2, <1>4
<1> HIDE DEF t
<1>12. QED
  BY <1>1, <1>3, <1>4, <1>5, <1>7, <1>8, <1>9, <1>10, <1>11, LocalStep

(* Whoever holds the lock of a pending receipt is the only one to have     *)
(* published it, lost approvals apart.                                     *)
LEMMA HolderAlone ==
    ASSUME PublishInv, NEW r \in Req, kind[r] = "approve", tx[r][key[r]] # Untouched,
           receipts[key[r]].status = "pending",
           NEW q \in posts, q # r, kind[q] = "approve", key[q] = key[r]
    PROVE  pc[q] = "lost"
<1>1. q \in Req /\ key[r] \in Keys /\ Tracked(q, pc[q], tx[q]) /\ StepMatches(q, pc[q], tx[q])
  BY DEF PublishInv, TypeOK, PostsTracked, StepsMatchWrites
<1>2. pc[q] # "commit"
  <2>1. tx[q][key[q]] = Untouched
    BY <1>1 DEF PublishInv, LocksExclusive
  <2>2. QED
    BY <1>1, <2>1 DEF StepMatches
<1>3. pc[q] # "replied"
  BY <1>1 DEF Tracked
<1>4. pc[q] \notin Lifecycle!Adapter
  BY <1>1 DEF StepMatches
<1>5. QED
  BY <1>1, <1>2, <1>3, <1>4 DEF Tracked

LEMMA PostStep ==
    ASSUME PublishInv, NEW r \in Req, Post(r)
    PROVE  PublishInv'
<1>1. /\ pc[r] = "post" /\ pc[r] \notin Answers /\ r \notin posts /\ key[r] \in Keys
      /\ tx[r] \in [Keys -> Status \cup {Untouched}]
      /\ victims \in [Req -> SUBSET Keys]
      /\ UNCHANGED <<receipts, policy, turns, conf>>
  BY DEF PublishInv, TypeOK, PostsTracked, Tracked, Post, Answers
<1>2. StepMatches(r, "post", tx[r])
  BY <1>1 DEF PublishInv, StepsMatchWrites
<1>3. CASE End(r, "refused") /\ UNCHANGED posts
  <2>1. OwnReply(r, "refused") /\ "refused" \in Answers
    BY DEF OwnReply, Answers
  <2>2. QED
    BY <1>1, <1>3, <2>1, EndStep
<1>4. ASSUME NEW st \in Lifecycle!Adapter,
             posts' = posts \/ posts' = posts \cup {r},
             kind[r] = "approve",
             Write(r, key[r], st), Goto(r, "commit"), UNCHANGED victims
      PROVE  PublishInv'
  <2> DEFINE t == [tx[r] EXCEPT ![key[r]] = st]
  <2>1. t[key[r]] = st /\ tx[r][key[r]] = "pending"
    BY <1>1, <1>2, <1>4 DEF StepMatches
  <2>2. receipts[key[r]].status = "pending" /\ tx[r][key[r]] # Untouched
    BY <1>1, <1>4, <2>1 DEF PublishInv, WritesLegal, LegalWrite, Untouched
  <2>3. LegalWrite(r, t, key[r])
    BY <1>4, <2>1, <2>2 DEF LegalWrite
  <2>4. StepMatches(r, "commit", t)
    BY <2>1 DEF StepMatches, Answers, Untouched
  <2>5. Tracked(r, "commit", t)
    BY <2>1 DEF Tracked
  <2>6. \A q \in posts : /\ q # r /\ r \in posts' \ posts
                         /\ kind[q] = "approve" /\ kind[r] = "approve" /\ key[q] = key[r]
                         => pc[q] = "lost"
    BY <2>2, HolderAlone
  <2>7. "commit" \in Steps \ Answers /\ st \in Status
    BY DEF Steps, Answers, Status, Lifecycle!Status, Lifecycle!Resolved
  <2> HIDE DEF t
  <2>8. QED
    BY <1>1, <1>4, <2>2, <2>3, <2>4, <2>5, <2>6, <2>7, WriteStep DEF t
<1>5. ASSUME NEW st \in Lifecycle!Adapter,
             posts' = posts \/ posts' = posts \cup {r},
             kind[r] # "approve",
             Goto(r, st), UNCHANGED <<tx, victims>>
      PROVE  PublishInv'
  <2>1. kind[r] = "confirm" /\ tx[r] = NoTx
    BY <1>2, <1>5 DEF StepMatches
  <2>2. StepMatches(r, st, tx[r]) /\ Tracked(r, st, tx[r]) /\ st \in Steps \ Answers
    BY <2>1 DEF StepMatches, Tracked, Steps, Answers
  <2>3. \A k \in victims[r] : /\ k # key[r] /\ receipts[k].status # "none"
                              /\ receipts[k].session = session[r]
    BY DEF PublishInv, VictimsOfSession
  <2>4. victims[r] \in SUBSET Keys /\ victims' = [victims EXCEPT ![r] = victims[r]]
    BY <1>1, <1>5
  <2>5. posts' = posts \/ (posts' = posts \cup {r} /\ kind[r] = "confirm")
    BY <1>5, <2>1
  <2>6. UNCHANGED tx /\ Goto(r, st)
    BY <1>5
  <2>7. QED
    BY <1>1, <2>2, <2>3, <2>4, <2>5, <2>6, MoveStep
<1>6. QED
  BY <1>3, <1>4, <1>5 DEF Post

LEMMA TakeStep ==
    ASSUME PublishInv, NEW r \in Req, Take(r)
    PROVE  PublishInv'
<1> DEFINE st == receipts[key[r]].status
<1>1. /\ pc[r] = "idle" /\ kind[r] \in {"approve", "reject"} /\ pc[r] \notin Answers
      /\ UNCHANGED <<receipts, policy, turns, posts, conf>>
  BY DEF Take, Answers
<1>2. /\ r \notin posts /\ tx[r] = NoTx /\ key[r] \in Keys
      /\ tx[r] \in [Keys -> Status \cup {Untouched}]
  BY <1>1 DEF PublishInv, TypeOK, PostsTracked, Tracked, StepsMatchWrites, StepMatches, Answers
<1>3. ASSUME NEW how \in {"replied", "refused"}, End(r, how)
      PROVE  PublishInv'
  <2>1. how \in Answers /\ OwnReply(r, how)
    BY <1>1 DEF Answers, OwnReply
  <2>2. QED
    BY <1>1, <1>2, <1>3, <2>1, EndStep
<1>4. ASSUME NEW new \in {"pending", "rejected"}, NEW w \in {"post", "commit"},
             st = "pending", ~Blocked(r, key[r]),
             \/ kind[r] = "approve" /\ new = "pending" /\ w = "post"
             \/ kind[r] = "reject" /\ new = "rejected" /\ w = "commit",
             Write(r, key[r], new), Goto(r, w), UNCHANGED victims
      PROVE  PublishInv'
  <2> DEFINE t == [tx[r] EXCEPT ![key[r]] = new]
  <2>1. t[key[r]] = new
    BY <1>2
  <2>2. LegalWrite(r, t, key[r])
    BY <1>4, <2>1 DEF LegalWrite
  <2>3. StepMatches(r, w, t)
    BY <1>4, <2>1 DEF StepMatches, Answers, Untouched
  <2>4. /\ w \in Steps \ Answers /\ new \in Status /\ r \notin posts' /\ posts' = posts
    BY <1>1, <1>2 DEF Steps, Answers, Status, Lifecycle!Status, Lifecycle!Resolved
  <2>5. \A q \in posts : /\ q # r /\ r \in posts' \ posts
                         /\ kind[q] = "approve" /\ kind[r] = "approve" /\ key[q] = key[r]
                         => pc[q] = "lost"
    BY <2>4
  <2> HIDE DEF t
  <2>6. QED
    BY <1>1, <1>2, <1>4, <2>2, <2>3, <2>4, <2>5, WriteStep DEF t
<1>5. QED
  BY <1>1, <1>3, <1>4 DEF Take

LEMMA LoseStep ==
    ASSUME PublishInv, NEW r \in Req, Lose(r)
    PROVE  PublishInv'
<1>1. /\ pc[r] \notin Answers /\ "lost" \in Answers /\ End(r, "lost") /\ OwnReply(r, "lost")
      /\ UNCHANGED <<receipts, policy, turns, posts, conf>>
  BY DEF Lose, Answers, OwnReply
<1>2. QED
  BY <1>1, EndStep

(* A transaction writes rows that are absent or pending only, never to     *)
(* absent.                                                                 *)
LEMMA OpenRows ==
    ASSUME PublishInv, NEW r \in Req, NEW k \in Keys, tx[r][k] # Untouched
    PROVE  /\ receipts[k].status \in {"none", "pending"}
           /\ tx[r][k] \in Status \ {"none"}
           /\ receipts[k].status = "none" => kind[r] = "confirm" /\ k = key[r]
<1>1. receipts \in [Keys -> Lifecycle!Receipt] /\ LegalWrite(r, tx[r], k)
  BY DEF PublishInv, TypeOK, WritesLegal
<1>2. \A s : k \in Lifecycle!Pending(s) => receipts[k].status = "pending"
  BY DEF Lifecycle!Pending
<1>3. QED
  BY <1>1, <1>2 DEF LegalWrite, Status, Lifecycle!Status, Lifecycle!Resolved

(* What a commit does to one row.                                          *)
LEMMA CommitRow ==
    ASSUME PublishInv, NEW r \in Req, Commit(r), NEW k \in Keys
    PROVE  /\ tx[r][k] = Untouched => receipts'[k] = receipts[k]
           /\ tx[r][k] # Untouched => receipts'[k].status = tx[r][k]
           /\ receipts[k].status \in Lifecycle!Resolved => receipts'[k] = receipts[k]
           /\ receipts[k].status # "none" =>
                /\ receipts'[k].status # "none"
                /\ receipts'[k].session = receipts[k].session
           /\ tx[r][k] # Untouched /\ receipts[k].status = "none" =>
                receipts'[k] = [status |-> tx[r][k], session |-> session[r]]
           /\ receipts'[k] \in Lifecycle!Receipt
<1>1. receipts[k] \in Lifecycle!Receipt /\ session[r] \in Sessions
  BY DEF PublishInv, TypeOK
<1>2. receipts'[k] = IF tx[r][k] = Untouched THEN receipts[k]
                    ELSE [status |-> tx[r][k],
                          session |-> IF receipts[k].status = "none" THEN session[r]
                                      ELSE receipts[k].session]
  BY DEF Commit
<1>3. CASE tx[r][k] = Untouched
  <2>1. receipts'[k] = receipts[k]
    BY <1>1, <1>2, <1>3
  <2>2. QED
    BY <1>1, <1>3, <2>1
<1>4. CASE tx[r][k] # Untouched
  <2>1. receipts[k].status \in {"none", "pending"} /\ tx[r][k] \in Status \ {"none"}
    BY <1>4, OpenRows
  <2>2. CASE receipts[k].status = "none"
    <3>1. receipts'[k] = [status |-> tx[r][k], session |-> session[r]]
      BY <1>2, <1>4, <2>2
    <3>2. QED
      BY <1>1, <1>4, <2>1, <2>2, <3>1 DEF Lifecycle!Receipt, Lifecycle!Resolved, Status
  <2>3. CASE receipts[k].status # "none"
    <3>1. receipts'[k] = [status |-> tx[r][k], session |-> receipts[k].session]
      BY <1>2, <1>4, <2>3
    <3>2. QED
      BY <1>1, <1>4, <2>1, <2>3, <3>1 DEF Lifecycle!Receipt, Lifecycle!Resolved, Status
  <2>4. QED
    BY <2>2, <2>3
<1>5. QED
  BY <1>3, <1>4

LEMMA CommitStep ==
    ASSUME PublishInv, NEW r \in Req, Commit(r)
    PROVE  PublishInv'
<1>1. /\ pc[r] = "commit" /\ key[r] \in Keys
      /\ pc' = [pc EXCEPT ![r] = "replied"] /\ tx' = [tx EXCEPT ![r] = NoTx]
      /\ victims' = [victims EXCEPT ![r] = {}]
      /\ pc \in [Req -> Steps] /\ tx \in [Req -> [Keys -> Status \cup {Untouched}]]
      /\ victims \in [Req -> SUBSET Keys] /\ posts \in SUBSET Req
      /\ policy' = policy /\ turns' = turns /\ posts' = posts
      /\ kind' = kind /\ key' = key /\ session' = session
      /\ key \in [Req -> Keys]
  BY DEF PublishInv, TypeOK, Commit, End, Goto, conf
<1>2. /\ \A q \in Req : q # r => pc'[q] = pc[q] /\ tx'[q] = tx[q] /\ victims'[q] = victims[q]
      /\ pc'[r] = "replied" /\ tx'[r] = NoTx /\ victims'[r] = {}
      /\ \A k \in Keys : NoTx[k] = Untouched
  BY <1>1 DEF NoTx
<1>3. tx[r][key[r]] # Untouched
  BY <1>1 DEF PublishInv, StepsMatchWrites, StepMatches
<1>4. \A k \in Keys : receipts[k].status # "none" =>
         receipts'[k].status # "none" /\ receipts'[k].session = receipts[k].session
  BY CommitRow
<1>5. TypeOK'
  <2>1. NoTx \in [Keys -> Status \cup {Untouched}] /\ "replied" \in Steps
    BY DEF NoTx, Steps, Answers
  <2>2. DOMAIN receipts' = Keys /\ \A k \in Keys : receipts'[k] \in Lifecycle!Receipt
    BY CommitRow DEF Commit
  <2>3. receipts' \in [Keys -> Lifecycle!Receipt]
    <3>1. receipts' = [k \in Keys |-> receipts'[k]]
      BY DEF Commit
    <3>2. QED
      BY <2>2, <3>1
  <2>4. QED
    BY <1>1, <2>1, <2>3 DEF PublishInv, TypeOK
<1>6. LocksExclusive'
  BY <1>1, <1>2 DEF PublishInv, LocksExclusive
<1>7. WritesLegal'
  <2>1. SUFFICES ASSUME NEW q \in Req, NEW k \in Keys, tx'[q][k] # Untouched
                 PROVE  LegalWrite(q, tx[q], k)'
    BY DEF WritesLegal
  <2>2. q # r /\ tx'[q] = tx[q]
    BY <1>2, <2>1
  <2>3. receipts'[k] = receipts[k]
    <3>1. tx[r][k] = Untouched
      BY <2>1, <2>2 DEF PublishInv, LocksExclusive
    <3>2. QED
      BY <3>1, CommitRow
  <2>4. LegalWrite(q, tx[q], k)
    BY <2>1, <2>2 DEF PublishInv, WritesLegal
  <2>5. QED
    BY <1>1, <2>2, <2>3, <2>4 DEF LegalWrite, Lifecycle!Pending
<1>8. StepsMatchWrites'
  <2>1. StepMatches(r, "replied", NoTx)
    BY DEF StepMatches
  <2>2. SUFFICES ASSUME NEW q \in Req PROVE StepMatches(q, pc[q], tx[q])'
    BY DEF StepsMatchWrites
  <2>3. CASE q = r
    BY <1>1, <1>2, <2>1, <2>3 DEF StepMatches
  <2>4. CASE q # r
    BY <1>1, <1>2, <2>4 DEF PublishInv, StepsMatchWrites, StepMatches
  <2>5. QED
    BY <2>3, <2>4
<1>9. VictimsOfSession'
  BY <1>1, <1>2, <1>4 DEF PublishInv, VictimsOfSession
<1>10. PostsTracked'
  <2>1. SUFFICES ASSUME NEW q \in posts PROVE Tracked(q, pc[q], tx[q])'
    BY <1>1 DEF PostsTracked
  <2>2. Tracked(q, pc[q], tx[q]) /\ q \in Req /\ key[q] \in Keys
    BY <1>1 DEF PublishInv, PostsTracked
  <2>3. CASE q = r
    <3>1. receipts'[key[r]].status = tx[r][key[r]]
      BY <1>1, <1>3, CommitRow
    <3>2. QED
      BY <1>1, <1>2, <2>2, <2>3, <3>1 DEF Tracked
  <2>4. CASE q # r
    <3>1. pc[q] = "replied" => receipts'[key[q]] = receipts[key[q]]
      BY <2>2, CommitRow DEF Tracked, Lifecycle!Resolved
    <3>2. QED
      BY <1>1, <1>2, <2>2, <2>4, <3>1 DEF Tracked
  <2>5. QED
    BY <2>3, <2>4
<1>11. RepliesOwn'
  <2>1. SUFFICES ASSUME NEW q \in Req, kind[q] = "confirm", pc'[q] = "replied"
                 PROVE  /\ receipts'[key[q]].status # "none"
                        /\ receipts'[key[q]].session = session[q]
    BY <1>1 DEF RepliesOwn, OwnReply
  <2>2. CASE q = r
    <3>1. receipts[key[r]].status = "none"
      BY <1>1, <1>3, <2>1, <2>2 DEF PublishInv, WritesLegal, LegalWrite
    <3>2. receipts'[key[r]] = [status |-> tx[r][key[r]], session |-> session[r]]
      BY <1>1, <1>3, <3>1, CommitRow
    <3>3. tx[r][key[r]] # "none"
      BY <1>1, <1>3, OpenRows
    <3>4. QED
      BY <2>2, <3>2, <3>3
  <2>3. CASE q # r
    BY <1>1, <1>2, <1>4, <2>1, <2>3 DEF PublishInv, RepliesOwn, OwnReply
  <2>4. QED
    BY <2>2, <2>3
<1>12. ApprovedOnce'
  BY <1>1, <1>2 DEF PublishInv, ApprovedOnce
<1>13. QED
  BY <1>5, <1>6, <1>7, <1>8, <1>9, <1>10, <1>11, <1>12 DEF PublishInv

(* Steps of others, and stuttering.                                        *)
LEMMA OtherStep ==
    ASSUME PublishInv,
           \/ SetPolicy
           \/ \E s \in Sessions : TurnStarts(s) \/ TurnEnds(s)
           \/ UNCHANGED vars
    PROVE  PublishInv'
<1>1. /\ UNCHANGED <<receipts, posts, kind, key, session, pc, victims, tx>>
      /\ policy' \in BOOLEAN /\ turns' \in SUBSET Sessions
  BY DEF PublishInv, TypeOK, SetPolicy, TurnStarts, TurnEnds, vars, conf
<1>2. TypeOK'
  BY <1>1 DEF PublishInv, TypeOK
<1>3. LocksExclusive' /\ WritesLegal'
  BY <1>1 DEF PublishInv, LocksExclusive, WritesLegal, LegalWrite, Lifecycle!Pending
<1>4. StepsMatchWrites' /\ VictimsOfSession'
  BY <1>1 DEF PublishInv, StepsMatchWrites, StepMatches, VictimsOfSession
<1>5. PostsTracked' /\ RepliesOwn' /\ ApprovedOnce'
  BY <1>1 DEF PublishInv, PostsTracked, Tracked, RepliesOwn, OwnReply, ApprovedOnce
<1>6. QED
  BY <1>2, <1>3, <1>4, <1>5 DEF PublishInv

LEMMA PublishStep == PublishInv /\ [Next]_vars => PublishInv'
<1> SUFFICES ASSUME PublishInv, [Next]_vars PROVE PublishInv'
  OBVIOUS
<1>1. ASSUME NEW r \in Req, Progress(r)
      PROVE  PublishInv'
  BY <1>1, ConfirmStep, SupersedeStep, PostStep, CommitStep, TakeStep DEF Progress
<1>2. ASSUME NEW r \in Req, Lose(r)
      PROVE  PublishInv'
  BY <1>2, LoseStep
<1>3. CASE SetPolicy \/ (\E s \in Sessions : TurnStarts(s) \/ TurnEnds(s)) \/ UNCHANGED vars
  BY <1>3, OtherStep
<1>4. QED
  BY <1>1, <1>2, <1>3 DEF Next

(* The inductive invariant: locks are exclusive, and what a transaction    *)
(* has written is a legal next value of a row nobody else can change.      *)
THEOREM PublishInvariant == Spec => []PublishInv
<1>1. QED
  BY PublishInit, PublishStep, PTL DEF Spec

----------------------------------------------------------------------------
(* The properties.                                                         *)

(* Every variable holds a value of its kind, for any constants.            *)
THEOREM TypeCorrect == Spec => []TypeOK
<1>1. PublishInv => TypeOK
  BY DEF PublishInv
<1>2. QED
  BY <1>1, PublishInvariant, PTL

(* A parked Confirm is published by one approval, lost ones apart.         *)
THEOREM OneApproval == Spec => []ApprovedOnce
<1>1. PublishInv => ApprovedOnce
  BY DEF PublishInv
<1>2. QED
  BY <1>1, PublishInvariant, PTL

(* A Confirm is answered with a receipt of its own session only.           *)
THEOREM PrivateReceipts == Spec => []OwnReceiptOnly
<1>1. PublishInv => OwnReceiptOnly
  BY DEF PublishInv, RepliesOwn, OwnReply, OwnReceiptOnly
<1>2. QED
  BY <1>1, PublishInvariant, PTL

(* An answered request that has published has an outcome on record.        *)
THEOREM PostsRecorded == Spec => []AnsweredIsRecorded
<1>1. PublishInv => AnsweredIsRecorded
  BY DEF PublishInv, PostsTracked, Tracked, AnsweredIsRecorded
<1>2. QED
  BY <1>1, PublishInvariant, PTL

(* What is rejected or superseded was not published by an approval.        *)
THEOREM RejectionHolds == Spec => []RejectedNotPosted
<1>1. PublishInv => RejectedNotPosted
  <2>1. SUFFICES ASSUME PublishInv, NEW r \in posts, kind[r] = "approve", pc[r] # "lost"
                 PROVE  receipts[key[r]].status \notin {"rejected", "superseded"}
    BY DEF RejectedNotPosted
  <2>2. /\ r \in Req /\ key[r] \in Keys
        /\ Tracked(r, pc[r], tx[r]) /\ StepMatches(r, pc[r], tx[r])
    BY <2>1 DEF PublishInv, TypeOK, PostsTracked, StepsMatchWrites
  <2>3. CASE pc[r] = "commit"
    <3>1. tx[r][key[r]] # Untouched
      BY <2>2, <2>3 DEF StepMatches
    <3>2. QED
      BY <2>1, <2>2, <3>1, OpenRows
  <2>4. CASE pc[r] = "replied"
    BY <2>2, <2>4 DEF Tracked
  <2>5. pc[r] \notin Lifecycle!Adapter
    BY <2>1, <2>2 DEF StepMatches
  <2>6. QED
    BY <2>1, <2>2, <2>3, <2>4, <2>5 DEF Tracked
<1>2. QED
  BY <1>1, PublishInvariant, PTL

----------------------------------------------------------------------------
(* The refinement.                                                         *)

LEMMA LifecycleInit == Init => Lifecycle!RInit
<1> SUFFICES ASSUME Init PROVE Lifecycle!RInit
  OBVIOUS
<1>1. PICK k \in Keys, s \in Sessions, st \in {"none", "pending"} :
         receipts = [j \in Keys |->
             [status |-> IF j = k THEN st ELSE "none", session |-> s]]
  BY DEF Init
<1>2. QED
  BY <1>1 DEF Lifecycle!RInit, Lifecycle!Receipt, Lifecycle!Status

(* A commit is one step of the abstract receipts.                          *)
LEMMA CommitRefines ==
    ASSUME PublishInv, NEW r \in Req, Commit(r)
    PROVE  Lifecycle!RNext
<1> DEFINE k == key[r]
           s == session[r]
           others == {j \in Keys : j # k /\ tx[r][j] # Untouched}
<1>1. /\ k \in Keys /\ s \in Sessions /\ tx[r][k] # Untouched
      /\ receipts \in [Keys -> Lifecycle!Receipt] /\ kind[r] \in Kinds
      /\ receipts' = [j \in Keys |-> receipts'[j]]
      /\ LegalWrite(r, tx[r], k)
      /\ kind[r] = "approve" => tx[r][k] \in Lifecycle!Adapter
  BY DEF PublishInv, TypeOK, StepsMatchWrites, StepMatches, WritesLegal, Commit
<1>2. \A j \in Keys : tx[r][j] = Untouched => receipts'[j] = receipts[j]
  BY CommitRow
<1>3. \A j \in others : /\ kind[r] = "confirm" /\ tx[r][j] = "superseded"
                        /\ tx[r][k] = "pending" /\ j \in Lifecycle!Pending(s)
  BY DEF PublishInv, WritesLegal, LegalWrite
<1>4. CASE kind[r] = "confirm"
  <2>1. Lifecycle!Absent(k) /\ receipts'[k] = [status |-> tx[r][k], session |-> s]
    BY <1>1, <1>4, CommitRow DEF LegalWrite, Lifecycle!Absent
  <2>2. CASE tx[r][k] \in Lifecycle!Adapter
    <3>1. others = {}
      BY <1>3, <2>2
    <3>2. receipts' = [receipts EXCEPT ![k] = [status |-> tx[r][k], session |-> s]]
      BY <1>1, <1>2, <2>1, <3>1
    <3>3. Lifecycle!Outcome(k, s, tx[r][k])
      BY <2>1, <3>2 DEF Lifecycle!Outcome
    <3>4. QED
      BY <1>1, <2>2, <3>3 DEF Lifecycle!RNext
  <2>3. CASE tx[r][k] = "pending"
    <3>1. others \in SUBSET Lifecycle!Pending(s) /\ k \notin others
      BY <1>3
    <3>2. \A j \in others : receipts'[j] = [receipts[j] EXCEPT !.status = "superseded"]
      <4>1. SUFFICES ASSUME NEW j \in others
                     PROVE  receipts'[j] = [receipts[j] EXCEPT !.status = "superseded"]
        OBVIOUS
      <4>2. /\ receipts'[j] \in Lifecycle!Receipt /\ receipts'[j].status = "superseded"
            /\ receipts'[j].session = receipts[j].session
        <5>1. /\ j \in Keys /\ tx[r][j] # Untouched /\ tx[r][j] = "superseded"
              /\ receipts[j].status # "none"
          BY <1>3 DEF Lifecycle!Pending
        <5>2. QED
          BY <5>1, CommitRow
      <4>3. receipts[j] \in Lifecycle!Receipt
        BY <1>1
      <4>4. QED
        BY <4>2, <4>3 DEF Lifecycle!Receipt
    <3>3. \A j \in Keys : j # k /\ j \notin others => receipts'[j] = receipts[j]
      BY <1>2
    <3> HIDE DEF others
    <3>4. Lifecycle!Park(k, s, others)
      BY <1>1, <2>1, <2>3, <3>1, <3>2, <3>3 DEF Lifecycle!Park
    <3>5. QED
      BY <1>1, <3>1, <3>4 DEF Lifecycle!RNext
  <2>4. QED
    BY <1>1, <1>4, <2>2, <2>3 DEF LegalWrite
<1>5. CASE kind[r] \in {"approve", "reject"}
  <2>1. /\ receipts[k].status = "pending"
        /\ tx[r][k] \in Lifecycle!Adapter \cup {"rejected"}
    BY <1>1, <1>5 DEF LegalWrite
  <2>2. \A j \in Keys : j # k => receipts'[j] = receipts[j]
    BY <1>2, <1>3, <1>5
  <2>3. /\ receipts'[k] \in Lifecycle!Receipt /\ receipts'[k].status = tx[r][k]
        /\ receipts'[k].session = receipts[k].session
    BY <1>1, <2>1, CommitRow
  <2>4. receipts'[k] = [receipts[k] EXCEPT !.status = tx[r][k]]
    BY <1>1, <2>3 DEF Lifecycle!Receipt
  <2>5. Lifecycle!Resolve(k, tx[r][k])
    BY <1>1, <2>1, <2>2, <2>4 DEF Lifecycle!Resolve
  <2>6. QED
    BY <1>1, <2>1, <2>5 DEF Lifecycle!RNext
<1>6. QED
  BY <1>1, <1>4, <1>5 DEF Kinds

(* Everything but a commit leaves the committed receipts alone.            *)
LEMMA OnlyCommitsShow ==
    ASSUME PublishInv, [Next]_vars
    PROVE  Lifecycle!RNext \/ UNCHANGED receipts
<1>1. ASSUME NEW r \in Req, Progress(r)
      PROVE  Lifecycle!RNext \/ UNCHANGED receipts
  <2>1. CASE Commit(r)
    BY <2>1, CommitRefines
  <2>2. CASE Lookup(r) \/ Gate(r) \/ ParkInsert(r) \/ FindOlder(r) \/ Supersede(r)
    BY <2>2 DEF Lookup, Gate, ParkInsert, FindOlder, Supersede
  <2>3. CASE Post(r) \/ Record(r) \/ Take(r)
    BY <2>3 DEF Post, Record, Take
  <2>4. QED
    BY <1>1, <2>1, <2>2, <2>3 DEF Progress
<1>2. CASE (\E r \in Req : Lose(r)) \/ SetPolicy \/ UNCHANGED vars
           \/ (\E s \in Sessions : TurnStarts(s) \/ TurnEnds(s))
  BY <1>2 DEF Lose, SetPolicy, TurnStarts, TurnEnds, vars
<1>3. QED
  BY <1>1, <1>2 DEF Next

(* The receipts table implements ReceiptLifecycle: every behaviour of the  *)
(* requests is, seen through the committed receipts, one of the abstract   *)
(* specification.                                                          *)
THEOREM Refinement == Spec => ReceiptsFollowLifecycle
<1>1. PublishInv /\ [Next]_vars => [Lifecycle!RNext]_receipts
  BY OnlyCommitsShow
<1>2. QED
  BY <1>1, LifecycleInit, PublishInvariant, PTL DEF Spec, ReceiptsFollowLifecycle, Lifecycle!RSpec

=============================================================================
