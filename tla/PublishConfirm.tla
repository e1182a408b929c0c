--------------------------- MODULE PublishConfirm ---------------------------
(***************************************************************************)
(* Publishing: Confirm, and the approve and reject of a Confirm that the   *)
(* organisation's policy parked.  The adapter call to the platform is an   *)
(* effect outside the database: it happens before the receipt that records *)
(* it is committed, and no rollback takes it back.                         *)
(*                                                                         *)
(* cmd/api/routes/sessions.py (confirm_session),                           *)
(* cmd/api/routes/publish_approvals.py, internal/tools/publish.py,         *)
(* internal/memory/repos.py (tool_receipts).                               *)
(*                                                                         *)
(* Postgres runs at READ COMMITTED: a statement sees what was committed    *)
(* when it started, and waits for a row that another transaction has       *)
(* written, then looks at that row again.                                  *)
(***************************************************************************)
CONSTANTS
    Req,        \* the requests
    Keys,       \* idempotency keys; a key also names its receipt
    Sessions,   \* sessions, each of another user
    Members,    \* the sessions whose user is a plain member of the company
    Failures    \* whether a request may be lost on the way

ASSUME PublishAssumption ==
    /\ Members \subseteq Sessions
    /\ Failures \in BOOLEAN

VARIABLES
    receipts,   \* committed tool_receipts rows
    policy,     \* member_publish_requires_approval
    turns,      \* the sessions whose row a turn's transaction has locked
    posts,      \* the requests whose adapter call has published
    kind,       \* confirm, approve or reject
    key,        \* the key a Confirm sends, or the receipt under review
    session,    \* the session a Confirm is sent to
    pc,         \* where each request is
    victims,    \* the pending receipts a parking Confirm has found
    tx          \* what each transaction has written or locked, per receipt

conf == <<kind, key, session>>
vars == <<receipts, policy, turns, posts, conf, pc, victims, tx>>

Lifecycle == INSTANCE ReceiptLifecycle
Status == Lifecycle!Status

Kinds == {"confirm", "approve", "reject"}
Answers == {"replied", "refused", "lost"}
Steps == {"idle", "gate", "post", "insert", "find", "supersede", "commit"}
            \cup Lifecycle!Adapter \cup Answers

(* tx[r][k]: the status r is about to commit for receipt k.  A row taken   *)
(* FOR UPDATE and not changed keeps the status it was read with.           *)
Untouched == "-"
NoTx == [k \in Keys |-> Untouched]

Blocked(r, k) == \E o \in Req \ {r} : tx[o][k] # Untouched

Goto(r, where) == pc' = [pc EXCEPT ![r] = where]

(* The request is answered and its transaction is rolled back.             *)
End(r, how) ==
    /\ Goto(r, how)
    /\ tx' = [tx EXCEPT ![r] = NoTx]
    /\ victims' = [victims EXCEPT ![r] = {}]

Write(r, k, st) == tx' = [tx EXCEPT ![r] = [tx[r] EXCEPT ![k] = st]]

----------------------------------------------------------------------------
(* Confirm.                                                                *)

(* The session check is dropped: the receipt goes to anyone who sends its  *)
(* key.                                                                    *)
LookupForAnyone(r) ==
    /\ pc[r] = "idle" /\ kind[r] = "confirm"
    /\ IF receipts[key[r]].status = "none"
       THEN Goto(r, "gate") /\ UNCHANGED <<tx, victims>>
       ELSE End(r, "replied")
    /\ UNCHANGED <<receipts, policy, turns, posts, conf>>

(* An existing receipt of this key is replayed, to its own session only.   *)
Lookup(r) ==
    /\ pc[r] = "idle" /\ kind[r] = "confirm"
    /\ IF receipts[key[r]].status = "none"
       THEN Goto(r, "gate") /\ UNCHANGED <<tx, victims>>
       ELSE End(r, IF receipts[key[r]].session = session[r]
                   THEN "replied" ELSE "refused")
    /\ UNCHANGED <<receipts, policy, turns, posts, conf>>

(* A token that names no draft of the session, or a draft without image,   *)
(* is refused.  The policy parks a member's Confirm.                       *)
Gate(r) ==
    /\ pc[r] = "gate"
    /\ \/ End(r, "refused")
       \/ /\ Goto(r, IF policy /\ session[r] \in Members THEN "insert" ELSE "post")
          /\ UNCHANGED <<tx, victims>>
    /\ UNCHANGED <<receipts, policy, turns, posts, conf>>

(* create_tool_receipt: the unique idempotency_key waits for a transaction *)
(* that has inserted it too, and fails once that has committed.            *)
Insert(r, st, next) ==
    \/ /\ receipts[key[r]].status # "none"
       /\ End(r, "lost")
    \/ /\ receipts[key[r]].status = "none" /\ ~Blocked(r, key[r])
       /\ Write(r, key[r], st)
       /\ Goto(r, next)
       /\ UNCHANGED victims

ParkInsert(r) ==
    /\ pc[r] = "insert"
    /\ Insert(r, "pending", "find")
    /\ UNCHANGED <<receipts, policy, turns, posts, conf>>

(* supersede_pending_publish_approvals: the UPDATE finds the committed     *)
(* pending receipts of the session.                                        *)
FindOlder(r) ==
    /\ pc[r] = "find"
    /\ victims' = [victims EXCEPT ![r] = Lifecycle!Pending(session[r]) \ {key[r]}]
    /\ Goto(r, "supersede")
    /\ UNCHANGED <<receipts, policy, turns, posts, conf, tx>>

(* The UPDATE without its status condition.                                *)
SupersedeUnchecked(r) ==
    /\ pc[r] = "supersede"
    /\ \A k \in victims[r] : ~Blocked(r, k)
    /\ tx' = [tx EXCEPT ![r] = [k \in Keys |->
                IF k \in victims[r] THEN "superseded" ELSE tx[r][k]]]
    /\ Goto(r, "commit")
    /\ UNCHANGED <<receipts, policy, turns, posts, conf, victims>>

(* Once they are not locked, it supersedes those still pending.            *)
Supersede(r) ==
    /\ pc[r] = "supersede"
    /\ \A k \in victims[r] : ~Blocked(r, k)
    /\ tx' = [tx EXCEPT ![r] = [k \in Keys |->
                IF k \in victims[r] /\ receipts[k].status = "pending"
                THEN "superseded" ELSE tx[r][k]]]
    /\ Goto(r, "commit")
    /\ UNCHANGED <<receipts, policy, turns, posts, conf, victims>>

----------------------------------------------------------------------------
(* execute_publish.                                                        *)

(* The adapter call: published; failed without or, after a timeout, with   *)
(* the post made; or a precondition that ends the request without receipt. *)
(* The outcome goes to the parked receipt or to a new one.                 *)
Post(r) ==
    /\ pc[r] = "post"
    /\ \/ /\ End(r, "refused")
          /\ UNCHANGED posts
       \/ \E st \in Lifecycle!Adapter :
            /\ \/ posts' = posts \cup {r}
               \/ st = "failed" /\ UNCHANGED posts
            /\ IF kind[r] = "approve"
               THEN Write(r, key[r], st) /\ Goto(r, "commit") /\ UNCHANGED victims
               ELSE Goto(r, st) /\ UNCHANGED <<tx, victims>>
    /\ UNCHANGED <<receipts, policy, turns, conf>>

Record(r) ==
    /\ pc[r] \in Lifecycle!Adapter
    /\ Insert(r, pc[r], "commit")
    /\ UNCHANGED <<receipts, policy, turns, posts, conf>>

(* A success also sets session.status, an UPDATE that waits for a turn     *)
(* that holds the sessions row.                                            *)
ConfirmsSession(r) == tx[r][key[r]] = "published"

(* Every receipt is written, the untouched ones too.                       *)
CommitAll(r) ==
    /\ pc[r] = "commit"
    /\ receipts' = [k \in Keys |-> [receipts[k] EXCEPT !.status = tx[r][k]]]
    /\ End(r, "replied")
    /\ UNCHANGED <<policy, turns, posts, conf>>

(* The route answers without having committed.                             *)
CommitForgotten(r) ==
    /\ pc[r] = "commit"
    /\ End(r, "replied")
    /\ UNCHANGED <<receipts, policy, turns, posts, conf>>

(* The commit, after which the receipt is the answer.                      *)
Commit(r) ==
    /\ pc[r] = "commit"
    /\ ConfirmsSession(r) =>
          (IF kind[r] = "confirm" THEN session[r] ELSE receipts[key[r]].session)
             \notin turns
    /\ receipts' = [k \in Keys |->
          IF tx[r][k] = Untouched THEN receipts[k]
          ELSE [status |-> tx[r][k],
                session |-> IF receipts[k].status = "none" THEN session[r]
                            ELSE receipts[k].session]]
    /\ End(r, "replied")
    /\ UNCHANGED <<policy, turns, posts, conf>>

----------------------------------------------------------------------------
(* Approve and reject.                                                     *)

(* The refusal of a review leaves its transaction open.                    *)
TakeStayingOpen(r) ==
    /\ pc[r] = "idle" /\ kind[r] \in {"approve", "reject"}
    /\ ~Blocked(r, key[r])
    /\ Write(r, key[r], IF kind[r] = "approve" THEN "pending" ELSE "rejected")
    /\ Goto(r, IF receipts[key[r]].status # "pending" THEN "refused"
               ELSE IF kind[r] = "approve" THEN "post" ELSE "commit")
    /\ UNCHANGED <<receipts, policy, turns, posts, conf, victims>>

(* The receipt is read without a row lock.                                 *)
TakeUnlocked(r) ==
    /\ pc[r] = "idle" /\ kind[r] \in {"approve", "reject"}
    /\ LET st == receipts[key[r]].status
       IN  \/ st # "pending" /\ End(r, "refused")
           \/ /\ st = "pending"
              /\ Goto(r, IF kind[r] = "approve" THEN "post" ELSE "commit")
              /\ IF kind[r] = "approve" THEN UNCHANGED tx ELSE Write(r, key[r], "rejected")
              /\ UNCHANGED victims
    /\ UNCHANGED <<receipts, policy, turns, posts, conf>>

(* get_publish_approval_receipt(for_update=True), then the status decides: *)
(* what this review would do is done already, something else was done, or  *)
(* the receipt is pending and stays locked.                                *)
Take(r) ==
    /\ pc[r] = "idle" /\ kind[r] \in {"approve", "reject"}
    /\ LET st == receipts[key[r]].status
       IN  \/ st = "none" /\ End(r, "refused")
           \/ /\ st # "none" /\ ~Blocked(r, key[r])
              /\ \/ /\ st = (IF kind[r] = "approve" THEN "published" ELSE "rejected")
                    /\ End(r, "replied")
                 \/ /\ st \notin {"pending", IF kind[r] = "approve" THEN "published"
                                            ELSE "rejected"}
                    /\ End(r, "refused")
                 \/ /\ st = "pending" /\ kind[r] = "approve"
                    /\ Write(r, key[r], "pending")
                    /\ Goto(r, "post")
                    /\ UNCHANGED victims
                 \/ /\ st = "pending" /\ kind[r] = "reject"
                    /\ Write(r, key[r], "rejected")
                    /\ Goto(r, "commit")
                    /\ UNCHANGED victims
    /\ UNCHANGED <<receipts, policy, turns, posts, conf>>

----------------------------------------------------------------------------
(* The environment.                                                        *)

(* An owner changes the policy.                                            *)
SetPolicy ==
    /\ policy' = ~policy
    /\ UNCHANGED <<receipts, turns, posts, conf, pc, victims, tx>>

(* A turn of the session locks its row, and ends.                          *)
TurnStarts(s) ==
    /\ s \notin turns
    /\ turns' = turns \cup {s}
    /\ UNCHANGED <<receipts, policy, posts, conf, pc, victims, tx>>

TurnEnds(s) ==
    /\ s \in turns
    /\ turns' = turns \ {s}
    /\ UNCHANGED <<receipts, policy, posts, conf, pc, victims, tx>>

(* The process dies or the database connection breaks: the transaction is  *)
(* rolled back, the post stays.                                            *)
Lose(r) ==
    /\ Failures /\ pc[r] \notin Answers \cup {"idle"}
    /\ End(r, "lost")
    /\ UNCHANGED <<receipts, policy, turns, posts, conf>>

(* A review is not sent to a session: one value stands for none.           *)
AnySession == CHOOSE s \in Sessions : TRUE

Init ==
    /\ \E k \in Keys, s \in Sessions, st \in {"none", "pending"} :
          receipts = [j \in Keys |->
             [status |-> IF j = k THEN st ELSE "none", session |-> s]]
    /\ policy \in BOOLEAN
    /\ turns = {} /\ posts = {}
    /\ kind \in [Req -> Kinds] /\ key \in [Req -> Keys] /\ session \in [Req -> Sessions]
    /\ \A r \in Req : kind[r] # "confirm" => session[r] = AnySession
    /\ pc = [r \in Req |-> "idle"]
    /\ victims = [r \in Req |-> {}]
    /\ tx = [r \in Req |-> NoTx]

Progress(r) ==
    \/ Lookup(r) \/ Gate(r) \/ ParkInsert(r) \/ FindOlder(r) \/ Supersede(r)
    \/ Post(r) \/ Record(r) \/ Commit(r) \/ Take(r)

Next ==
    \/ \E r \in Req : Progress(r) \/ Lose(r)
    \/ \E s \in Sessions : TurnStarts(s) \/ TurnEnds(s)
    \/ SetPolicy

Spec == Init /\ [][Next]_vars

(* Requests run, turns end, and Postgres hands a row lock to the           *)
(* transaction that waits for it, before later ones for ever.              *)
FairSpec ==
    /\ Spec
    /\ \A r \in Req : WF_vars(Progress(r)) /\ SF_vars(Commit(r))
    /\ \A s \in Sessions : WF_vars(TurnEnds(s))
----------------------------------------------------------------------------
(* Properties.                                                             *)

(* Every variable holds a value of its kind.                               *)
TypeOK ==
    /\ receipts \in [Keys -> Lifecycle!Receipt]
    /\ policy \in BOOLEAN
    /\ turns \in SUBSET Sessions
    /\ posts \in SUBSET Req
    /\ kind \in [Req -> Kinds] /\ key \in [Req -> Keys] /\ session \in [Req -> Sessions]
    /\ pc \in [Req -> Steps]
    /\ victims \in [Req -> SUBSET Keys]
    /\ tx \in [Req -> [Keys -> Status \cup {Untouched}]]

(* The receipts table implements ReceiptLifecycle: whatever requests race, *)
(* a resolved receipt never changes again, and a receipt never moves to    *)
(* another session.                                                        *)
ReceiptsFollowLifecycle == Lifecycle!RSpec

(* ADR 0041: two approvers cannot both execute a parked Confirm.  Only an  *)
(* approval that was lost after its post leaves the receipt to another.    *)
ApprovedOnce ==
    \A q, r \in posts : kind[q] = "approve" /\ kind[r] = "approve" /\ key[q] = key[r]
        => q = r \/ pc[q] = "lost" \/ pc[r] = "lost"

(* What was rejected or superseded has not been published by an approval   *)
(* that ran at the same time, unless that approval was lost.               *)
RejectedNotPosted ==
    \A r \in posts : kind[r] = "approve" /\ pc[r] # "lost"
        => receipts[key[r]].status \notin {"rejected", "superseded"}

(* Idempotency is private: a Confirm is only ever answered with a receipt  *)
(* of its own session (409 otherwise), also when two users race for a key. *)
OwnReceiptOnly ==
    \A r \in Req : kind[r] = "confirm" /\ pc[r] = "replied"
        => receipts[key[r]].session = session[r]

(* An answered request that has published has an outcome on record.        *)
AnsweredIsRecorded ==
    \A r \in posts : pc[r] = "replied"
        => receipts[key[r]].status \in Lifecycle!Adapter

(* Every request is answered: no cycle of receipts' row locks, unique keys *)
(* and the sessions row.                                                   *)
EveryRequestAnswered == \A r \in Req : <>(pc[r] \in Answers)

----------------------------------------------------------------------------
(* What makes the safety properties inductive.                             *)

(* A receipt is locked by one transaction at most.                         *)
LocksExclusive ==
    \A q, r \in Req, k \in Keys :
        tx[q][k] # Untouched /\ tx[r][k] # Untouched => q = r

(* What a transaction has written is a legal next value of the committed   *)
(* row, which stays what it was for as long as the row is locked.          *)
LegalWrite(r, t, k) ==
    \/ /\ kind[r] = "confirm" /\ k = key[r]
       /\ t[k] \in Lifecycle!Adapter \cup {"pending"}
       /\ receipts[k].status = "none"
    \/ /\ kind[r] = "confirm" /\ k # key[r]
       /\ t[k] = "superseded" /\ t[key[r]] = "pending"
       /\ k \in Lifecycle!Pending(session[r])
    \/ /\ kind[r] = "approve" /\ k = key[r]
       /\ t[k] \in Lifecycle!Adapter \cup {"pending"}
       /\ receipts[k].status = "pending"
    \/ /\ kind[r] = "reject" /\ k = key[r]
       /\ t[k] = "rejected"
       /\ receipts[k].status = "pending"

WritesLegal ==
    \A r \in Req, k \in Keys : tx[r][k] # Untouched => LegalWrite(r, tx[r], k)

(* Where a request is says what it has written.                            *)
StepMatches(r, step, t) ==
    /\ step \in {"idle", "gate", "insert"} \cup Lifecycle!Adapter \cup Answers => t = NoTx
    /\ step \in {"gate", "insert", "find", "supersede"} \cup Lifecycle!Adapter
          => kind[r] = "confirm"
    /\ step = "post" => \/ kind[r] = "confirm" /\ t = NoTx
                        \/ kind[r] = "approve" /\ t[key[r]] = "pending"
    /\ step \in {"find", "supersede"} => t[key[r]] = "pending"
    /\ step = "commit" => /\ t[key[r]] # Untouched
                          /\ kind[r] = "approve" => t[key[r]] \in Lifecycle!Adapter

StepsMatchWrites == \A r \in Req : StepMatches(r, pc[r], tx[r])

(* A parking Confirm only ever aims at other receipts of its session.      *)
VictimsOfSession ==
    \A r \in Req : \A k \in victims[r] :
        /\ k # key[r]
        /\ receipts[k].status # "none" /\ receipts[k].session = session[r]

(* A post is on its way to the record, on record, or lost.                 *)
Tracked(r, step, t) ==
    /\ step \in Lifecycle!Adapter \cup {"commit", "replied", "lost"}
    /\ step = "commit" => t[key[r]] \in Lifecycle!Adapter
    /\ step = "replied" => receipts[key[r]].status \in Lifecycle!Adapter

PostsTracked == \A r \in posts : Tracked(r, pc[r], tx[r])

(* A reply to a Confirm is a receipt that exists, of its own session.      *)
OwnReply(r, step) ==
    kind[r] = "confirm" /\ step = "replied"
        => receipts[key[r]].status # "none" /\ receipts[key[r]].session = session[r]

RepliesOwn == \A r \in Req : OwnReply(r, pc[r])

PublishInv ==
    /\ TypeOK /\ LocksExclusive /\ WritesLegal /\ StepsMatchWrites
    /\ VictimsOfSession /\ PostsTracked /\ RepliesOwn /\ ApprovedOnce

----------------------------------------------------------------------------
(* What the documents promise and the code does not keep.                  *)

(* ADR 0022 section 4: the idempotency_key "already guarantees a retried   *)
(* Confirm cannot double-publish".                                         *)
NoDoublePublish ==
    \A q, r \in posts : kind[q] = "confirm" /\ kind[r] = "confirm" /\ key[q] = key[r]
        => q = r

(* ADR 0041 section 2: "only the latest parked revision sits in the queue". *)
OneInQueue ==
    \A s \in Sessions : \A j, k \in Lifecycle!Pending(s) : j = k

=============================================================================
