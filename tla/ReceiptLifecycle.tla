-------------------------- MODULE ReceiptLifecycle --------------------------
(***************************************************************************)
(* What a tool_receipts row promises: the receipt of an idempotency key is *)
(* written once, for one session, and only a receipt that waits for        *)
(* approval still changes, once, to an outcome.                            *)
(*                                                                         *)
(* internal/tools/publish.py and the PUBLISH_* statuses of                 *)
(* internal/memory/repos.py.                                               *)
(***************************************************************************)
CONSTANTS
    Keys,       \* idempotency keys
    Sessions    \* sessions, each of another user

VARIABLE receipts

Adapter == {"published", "failed"}
Resolved == Adapter \cup {"rejected", "superseded"}
Status == Resolved \cup {"none", "pending"}
Receipt == [status : Status, session : Sessions]

Absent(k) == receipts[k].status = "none"
Pending(s) == {k \in Keys : receipts[k] = [status |-> "pending", session |-> s]}

RInit ==
    /\ receipts \in [Keys -> Receipt]
    /\ \A k \in Keys : receipts[k].status \in {"none", "pending"}

(* A direct Confirm writes the adapter's outcome.                          *)
Outcome(k, s, st) ==
    /\ Absent(k)
    /\ receipts' = [receipts EXCEPT ![k] = [status |-> st, session |-> s]]

(* A parked Confirm takes the place of older requests of its session.      *)
Park(k, s, older) ==
    /\ Absent(k)
    /\ receipts' = [j \in Keys |->
          IF j = k THEN [status |-> "pending", session |-> s]
          ELSE IF j \in older THEN [receipts[j] EXCEPT !.status = "superseded"]
          ELSE receipts[j]]

(* Approve and reject resolve what is pending.                             *)
Resolve(k, st) ==
    /\ receipts[k].status = "pending"
    /\ receipts' = [receipts EXCEPT ![k].status = st]

RNext ==
    \E k \in Keys :
        \/ \E s \in Sessions, st \in Adapter : Outcome(k, s, st)
        \/ \E s \in Sessions : \E older \in SUBSET Pending(s) : Park(k, s, older)
        \/ \E st \in Adapter \cup {"rejected"} : Resolve(k, st)

RSpec == RInit /\ [][RNext]_receipts

=============================================================================
