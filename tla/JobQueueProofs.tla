--------------------------- MODULE JobQueueProofs ---------------------------
(***************************************************************************)
(* Proofs about JobQueue for any jobs, workers and bounds: no attempt is   *)
(* run twice, a handler owns its row until its lease is overrun, settled   *)
(* jobs stay settled, and no hint is lost while nothing goes wrong.        *)
(***************************************************************************)
EXTENDS JobQueue, TLAPS

(* What the types say of one worker and one job.                           *)
LEMMA Kinds ==
    ASSUME TypeOK
    PROVE  /\ \A j \in Jobs : /\ jobs[j].status \in Status /\ jobs[j].attempts \in 0..MaxTries
                              /\ jobs[j].by \in Workers \cup {NoWorker}
                              /\ jobs[j].when \in {"now", "later", "past"}
                              /\ jobs[j].stale \in BOOLEAN
           /\ \A w \in Workers :
                 pc[w] \in Holding =>
                     /\ mine[w] \in Claims /\ mine[w][1] \in Jobs
                     /\ mine[w][2] \in 1..MaxTries /\ mine[w] = <<mine[w][1], mine[w][2]>>
BY DEF TypeOK, Job, Claims, Holding, NoClaim

(* No claim is the empty one.                                              *)
LEMMA ClaimIsOne == NoClaim \notin Claims
BY DEF NoClaim, Claims

(* A worker that does not begin to handle a job, with the rows left alone:  *)
(* if it claims one, that row is due and nobody else has it locked.        *)
LEMMA WorkerStep ==
    ASSUME QueueInv, NEW w \in Workers,
           NEW where \in WorkerSteps \ {"handling"}, pc' = [pc EXCEPT ![w] = where],
           NEW c \in Claims \cup {NoClaim}, mine' = [mine EXCEPT ![w] = c],
           where \in Holding <=> c # NoClaim,
           where = "claimed" =>
               /\ jobs[c[1]].status = "pending" /\ c[2] = jobs[c[1]].attempts + 1
               /\ \A v \in Workers : pc[v] = "claimed" /\ v # w => mine[v][1] # c[1],
           wake' \in SUBSET Workers, hints' \in SUBSET Workers, faults' \in 0..MaxFaults,
           UNCHANGED <<jobs, inserting, overrun>>
    PROVE  QueueInv'
<1>1. /\ pc \in [Workers -> WorkerSteps] /\ mine \in [Workers -> Claims \cup {NoClaim}]
      /\ jobs \in [Jobs -> Job]
  BY DEF QueueInv, TypeOK
<1>2. /\ pc'[w] = where /\ mine'[w] = c
      /\ \A v \in Workers : v # w => pc'[v] = pc[v] /\ mine'[v] = mine[v]
  BY <1>1
<1>3. TypeOK'
  BY <1>1, <1>2 DEF QueueInv, TypeOK
<1>4. InsertingAbsent' /\ RunningIsPast'
  BY DEF QueueInv, InsertingAbsent, RunningIsPast
<1>5. ClaimsLock'
  BY <1>1, <1>2 DEF QueueInv, ClaimsLock
<1>6. AttemptsCounted' /\ LeaseKept' /\ HandlerOwnsRow'
  BY <1>1, <1>2 DEF QueueInv, AttemptsCounted, LeaseKept, HandlerOwnsRow
<1>7. EachAttemptOnce'
  <2>1. SUFFICES ASSUME NEW u \in Workers, NEW v \in Workers, u # v,
                        pc'[u] \in Holding, pc'[v] \in Holding, mine'[u] = mine'[v]
                 PROVE  FALSE
    BY DEF EachAttemptOnce
  <2>2. CASE u # w /\ v # w
    BY <1>2, <2>1, <2>2 DEF QueueInv, EachAttemptOnce
  <2>3. ASSUME NEW x \in Workers, x # w, pc'[x] \in Holding, pc'[w] \in Holding,
               mine'[x] = mine'[w]
        PROVE  FALSE
    <3>1. pc[x] \in Holding /\ mine[x] = c /\ where = "claimed"
      BY <1>2, <2>3 DEF Holding
    <3>2. CASE pc[x] = "claimed"
      BY <2>3, <3>1, <3>2
    <3>3. CASE pc[x] = "handling"
      <4>1. mine[x][2] <= jobs[mine[x][1]].attempts
        BY <3>3 DEF QueueInv, AttemptsCounted
      <4>2. jobs[c[1]].attempts \in Nat
        BY <3>1, <3>3, Kinds DEF QueueInv, Holding
      <4>3. QED
        BY <3>1, <4>1, <4>2
    <3>4. QED
      BY <3>1, <3>2, <3>3 DEF Holding
  <2>4. QED
    BY <2>1, <2>2, <2>3
<1>8. QED
  BY <1>3, <1>4, <1>5, <1>6, <1>7 DEF QueueInv

(* The same when the worker's claim is left as it is.                      *)
LEMMA QuietStep ==
    ASSUME QueueInv, NEW w \in Workers,
           NEW where \in WorkerSteps \ Holding, Goto(w, where), pc[w] \notin Holding,
           UNCHANGED mine,
           wake' \in SUBSET Workers, hints' \in SUBSET Workers, faults' \in 0..MaxFaults,
           UNCHANGED <<jobs, inserting, overrun>>
    PROVE  QueueInv'
<1>1. mine[w] = NoClaim /\ mine \in [Workers -> Claims \cup {NoClaim}]
  BY DEF QueueInv, TypeOK
<1>2. mine' = [mine EXCEPT ![w] = NoClaim] /\ pc' = [pc EXCEPT ![w] = where]
  BY <1>1 DEF Goto
<1>3. where \notin {"handling", "claimed"}
  BY DEF Holding
<1>4. QED
  BY <1>2, <1>3, WorkerStep

(* A worker drops what it holds.                                           *)
LEMMA LeaveStep ==
    ASSUME QueueInv, NEW w \in Workers, NEW where \in WorkerSteps \ Holding, Leave(w, where),
           wake' \in SUBSET Workers, hints' \in SUBSET Workers, faults' \in 0..MaxFaults,
           UNCHANGED <<jobs, inserting, overrun>>
    PROVE  QueueInv'
<1>1. mine' = [mine EXCEPT ![w] = NoClaim] /\ pc' = [pc EXCEPT ![w] = where]
  BY DEF Leave, Goto
<1>2. where \notin {"handling", "claimed"}
  BY DEF Holding
<1>3. QED
  BY <1>1, <1>2, WorkerStep

LEMMA KeepsClaim == ASSUME QueueInv, NEW w \in Workers, Claim(w) PROVE QueueInv'
<1>1. /\ wake' \in SUBSET Workers /\ hints' \in SUBSET Workers /\ faults' \in 0..MaxFaults
      /\ UNCHANGED <<jobs, inserting, overrun>> /\ pc[w] = "claim"
  BY DEF QueueInv, TypeOK, Claim, ClaimFrom
<1>2. ASSUME NEW j \in Jobs, Due(j), ~Locked(j),
             mine' = [mine EXCEPT ![w] = <<j, jobs[j].attempts + 1>>], Goto(w, "claimed")
      PROVE  QueueInv'
  <2> DEFINE c == <<j, jobs[j].attempts + 1>>
  <2>1. jobs[j].attempts \in 0..MaxTries /\ jobs[j].attempts < MaxTries
        /\ jobs[j].status = "pending"
    BY <1>2, Kinds DEF QueueInv, Due
  <2>2. jobs[j].attempts + 1 \in 1..MaxTries
    BY <2>1, QueueAssumption
  <2>3. c \in Claims /\ c # NoClaim
    BY <2>2, ClaimIsOne DEF Claims
  <2>4. "claimed" \in WorkerSteps \ {"handling"} /\ "claimed" \in Holding
    BY DEF WorkerSteps, Holding
  <2>5. \A v \in Workers : pc[v] = "claimed" /\ v # w => mine[v][1] # c[1]
    BY <1>2 DEF Locked
  <2>6. pc' = [pc EXCEPT ![w] = "claimed"] /\ mine' = [mine EXCEPT ![w] = c]
    BY <1>2 DEF Goto
  <2>7. jobs[c[1]].status = "pending" /\ c[2] = jobs[c[1]].attempts + 1
    BY <2>1
  <2> HIDE DEF c
  <2>8. QED
    BY <1>1, <2>3, <2>4, <2>5, <2>6, <2>7, WorkerStep
<1>3. CASE Goto(w, "empty") /\ UNCHANGED mine
  BY <1>1, <1>3, QuietStep DEF WorkerSteps, Holding, Waiting
<1>4. QED
  BY <1>2, <1>3 DEF Claim, ClaimFrom

(* A step that leaves the workers alone and changes the rows only so far   *)
(* as no worker that holds a claim minds.                                  *)
LEMMA RowStep ==
    ASSUME QueueInv, UNCHANGED <<pc, mine, wake>>,
           jobs' \in [Jobs -> Job], inserting' \in SUBSET Jobs, overrun' \in SUBSET Jobs,
           hints' \in SUBSET Workers, faults' \in 0..MaxFaults, overrun \subseteq overrun',
           \A j \in Jobs : jobs'[j].status # jobs[j].status => jobs[j].status = "absent"
                                                              /\ j \notin inserting',
           \A j \in Jobs : jobs[j].status # "absent" =>
                  jobs'[j].attempts = jobs[j].attempts /\ jobs'[j].by = jobs[j].by,
           \A j \in inserting' : jobs[j].status = "absent",
           \A j \in Jobs : jobs'[j].status = "running" => jobs'[j].when # "now",
           \A w \in Workers :
               pc[w] = "handling" /\ mine[w][1] \notin overrun' => ~jobs'[mine[w][1]].stale
    PROVE  QueueInv'
<1>1. /\ pc' = pc /\ mine' = mine
      /\ \A w \in Workers : pc[w] \in Holding => mine[w][1] \in Jobs
      /\ \A w \in Workers : pc[w] = "claimed" => jobs[mine[w][1]].status = "pending"
      /\ \A w \in Workers : pc[w] = "handling" => jobs[mine[w][1]].status # "absent"
  BY Kinds DEF QueueInv, ClaimsLock, AttemptsCounted
<1>2. TypeOK'
  BY DEF QueueInv, TypeOK
<1>3. InsertingAbsent' /\ RunningIsPast'
  BY <1>2 DEF InsertingAbsent, RunningIsPast, TypeOK
<1>4. ClaimsLock'
  BY <1>1 DEF QueueInv, ClaimsLock, Holding
<1>5. AttemptsCounted'
  BY <1>1 DEF QueueInv, AttemptsCounted, Holding
<1>6. EachAttemptOnce'
  BY <1>1 DEF QueueInv, EachAttemptOnce
<1>7. HandlerOwnsRow'
  BY <1>1 DEF QueueInv, HandlerOwnsRow, Holding
<1>8. LeaseKept'
  BY <1>1 DEF LeaseKept
<1>9. QED
  BY <1>2, <1>3, <1>4, <1>5, <1>6, <1>7, <1>8 DEF QueueInv

LEMMA KeepsEnqueue ==
    ASSUME QueueInv, NEW j \in Jobs,
           Enqueue(j) \/ CommitEnqueue(j) \/ RollbackEnqueue(j)
    PROVE  QueueInv'
<1>1. /\ jobs \in [Jobs -> Job] /\ inserting \in SUBSET Jobs /\ overrun \in SUBSET Jobs
      /\ hints \in SUBSET Workers /\ faults \in 0..MaxFaults
      /\ \A k \in inserting : jobs[k].status = "absent"
      /\ \A k \in Jobs : jobs[k].status = "running" => jobs[k].when # "now"
      /\ \A w \in Workers : pc[w] = "handling" =>
            mine[w][1] \in Jobs /\ jobs[mine[w][1]].status # "absent"
      /\ \A w \in Workers :
            pc[w] = "handling" /\ mine[w][1] \notin overrun => ~jobs[mine[w][1]].stale
  BY Kinds DEF QueueInv, TypeOK, InsertingAbsent, RunningIsPast, AttemptsCounted, LeaseKept, Holding
<1>2. CASE Enqueue(j)
  BY <1>1, <1>2, RowStep DEF Enqueue
<1>3. CASE RollbackEnqueue(j)
  BY <1>1, <1>3, RowStep DEF RollbackEnqueue
<1>4. CASE CommitEnqueue(j)
  <2>1. PICK due \in {"now", "later"} :
            jobs' = [jobs EXCEPT ![j] = [NoJob EXCEPT !.status = "pending", !.when = due]]
    BY <1>4 DEF CommitEnqueue
  <2>2. [NoJob EXCEPT !.status = "pending", !.when = due] \in Job
    <3>1. NoJob \in Job
      <4>1. 0 \in 0..MaxTries
        BY QueueAssumption
      <4>2. QED
        BY <4>1 DEF NoJob, Job, Status
    <3>2. [NoJob EXCEPT !.status = "pending"] \in Job
      BY <3>1 DEF Job, Status
    <3>3. QED
      BY <2>1, <3>2 DEF Job
  <2>3. /\ jobs' \in [Jobs -> Job] /\ jobs[j].status = "absent" /\ inserting' = inserting \ {j}
        /\ \A k \in Jobs : k # j => jobs'[k] = jobs[k]
        /\ jobs'[j].status = "pending"
    BY <1>1, <1>4, <2>1, <2>2 DEF CommitEnqueue, NoJob
  <2>4. \A w \in Workers :
            pc[w] = "handling" /\ mine[w][1] \notin overrun => ~jobs'[mine[w][1]].stale
    BY <1>1, <2>3
  <2>5. QED
    BY <1>1, <1>4, <2>3, <2>4, RowStep DEF CommitEnqueue
<1>5. QED
  BY <1>2, <1>3, <1>4

LEMMA KeepsTime ==
    ASSUME QueueInv, NEW j \in Jobs, LeaseExpires(j) \/ RunAfterPasses(j)
    PROVE  QueueInv'
<1>1. /\ jobs \in [Jobs -> Job] /\ inserting \in SUBSET Jobs /\ overrun \in SUBSET Jobs
      /\ hints \in SUBSET Workers /\ faults \in 0..MaxFaults
      /\ \A k \in inserting : jobs[k].status = "absent"
      /\ \A k \in Jobs : jobs[k].status = "running" => jobs[k].when # "now"
      /\ \A w \in Workers :
            pc[w] = "handling" /\ mine[w][1] \notin overrun => ~jobs[mine[w][1]].stale
  BY DEF QueueInv, TypeOK, InsertingAbsent, RunningIsPast, LeaseKept
<1>2. CASE LeaseExpires(j)
  <2>1. /\ jobs' = [jobs EXCEPT ![j].stale = TRUE] /\ jobs' \in [Jobs -> Job]
        /\ inserting' = inserting
    BY <1>1, <1>2 DEF LeaseExpires, Job
  <2>2. /\ \A k \in Jobs : jobs'[k].status = jobs[k].status /\ jobs'[k].when = jobs[k].when
                           /\ jobs'[k].attempts = jobs[k].attempts /\ jobs'[k].by = jobs[k].by
        /\ \A k \in Jobs : k # j => jobs'[k] = jobs[k]
    BY <1>1, <2>1 DEF Job
  <2>3. \A w \in Workers :
            pc[w] = "handling" /\ mine[w][1] \notin overrun' => ~jobs'[mine[w][1]].stale
    <3>1. SUFFICES ASSUME NEW w \in Workers, pc[w] = "handling", mine[w][1] \notin overrun'
                   PROVE  ~jobs'[mine[w][1]].stale
      OBVIOUS
    <3>2. mine[w][1] \notin overrun /\ mine[w][1] \in Jobs
          /\ mine[w] = <<mine[w][1], mine[w][2]>>
      BY <1>2, <3>1, Kinds DEF LeaseExpires, QueueInv, Holding
    <3>3. CASE mine[w][1] = j
      <4>1. mine[w] = <<j, jobs[j].attempts>>
        BY <3>1, <3>2, <3>3 DEF QueueInv, HandlerOwnsRow
      <4>2. Handled(j)
        BY <3>1, <4>1 DEF Handled
      <4>3. QED
        BY <1>2, <3>1, <3>3, <4>2 DEF LeaseExpires
    <3>4. QED
      BY <1>1, <2>2, <3>1, <3>2, <3>3
  <2>4. overrun' \in SUBSET Jobs /\ overrun \subseteq overrun'
    BY <1>1, <1>2 DEF LeaseExpires
  <2>5. UNCHANGED <<pc, mine, wake, hints, faults>>
    BY <1>2 DEF LeaseExpires
  <2>6. QED
    BY <1>1, <2>1, <2>2, <2>3, <2>4, <2>5, RowStep
<1>3. CASE RunAfterPasses(j)
  <2>1. /\ jobs' = [jobs EXCEPT ![j].when = "past"] /\ jobs' \in [Jobs -> Job]
        /\ UNCHANGED <<inserting, pc, mine, wake, hints, overrun, faults>>
    BY <1>1, <1>3 DEF RunAfterPasses, Job
  <2>2. \A k \in Jobs : /\ jobs'[k].status = jobs[k].status /\ jobs'[k].stale = jobs[k].stale
                        /\ jobs'[k].attempts = jobs[k].attempts /\ jobs'[k].by = jobs[k].by
                        /\ jobs'[k].when = jobs[k].when \/ jobs'[k].when = "past"
    BY <1>1, <2>1 DEF Job
  <2>3. \A w \in Workers :
            pc[w] = "handling" /\ mine[w][1] \notin overrun' => ~jobs'[mine[w][1]].stale
    BY <1>1, <2>1, <2>2, Kinds DEF QueueInv, Holding
  <2>4. QED
    BY <1>1, <2>1, <2>2, <2>3, RowStep
<1>4. QED
  BY <1>2, <1>3

(* The committed claim: the row was pending, so no handler that is within  *)
(* its lease has it.                                                       *)
LEMMA KeepsCommitClaim == ASSUME QueueInv, NEW w \in Workers, CommitClaim(w) PROVE QueueInv'
<1> DEFINE j == mine[w][1]
           row == [status |-> "running", attempts |-> mine[w][2], by |-> w,
                   when |-> "past", stale |-> FALSE]
<1>1. /\ pc \in [Workers -> WorkerSteps] /\ jobs \in [Jobs -> Job]
      /\ pc[w] = "claimed" /\ pc' = [pc EXCEPT ![w] = "handling"]
      /\ jobs' = [jobs EXCEPT ![j] = row]
      /\ UNCHANGED <<inserting, mine, wake, hints, overrun, faults>>
  BY DEF QueueInv, TypeOK, CommitClaim, Goto
<1>2. /\ j \in Jobs /\ mine[w][2] \in 1..MaxTries /\ jobs[j].attempts \in 0..MaxTries
      /\ jobs[j].status = "pending" /\ mine[w][2] = jobs[j].attempts + 1
      /\ \A v \in Workers : pc[v] = "claimed" /\ mine[v][1] = j => v = w
  BY <1>1, Kinds DEF QueueInv, ClaimsLock, Holding
<1>3. row \in Job
  BY <1>2 DEF Job, Status
<1>4. /\ jobs' \in [Jobs -> Job] /\ jobs'[j] = row
      /\ \A k \in Jobs : k # j => jobs'[k] = jobs[k]
      /\ pc'[w] = "handling" /\ \A v \in Workers : v # w => pc'[v] = pc[v]
  BY <1>1, <1>2, <1>3
<1>5. \A v \in Workers : v # w /\ pc[v] = "handling" /\ mine[v][1] = j =>
          j \in overrun /\ mine[v][2] <= jobs[j].attempts
  BY <1>2 DEF QueueInv, HandlerOwnsRow, AttemptsCounted
<1>6. \A v \in Workers : pc[v] \in Holding => mine[v][1] \in Jobs /\ mine[v][2] \in 1..MaxTries
  BY Kinds DEF QueueInv
<1> HIDE DEF j
<1>7. TypeOK'
  BY <1>1, <1>4 DEF QueueInv, TypeOK, Holding, WorkerSteps
<1>8. InsertingAbsent' /\ RunningIsPast'
  BY <1>1, <1>2, <1>4 DEF QueueInv, InsertingAbsent, RunningIsPast, TypeOK
<1>9. ClaimsLock'
  BY <1>1, <1>2, <1>4, <1>6 DEF QueueInv, ClaimsLock, Holding
<1>10. AttemptsCounted'
  <2>1. SUFFICES ASSUME NEW v \in Workers, pc'[v] = "handling"
                 PROVE  /\ jobs'[mine[v][1]].status # "absent"
                        /\ mine[v][2] <= jobs'[mine[v][1]].attempts
    BY <1>1 DEF AttemptsCounted
  <2>2. CASE v = w
    BY <1>2, <1>4, <2>2 DEF j
  <2>3. CASE v # w /\ mine[v][1] = j
    BY <1>2, <1>4, <1>5, <1>6, <2>1, <2>3 DEF Holding
  <2>4. CASE v # w /\ mine[v][1] # j
    BY <1>4, <1>6, <2>1, <2>4 DEF QueueInv, AttemptsCounted, Holding
  <2>5. QED
    BY <2>2, <2>3, <2>4
<1>11. EachAttemptOnce'
  BY <1>1, <1>4 DEF QueueInv, EachAttemptOnce, Holding
<1>12. HandlerOwnsRow' /\ LeaseKept'
  <2>1. SUFFICES ASSUME NEW v \in Workers, pc'[v] = "handling", mine[v][1] \notin overrun
                 PROVE  /\ jobs'[mine[v][1]].status = "running" /\ jobs'[mine[v][1]].by = v
                        /\ jobs'[mine[v][1]].attempts = mine[v][2]
                        /\ ~jobs'[mine[v][1]].stale
    BY <1>1 DEF HandlerOwnsRow, LeaseKept
  <2>2. CASE v = w
    BY <1>4, <2>2 DEF j
  <2>3. CASE v # w
    <3>1. mine[v][1] # j
      BY <1>4, <1>5, <2>1, <2>3
    <3>2. QED
      BY <1>4, <1>6, <2>1, <2>3, <3>1 DEF QueueInv, HandlerOwnsRow, LeaseKept, Holding
  <2>4. QED
    BY <2>2, <2>3
<1>13. QED
  BY <1>7, <1>8, <1>9, <1>10, <1>11, <1>12 DEF QueueInv

(* A stamp on the row a worker handles: another handler of the job is      *)
(* there only when the lease was overrun.                                  *)
LEMMA KeepsFinish ==
    ASSUME QueueInv, NEW w \in Workers, NEW stamp \in Job, Finish(w, stamp),
           stamp.status # "absent", stamp.status # "running",
           stamp.attempts = jobs[mine[w][1]].attempts
    PROVE  QueueInv'
<1> DEFINE j == mine[w][1]
<1>1. /\ pc \in [Workers -> WorkerSteps] /\ jobs \in [Jobs -> Job]
      /\ mine \in [Workers -> Claims \cup {NoClaim}]
      /\ pc[w] = "handling" /\ pc' = [pc EXCEPT ![w] = "top"]
      /\ mine' = [mine EXCEPT ![w] = NoClaim] /\ jobs' = [jobs EXCEPT ![j] = stamp]
      /\ UNCHANGED <<inserting, wake, hints, overrun, faults>>
      /\ \A v \in Workers : pc[v] = "claimed" => mine[v][1] # j
  BY DEF QueueInv, TypeOK, Finish, Leave, Goto, Locked
<1>2. /\ j \in Jobs /\ jobs[j].status # "absent" /\ jobs[j].attempts \in 0..MaxTries
      /\ \A v \in Workers : pc[v] \in Holding => mine[v][1] \in Jobs
  BY <1>1, Kinds DEF QueueInv, AttemptsCounted, Holding
<1>3. /\ jobs' \in [Jobs -> Job] /\ jobs'[j] = stamp
      /\ \A k \in Jobs : k # j => jobs'[k] = jobs[k]
      /\ pc'[w] = "top" /\ mine'[w] = NoClaim
      /\ \A v \in Workers : v # w => pc'[v] = pc[v] /\ mine'[v] = mine[v]
  BY <1>1, <1>2
<1>4. \A v \in Workers : v # w /\ pc[v] = "handling" /\ mine[v][1] = j => j \in overrun
  BY <1>1 DEF QueueInv, HandlerOwnsRow
<1> HIDE DEF j
<1>5. TypeOK'
  BY <1>1, <1>3 DEF QueueInv, TypeOK, Holding, WorkerSteps
<1>6. InsertingAbsent' /\ RunningIsPast'
  BY <1>1, <1>2, <1>3 DEF QueueInv, InsertingAbsent, RunningIsPast, TypeOK
<1>7. ClaimsLock'
  BY <1>1, <1>2, <1>3 DEF QueueInv, ClaimsLock, Holding
<1>8. AttemptsCounted'
  BY <1>1, <1>2, <1>3 DEF QueueInv, AttemptsCounted, Holding, j
<1>9. EachAttemptOnce'
  BY <1>1, <1>3 DEF QueueInv, EachAttemptOnce, Holding
<1>10. HandlerOwnsRow' /\ LeaseKept'
  BY <1>1, <1>2, <1>3, <1>4 DEF QueueInv, HandlerOwnsRow, LeaseKept, Holding
<1>11. QED
  BY <1>5, <1>6, <1>7, <1>8, <1>9, <1>10 DEF QueueInv

LEMMA KeepsOutcome ==
    ASSUME QueueInv, NEW w \in Workers, Succeed(w) \/ FailRetry(w) \/ FailForGood(w)
    PROVE  QueueInv'
<1> DEFINE j == mine[w][1]
<1>1. /\ j \in Jobs /\ jobs[j] \in Job /\ jobs \in [Jobs -> Job]
  <2>1. pc[w] = "handling"
    BY DEF Succeed, FailRetry, FailForGood, Finish
  <2>2. QED
    BY <2>1, Kinds DEF QueueInv, TypeOK, Holding
<1>2. /\ [jobs[j] EXCEPT !.status = "succeeded"] \in Job
      /\ [jobs[j] EXCEPT !.status = "failed"] \in Job
      /\ [Released(j) EXCEPT !.when = "later"] \in Job
      /\ [Released(j) EXCEPT !.when = "later"].status = "pending"
      /\ [Released(j) EXCEPT !.when = "later"].attempts = jobs[j].attempts
  BY <1>1 DEF Job, Status, Released
<1>3. CASE Succeed(w)
  BY <1>1, <1>2, <1>3, KeepsFinish DEF Succeed, Job
<1>4. CASE FailRetry(w)
  BY <1>1, <1>2, <1>4, KeepsFinish DEF FailRetry
<1>5. CASE FailForGood(w)
  BY <1>1, <1>2, <1>5, KeepsFinish DEF FailForGood, Job
<1>6. QED
  BY <1>3, <1>4, <1>5

(* The sweep takes only rows whose lease has run out, and no handler that  *)
(* is within its lease has such a row.                                     *)
LEMMA KeepsSweep == ASSUME QueueInv, NEW w \in Workers, Sweep(w) PROVE QueueInv'
<1> DEFINE lost == {j \in Jobs : jobs[j].status = "running" /\ jobs[j].stale}
<1>1. /\ pc \in [Workers -> WorkerSteps] /\ jobs \in [Jobs -> Job]
      /\ mine \in [Workers -> Claims \cup {NoClaim}]
      /\ pc[w] \notin Holding /\ pc' = [pc EXCEPT ![w] = "top"]
      /\ jobs' = [j \in Jobs |-> IF j \in lost THEN Released(j) ELSE jobs[j]]
      /\ UNCHANGED <<inserting, mine, wake, hints, overrun, faults>>
  BY DEF QueueInv, TypeOK, Sweep, Reclaim, Goto, Waiting, Holding
<1>2. \A v \in Workers : pc'[v] \in Holding => pc[v] = pc'[v] /\ mine[v][1] \in Jobs
  BY <1>1, Kinds DEF QueueInv, Holding
<1>3. \A j \in Jobs : /\ j \notin lost => jobs'[j] = jobs[j]
                      /\ j \in lost => /\ jobs'[j].status = "pending"
                                       /\ jobs'[j].attempts = jobs[j].attempts
                                       /\ jobs[j].status = "running"
                      /\ jobs'[j] \in Job
  BY <1>1 DEF Released, Job, Status
<1>4. \A v \in Workers : /\ pc[v] = "claimed" => mine[v][1] \notin lost
                         /\ pc[v] = "handling" /\ mine[v][1] \notin overrun
                               => mine[v][1] \notin lost
  BY DEF QueueInv, ClaimsLock, LeaseKept
<1>5. jobs' \in [Jobs -> Job]
  BY <1>1, <1>3
<1> HIDE DEF lost
<1>6. TypeOK'
  <2>1. \A v \in Workers : pc'[v] \in Holding <=> pc[v] \in Holding
    BY <1>1 DEF Holding
  <2>2. pc' \in [Workers -> WorkerSteps]
    BY <1>1 DEF WorkerSteps
  <2>3. QED
    BY <1>1, <1>5, <2>1, <2>2 DEF QueueInv, TypeOK
<1>7. InsertingAbsent' /\ RunningIsPast'
  BY <1>1, <1>3 DEF QueueInv, InsertingAbsent, RunningIsPast, TypeOK
<1>8. ClaimsLock'
  BY <1>1, <1>2, <1>3, <1>4 DEF QueueInv, ClaimsLock, Holding
<1>9. AttemptsCounted'
  BY <1>1, <1>2, <1>3 DEF QueueInv, AttemptsCounted, Holding
<1>10. EachAttemptOnce'
  BY <1>1, <1>2 DEF QueueInv, EachAttemptOnce
<1>11. HandlerOwnsRow' /\ LeaseKept'
  BY <1>1, <1>2, <1>3, <1>4 DEF QueueInv, HandlerOwnsRow, LeaseKept, Holding
<1>12. QED
  BY <1>6, <1>7, <1>8, <1>9, <1>10, <1>11 DEF QueueInv

LEMMA InitHolds == ASSUME Init PROVE QueueInv
<1>1. NoJob \in Job
  <2>1. 0 \in 0..MaxTries
    BY QueueAssumption
  <2>2. QED
    BY <2>1 DEF NoJob, Job, Status
<1>2. TypeOK
  BY <1>1, QueueAssumption DEF Init, TypeOK, WorkerSteps, Holding
<1>3. \A w \in Workers : pc[w] = "top"
  BY DEF Init
<1>4. QED
  BY <1>2, <1>3 DEF Init, NoJob, QueueInv, InsertingAbsent, RunningIsPast, ClaimsLock,
     AttemptsCounted, EachAttemptOnce, HandlerOwnsRow, LeaseKept, Holding

LEMMA KeepsQuiet ==
    ASSUME QueueInv, NEW w \in Workers,
           \/ ClearWake(w) \/ Sleep(w) \/ WakeUp(w) \/ Timer(w) \/ Shutdown(w) \/ Restart(w)
           \/ FailUnstamped(w) \/ Kill(w) \/ ClaimFails(w)
           \/ Deliver(w) \/ LoseHint(w)
    PROVE  QueueInv'
<1>1. /\ wake \in SUBSET Workers /\ hints \in SUBSET Workers /\ faults \in 0..MaxFaults
      /\ jobs \in [Jobs -> Job] /\ inserting \in SUBSET Jobs /\ overrun \in SUBSET Jobs
      /\ pc \in [Workers -> WorkerSteps] /\ MaxFaults \in Nat
      /\ \A k \in inserting : jobs[k].status = "absent"
      /\ \A k \in Jobs : jobs[k].status = "running" => jobs[k].when # "now"
      /\ \A v \in Workers :
            pc[v] = "handling" /\ mine[v][1] \notin overrun => ~jobs[mine[v][1]].stale
  BY QueueAssumption DEF QueueInv, TypeOK, InsertingAbsent, RunningIsPast, LeaseKept
<1>2. faults < MaxFaults => faults + 1 \in 0..MaxFaults
  BY <1>1
<1>3. {"top", "claim", "asleep", "down", "backoff"} \subseteq WorkerSteps \ Holding
  BY DEF WorkerSteps, Holding, Waiting
<1>4. CASE ClearWake(w)
  BY <1>1, <1>3, <1>4, QuietStep DEF ClearWake, Holding
<1>5. CASE Sleep(w)
  BY <1>1, <1>3, <1>5, QuietStep DEF Sleep, Holding
<1>6. CASE WakeUp(w)
  BY <1>1, <1>3, <1>6, QuietStep DEF WakeUp, Holding, Waiting
<1>7. CASE Timer(w)
  BY <1>1, <1>3, <1>7, QuietStep DEF Timer, Holding, Waiting
<1>8. CASE Shutdown(w)
  BY <1>1, <1>2, <1>3, <1>8, QuietStep DEF Shutdown, Fault, Holding, Waiting
<1>9. CASE Restart(w)
  BY <1>1, <1>3, <1>9, QuietStep DEF Restart, Holding
<1>10. CASE FailUnstamped(w)
  BY <1>1, <1>3, <1>10, LeaveStep DEF FailUnstamped
<1>11. CASE Kill(w)
  BY <1>1, <1>2, <1>3, <1>11, LeaveStep DEF Kill, Fault
<1>12. CASE ClaimFails(w)
  BY <1>1, <1>2, <1>3, <1>12, LeaveStep DEF ClaimFails, Fault
<1>13. CASE Deliver(w) \/ LoseHint(w)
  <2>1. /\ hints' \in SUBSET Workers /\ wake' \in SUBSET Workers
        /\ UNCHANGED <<jobs, inserting, pc, mine, overrun>> /\ faults' \in 0..MaxFaults
    BY <1>1, <1>2, <1>13 DEF Deliver, LoseHint, Fault
  <2>2. mine \in [Workers -> Claims \cup {NoClaim}]
    BY DEF QueueInv, TypeOK
  <2>3. TypeOK'
    BY <2>1 DEF QueueInv, TypeOK
  <2>4. QED
    BY <2>1, <2>3 DEF QueueInv, InsertingAbsent, RunningIsPast, ClaimsLock, AttemptsCounted,
       EachAttemptOnce, HandlerOwnsRow, LeaseKept
<1>14. QED
  BY <1>4, <1>5, <1>6, <1>7, <1>8, <1>9, <1>10, <1>11, <1>12, <1>13

LEMMA StepHolds == ASSUME QueueInv, [Next]_vars PROVE QueueInv'
<1>1. CASE Next
  <2>1. ASSUME NEW w \in Workers,
               \/ Work(w) \/ Timer(w) \/ Sweep(w) \/ Deliver(w)
               \/ Kill(w) \/ Shutdown(w) \/ ClaimFails(w) \/ LoseHint(w)
        PROVE  QueueInv'
    BY <2>1, KeepsQuiet, KeepsClaim, KeepsCommitClaim, KeepsOutcome, KeepsSweep DEF Work
  <2>2. ASSUME NEW j \in Jobs,
               \/ Enqueue(j) \/ CommitEnqueue(j) \/ RollbackEnqueue(j)
               \/ LeaseExpires(j) \/ RunAfterPasses(j)
        PROVE  QueueInv'
    BY <2>2, KeepsEnqueue, KeepsTime
  <2>3. QED
    BY <1>1, <2>1, <2>2 DEF Next
<1>2. CASE UNCHANGED vars
  BY <1>2 DEF vars, QueueInv, TypeOK, InsertingAbsent, RunningIsPast, ClaimsLock,
     AttemptsCounted, EachAttemptOnce, HandlerOwnsRow, LeaseKept
<1>3. QED
  BY <1>1, <1>2

(* The inductive invariant of the queue holds in every reachable state.    *)
THEOREM QueueInvariant == Spec => []QueueInv
<1>1. Init => QueueInv
  BY InitHolds
<1>2. QueueInv /\ [Next]_vars => QueueInv'
  BY StepHolds
<1>3. QED
  BY <1>1, <1>2, PTL DEF Spec

(* Every variable of the queue keeps its kind, and exactly the workers     *)
(* between a claim and its outcome hold one.                               *)
THEOREM TypeCorrect == Spec => []TypeOK
<1>1. QueueInv => TypeOK
  BY DEF QueueInv
<1>2. QED
  BY <1>1, QueueInvariant, PTL

(* No attempt of a job is run by two workers (repos.py, claim_next_job).    *)
THEOREM AttemptsUnique == Spec => []EachAttemptOnce
<1>1. QueueInv => EachAttemptOnce
  BY DEF QueueInv
<1>2. QED
  BY <1>1, QueueInvariant, PTL

(* The lease alone protects a handler's row (repos.py, reclaim_stale_jobs). *)
THEOREM LeaseProtects == Spec => []HandlerOwnsRow
<1>1. QueueInv => HandlerOwnsRow
  BY DEF QueueInv
<1>2. QED
  BY <1>1, QueueInvariant, PTL

(* A step leaves a settled job alone, unless a handler of it has outlived  *)
(* its lease (repos.py, finish_job).                                       *)
LEMMA SettledStep ==
    ASSUME QueueInv, [Next]_vars, NEW j \in Jobs,
           jobs[j].status \in {"succeeded", "failed"}, j \notin overrun
    PROVE  jobs'[j] = [jobs[j] EXCEPT !.stale = jobs'[j].stale]
<1>1. jobs \in [Jobs -> Job] /\ jobs[j] \in Job
  BY DEF QueueInv, TypeOK
<1>2. jobs'[j] = jobs[j] => jobs'[j] = [jobs[j] EXCEPT !.stale = jobs'[j].stale]
  BY <1>1 DEF Job
<1>3. SUFFICES ASSUME Next, jobs' # jobs
               PROVE  jobs'[j] = [jobs[j] EXCEPT !.stale = jobs'[j].stale]
  BY <1>2 DEF vars
<1>4. ASSUME NEW w \in Workers, CommitClaim(w) PROVE jobs'[j] = jobs[j]
  <2>1. mine[w][1] # j
    BY <1>4 DEF QueueInv, ClaimsLock, CommitClaim
  <2>2. QED
    BY <1>1, <1>4, <2>1 DEF CommitClaim
<1>5. ASSUME NEW w \in Workers, NEW stamp, Finish(w, stamp) PROVE jobs'[j] = jobs[j]
  <2>1. mine[w][1] # j
    BY <1>5 DEF QueueInv, HandlerOwnsRow, Finish
  <2>2. QED
    BY <1>1, <1>5, <2>1 DEF Finish
<1>6. ASSUME NEW w \in Workers, Sweep(w) PROVE jobs'[j] = jobs[j]
  BY <1>6 DEF Sweep, Reclaim
<1>7. ASSUME NEW k \in Jobs, CommitEnqueue(k) PROVE jobs'[j] = jobs[j]
  <2>1. k # j
    BY <1>7 DEF QueueInv, InsertingAbsent, CommitEnqueue
  <2>2. QED
    BY <1>1, <1>7, <2>1 DEF CommitEnqueue
<1>8. ASSUME NEW k \in Jobs, RunAfterPasses(k) PROVE jobs'[j] = jobs[j]
  BY <1>1, <1>8 DEF RunAfterPasses
<1>9. ASSUME NEW k \in Jobs, LeaseExpires(k)
      PROVE  jobs'[j] = [jobs[j] EXCEPT !.stale = jobs'[j].stale]
  <2>1. CASE k = j
    BY <1>1, <1>9, <2>1 DEF LeaseExpires, Job
  <2>2. CASE k # j
    BY <1>1, <1>2, <1>9, <2>2 DEF LeaseExpires
  <2>3. QED
    BY <2>1, <2>2
<1>10. ASSUME NEW w \in Workers, Succeed(w) \/ FailRetry(w) \/ FailForGood(w)
       PROVE  jobs'[j] = jobs[j]
  BY <1>5, <1>10 DEF Succeed, FailRetry, FailForGood
<1>11. PICK w \in Workers, k \in Jobs :
           \/ CommitClaim(w) \/ Succeed(w) \/ FailRetry(w) \/ FailForGood(w) \/ Sweep(w)
           \/ CommitEnqueue(k) \/ RunAfterPasses(k) \/ LeaseExpires(k)
  BY <1>3, QueueAssumption DEF Next, Work, ClearWake, Claim, ClaimFrom, FailUnstamped, Sleep, WakeUp,
     Restart, Timer, Deliver, Kill, Shutdown, ClaimFails, LoseHint, Enqueue, RollbackEnqueue
<1>12. QED
  BY <1>2, <1>4, <1>6, <1>7, <1>8, <1>9, <1>10, <1>11

(* A settled job keeps its outcome.                                        *)
THEOREM SettledJobsStay == Spec => SettledStays
<1>1. QueueInv /\ [Next]_vars =>
          [\A j \in Jobs :
              jobs[j].status \in {"succeeded", "failed"} /\ j \notin overrun
                => jobs'[j] = [jobs[j] EXCEPT !.stale = jobs'[j].stale]]_vars
  BY SettledStep
<1>2. QED
  BY <1>1, QueueInvariant, PTL DEF Spec, SettledStays

(* A job that is due from the start and unclaimed after a faultless step    *)
(* was so before it, or the step has just enqueued it.                     *)
LEMMA StillDue ==
    ASSUME QueueInv, Next, faults' = faults, NEW j \in Jobs,
           Due(j)', jobs'[j].when = "now", ~Locked(j)', ~CommitEnqueue(j)
    PROVE  Due(j) /\ jobs[j].when = "now" /\ ~Locked(j)
<1>1. /\ jobs \in [Jobs -> Job] /\ jobs[j] \in Job /\ faults \in Nat
      /\ pc \in [Workers -> WorkerSteps]
      /\ jobs[j].status = "running" => jobs[j].when # "now"
  BY QueueAssumption DEF QueueInv, TypeOK, RunningIsPast
<1>2. ASSUME UNCHANGED jobs, \A v \in Workers : pc[v] = "claimed" => pc'[v] = pc[v] /\ mine'[v] = mine[v]
      PROVE  Due(j) /\ jobs[j].when = "now" /\ ~Locked(j)
  BY <1>2 DEF Due, Locked
<1>3. ASSUME NEW v \in Workers, pc[v] # "claimed", NEW c, NEW where,
             UNCHANGED jobs, pc' = [pc EXCEPT ![v] = where],
             mine' = mine \/ mine' = [mine EXCEPT ![v] = c]
      PROVE  Due(j) /\ jobs[j].when = "now" /\ ~Locked(j)
  <2>1. mine \in [Workers -> Claims \cup {NoClaim}]
    BY DEF QueueInv, TypeOK
  <2>2. \A u \in Workers : pc[u] = "claimed" => pc'[u] = pc[u] /\ mine'[u] = mine[u]
    BY <1>1, <1>3, <2>1
  <2>3. QED
    BY <1>2, <1>3, <2>2
<1>4. ASSUME NEW v \in Workers,
             \/ Work(v) \/ Timer(v) \/ Sweep(v) \/ Deliver(v)
             \/ Kill(v) \/ Shutdown(v) \/ ClaimFails(v) \/ LoseHint(v)
      PROVE  Due(j) /\ jobs[j].when = "now" /\ ~Locked(j)
  <2>1. ~(Kill(v) \/ Shutdown(v) \/ ClaimFails(v) \/ LoseHint(v))
    BY <1>1 DEF Kill, Shutdown, ClaimFails, LoseHint, Fault
  <2>2. CASE ClearWake(v) \/ Sleep(v) \/ WakeUp(v) \/ Timer(v) \/ Restart(v) \/ FailUnstamped(v)
    BY <1>3, <2>2 DEF ClearWake, Sleep, WakeUp, Timer, Restart, FailUnstamped, Goto, Leave, Waiting
  <2>3. CASE Deliver(v)
    BY <1>2, <2>3 DEF Deliver
  <2>4. CASE Claim(v)
    BY <1>3, <2>4 DEF Claim, ClaimFrom, Goto
  <2>5. CASE CommitClaim(v)
    <3>1. mine[v][1] # j
      BY <1>1, <2>5 DEF CommitClaim, Due
    <3>2. jobs'[j] = jobs[j] /\ \A u \in Workers : u # v => pc'[u] = pc[u]
      BY <1>1, <2>5, <3>1 DEF CommitClaim, Goto
    <3>3. QED
      BY <2>5, <3>1, <3>2 DEF Due, Locked, CommitClaim
  <2>6. ASSUME NEW stamp, Finish(v, stamp), stamp.status # "pending" \/ stamp.when # "now"
        PROVE  Due(j) /\ jobs[j].when = "now" /\ ~Locked(j)
    <3>1. mine[v][1] # j
      BY <1>1, <2>6 DEF Finish, Due
    <3>2. jobs'[j] = jobs[j] /\ \A u \in Workers : u # v => pc'[u] = pc[u] /\ mine'[u] = mine[u]
      <4>1. mine \in [Workers -> Claims \cup {NoClaim}]
        BY DEF QueueInv, TypeOK
      <4>2. QED
        BY <1>1, <2>6, <3>1, <4>1 DEF Finish, Goto, Leave
    <3>3. pc[v] # "claimed"
      BY <2>6 DEF Finish
    <3>4. QED
      BY <3>2, <3>3 DEF Due, Locked
  <2>7. CASE Succeed(v) \/ FailRetry(v) \/ FailForGood(v)
    <3>1. mine[v][1] \in Jobs /\ jobs[mine[v][1]] \in Job
      BY <1>1, <2>7, Kinds DEF QueueInv, Succeed, FailRetry, FailForGood, Finish, Holding
    <3>2. /\ [jobs[mine[v][1]] EXCEPT !.status = "succeeded"].status = "succeeded"
          /\ [jobs[mine[v][1]] EXCEPT !.status = "failed"].status = "failed"
          /\ [Released(mine[v][1]) EXCEPT !.when = "later"].when = "later"
      BY <3>1 DEF Job, Released
    <3>3. QED
      BY <2>6, <2>7, <3>2 DEF Succeed, FailRetry, FailForGood
  <2>8. CASE Sweep(v)
    <3>1. jobs'[j] = IF jobs[j].status = "running" /\ jobs[j].stale THEN Released(j) ELSE jobs[j]
      BY <2>8 DEF Sweep, Reclaim
    <3>2. Released(j).when = jobs[j].when
      BY <1>1 DEF Released, Job
    <3>3. jobs'[j] = jobs[j]
      BY <1>1, <3>1, <3>2
    <3>4. \A u \in Workers : pc[u] = "claimed" => pc'[u] = pc[u] /\ mine'[u] = mine[u]
      BY <1>1, <2>8 DEF Sweep, Reclaim, Goto, Waiting
    <3>5. QED
      BY <3>3, <3>4 DEF Due, Locked
  <2>9. QED
    BY <1>4, <2>1, <2>2, <2>3, <2>4, <2>5, <2>7, <2>8 DEF Work
<1>5. ASSUME NEW k \in Jobs,
             \/ Enqueue(k) \/ CommitEnqueue(k) \/ RollbackEnqueue(k)
             \/ LeaseExpires(k) \/ RunAfterPasses(k)
      PROVE  Due(j) /\ jobs[j].when = "now" /\ ~Locked(j)
  <2>1. UNCHANGED <<pc, mine>>
    BY <1>5 DEF Enqueue, CommitEnqueue, RollbackEnqueue, LeaseExpires, RunAfterPasses
  <2>2. /\ jobs'[j].status = jobs[j].status /\ jobs'[j].when = jobs[j].when
        /\ jobs'[j].attempts = jobs[j].attempts
    <3>1. CASE Enqueue(k) \/ RollbackEnqueue(k)
      BY <3>1 DEF Enqueue, RollbackEnqueue
    <3>2. CASE CommitEnqueue(k)
      BY <1>1, <3>2 DEF CommitEnqueue
    <3>3. CASE LeaseExpires(k)
      <4>1. jobs' = [jobs EXCEPT ![k].stale = TRUE]
        BY <3>3 DEF LeaseExpires
      <4>2. QED
        BY <1>1, <4>1 DEF Job
    <3>4. CASE RunAfterPasses(k)
      <4>1. jobs' = [jobs EXCEPT ![k].when = "past"]
        BY <3>4 DEF RunAfterPasses
      <4>2. k # j
        BY <1>1, <4>1 DEF Job
      <4>3. QED
        BY <1>1, <4>1, <4>2
    <3>5. QED
      BY <1>5, <3>1, <3>2, <3>3, <3>4
  <2>3. QED
    BY <2>1, <2>2 DEF Due, Locked
<1>6. QED
  BY <1>4, <1>5 DEF Next

(* A faultless step takes no hint from a worker that is, or goes, to sleep  *)
(* while an unclaimed job is due.                                          *)
LEMMA HintStays ==
    ASSUME QueueInv, HintKept, [Next]_vars
    PROVE  HintKept'
<1>1. CASE UNCHANGED vars
  BY <1>1 DEF vars, HintKept, Due, Locked
<1>2. CASE Next
  <2>1. /\ pc \in [Workers -> WorkerSteps] /\ faults \in Nat /\ wake \in SUBSET Workers
        /\ hints \in SUBSET Workers
    BY QueueAssumption DEF QueueInv, TypeOK
  <2>2. SUFFICES ASSUME faults' = 0, NEW j \in Jobs, Due(j)', jobs'[j].when = "now", ~Locked(j)',
                        NEW w \in Workers, pc'[w] \in {"empty", "asleep"}
                 PROVE  w \in wake' \cup hints'
    BY DEF HintKept
  <2>3. CASE CommitEnqueue(j)
    BY <2>3 DEF CommitEnqueue
  <2>4. CASE ~CommitEnqueue(j)
    <3>1. \A v \in Workers : ~(Kill(v) \/ Shutdown(v) \/ ClaimFails(v) \/ LoseHint(v))
      BY <2>1, <2>2 DEF Kill, Shutdown, ClaimFails, LoseHint, Fault
    <3>2. faults' = faults
      BY <1>2, <3>1 DEF Next, Work, ClearWake, Claim, ClaimFrom, CommitClaim, Succeed, FailRetry,
         FailForGood, Finish, FailUnstamped, Sleep, WakeUp, Restart, Timer, Sweep, Reclaim, Deliver,
         Enqueue, CommitEnqueue, RollbackEnqueue, LeaseExpires, RunAfterPasses
    <3>3. Due(j) /\ jobs[j].when = "now" /\ ~Locked(j)
      BY <1>2, <2>2, <2>4, <3>2, StillDue
    <3>4. pc[w] \in {"empty", "asleep"} => w \in wake \cup hints
      BY <2>2, <3>2, <3>3 DEF HintKept
    <3>5. ASSUME NEW v \in Workers, ClearWake(v) \/ WakeUp(v) \/ Restart(v)
          PROVE  w \in wake' \cup hints'
      <4>1. v # w /\ pc'[w] = pc[w]
        BY <2>1, <2>2, <3>5 DEF ClearWake, WakeUp, Restart, Goto
      <4>2. QED
        BY <2>2, <3>4, <3>5, <4>1 DEF ClearWake, WakeUp, Restart
    <3>6. ASSUME NEW v \in Workers,
                 \/ CommitClaim(v) \/ Timer(v) \/ Sweep(v)
                 \/ Succeed(v) \/ FailRetry(v) \/ FailForGood(v) \/ FailUnstamped(v)
          PROVE  w \in wake' \cup hints'
      <4>1. pc'[w] = pc[w] /\ UNCHANGED <<wake, hints>>
        BY <2>1, <2>2, <3>6 DEF CommitClaim, Timer, Sweep, Reclaim, Succeed, FailRetry,
           FailForGood, FailUnstamped, Finish, Leave, Goto
      <4>2. QED
        BY <2>2, <3>4, <4>1
    <3>7. ASSUME NEW v \in Workers, Claim(v)
          PROVE  w \in wake' \cup hints'
      <4>1. Goto(v, "claimed")
        BY <3>3, <3>7 DEF Claim, ClaimFrom
      <4>2. pc'[w] = pc[w] /\ UNCHANGED <<wake, hints>>
        BY <2>1, <2>2, <3>7, <4>1 DEF Claim, ClaimFrom, Goto
      <4>3. QED
        BY <2>2, <3>4, <4>2
    <3>8. ASSUME NEW v \in Workers, Sleep(v)
          PROVE  w \in wake' \cup hints'
      <4>1. pc[w] \in {"empty", "asleep"} /\ UNCHANGED <<wake, hints>>
        BY <2>1, <2>2, <3>8 DEF Sleep, Goto
      <4>2. QED
        BY <3>4, <4>1
    <3>9. ASSUME NEW v \in Workers, Deliver(v)
          PROVE  w \in wake' \cup hints'
      BY <2>2, <3>4, <3>9 DEF Deliver
    <3>10. ASSUME NEW k \in Jobs,
                  \/ Enqueue(k) \/ CommitEnqueue(k) \/ RollbackEnqueue(k)
                  \/ LeaseExpires(k) \/ RunAfterPasses(k)
           PROVE  w \in wake' \cup hints'
      BY <2>2, <3>4, <3>10 DEF Enqueue, CommitEnqueue, RollbackEnqueue, LeaseExpires, RunAfterPasses
    <3>11. QED
      BY <1>2, <3>1, <3>5, <3>6, <3>7, <3>8, <3>9, <3>10 DEF Next, Work
  <2>5. QED
    BY <2>3, <2>4
<1>3. QED
  BY <1>1, <1>2

(* The lost-wakeup rule: while nothing has gone wrong, the workers are      *)
(* never all asleep without a hint beside a job that is due (main.py,      *)
(* "clear BEFORE each claim attempt").                                     *)
THEOREM NoHintLost == Spec => []NoStrandedJob
<1>1. Init => HintKept
  BY DEF Init, HintKept
<1>2. QueueInv /\ HintKept /\ [Next]_vars => HintKept'
  BY HintStays
<1>3. QueueInv /\ HintKept => NoStrandedJob
  <2>1. SUFFICES ASSUME HintKept, faults = 0, NEW j \in Jobs, Due(j), jobs[j].when = "now",
                        \A w \in Workers : pc[w] = "asleep" /\ w \notin wake \cup hints
                 PROVE  FALSE
    BY DEF NoStrandedJob
  <2>2. ~Locked(j)
    BY <2>1 DEF Locked
  <2>3. QED
    BY <2>1, <2>2, QueueAssumption DEF HintKept
<1>4. QED
  BY <1>1, <1>2, <1>3, QueueInvariant, PTL DEF Spec
=============================================================================
