------------------------------ MODULE JobQueue ------------------------------
(***************************************************************************)
(* The Postgres job queue and its wake hints: transactions that enqueue    *)
(* under a dedupe key, workers that claim, run and finish, the lease and   *)
(* the sweep that reclaims it, and the hints that spare the workers        *)
(* polling.                                                                *)
(*                                                                         *)
(* internal/memory/repos.py (jobs), cmd/worker/main.py,                    *)
(* internal/memory/wake.py.                                                *)
(*                                                                         *)
(* A job is named by its dedupe key.  What a worker holds is a claim: a    *)
(* job and the attempt it counts.  The lease of a claim runs out 15        *)
(* minutes after it was taken, whether or not the worker is still there.   *)
(***************************************************************************)
EXTENDS Naturals

CONSTANTS
    Jobs,           \* dedupe keys
    Workers,        \* cmd.worker serve processes
    NoWorker,       \* locked_by = NULL
    MaxAttempts,    \* max_attempts of every job
    MaxTries,       \* bound on the attempts that are explored
    MaxFaults,      \* bound on kills, shutdowns, failed claims, lost hints
    Slow            \* whether a handler may outlive its lease

ASSUME QueueAssumption ==
    /\ NoWorker \notin Workers /\ Workers # {}
    /\ MaxAttempts \in Nat \ {0} /\ MaxTries \in Nat \ {0}
    /\ MaxFaults \in Nat
    /\ Slow \in BOOLEAN

VARIABLES
    jobs,       \* committed jobs rows
    inserting,  \* the keys of jobs inserted but not yet committed
    pc,         \* where each worker is
    mine,       \* the claim each worker holds
    wake,       \* the workers whose wake event is set
    hints,      \* the workers a hint is on its way to
    overrun,    \* the jobs that were ever handled beyond their lease
    faults      \* how much has gone wrong

vars == <<jobs, inserting, pc, mine, wake, hints, overrun, faults>>

Status == {"absent", "pending", "running", "succeeded", "failed"}

(* run_after of a job: reached when it was enqueued, still to come, or     *)
(* reached since.  stale: locked_at is older than the lease.               *)
Job == [status : Status, attempts : 0..MaxTries, by : Workers \cup {NoWorker},
        when : {"now", "later", "past"}, stale : BOOLEAN]
NoJob == [status |-> "absent", attempts |-> 0, by |-> NoWorker,
          when |-> "now", stale |-> FALSE]

NoClaim == <<>>
Claims == Jobs \X (1..MaxTries)

(* A worker at "claimed" has an open transaction that locks its job's row. *)
Holding == {"claimed", "handling"}
Waiting == {"asleep", "backoff"}
WorkerSteps == {"top", "claim", "empty", "down"} \cup Holding \cup Waiting

Locked(j) == \E w \in Workers : pc[w] = "claimed" /\ mine[w][1] = j
Due(j) == /\ jobs[j].status = "pending" /\ jobs[j].when # "later"
          /\ jobs[j].attempts < MaxTries

(* The row of a job whose lease is given up.                               *)
Released(j) == [jobs[j] EXCEPT !.status = "pending", !.by = NoWorker, !.stale = FALSE]

Goto(w, where) == pc' = [pc EXCEPT ![w] = where]

(* The worker leaves the job it holds.                                     *)
Leave(w, where) ==
    /\ Goto(w, where)
    /\ mine' = [mine EXCEPT ![w] = NoClaim]

----------------------------------------------------------------------------
(* Enqueueing.                                                             *)

(* enqueue_job: INSERT ... ON CONFLICT DO NOTHING.  It does nothing when   *)
(* the row exists, and waits for a transaction that inserts the same key.  *)
Enqueue(j) ==
    /\ jobs[j].status = "absent" /\ j \notin inserting
    /\ inserting' = inserting \cup {j}
    /\ UNCHANGED <<jobs, pc, mine, wake, hints, overrun, faults>>

(* The commit makes the job visible and emits the hint.                    *)
CommitEnqueue(j) ==
    /\ j \in inserting
    /\ \E due \in {"now", "later"} :
          jobs' = [jobs EXCEPT ![j] = [NoJob EXCEPT !.status = "pending", !.when = due]]
    /\ inserting' = inserting \ {j}
    /\ hints' = Workers
    /\ UNCHANGED <<pc, mine, wake, overrun, faults>>

(* A rollback leaks no hint.                                               *)
RollbackEnqueue(j) ==
    /\ j \in inserting
    /\ inserting' = inserting \ {j}
    /\ UNCHANGED <<jobs, pc, mine, wake, hints, overrun, faults>>

(* NOTIFY or kick reaches the worker, which may be down.                   *)
Deliver(w) ==
    /\ w \in hints
    /\ hints' = hints \ {w}
    /\ wake' = IF pc[w] = "down" THEN wake ELSE wake \cup {w}
    /\ UNCHANGED <<jobs, inserting, pc, mine, overrun, faults>>

----------------------------------------------------------------------------
(* One round of a worker's drain loop.                                     *)

(* "clear BEFORE each claim attempt".                                      *)
ClearWake(w) ==
    /\ pc[w] = "top"
    /\ wake' = wake \ {w}
    /\ Goto(w, "claim")
    /\ UNCHANGED <<jobs, inserting, mine, hints, overrun, faults>>

(* A claim of one of the candidate jobs, or of none when there is none.    *)
ClaimFrom(w, candidates) ==
    /\ pc[w] = "claim"
    /\ \/ \E j \in candidates :
            /\ mine' = [mine EXCEPT ![w] = <<j, jobs[j].attempts + 1>>]
            /\ Goto(w, "claimed")
       \/ /\ candidates = {}
          /\ Goto(w, "empty")
          /\ UNCHANGED mine
    /\ UNCHANGED <<jobs, inserting, wake, hints, overrun, faults>>

(* The SELECT of a pair of statements: nothing is locked or skipped.       *)
ClaimUnlocked(w) == ClaimFrom(w, {j \in Jobs : Due(j)})

(* claim_next_job: UPDATE ... FOR UPDATE SKIP LOCKED of a due job.         *)
Claim(w) == ClaimFrom(w, {j \in Jobs : Due(j) /\ ~Locked(j)})

(* The claim forgets locked_by and locked_at.                              *)
CommitClaimUnstamped(w) ==
    /\ pc[w] = "claimed"
    /\ jobs' = [jobs EXCEPT ![mine[w][1]] =
                  [status |-> "running", attempts |-> mine[w][2], by |-> NoWorker,
                   when |-> "past", stale |-> FALSE]]
    /\ Goto(w, "handling")
    /\ UNCHANGED <<inserting, mine, wake, hints, overrun, faults>>

CommitClaim(w) ==
    /\ pc[w] = "claimed"
    /\ jobs' = [jobs EXCEPT ![mine[w][1]] =
                  [status |-> "running", attempts |-> mine[w][2], by |-> w,
                   when |-> "past", stale |-> FALSE]]
    /\ Goto(w, "handling")
    /\ UNCHANGED <<inserting, mine, wake, hints, overrun, faults>>

(* finish_job stamps the outcome on the row, whoever holds it by now; the  *)
(* attempt that decides about a retry is the worker's own.                 *)
Finish(w, stamp) ==
    /\ pc[w] = "handling" /\ ~Locked(mine[w][1])
    /\ jobs' = [jobs EXCEPT ![mine[w][1]] = stamp]
    /\ Leave(w, "top")
    /\ UNCHANGED <<inserting, wake, hints, overrun, faults>>

Succeed(w) == Finish(w, [jobs[mine[w][1]] EXCEPT !.status = "succeeded"])

FailRetry(w) ==
    /\ pc[w] = "handling" /\ mine[w][2] < MaxAttempts
    /\ Finish(w, [Released(mine[w][1]) EXCEPT !.when = "later"])

FailForGood(w) ==
    /\ pc[w] = "handling" /\ mine[w][2] >= MaxAttempts
    /\ Finish(w, [jobs[mine[w][1]] EXCEPT !.status = "failed"])

(* The handler raised with a transaction open on the worker's session: the *)
(* rollback expires the job, finish_job's read of job.attempts raises, and *)
(* the tick ends without a stamp.                                          *)
FailUnstamped(w) ==
    /\ pc[w] = "handling"
    /\ Leave(w, "backoff")
    /\ UNCHANGED <<jobs, inserting, wake, hints, overrun, faults>>

(* The event is cleared once the claim came back empty.                    *)
SleepClearing(w) ==
    /\ pc[w] = "empty"
    /\ Goto(w, "asleep")
    /\ wake' = wake \ {w}
    /\ UNCHANGED <<jobs, inserting, mine, hints, overrun, faults>>

Sleep(w) ==
    /\ pc[w] = "empty"
    /\ Goto(w, "asleep")
    /\ UNCHANGED <<jobs, inserting, mine, wake, hints, overrun, faults>>

(* wait_for_trigger: a hint consumes the event.                            *)
WakeUp(w) ==
    /\ pc[w] \in Waiting /\ w \in wake
    /\ wake' = wake \ {w}
    /\ Goto(w, "top")
    /\ UNCHANGED <<jobs, inserting, mine, hints, overrun, faults>>

(* Its timeout, before the next reclaim is due.                            *)
Timer(w) ==
    /\ pc[w] \in Waiting
    /\ Goto(w, "top")
    /\ UNCHANGED <<jobs, inserting, mine, wake, hints, overrun, faults>>

(* The reclaim of the given jobs.                                          *)
Reclaim(w, lost) ==
    /\ jobs' = [j \in Jobs |-> IF j \in lost THEN Released(j) ELSE jobs[j]]
    /\ Goto(w, "top")
    /\ UNCHANGED <<inserting, mine, wake, hints, overrun, faults>>

(* Plausible slips: no age condition, and no status condition.             *)
SweepEverything(w) ==
    /\ pc[w] \in Waiting \cup {"top"}
    /\ Reclaim(w, {j \in Jobs : jobs[j].status = "running"})

SweepSettled(w) ==
    /\ pc[w] \in Waiting \cup {"top"}
    /\ Reclaim(w, {j \in Jobs : jobs[j].stale})

(* reclaim_stale_jobs: on the timeout, or at the top of the loop while no  *)
(* lane is up.                                                             *)
Sweep(w) ==
    /\ pc[w] \in Waiting \cup {"top"}
    /\ Reclaim(w, {j \in Jobs : jobs[j].status = "running" /\ jobs[j].stale})

----------------------------------------------------------------------------
(* Time and faults.                                                        *)

Handled(j) == \E w \in Workers :
                 pc[w] = "handling" /\ mine[w] = <<j, jobs[j].attempts>>

(* 15 minutes have passed since locked_at, which a settled job keeps.      *)
LeaseExpires(j) ==
    /\ jobs[j].by # NoWorker /\ ~jobs[j].stale
    /\ Slow \/ ~Handled(j)
    /\ jobs' = [jobs EXCEPT ![j].stale = TRUE]
    /\ overrun' = IF Handled(j) THEN overrun \cup {j} ELSE overrun
    /\ UNCHANGED <<inserting, pc, mine, wake, hints, faults>>

RunAfterPasses(j) ==
    /\ jobs[j].status = "pending" /\ jobs[j].when = "later"
    /\ jobs' = [jobs EXCEPT ![j].when = "past"]
    /\ UNCHANGED <<inserting, pc, mine, wake, hints, overrun, faults>>

Fault ==
    /\ faults < MaxFaults
    /\ faults' = faults + 1

(* A hard kill, at any point; an uncommitted claim is rolled back.         *)
Kill(w) ==
    /\ Fault
    /\ pc[w] # "down"
    /\ Leave(w, "down")
    /\ UNCHANGED <<jobs, inserting, wake, hints, overrun>>

(* SIGTERM: no more claims, the job in flight is finished first.           *)
Shutdown(w) ==
    /\ Fault
    /\ pc[w] \in Waiting \cup {"top"}
    /\ Goto(w, "down")
    /\ UNCHANGED <<jobs, inserting, mine, wake, hints, overrun>>

(* The failed claim's row stays in the worker's hands.                     *)
ClaimFailsKeeping(w) ==
    /\ Fault
    /\ pc[w] \in {"claim", "claimed"}
    /\ Goto(w, "backoff")
    /\ UNCHANGED <<jobs, inserting, mine, wake, hints, overrun>>

(* The claim raises: the tick is logged and counts as empty.               *)
ClaimFails(w) ==
    /\ Fault
    /\ pc[w] \in {"claim", "claimed"}
    /\ Leave(w, "backoff")
    /\ UNCHANGED <<jobs, inserting, wake, hints, overrun>>

LoseHint(w) ==
    /\ Fault
    /\ w \in hints
    /\ hints' = hints \ {w}
    /\ UNCHANGED <<jobs, inserting, pc, mine, wake, overrun>>

Restart(w) ==
    /\ pc[w] = "down"
    /\ Goto(w, "top")
    /\ wake' = wake \ {w}
    /\ UNCHANGED <<jobs, inserting, mine, hints, overrun, faults>>

----------------------------------------------------------------------------

Init ==
    /\ jobs = [j \in Jobs |-> NoJob]
    /\ inserting = {}
    /\ pc = [w \in Workers |-> "top"]
    /\ mine = [w \in Workers |-> NoClaim]
    /\ wake = {} /\ hints = {}
    /\ overrun = {}
    /\ faults = 0

Work(w) ==
    \/ ClearWake(w) \/ Claim(w) \/ CommitClaim(w)
    \/ Succeed(w) \/ FailRetry(w) \/ FailForGood(w) \/ FailUnstamped(w)
    \/ Sleep(w) \/ WakeUp(w) \/ Restart(w)

Next ==
    \/ \E w \in Workers :
          \/ Work(w) \/ Timer(w) \/ Sweep(w) \/ Deliver(w)
          \/ Kill(w) \/ Shutdown(w) \/ ClaimFails(w) \/ LoseHint(w)
    \/ \E j \in Jobs :
          \/ Enqueue(j) \/ CommitEnqueue(j) \/ RollbackEnqueue(j)
          \/ LeaseExpires(j) \/ RunAfterPasses(j)

Spec == Init /\ [][Next]_vars

(* Workers run and are restarted, handlers end and leases run out.  A      *)
(* worker that keeps coming back to its waits keeps sweeping: the reclaim  *)
(* interval is real time, and rounds that end before it are finitely many. *)
FairSpec ==
    /\ Spec
    /\ \A w \in Workers : WF_vars(Work(w)) /\ SF_vars(Sweep(w))
    /\ \A j \in Jobs : WF_vars(LeaseExpires(j))

----------------------------------------------------------------------------
(* Properties.                                                             *)

(* Every variable holds a value of its kind, and exactly the workers       *)
(* between a claim and its outcome hold one.                               *)
TypeOK ==
    /\ jobs \in [Jobs -> Job]
    /\ inserting \in SUBSET Jobs /\ overrun \in SUBSET Jobs
    /\ pc \in [Workers -> WorkerSteps]
    /\ mine \in [Workers -> Claims \cup {NoClaim}]
    /\ \A w \in Workers : pc[w] \in Holding <=> mine[w] # NoClaim
    /\ wake \in SUBSET Workers /\ hints \in SUBSET Workers
    /\ faults \in 0..MaxFaults

(* Concurrent workers never claim the same row: no attempt is run twice,   *)
(* whatever is killed, reclaimed or finished late.                         *)
EachAttemptOnce ==
    \A v, w \in Workers :
        pc[v] \in Holding /\ pc[w] \in Holding /\ mine[v] = mine[w] => v = w

(* The lease is a worker's only protection: as long as no handler of the   *)
(* job has outlived its own, the row a handler works on is its own, across *)
(* kills, reclaims and retries, so nobody else runs the job or stamps an   *)
(* outcome on it.                                                          *)
HandlerOwnsRow ==
    \A w \in Workers :
        pc[w] = "handling" =>
            LET j == mine[w][1]
            IN  \/ j \in overrun
                \/ /\ jobs[j].status = "running" /\ jobs[j].by = w
                   /\ jobs[j].attempts = mine[w][2]

(* A job that has succeeded or failed keeps its outcome and is not run     *)
(* again, unless a handler of it has outlived its lease.                   *)
SettledStays ==
    [][\A j \in Jobs :
         jobs[j].status \in {"succeeded", "failed"} /\ j \notin overrun
           => jobs'[j] = [jobs[j] EXCEPT !.stale = jobs'[j].stale]]_vars

(* The lost-wakeup rule: as long as nothing has gone wrong, the workers    *)
(* are never all asleep, with no hint set or on its way, while a job that  *)
(* was due when it was enqueued is left for the next sweep.                *)
NoStrandedJob ==
    /\ faults = 0
    /\ \A w \in Workers : pc[w] = "asleep" /\ w \notin wake \cup hints
    => \A j \in Jobs : ~(Due(j) /\ jobs[j].when = "now")

(* A crashed worker does not wedge the queue: a job does not stay running. *)
NotWedged == \A j \in Jobs : jobs[j].status = "running" ~> jobs[j].status # "running"

----------------------------------------------------------------------------
(* What makes the safety properties inductive.                             *)

(* An open insert has no row yet.                                          *)
InsertingAbsent == \A j \in inserting : jobs[j].status = "absent"

(* A claim that is not committed counts the attempt after the row's, and   *)
(* its row is pending and locked by nobody else.                           *)
ClaimsLock ==
    /\ \A w \in Workers : pc[w] = "claimed" =>
          /\ jobs[mine[w][1]].status = "pending"
          /\ mine[w][2] = jobs[mine[w][1]].attempts + 1
    /\ \A v, w \in Workers :
          pc[v] = "claimed" /\ pc[w] = "claimed" /\ mine[v][1] = mine[w][1] => v = w

(* A handler's attempt has been counted.                                   *)
AttemptsCounted ==
    \A w \in Workers : pc[w] = "handling" =>
        /\ jobs[mine[w][1]].status # "absent"
        /\ mine[w][2] <= jobs[mine[w][1]].attempts

(* A running job's due time has passed before its claim.                   *)
RunningIsPast == \A j \in Jobs : jobs[j].status = "running" => jobs[j].when # "now"

(* The lease of a job that was never overrun outlives its handlers.        *)
LeaseKept ==
    \A w \in Workers :
        pc[w] = "handling" /\ mine[w][1] \notin overrun => ~jobs[mine[w][1]].stale

QueueInv ==
    /\ TypeOK /\ InsertingAbsent /\ ClaimsLock /\ AttemptsCounted /\ RunningIsPast
    /\ EachAttemptOnce /\ HandlerOwnsRow /\ LeaseKept

(* As long as nothing has gone wrong, a job that was due from the start    *)
(* and has not been claimed is still ahead of every worker that is about   *)
(* to sleep or asleep: the worker has a hint, or one is on its way.        *)
HintKept ==
    faults = 0 =>
        \A j \in Jobs : Due(j) /\ jobs[j].when = "now" /\ ~Locked(j) =>
            \A w \in Workers : pc[w] \in {"empty", "asleep"} => w \in wake \cup hints

----------------------------------------------------------------------------
(* What the documents promise and the code does not keep.                  *)

(* ADR 0039: failures return to pending while attempts < max_attempts,     *)
(* "then land failed".                                                     *)
AttemptsBounded == \A j \in Jobs : jobs[j].attempts <= MaxAttempts

=============================================================================
