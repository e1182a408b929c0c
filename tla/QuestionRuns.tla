---------------------------- MODULE QuestionRuns ----------------------------
(***************************************************************************)
(* The fills of one company's recommended questions: requests and the      *)
(* scheduler enqueue jobs, workers (and the ops CLI, which has no job)     *)
(* execute them as runs, and everybody who meets a running row decides     *)
(* whether to join it, to abandon it as a zombie or to expire it.          *)
(*                                                                         *)
(* internal/perception/question_graph/runner.py, question_generator.py,    *)
(* cmd/api/routes/questions.py, internal/memory/repos.py (question runs).  *)
(*                                                                         *)
(* A row is read, judged and written in steps of their own: a read takes   *)
(* no lock, and finish_question_run updates by id whatever the row has     *)
(* become.  What the graph does in between is QuestionPipeline.            *)
(***************************************************************************)
EXTENDS Naturals, FiniteSets

CONSTANTS
    Workers,    \* cmd.worker serve processes
    Clis,       \* ops CLI executions, without a job
    Requests,   \* API requests in flight
    Jobs,       \* bound on the questions jobs that matter at a time
    Runs,       \* bound on the question_runs rows that matter at a time
    None,       \* no run, no job
    MaxFaults   \* bound on the crashes

ASSUME RunsAssumption ==
    /\ Workers \cap (Clis \cup Requests) = {} /\ Clis \cap Requests = {}
    /\ None \notin Jobs \cup Runs
    /\ MaxFaults \in Nat

VARIABLES
    runs,    \* question_runs rows: status and age
    latest,  \* the row started last
    cached,  \* whether recommended_questions has a row
    jobs,    \* questions jobs: status, trigger, whether the lease is fresh
    pc,      \* where each actor is
    job,     \* the job a worker serves
    seen,    \* the running row an actor has read, or the one it executes
    faults   \* crashes so far

vars == <<runs, latest, cached, jobs, pc, job, seen, faults>>

Executors == Workers \cup Clis
Actors == Executors \cup Requests
Triggers == {"get_miss", "refresh", "scheduler"}

(* Age of a run: up to 45 s, 2 minutes, question_run_stale_minutes (8), or *)
(* more; the first two are _REFRESH_ and _JOIN_ABANDON_AFTER.              *)
Ages == {"new", "mid", "old", "stale"}
Run == [status : {"absent", "running", "succeeded", "failed"}, age : Ages]
Job == [status : {"absent", "pending", "running"},
        trigger : Triggers, fresh : BOOLEAN]
(* A job that is done is forgotten, but for its key.                       *)
NoJob == [status |-> "absent", trigger |-> "scheduler", fresh |-> FALSE]

NoRun == [status |-> "absent", age |-> "new"]

Steps == {"idle", "see", "sweep", "check", "write", "start",
          "running", "closing"}

Active == {r \in Runs : runs[r].status = "running"}
Executing(a) == pc[a] = "running"
Settled(r, s) == [runs EXCEPT ![r] = [status |-> s, age |-> "new"]]
Goto(a, where) == pc' = [pc EXCEPT ![a] = where]

(* The trigger an actor works for: a request is a POST refresh or a GET    *)
(* without a cached row; the CLI forces a refresh.                         *)
Trigger(a) == IF a \in Workers THEN jobs[job[a]].trigger
              ELSE IF a \in Clis THEN "refresh" ELSE job[a]

----------------------------------------------------------------------------
(* Jobs.                                                                   *)

(* enqueue_job under the key <company, trigger, minute or interval>.       *)
Insert(t) ==
    LET free == {j \in Jobs : jobs[j].status = "absent" /\ \A w \in Workers : job[w] # j}
        new == CHOOSE j \in free : TRUE
    IN  /\ free # {}
        /\ jobs' = [jobs EXCEPT ![new] =
                      [status |-> "pending", trigger |-> t, fresh |-> FALSE]]

(* A request inserts nothing when the key of this minute is taken, be the  *)
(* job pending, running or done.                                           *)
Enqueue(t) == Insert(t) \/ UNCHANGED jobs

(* The questions cycle of the scheduler: a key of its own every interval.  *)
Tick ==
    /\ Insert("scheduler")
    /\ UNCHANGED <<runs, latest, cached, pc, job, seen, faults>>

(* has_live_questions_job: pending, or running under a fresh lease.        *)
HasLiveJob(but) ==
    \E j \in Jobs \ {but} :
        jobs[j].status = "pending" \/ (jobs[j].status = "running" /\ jobs[j].fresh)

(* The worker claims a job; a job whose lease ran out is pending again.    *)
Claim(w) ==
    /\ w \in Workers /\ pc[w] = "idle"
    /\ \E j \in Jobs :
         /\ jobs[j].status = "pending" \/ (jobs[j].status = "running" /\ ~jobs[j].fresh)
         /\ \A v \in Workers : job[v] # j
         /\ jobs' = [jobs EXCEPT ![j].status = "running", ![j].fresh = TRUE]
         /\ job' = [job EXCEPT ![w] = j]
    /\ Goto(w, "see")
    /\ UNCHANGED <<runs, latest, cached, seen, faults>>

(* The handler returned, whatever became of the run: the job is done.      *)
CloseJob(w) ==
    /\ pc[w] = "closing"
    /\ jobs' = IF w \in Workers THEN [jobs EXCEPT ![job[w]] = NoJob] ELSE jobs
    /\ job' = [job EXCEPT ![w] = None]
    /\ Goto(w, "idle")
    /\ UNCHANGED <<runs, latest, cached, seen, faults>>

----------------------------------------------------------------------------
(* Reading the running row: _sweep_stale_run, _should_abandon.             *)

(* GET without a cached row, unless the last run failed.                   *)
GetMiss(q) ==
    /\ q \in Requests /\ pc[q] = "idle"
    /\ ~cached
    /\ latest # None => runs[latest].status # "failed"
    /\ job' = [job EXCEPT ![q] = "get_miss"]
    /\ Goto(q, "see")
    /\ UNCHANGED <<runs, latest, cached, jobs, seen, faults>>

PostRefresh(q) ==
    /\ q \in Requests /\ pc[q] = "idle"
    /\ job' = [job EXCEPT ![q] = "refresh"]
    /\ Goto(q, "see")
    /\ UNCHANGED <<runs, latest, cached, jobs, seen, faults>>

CliStarts(c) ==
    /\ c \in Clis /\ pc[c] = "idle"
    /\ Goto(c, "see")
    /\ UNCHANGED <<runs, latest, cached, jobs, job, seen, faults>>

(* _should_abandon; the process of the actor executes no run while the     *)
(* actor looks, so _live_run_ids spares none.                              *)
OldEnough(a, r) == IF Trigger(a) = "refresh" THEN runs[r].age # "new"
                   ELSE runs[r].age \in {"old", "stale"}

(* A request answers 202; an executor skips the fill, and its job is done  *)
(* (or, were it unfinished, left running).                                 *)
Answer(q) == Goto(q, "idle") /\ job' = [job EXCEPT ![q] = None]
SkipUnfinished(a) == Goto(a, "idle") /\ UNCHANGED job
Skip(a) == Goto(a, "closing") /\ UNCHANGED job
Join(a) == IF a \in Requests THEN Answer(a) ELSE Skip(a)
Continue(a, where) == Goto(a, where) /\ UNCHANGED job

See(a) ==
    /\ pc[a] = "see"
    /\ \/ /\ Active = {}
          /\ Continue(a, "start")
          /\ UNCHANGED seen
       \/ \E r \in Active :
            IF runs[r].age = "stale" \/ OldEnough(a, r)
            THEN /\ Continue(a, IF runs[r].age = "stale" THEN "sweep" ELSE "check")
                 /\ seen' = [seen EXCEPT ![a] = r]
            ELSE Join(a) /\ UNCHANGED seen
    /\ UNCHANGED <<runs, latest, cached, jobs, faults>>

(* The sweep is rolled back with its session.                              *)
SweepStaleUncommitted(a) ==
    /\ pc[a] = "sweep"
    /\ seen' = [seen EXCEPT ![a] = None]
    /\ Goto(a, "start")
    /\ UNCHANGED <<runs, latest, cached, jobs, job, faults>>

(* "stale: exceeded max run time".                                         *)
SweepStale(a) ==
    /\ pc[a] = "sweep"
    /\ runs' = Settled(seen[a], "failed")
    /\ seen' = [seen EXCEPT ![a] = None]
    /\ Goto(a, "start")
    /\ UNCHANGED <<latest, cached, jobs, job, faults>>

(* A fill that a job covers is joined.                                     *)
CheckWith(a, covered) ==
    /\ pc[a] = "check"
    /\ IF covered THEN Join(a) /\ seen' = [seen EXCEPT ![a] = None]
       ELSE Continue(a, "write") /\ UNCHANGED seen
    /\ UNCHANGED <<runs, latest, cached, jobs, faults>>

(* The check of _live_run_ids alone: only this process's fills are seen.   *)
CheckOwnProcess(a) == CheckWith(a, FALSE)

Check(a) == CheckWith(a, HasLiveJob(IF a \in Workers THEN job[a] ELSE None))

(* "abandoned: worker lost the run"; a request commits it with its job.    *)
Abandon(a) ==
    /\ pc[a] = "write"
    /\ runs' = Settled(seen[a], "failed")
    /\ seen' = [seen EXCEPT ![a] = None]
    /\ IF a \in Requests
       THEN Enqueue(Trigger(a)) /\ Answer(a)
       ELSE Continue(a, "start") /\ UNCHANGED jobs
    /\ UNCHANGED <<latest, cached, faults>>

----------------------------------------------------------------------------
(* Starting and executing a run.                                           *)

EnqueueFill(q) ==
    /\ q \in Requests /\ pc[q] = "start"
    /\ Enqueue(Trigger(q))
    /\ Answer(q)
    /\ UNCHANGED <<runs, latest, cached, seen, faults>>

Free(r) == /\ runs[r].status # "running" /\ r # latest
           /\ \A a \in Actors : seen[a] # r

(* A new row; the rows nobody refers to any more are forgotten.            *)
WithRun(r) == [x \in Runs |->
    IF x = r THEN [status |-> "running", age |-> "new"]
    ELSE IF Free(x) THEN NoRun ELSE runs[x]]

(* create_question_run under uq_question_runs_active_company: a second     *)
(* running row is an IntegrityError, and the first one is joined.          *)
StartRunWith(a, unique) ==
    /\ a \in Executors /\ pc[a] = "start"
    /\ \/ /\ unique /\ Active # {}
          /\ Goto(a, "closing")
          /\ UNCHANGED <<runs, latest, seen>>
       \/ /\ unique => Active = {}
          /\ LET free == {r \in Runs : Free(r)}
                 r == CHOOSE x \in free : TRUE
             IN  /\ free # {}
                 /\ runs' = WithRun(r)
                 /\ latest' = r
                 /\ seen' = [seen EXCEPT ![a] = r]
          /\ Goto(a, "running")
    /\ UNCHANGED <<cached, jobs, job, faults>>

(* Without the partial unique index.                                       *)
StartRunUnindexed(a) == StartRunWith(a, FALSE)

StartRun(a) == StartRunWith(a, TRUE)

(* _execute ends with cards: they and the run are committed together.      *)
Succeed(a) ==
    /\ Executing(a)
    /\ cached' = TRUE
    /\ runs' = Settled(seen[a], "succeeded")
    /\ seen' = [seen EXCEPT ![a] = None]
    /\ Goto(a, "closing")
    /\ UNCHANGED <<latest, jobs, job, faults>>

(* No cards, a timeout of the graph, or an error: _execute_guarded.        *)
Fail(a) ==
    /\ Executing(a)
    /\ runs' = IF runs[seen[a]].status = "running" THEN Settled(seen[a], "failed") ELSE runs
    /\ seen' = [seen EXCEPT ![a] = None]
    /\ Goto(a, "closing")
    /\ UNCHANGED <<latest, cached, jobs, job, faults>>

----------------------------------------------------------------------------
(* Crashes and time.                                                       *)

(* What the process held is gone; a worker that is started again is idle.  *)
Crash(a) ==
    /\ pc[a] # "idle" /\ faults < MaxFaults
    /\ faults' = faults + 1
    /\ Goto(a, "idle")
    /\ job' = [job EXCEPT ![a] = None]
    /\ seen' = [seen EXCEPT ![a] = None]
    /\ UNCHANGED <<runs, latest, cached, jobs>>

(* _GRAPH_TIMEOUT (6 minutes) ends an execution before its run is stale.   *)
Grow(r) ==
    /\ runs[r].status = "running" /\ runs[r].age # "stale"
    /\ runs[r].age = "old" => \A a \in Executors : ~(Executing(a) /\ seen[a] = r)
    /\ runs' = [runs EXCEPT ![r].age =
                  CASE @ = "new" -> "mid" [] @ = "mid" -> "old" [] @ = "old" -> "stale"]
    /\ UNCHANGED <<latest, cached, jobs, pc, job, seen, faults>>

(* A lease (15 minutes) outlives what its worker executes and, when the    *)
(* worker is dead, the staleness of the run it left.                       *)
LeaseRunsOut(j) ==
    /\ jobs[j].status = "running" /\ jobs[j].fresh
    /\ \A w \in Workers : job[w] # j
    /\ \A r \in Active : runs[r].age = "stale" \/ \E a \in Executors : Executing(a)
    /\ jobs' = [jobs EXCEPT ![j].fresh = FALSE]
    /\ UNCHANGED <<runs, latest, cached, pc, job, seen, faults>>

----------------------------------------------------------------------------
Init ==
    /\ runs = [r \in Runs |-> NoRun]
    /\ latest = None
    /\ cached = FALSE
    /\ jobs = [j \in Jobs |-> NoJob]
    /\ pc = [a \in Actors |-> "idle"]
    /\ job = [a \in Actors |-> None]
    /\ seen = [a \in Actors |-> None]
    /\ faults = 0

Step(a) == See(a) \/ SweepStale(a) \/ Check(a) \/ Abandon(a) \/ EnqueueFill(a)
           \/ StartRun(a) \/ Succeed(a) \/ Fail(a) \/ CloseJob(a)

Next ==
    \/ Tick
    \/ \E w \in Workers : Claim(w)
    \/ \E q \in Requests : GetMiss(q) \/ PostRefresh(q)
    \/ \E c \in Clis : CliStarts(c)
    \/ \E a \in Actors : Step(a) \/ Crash(a)
    \/ \E r \in Runs : Grow(r)
    \/ \E j \in Jobs : LeaseRunsOut(j)

(* Processes go on, dead workers are started again, time passes and the    *)
(* scheduler ticks; no user has to come back.                              *)
Fairness ==
    /\ WF_vars(Tick)
    /\ \A w \in Workers : WF_vars(Claim(w))
    /\ \A a \in Actors : WF_vars(Step(a))
    /\ \A r \in Runs : WF_vars(Grow(r))
    /\ \A j \in Jobs : WF_vars(LeaseRunsOut(j))

Spec == Init /\ [][Next]_vars /\ Fairness

----------------------------------------------------------------------------
(* Properties.                                                             *)

(* Types, and what an actor holds at each step of run_company_now: a row   *)
(* when it is to be swept, judged, abandoned or executed; a job of its own *)
(* while a worker is busy.                                                 *)
TypeOK ==
    /\ runs \in [Runs -> Run]
    /\ latest \in Runs \cup {None}
    /\ cached \in BOOLEAN
    /\ jobs \in [Jobs -> Job]
    /\ pc \in [Actors -> Steps]
    /\ job \in [Actors -> Jobs \cup {None} \cup Triggers]
    /\ seen \in [Actors -> Runs \cup {None}]
    /\ faults \in 0..MaxFaults
    /\ \A a \in Actors :
         pc[a] \in {"sweep", "check", "write", "running"} => seen[a] \in Runs
    /\ \A w \in Workers : (job[w] = None) = (pc[w] = "idle")

(* runner.py, "dedupe": no two executions of a company's graph at a time,  *)
(* whichever processes, jobs and triggers they come from.                  *)
OneFill == Cardinality({a \in Executors : Executing(a)}) <= 1

(* enqueue_or_join_run, "a real zombie (crashed executor), not a live fill *)
(* running in a worker we cannot see": a run is failed from outside only   *)
(* when nobody is executing it.                                            *)
LiveFillIsJoined ==
    [][\A r \in Runs, a \in Executors :
         (Executing(a) /\ seen[a] = r /\ runs[r].status = "running"
          /\ runs'[r].status = "failed") => pc'[a] = "closing"]_vars

(* "expire them so fill can retry": a row left running by a dead executor  *)
(* does not stay so, even when no user asks again.                         *)
Zombie(r) == /\ runs[r].status = "running"
             /\ \A a \in Executors : ~(Executing(a) /\ seen[a] = r)
ZombieCleared == \A r \in Runs : Zombie(r) ~> ~Zombie(r)

(* finish_question_run is called once for a run: a run that succeeded is   *)
(* not failed afterwards, nor the other way round.                         *)
ResultStands ==
    [][\A r \in Runs :
         /\ runs[r].status = "succeeded" => runs'[r].status # "failed"
         /\ runs[r].status = "failed" => runs'[r].status # "succeeded"]_vars
=============================================================================
