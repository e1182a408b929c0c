------------------------- MODULE QuestionRunsProofs -------------------------
(***************************************************************************)
(* Proofs about QuestionRuns, for any workers, requests, jobs and rows and *)
(* any number of crashes: its types (for executions of the ops CLI as      *)
(* well), and, without the CLI, OneFill and LiveFillIsJoined.              *)
(*                                                                         *)
(* A worker keeps its job, running under a fresh lease, for as long as it  *)
(* is busy (JobsHeld).  So whoever looks at a running row that a worker    *)
(* executes joins it, and the rows that somebody is about to sweep or to   *)
(* abandon are executed by nobody (VictimsAreDead), now or later, for an   *)
(* execution begins with a row of its own.  The row of an execution        *)
(* therefore stays running (ExecutionsRun), and the unique index lets      *)
(* nobody else begin.                                                      *)
(*                                                                         *)
(* The second part is about what an execution computes: QuestionPipeline.  *)
(***************************************************************************)
EXTENDS QuestionRuns, QuestionPipeline, FiniteSetTheorems, SequenceTheorems,
        WellFoundedInduction, TLAPS

(* The parts of the invariant. *)
JobsHeld ==
    /\ \A w \in Workers : pc[w] # "idle" =>
          /\ job[w] \in Jobs
          /\ jobs[job[w]].status = "running" /\ jobs[job[w]].fresh
    /\ \A v, w \in Workers : job[v] = job[w] /\ job[v] # None => v = w
    /\ \A q \in Requests : pc[q] # "idle" => job[q] \in Triggers

ExecutionsRun ==
    \A a \in Executors : Executing(a) =>
        runs[seen[a]].status = "running" /\ runs[seen[a]].age # "stale"

VictimsAreDead ==
    \A b \in Actors, a \in Executors :
        pc[b] \in {"sweep", "write"} /\ Executing(a) => seen[a] # seen[b]

OneExecutes ==
    \A a, b \in Executors : Executing(a) /\ Executing(b) => a = b

StepsOfKind ==
    \A q \in Requests : pc[q] \in {"idle", "see", "sweep", "check", "write", "start"}

TypeInv == TypeOK /\ JobsHeld /\ StepsOfKind
RunsInv == TypeInv /\ ExecutionsRun /\ VictimsAreDead /\ OneExecutes

USE RunsAssumption DEF RunsAssumption, Executors, Actors

-----------------------------------------------------------------------------
(* Types, and who holds which job.                                         *)

LEMMA InitTypes ==
    ASSUME Init
    PROVE  TypeInv
<1>1. NoRun \in Run
  BY DEF NoRun, Run, Ages
<1>2. NoJob \in Job
  BY DEF NoJob, Job, Triggers
<1>3. TypeOK
  <2>1. runs \in [Runs -> Run] /\ jobs \in [Jobs -> Job]
    BY <1>1, <1>2 DEF Init
  <2>2. \A a \in Actors : pc[a] = "idle" /\ job[a] = None /\ seen[a] = None
    BY DEF Init
  <2>3. latest \in Runs \cup {None} /\ cached \in BOOLEAN
    BY DEF Init
  <2>4. faults \in 0..MaxFaults
    BY DEF Init
  <2>5. pc \in [Actors -> Steps]
    BY DEF Init, Steps
  <2>6. job \in [Actors -> Jobs \cup {None} \cup Triggers] /\ seen \in [Actors -> Runs \cup {None}]
    BY DEF Init
  <2>7. QED
    BY <2>1, <2>2, <2>3, <2>4, <2>5, <2>6 DEF TypeOK
<1>4. JobsHeld /\ StepsOfKind
  BY DEF Init, JobsHeld, StepsOfKind
<1>5. QED
  BY <1>3, <1>4 DEF TypeInv

LEMMA InsertTypes ==
    ASSUME TypeInv, NEW t \in Triggers, Insert(t)
    PROVE  /\ jobs' \in [Jobs -> Job]
           /\ \A w \in Workers : job[w] # None => jobs'[job[w]] = jobs[job[w]]
<1> DEFINE free == {j \in Jobs : jobs[j].status = "absent" /\ \A w \in Workers : job[w] # j}
           new == CHOOSE j \in free : TRUE
<1>1. /\ free # {}
      /\ jobs' = [jobs EXCEPT ![new] = [status |-> "pending", trigger |-> t, fresh |-> FALSE]]
  BY DEF Insert
<1>2. new \in free
  BY <1>1
<1>3. new \in Jobs /\ \A w \in Workers : job[w] # new
  BY <1>2
<1> HIDE DEF new, free
<1>4. [status |-> "pending", trigger |-> t, fresh |-> FALSE] \in Job
  BY DEF Job
<1>5. QED
  BY <1>1, <1>3, <1>4 DEF TypeInv, TypeOK, JobsHeld

LEMMA SettledTypes ==
    ASSUME TypeInv, NEW r \in Runs, NEW s \in {"succeeded", "failed"}
    PROVE  /\ Settled(r, s) \in [Runs -> Run]
           /\ Settled(r, s)[r].status = s
           /\ \A x \in Runs \ {r} : Settled(r, s)[x] = runs[x]
<1>1. [status |-> s, age |-> "new"] \in Run
  BY DEF Run, Ages
<1>2. QED
  BY <1>1 DEF Settled, TypeInv, TypeOK

LEMMA TickTypes ==
    ASSUME TypeInv, Tick
    PROVE  TypeInv'
<1>1. TypeOK'
  BY InsertTypes DEF TypeInv, TypeOK, JobsHeld, StepsOfKind, Goto, Join, Answer, Skip, Continue, Executing, Steps, Triggers, Tick
<1>2. JobsHeld'
  BY InsertTypes DEF TypeInv, TypeOK, JobsHeld, StepsOfKind, Goto, Join, Answer, Skip, Continue, Executing, Steps, Triggers, Tick
<1>3. StepsOfKind'
  BY InsertTypes DEF TypeInv, TypeOK, JobsHeld, StepsOfKind, Goto, Join, Answer, Skip, Continue, Executing, Steps, Triggers, Tick
<1>4. QED
  BY <1>1, <1>2, <1>3 DEF TypeInv

LEMMA ClaimTypes ==
    ASSUME TypeInv, NEW w \in Workers, Claim(w)
    PROVE  TypeInv'
<1>1. TypeOK'
  <2>1. PICK j \in Jobs :
          /\ jobs' = [jobs EXCEPT ![j].status = "running", ![j].fresh = TRUE]
          /\ job' = [job EXCEPT ![w] = j]
    BY DEF Claim
  <2>2. jobs[j] \in Job
    BY DEF TypeInv, TypeOK
  <2>3. [[jobs[j] EXCEPT !.status = "running"] EXCEPT !.fresh = TRUE] \in Job
    BY <2>2 DEF Job
  <2>4. jobs' \in [Jobs -> Job]
    BY <2>1, <2>3 DEF TypeInv, TypeOK
  <2>5. /\ pc' = [pc EXCEPT ![w] = "see"] /\ w \in Actors
        /\ UNCHANGED <<runs, latest, cached, seen, faults>>
    BY DEF Claim, Goto
  <2>6. QED
    BY <2>1, <2>4, <2>5 DEF TypeInv, TypeOK, Steps
<1>2. JobsHeld'
  BY DEF TypeInv, TypeOK, JobsHeld, StepsOfKind, Goto, Join, Answer, Skip, Continue, Executing, Steps, Triggers, Claim, Job
<1>3. StepsOfKind'
  BY DEF TypeInv, TypeOK, JobsHeld, StepsOfKind, Goto, Join, Answer, Skip, Continue, Executing, Steps, Triggers, Claim, Job
<1>4. QED
  BY <1>1, <1>2, <1>3 DEF TypeInv

LEMMA RequestTypes ==
    ASSUME TypeInv, NEW q \in Requests, GetMiss(q) \/ PostRefresh(q)
    PROVE  TypeInv'
<1>1. TypeOK'
  BY DEF TypeInv, TypeOK, JobsHeld, StepsOfKind, Goto, Join, Answer, Skip, Continue, Executing, Steps, Triggers, GetMiss, PostRefresh
<1>2. JobsHeld'
  BY DEF TypeInv, TypeOK, JobsHeld, StepsOfKind, Goto, Join, Answer, Skip, Continue, Executing, Steps, Triggers, GetMiss, PostRefresh
<1>3. StepsOfKind'
  BY DEF TypeInv, TypeOK, JobsHeld, StepsOfKind, Goto, Join, Answer, Skip, Continue, Executing, Steps, Triggers, GetMiss, PostRefresh
<1>4. QED
  BY <1>1, <1>2, <1>3 DEF TypeInv

LEMMA CliTypes ==
    ASSUME TypeInv, NEW c \in Clis, CliStarts(c)
    PROVE  TypeInv'
<1>1. TypeOK'
  BY DEF TypeInv, TypeOK, JobsHeld, StepsOfKind, Goto, Join, Answer, Skip, Continue, Executing, Steps, Triggers, CliStarts
<1>2. JobsHeld'
  BY DEF TypeInv, TypeOK, JobsHeld, StepsOfKind, Goto, Join, Answer, Skip, Continue, Executing, Steps, Triggers, CliStarts
<1>3. StepsOfKind'
  BY DEF TypeInv, TypeOK, JobsHeld, StepsOfKind, Goto, Join, Answer, Skip, Continue, Executing, Steps, Triggers, CliStarts
<1>4. QED
  BY <1>1, <1>2, <1>3 DEF TypeInv

LEMMA SeeTypes ==
    ASSUME TypeInv, NEW a \in Actors, See(a)
    PROVE  TypeInv'
<1>1. TypeOK'
  BY DEF TypeInv, TypeOK, JobsHeld, StepsOfKind, Goto, Join, Answer, Skip, Continue, Executing, Steps, Triggers, See, Active
<1>2. JobsHeld'
  BY DEF TypeInv, TypeOK, JobsHeld, StepsOfKind, Goto, Join, Answer, Skip, Continue, Executing, Steps, Triggers, See, Active
<1>3. StepsOfKind'
  BY DEF TypeInv, TypeOK, JobsHeld, StepsOfKind, Goto, Join, Answer, Skip, Continue, Executing, Steps, Triggers, See, Active
<1>4. QED
  BY <1>1, <1>2, <1>3 DEF TypeInv

LEMMA SweepTypes ==
    ASSUME TypeInv, NEW a \in Actors, SweepStale(a)
    PROVE  TypeInv'
<1>1. TypeOK'
  BY SettledTypes DEF TypeInv, TypeOK, JobsHeld, StepsOfKind, Goto, Join, Answer, Skip, Continue, Executing, Steps, Triggers, SweepStale
<1>2. JobsHeld'
  BY SettledTypes DEF TypeInv, TypeOK, JobsHeld, StepsOfKind, Goto, Join, Answer, Skip, Continue, Executing, Steps, Triggers, SweepStale
<1>3. StepsOfKind'
  BY SettledTypes DEF TypeInv, TypeOK, JobsHeld, StepsOfKind, Goto, Join, Answer, Skip, Continue, Executing, Steps, Triggers, SweepStale
<1>4. QED
  BY <1>1, <1>2, <1>3 DEF TypeInv

LEMMA CheckTypes ==
    ASSUME TypeInv, NEW a \in Actors, Check(a)
    PROVE  TypeInv'
<1>1. TypeOK'
  BY DEF TypeInv, TypeOK, JobsHeld, StepsOfKind, Goto, Join, Answer, Skip, Continue, Executing, Steps, Triggers, Check, CheckWith
<1>2. JobsHeld'
  BY DEF TypeInv, TypeOK, JobsHeld, StepsOfKind, Goto, Join, Answer, Skip, Continue, Executing, Steps, Triggers, Check, CheckWith
<1>3. StepsOfKind'
  BY DEF TypeInv, TypeOK, JobsHeld, StepsOfKind, Goto, Join, Answer, Skip, Continue, Executing, Steps, Triggers, Check, CheckWith
<1>4. QED
  BY <1>1, <1>2, <1>3 DEF TypeInv

LEMMA AbandonTypes ==
    ASSUME TypeInv, NEW a \in Actors, Abandon(a)
    PROVE  TypeInv'
<1>1. TypeOK'
  <2>1. /\ seen[a] \in Runs /\ runs' = Settled(seen[a], "failed")
        /\ seen' = [seen EXCEPT ![a] = None]
        /\ UNCHANGED <<latest, cached, faults>>
    BY DEF Abandon, TypeInv, TypeOK
  <2>2. runs' \in [Runs -> Run]
    BY <2>1, SettledTypes
  <2>3. CASE a \in Requests
    <3>1. Trigger(a) \in Triggers
      BY <2>3 DEF Abandon, Trigger, TypeInv, JobsHeld
    <3>2. jobs' \in [Jobs -> Job]
      BY <2>3, <3>1, InsertTypes DEF Abandon, Enqueue, TypeInv, TypeOK
    <3>3. pc' = [pc EXCEPT ![a] = "idle"] /\ job' = [job EXCEPT ![a] = None]
      BY <2>3 DEF Abandon, Answer, Goto
    <3>4. QED
      BY <2>1, <2>2, <2>3, <3>2, <3>3 DEF TypeInv, TypeOK, Steps
  <2>4. CASE a \notin Requests
    BY <2>1, <2>2, <2>4 DEF Abandon, Continue, Goto, TypeInv, TypeOK, Steps
  <2>5. QED
    BY <2>3, <2>4
<1>2. JobsHeld'
  BY SettledTypes, InsertTypes DEF TypeInv, TypeOK, JobsHeld, StepsOfKind, Goto, Join, Answer, Skip, Continue, Executing, Steps, Triggers, Abandon, Enqueue, Trigger
<1>3. StepsOfKind'
  BY SettledTypes, InsertTypes DEF TypeInv, TypeOK, JobsHeld, StepsOfKind, Goto, Join, Answer, Skip, Continue, Executing, Steps, Triggers, Abandon, Enqueue, Trigger
<1>4. QED
  BY <1>1, <1>2, <1>3 DEF TypeInv

LEMMA EnqueueFillTypes ==
    ASSUME TypeInv, NEW q \in Actors, EnqueueFill(q)
    PROVE  TypeInv'
<1>1. TypeOK'
  BY InsertTypes DEF TypeInv, TypeOK, JobsHeld, StepsOfKind, Goto, Join, Answer, Skip, Continue, Executing, Steps, Triggers, EnqueueFill, Enqueue, Trigger
<1>2. JobsHeld'
  BY InsertTypes DEF TypeInv, TypeOK, JobsHeld, StepsOfKind, Goto, Join, Answer, Skip, Continue, Executing, Steps, Triggers, EnqueueFill, Enqueue, Trigger
<1>3. StepsOfKind'
  BY InsertTypes DEF TypeInv, TypeOK, JobsHeld, StepsOfKind, Goto, Join, Answer, Skip, Continue, Executing, Steps, Triggers, EnqueueFill, Enqueue, Trigger
<1>4. QED
  BY <1>1, <1>2, <1>3 DEF TypeInv

LEMMA StartRunTypes ==
    ASSUME TypeInv, NEW a \in Actors, StartRun(a)
    PROVE  TypeInv'
<1>1. TypeOK'
  BY DEF TypeInv, TypeOK, JobsHeld, StepsOfKind, Goto, Join, Answer, Skip, Continue, Executing, Steps, Triggers, StartRun, StartRunWith, WithRun, NoRun, Run, Ages
<1>2. JobsHeld'
  BY DEF TypeInv, TypeOK, JobsHeld, StepsOfKind, Goto, Join, Answer, Skip, Continue, Executing, Steps, Triggers, StartRun, StartRunWith, WithRun, NoRun, Run, Ages
<1>3. StepsOfKind'
  BY DEF TypeInv, TypeOK, JobsHeld, StepsOfKind, Goto, Join, Answer, Skip, Continue, Executing, Steps, Triggers, StartRun, StartRunWith, WithRun, NoRun, Run, Ages
<1>4. QED
  BY <1>1, <1>2, <1>3 DEF TypeInv

LEMMA FinishTypes ==
    ASSUME TypeInv, NEW a \in Executors, Succeed(a) \/ Fail(a)
    PROVE  TypeInv'
<1>1. TypeOK'
  <2>1. /\ seen[a] \in Runs /\ runs' \in {Settled(seen[a], "succeeded"), Settled(seen[a], "failed"), runs}
        /\ seen' = [seen EXCEPT ![a] = None] /\ pc' = [pc EXCEPT ![a] = "closing"]
        /\ cached' \in {cached, TRUE} /\ UNCHANGED <<latest, jobs, job, faults>>
    BY DEF Succeed, Fail, Goto, Executing, TypeInv, TypeOK
  <2>2. /\ Settled(seen[a], "succeeded") \in [Runs -> Run]
        /\ Settled(seen[a], "failed") \in [Runs -> Run]
        /\ runs \in [Runs -> Run]
    <3>1. TypeOK /\ seen[a] \in Runs
      BY <2>1 DEF TypeInv
    <3>2. QED
      BY <3>1, SettledTypes DEF TypeOK
  <2>3. runs' \in [Runs -> Run]
    BY <2>1, <2>2
  <2>4. /\ pc' \in [Actors -> Steps] /\ seen' \in [Actors -> Runs \cup {None}]
        /\ cached' \in BOOLEAN
    BY <2>1 DEF TypeInv, TypeOK, Steps
  <2>5. \A b \in Actors :
          pc'[b] \in {"sweep", "check", "write", "running"} => seen'[b] \in Runs
    BY <2>1 DEF TypeInv, TypeOK
  <2>6. \A w \in Workers : (job'[w] = None) = (pc'[w] = "idle")
    <3>1. pc[a] # "idle"
      BY DEF Succeed, Fail, Executing
    <3>2. QED
      BY <2>1, <3>1 DEF TypeInv, TypeOK
  <2>7. QED
    BY <2>1, <2>3, <2>4, <2>5, <2>6 DEF TypeInv, TypeOK
<1>2. JobsHeld'
  BY SettledTypes DEF TypeInv, TypeOK, JobsHeld, StepsOfKind, Goto, Join, Answer, Skip, Continue, Executing, Steps, Triggers, Succeed, Fail
<1>3. StepsOfKind'
  BY SettledTypes DEF TypeInv, TypeOK, JobsHeld, StepsOfKind, Goto, Join, Answer, Skip, Continue, Executing, Steps, Triggers, Succeed, Fail
<1>4. QED
  BY <1>1, <1>2, <1>3 DEF TypeInv

LEMMA CloseJobTypes ==
    ASSUME TypeInv, NEW a \in Actors, CloseJob(a)
    PROVE  TypeInv'
<1>1. TypeOK'
  BY DEF TypeInv, TypeOK, JobsHeld, StepsOfKind, Goto, Join, Answer, Skip, Continue, Executing, Steps, Triggers, CloseJob, NoJob, Job
<1>2. JobsHeld'
  BY DEF TypeInv, TypeOK, JobsHeld, StepsOfKind, Goto, Join, Answer, Skip, Continue, Executing, Steps, Triggers, CloseJob, NoJob, Job
<1>3. StepsOfKind'
  BY DEF TypeInv, TypeOK, JobsHeld, StepsOfKind, Goto, Join, Answer, Skip, Continue, Executing, Steps, Triggers, CloseJob, NoJob, Job
<1>4. QED
  BY <1>1, <1>2, <1>3 DEF TypeInv

LEMMA CrashTypes ==
    ASSUME TypeInv, NEW a \in Actors, Crash(a)
    PROVE  TypeInv'
<1>1. TypeOK'
  BY DEF TypeInv, TypeOK, JobsHeld, StepsOfKind, Goto, Join, Answer, Skip, Continue, Executing, Steps, Triggers, Crash
<1>2. JobsHeld'
  BY DEF TypeInv, TypeOK, JobsHeld, StepsOfKind, Goto, Join, Answer, Skip, Continue, Executing, Steps, Triggers, Crash
<1>3. StepsOfKind'
  BY DEF TypeInv, TypeOK, JobsHeld, StepsOfKind, Goto, Join, Answer, Skip, Continue, Executing, Steps, Triggers, Crash
<1>4. QED
  BY <1>1, <1>2, <1>3 DEF TypeInv

LEMMA GrowTypes ==
    ASSUME TypeInv, NEW r \in Runs, Grow(r)
    PROVE  TypeInv'
<1>1. TypeOK'
  BY DEF TypeInv, TypeOK, JobsHeld, StepsOfKind, Goto, Join, Answer, Skip, Continue, Executing, Steps, Triggers, Grow, Run, Ages
<1>2. JobsHeld'
  BY DEF TypeInv, TypeOK, JobsHeld, StepsOfKind, Goto, Join, Answer, Skip, Continue, Executing, Steps, Triggers, Grow, Run, Ages
<1>3. StepsOfKind'
  BY DEF TypeInv, TypeOK, JobsHeld, StepsOfKind, Goto, Join, Answer, Skip, Continue, Executing, Steps, Triggers, Grow, Run, Ages
<1>4. QED
  BY <1>1, <1>2, <1>3 DEF TypeInv

LEMMA LeaseTypes ==
    ASSUME TypeInv, NEW j \in Jobs, LeaseRunsOut(j)
    PROVE  TypeInv'
<1>1. TypeOK'
  <2>1. [jobs[j] EXCEPT !.fresh = FALSE] \in Job
    BY DEF TypeInv, TypeOK, Job
  <2>2. QED
    BY <2>1 DEF LeaseRunsOut, TypeInv, TypeOK
<1>2. JobsHeld'
  BY DEF TypeInv, TypeOK, JobsHeld, StepsOfKind, Goto, Join, Answer, Skip, Continue, Executing, Steps, Triggers, LeaseRunsOut, Job
<1>3. StepsOfKind'
  BY DEF TypeInv, TypeOK, JobsHeld, StepsOfKind, Goto, Join, Answer, Skip, Continue, Executing, Steps, Triggers, LeaseRunsOut, Job
<1>4. QED
  BY <1>1, <1>2, <1>3 DEF TypeInv

LEMMA NextTypes ==
    ASSUME TypeInv, Next
    PROVE  TypeInv'
<1>1. CASE Tick
  BY <1>1, TickTypes
<1>2. CASE (\E w \in Workers : Claim(w)) \/ (\E c \in Clis : CliStarts(c))
           \/ (\E q \in Requests : GetMiss(q) \/ PostRefresh(q))
  BY <1>2, ClaimTypes, RequestTypes, CliTypes
<1>3. ASSUME NEW a \in Actors, Step(a) \/ Crash(a)
      PROVE  TypeInv'
  <2>1. Succeed(a) \/ Fail(a) => a \in Executors
    BY DEF Succeed, Fail, Executing, TypeInv, StepsOfKind
  <2>2. QED
    BY <1>3, <2>1, SeeTypes, SweepTypes, CheckTypes, AbandonTypes, EnqueueFillTypes,
       StartRunTypes, FinishTypes, CloseJobTypes, CrashTypes DEF Step
<1>4. CASE (\E r \in Runs : Grow(r)) \/ (\E j \in Jobs : LeaseRunsOut(j))
  BY <1>4, GrowTypes, LeaseTypes
<1>5. QED
  BY <1>1, <1>2, <1>3, <1>4 DEF Next

(* Every variable keeps its kind, and a busy worker keeps its job under a  *)
(* fresh lease; executions of the CLI included.                            *)
THEOREM TypeCorrect == Spec => []TypeInv
<1>1. TypeInv /\ [Next]_vars => TypeInv'
  <2>1. TypeInv /\ UNCHANGED vars => TypeInv'
    BY DEF TypeInv, TypeOK, JobsHeld, StepsOfKind, vars
  <2>2. QED
    BY <2>1, NextTypes
<1>2. QED
  BY InitTypes, <1>1, PTL DEF Spec

-----------------------------------------------------------------------------
(* Without the CLI every executor is a worker.                             *)

LEMMA ExecutorHasJob ==
    ASSUME TypeInv, Clis = {}, NEW a \in Executors, Executing(a)
    PROVE  /\ a \in Workers /\ job[a] \in Jobs /\ seen[a] \in Runs
           /\ jobs[job[a]].status = "running" /\ jobs[job[a]].fresh
  BY DEF TypeInv, TypeOK, JobsHeld, Executing

(* Steps of actors that neither begin nor end an execution, nor touch a    *)
(* row that one of them executes.                                          *)
Aside ==
    /\ \A a \in Executors : Executing(a)' = Executing(a)
    /\ \A a \in Executors : Executing(a) => seen'[a] = seen[a]
    /\ \A a \in Executors : Executing(a) =>
          runs'[seen[a]].status = "running" /\ runs'[seen[a]].age # "stale"

LEMMA AsideKeeps ==
    ASSUME RunsInv, Aside
    PROVE  ExecutionsRun' /\ OneExecutes'
  BY DEF RunsInv, Aside, ExecutionsRun, OneExecutes

(* Looking at rows: one that is to be swept has become stale, and one that *)
(* is to be abandoned is covered by no job under a fresh lease.            *)
LEMMA SeeKeeps ==
    ASSUME RunsInv, Clis = {}, NEW b \in Actors, See(b)
    PROVE  ExecutionsRun' /\ VictimsAreDead' /\ OneExecutes'
<1> USE DEF RunsInv
<1>1. Aside
  BY DEF Aside, See, Executing, Goto, Join, Answer, Skip, Continue, TypeInv, TypeOK, ExecutionsRun
<1>2. VictimsAreDead'
  <2> SUFFICES ASSUME NEW c \in Actors, NEW a \in Executors,
                      pc'[c] \in {"sweep", "write"}, Executing(a)'
               PROVE  seen'[a] # seen'[c]
    BY DEF VictimsAreDead
  <2>1. Executing(a) /\ seen'[a] = seen[a]
    BY <1>1 DEF Aside
  <2>2. CASE c = b
    <3>1. pc'[b] = "sweep" /\ runs[seen'[b]].age = "stale"
      BY <2>2 DEF See, Goto, Join, Answer, Skip, Continue, TypeInv, TypeOK
    <3>2. QED
      BY <2>1, <2>2, <3>1 DEF ExecutionsRun
  <2>3. CASE c # b
    BY <2>1, <2>3 DEF See, Goto, Join, Answer, Skip, Continue, TypeInv, TypeOK, VictimsAreDead
  <2>4. QED
    BY <2>2, <2>3
<1>3. QED
  BY <1>1, <1>2, AsideKeeps

LEMMA CheckKeeps ==
    ASSUME RunsInv, Clis = {}, NEW b \in Actors, Check(b)
    PROVE  ExecutionsRun' /\ VictimsAreDead' /\ OneExecutes'
<1> USE DEF RunsInv
<1>1. Aside
  BY DEF Aside, Check, CheckWith, Executing, Goto, Join, Answer, Skip, Continue, TypeInv, TypeOK,
     ExecutionsRun
<1>2. VictimsAreDead'
  <2> SUFFICES ASSUME NEW c \in Actors, NEW a \in Executors,
                      pc'[c] \in {"sweep", "write"}, Executing(a)'
               PROVE  seen'[a] # seen'[c]
    BY DEF VictimsAreDead
  <2>1. Executing(a) /\ seen'[a] = seen[a]
    BY <1>1 DEF Aside
  <2>2. CASE c = b
    <3>1. ~HasLiveJob(IF b \in Workers THEN job[b] ELSE None)
      BY <2>2 DEF Check, CheckWith, Goto, Join, Answer, Skip, Continue, TypeInv, TypeOK
    <3>2. /\ a \in Workers /\ job[a] \in Jobs
          /\ jobs[job[a]].status = "running" /\ jobs[job[a]].fresh
      BY <2>1, ExecutorHasJob
    <3>3. a # b
      BY <2>1 DEF Check, CheckWith, Executing
    <3>4. job[a] # (IF b \in Workers THEN job[b] ELSE None)
      BY <3>2, <3>3 DEF TypeInv, JobsHeld
    <3>5. QED
      BY <3>1, <3>2, <3>4 DEF HasLiveJob
  <2>3. CASE c # b
    BY <2>1, <2>3 DEF Check, CheckWith, Goto, Join, Answer, Skip, Continue, TypeInv, TypeOK,
       VictimsAreDead
  <2>4. QED
    BY <2>2, <2>3
<1>3. QED
  BY <1>1, <1>2, AsideKeeps

(* A victim is settled: nobody executes it.                                *)
LEMMA ClearKeeps ==
    ASSUME RunsInv, Clis = {}, NEW b \in Actors, SweepStale(b) \/ Abandon(b)
    PROVE  ExecutionsRun' /\ VictimsAreDead' /\ OneExecutes'
<1> USE DEF RunsInv
<1>1. /\ pc[b] \in {"sweep", "write"} /\ seen[b] \in Runs
      /\ runs' = Settled(seen[b], "failed") /\ seen' = [seen EXCEPT ![b] = None]
      /\ pc' \in {[pc EXCEPT ![b] = "start"], [pc EXCEPT ![b] = "idle"]}
  BY DEF SweepStale, Abandon, Goto, Answer, Continue, TypeInv, TypeOK
<1>2. Aside
  <2>1. \A a \in Executors : Executing(a)' = Executing(a)
    BY <1>1 DEF Executing, TypeInv, TypeOK
  <2>2. ASSUME NEW a \in Executors, Executing(a)
        PROVE  /\ seen'[a] = seen[a]
               /\ runs'[seen[a]].status = "running" /\ runs'[seen[a]].age # "stale"
    <3>1. a # b /\ seen[a] # seen[b] /\ seen[a] \in Runs
      BY <1>1, <2>2, ExecutorHasJob DEF Executing, VictimsAreDead
    <3>2. runs'[seen[a]] = runs[seen[a]]
      BY <1>1, <3>1, SettledTypes
    <3>3. QED
      BY <1>1, <2>2, <3>1, <3>2 DEF ExecutionsRun, TypeInv, TypeOK
  <2>3. QED
    BY <2>1, <2>2 DEF Aside
<1>3. VictimsAreDead'
  BY <1>1, <1>2 DEF Aside, VictimsAreDead, TypeInv, TypeOK
<1>4. QED
  BY <1>2, <1>3, AsideKeeps

(* An execution begins with no row running, and on a row nobody has seen.  *)
LEMMA StartKeeps ==
    ASSUME RunsInv, Clis = {}, NEW b \in Actors, StartRun(b)
    PROVE  ExecutionsRun' /\ VictimsAreDead' /\ OneExecutes'
<1> USE DEF RunsInv
<1>1. CASE Active # {} /\ Goto(b, "closing") /\ UNCHANGED <<runs, latest, seen>>
  <2>1. pc[b] = "start"
    BY DEF StartRun, StartRunWith
  <2>2. Aside
    BY <1>1, <2>1 DEF Aside, Goto, Executing, TypeInv, TypeOK, ExecutionsRun
  <2>3. VictimsAreDead'
    BY <1>1, <2>1, <2>2 DEF VictimsAreDead, Aside, Goto, TypeInv, TypeOK
  <2>4. QED
    BY <2>2, <2>3, AsideKeeps
<1>2. CASE Active = {}
  <2> DEFINE free == {r \in Runs : Free(r)}
             r == CHOOSE x \in free : TRUE
  <2>1. /\ b \in Executors /\ free # {} /\ runs' = WithRun(r)
        /\ seen' = [seen EXCEPT ![b] = r] /\ pc' = [pc EXCEPT ![b] = "running"]
    BY <1>2 DEF StartRun, StartRunWith, Goto
  <2>2. r \in free
    BY <2>1
  <2>3. r \in Runs /\ \A a \in Actors : seen[a] # r
    BY <2>2 DEF Free
  <2> HIDE DEF r, free
  <2>4. \A a \in Executors : ~Executing(a)
    BY <1>2, ExecutorHasJob DEF ExecutionsRun, Active
  <2>5. \A a \in Executors : Executing(a)' <=> a = b
    BY <2>1, <2>4 DEF Executing, TypeInv, TypeOK
  <2>6. seen'[b] = r /\ runs'[r] = [status |-> "running", age |-> "new"]
    BY <2>1, <2>3 DEF WithRun, TypeInv, TypeOK
  <2>7. ExecutionsRun' /\ OneExecutes'
    BY <2>5, <2>6 DEF ExecutionsRun, OneExecutes
  <2>8. VictimsAreDead'
    <3> SUFFICES ASSUME NEW c \in Actors, pc'[c] \in {"sweep", "write"}
                 PROVE  seen'[b] # seen'[c]
      BY <2>5 DEF VictimsAreDead
    <3>1. c # b
      BY <2>1 DEF TypeInv, TypeOK
    <3>2. QED
      BY <2>1, <2>3, <2>6, <3>1 DEF TypeInv, TypeOK
  <2>9. QED
    BY <2>7, <2>8
<1>3. QED
  BY <1>1, <1>2 DEF StartRun, StartRunWith

LEMMA FinishKeeps ==
    ASSUME RunsInv, Clis = {}, NEW b \in Executors, Succeed(b) \/ Fail(b)
    PROVE  ExecutionsRun' /\ VictimsAreDead' /\ OneExecutes'
<1> USE DEF RunsInv
<1>1. Executing(b) /\ pc' = [pc EXCEPT ![b] = "closing"] /\ seen' = [seen EXCEPT ![b] = None]
  BY DEF Succeed, Fail, Goto
<1>2. \A a \in Executors : ~Executing(a)'
  BY <1>1 DEF OneExecutes, Executing, TypeInv, TypeOK
<1>3. QED
  BY <1>2 DEF ExecutionsRun, VictimsAreDead, OneExecutes

(* A crash ends what the actor does; time makes no executed row stale.     *)
LEMMA CrashKeeps ==
    ASSUME RunsInv, NEW b \in Actors, Crash(b)
    PROVE  ExecutionsRun' /\ VictimsAreDead' /\ OneExecutes'
<1> USE DEF RunsInv
<1>1. pc' = [pc EXCEPT ![b] = "idle"] /\ seen' = [seen EXCEPT ![b] = None] /\ runs' = runs
  BY DEF Crash, Goto
<1>2. \A a \in Actors : pc'[a] # "idle" => pc'[a] = pc[a] /\ seen'[a] = seen[a]
  BY <1>1 DEF TypeInv, TypeOK
<1>3. QED
  BY <1>1, <1>2 DEF ExecutionsRun, VictimsAreDead, OneExecutes, Executing

LEMMA GrowKeeps ==
    ASSUME RunsInv, NEW r \in Runs, Grow(r)
    PROVE  ExecutionsRun' /\ VictimsAreDead' /\ OneExecutes'
<1> USE DEF RunsInv
<1>1. UNCHANGED <<pc, seen>>
  BY DEF Grow
<1>2. \A x \in Runs \ {r} : runs'[x] = runs[x]
  BY DEF Grow, TypeInv, TypeOK
<1>3. /\ runs'[r].status = "running"
      /\ runs'[r].age = "stale" => runs[r].age = "old"
  BY DEF Grow, TypeInv, TypeOK, Run, Ages
<1>4. runs[r].age = "old" => \A a \in Executors : ~(Executing(a) /\ seen[a] = r)
  BY DEF Grow
<1>5. \A a \in Executors : Executing(a) => seen[a] \in Runs
  BY DEF TypeInv, TypeOK, Executing
<1>6. ExecutionsRun'
  BY <1>1, <1>2, <1>3, <1>4, <1>5 DEF ExecutionsRun, Executing
<1>7. QED
  BY <1>1, <1>6 DEF VictimsAreDead, OneExecutes, Executing

(* Everything else concerns jobs and actors that execute nothing.          *)
LEMMA OtherKeeps ==
    ASSUME RunsInv,
           \/ Tick \/ \E w \in Workers : Claim(w)
           \/ \E q \in Requests : GetMiss(q) \/ PostRefresh(q)
           \/ \E c \in Clis : CliStarts(c)
           \/ \E a \in Actors : EnqueueFill(a) \/ CloseJob(a)
           \/ \E j \in Jobs : LeaseRunsOut(j)
    PROVE  ExecutionsRun' /\ VictimsAreDead' /\ OneExecutes'
<1> USE DEF RunsInv
<1>1. /\ UNCHANGED <<runs, seen>>
      /\ \A a \in Actors : pc'[a] \in {"sweep", "write", "running"} => pc'[a] = pc[a]
  BY DEF Tick, Claim, GetMiss, PostRefresh, CliStarts, EnqueueFill, CloseJob, LeaseRunsOut,
     Goto, Answer, TypeInv, TypeOK
<1>2. QED
  BY <1>1 DEF ExecutionsRun, VictimsAreDead, OneExecutes, Executing

LEMMA NextKeeps ==
    ASSUME RunsInv, Clis = {}, Next
    PROVE  RunsInv'
<1>1. TypeInv'
  BY NextTypes DEF RunsInv
<1>2. ASSUME NEW a \in Actors, Step(a) \/ Crash(a)
      PROVE  ExecutionsRun' /\ VictimsAreDead' /\ OneExecutes'
  <2>1. Succeed(a) \/ Fail(a) => a \in Executors
    BY DEF Succeed, Fail, Executing, RunsInv, TypeInv, StepsOfKind
  <2>2. QED
    BY <1>2, <2>1, SeeKeeps, CheckKeeps, ClearKeeps, StartKeeps, FinishKeeps, CrashKeeps,
       OtherKeeps DEF Step
<1>3. ExecutionsRun' /\ VictimsAreDead' /\ OneExecutes'
  BY <1>2, GrowKeeps, OtherKeeps DEF Next
<1>4. QED
  BY <1>1, <1>3 DEF RunsInv

(* The invariant holds in every reachable state, for any workers and jobs, *)
(* as long as nobody runs the CLI.                                         *)
THEOREM RunsInvariant == ASSUME Clis = {} PROVE Spec => []RunsInv
<1>1. Init => RunsInv
  BY InitTypes DEF Init, RunsInv, ExecutionsRun, VictimsAreDead, OneExecutes, Executing
<1>2. RunsInv /\ [Next]_vars => RunsInv'
  <2>1. RunsInv /\ UNCHANGED vars => RunsInv'
    BY DEF RunsInv, TypeInv, TypeOK, JobsHeld, StepsOfKind, ExecutionsRun, VictimsAreDead,
       OneExecutes, Executing, vars
  <2>2. QED
    BY <2>1, NextKeeps
<1>3. QED
  BY <1>1, <1>2, PTL DEF Spec

(* No two workers execute the company's graph at a time.                   *)
THEOREM OneFillAtATime == ASSUME Clis = {} PROVE Spec => []OneFill
<1>1. RunsInv => OneFill
  <2> SUFFICES ASSUME RunsInv PROVE Cardinality({a \in Executors : Executing(a)}) <= 1
    BY DEF OneFill
  <2> DEFINE busy == {a \in Executors : Executing(a)}
  <2> HIDE DEF busy
  <2> SUFFICES Cardinality(busy) <= 1
    BY DEF busy
  <2>1. CASE busy = {}
    BY <2>1, FS_EmptySet
  <2>2. CASE busy # {}
    <3>1. PICK a \in busy : TRUE
      BY <2>2
    <3>2. busy = {a}
      BY <3>1 DEF busy, RunsInv, OneExecutes
    <3>3. Cardinality(busy) = 1
      BY <3>2, FS_Singleton
    <3>4. QED
      BY <3>3
  <2>3. QED
    BY <2>1, <2>2
<1>2. QED
  BY <1>1, RunsInvariant, PTL

(* A run is failed from outside only when no worker executes it.           *)
THEOREM LiveFillsJoined == ASSUME Clis = {} PROVE Spec => LiveFillIsJoined
<1>1. RunsInv /\ [Next]_vars =>
        [\A r \in Runs, a \in Executors :
            (Executing(a) /\ seen[a] = r /\ runs[r].status = "running"
             /\ runs'[r].status = "failed") => pc'[a] = "closing"]_vars
  <2> SUFFICES ASSUME RunsInv, Next, NEW r \in Runs, NEW a \in Executors,
                      Executing(a), seen[a] = r, runs[r].status = "running",
                      runs'[r].status = "failed"
               PROVE  pc'[a] = "closing"
    OBVIOUS
  <2>1. ASSUME NEW b \in Actors, SweepStale(b) \/ Abandon(b)
        PROVE  FALSE
    <3>1. pc[b] \in {"sweep", "write"} /\ seen[b] \in Runs /\ runs' = Settled(seen[b], "failed")
      BY <2>1 DEF SweepStale, Abandon, RunsInv, TypeInv, TypeOK
    <3>2. seen[b] # r
      BY <3>1 DEF RunsInv, VictimsAreDead
    <3>3. QED
      BY <3>1, <3>2, SettledTypes DEF RunsInv
  <2>2. ASSUME NEW b \in Actors, Succeed(b) \/ Fail(b)
        PROVE  pc'[a] = "closing"
    <3>1. b \in Executors /\ Executing(b) /\ pc' = [pc EXCEPT ![b] = "closing"]
      BY <2>2 DEF Succeed, Fail, Executing, Goto, RunsInv, TypeInv, StepsOfKind
    <3>2. a = b
      BY <3>1 DEF RunsInv, OneExecutes
    <3>3. QED
      BY <3>1, <3>2 DEF RunsInv, TypeInv, TypeOK
  <2>3. ASSUME NEW b \in Actors, StartRun(b)
        PROVE  FALSE
    <3>1. CASE UNCHANGED runs
      BY <3>1
    <3>2. CASE Active = {}
      BY <3>2 DEF Active
    <3>3. QED
      BY <2>3, <3>1, <3>2 DEF StartRun, StartRunWith
  <2>4. ASSUME NEW x \in Runs, Grow(x)
        PROVE  FALSE
    BY <2>4 DEF Grow, RunsInv, TypeInv, TypeOK, Run
  <2>5. UNCHANGED runs => FALSE
    OBVIOUS
  <2>6. CASE \/ Tick \/ \E w \in Workers : Claim(w)
             \/ \E q \in Requests : GetMiss(q) \/ PostRefresh(q)
             \/ \E c \in Clis : CliStarts(c)
             \/ \E b \in Actors : EnqueueFill(b) \/ CloseJob(b) \/ See(b) \/ Check(b) \/ Crash(b)
             \/ \E j \in Jobs : LeaseRunsOut(j)
    BY <2>5, <2>6 DEF Tick, Claim, GetMiss, PostRefresh, CliStarts, EnqueueFill, CloseJob, See,
       Check, CheckWith, Crash, LeaseRunsOut
  <2>7. QED
    BY <2>1, <2>2, <2>3, <2>4, <2>6 DEF Next, Step
<1>2. QED
  BY <1>1, RunsInvariant, PTL DEF Spec, LiveFillIsJoined

HIDE RunsAssumption DEF RunsAssumption, Executors, Actors

-----------------------------------------------------------------------------
(***************************************************************************)
(* Proofs about QuestionPipeline, for any corpus and any limits.           *)
(*                                                                         *)
(* The lists of the pipeline are folds, and what a fold computes is known  *)
(* by induction over the list.  The induction theorems of the library take *)
(* an operator, which the provers cannot instantiate; so the induction is  *)
(* stated for membership in a set (SetInduction), from the least element   *)
(* of its complement, and a property of fold values is a set of values per *)
(* position.  A fold is a CHOOSE of a function: FoldExists shows that      *)
(* there is one, so the chosen one satisfies the recursion, and FoldStays  *)
(* follows it position by position.                                        *)
(*                                                                         *)
(* PipeInv says what each node leaves: no topic that the model rejected    *)
(* comes back (Drawn), no forbidden signal passes the filter (Cleared),    *)
(* and questions are sound and leave no fresh candidate out (Answered).    *)
(***************************************************************************)
(* Induction over numbers, from the least element of a set of them ...     *)
LEMMA LeastNat ==
    ASSUME NEW T, T \subseteq Nat, T # {}
    PROVE  \E x \in T : \A y \in T : x <= y
<1> DEFINE R == {ss \in Nat \X Nat : ss[1] < ss[2]}
<1>1. IsWellFoundedOn(R, Nat)
  BY NatLessThanWellFounded DEF OpToRel
<1>2. PICK x \in T : \A y \in T : ~(<<y, x>> \in R)
  <2> HIDE DEF R
  <2> QED BY <1>1, WFMin
<1>3. ASSUME NEW y \in T PROVE x <= y
  <2>1. x \in Nat /\ y \in Nat /\ ~(y < x)
    BY <1>2
  <2> QED BY <2>1
<1> QED BY <1>3

(* ... for membership in a set, which no prover has to instantiate by an   *)
(* operator.                                                               *)
LEMMA SetInduction ==
    ASSUME NEW S, 0 \in S, \A n \in Nat : n \in S => n + 1 \in S
    PROVE  Nat \subseteq S
<1> DEFINE T == Nat \ S
<1>1. ASSUME T # {} PROVE FALSE
  <2>1. PICK x \in T : \A y \in T : x <= y
    BY <1>1, LeastNat
  <2>2. x # 0 /\ x - 1 \in Nat /\ x - 1 \notin T
    BY <2>1
  <2>3. (x - 1) + 1 \in S
    BY <2>2
  <2> QED BY <2>1, <2>3
<1> QED BY <1>1

(* Max, of the positions up to n.                                          *)
LEMMA MaxIsIn ==
    ASSUME NEW n \in Nat, NEW s \in SUBSET (1..n), s # {}
    PROVE  Max(s) \in s /\ \A y \in s : Max(s) >= y
<1> DEFINE T == {n - y : y \in s}
<1>1. PICK t \in T : \A u \in T : t <= u
  <2>1. \A y \in s : y \in Nat /\ n - y \in Nat
    OBVIOUS
  <2>2. T \subseteq Nat /\ T # {}
    BY <2>1
  <2> HIDE DEF T
  <2> QED BY <2>2, LeastNat
<1>2. PICK x \in s : t = n - x
  OBVIOUS
<1>3. ASSUME NEW y \in s PROVE x >= y
  <2>1. n - x <= n - y
    BY <1>1, <1>2
  <2> QED BY <2>1
<1>4. \E z \in s : \A y \in s : z >= y
  BY <1>3
<1> QED BY <1>4 DEF Max

(* The positions up to m, for the recursion of MapThenFoldSet.             *)
LEMMA MaxOfSegment ==
    ASSUME NEW n \in Nat, NEW m \in 1..n
    PROVE  /\ 1..m \in SUBSET (1..n) /\ 1..m # {} /\ Max(1..m) = m
           /\ (1..m) \ {m} = 1..(m - 1)
<1>1. 1..m \in SUBSET (1..n) /\ m \in 1..m
  OBVIOUS
<1>2. Max(1..m) \in 1..m /\ Max(1..m) >= m
  BY <1>1, MaxIsIn
<1> QED BY <1>1, <1>2

(* g is the fold of F from b over the sets of positions up to n, last      *)
(* first.                                                                  *)
FoldOf(n, b, F, g) ==
    \A s \in SUBSET (1..n) : g[s] = IF s = {} THEN b ELSE F[<<g[s \ {Max(s)}], Max(s)>>]

(* There is one with values in A.                                          *)
Folded(m, b, F, A) == \E g \in [SUBSET (1..m) -> A] : FoldOf(m, b, F, g)

(* A fold over m positions goes on to the next ...                         *)
LEMMA FoldGrows ==
    ASSUME NEW A, NEW n \in Nat, NEW b \in A, NEW F \in [A \X (1..n) -> A],
           NEW m \in Nat, m + 1 <= n, NEW h \in [SUBSET (1..m) -> A], FoldOf(m, b, F, h)
    PROVE  \E g \in [SUBSET (1..(m + 1)) -> A] : FoldOf(m + 1, b, F, g)
<1> DEFINE g == [s \in SUBSET (1..(m + 1)) |->
                    IF m + 1 \in s THEN F[<<h[s \ {m + 1}], m + 1>>] ELSE h[s]]
<1>1. m + 1 \in 1..n /\ m + 1 \in Nat
  OBVIOUS
<1>2. ASSUME NEW s \in SUBSET (1..(m + 1))
      PROVE  s \ {m + 1} \in SUBSET (1..m) /\ (m + 1 \notin s => s \in SUBSET (1..m))
  OBVIOUS
<1>3. g \in [SUBSET (1..(m + 1)) -> A]
  <2>1. ASSUME NEW s \in SUBSET (1..(m + 1))
        PROVE  (IF m + 1 \in s THEN F[<<h[s \ {m + 1}], m + 1>>] ELSE h[s]) \in A
    <3>1. CASE m + 1 \in s
      BY <1>1, <1>2, <3>1
    <3>2. CASE m + 1 \notin s
      BY <1>2, <3>2
    <3> QED BY <3>1, <3>2
  <2> QED BY <2>1
<1>4. ASSUME NEW s \in SUBSET (1..(m + 1)), s # {}
      PROVE  g[s] = F[<<g[s \ {Max(s)}], Max(s)>>]
  <2>1. Max(s) \in s /\ \A y \in s : Max(s) >= y
    BY <1>1, <1>4, MaxIsIn
  <2>2. CASE m + 1 \in s
    <3>1. Max(s) \in 1..(m + 1) /\ Max(s) >= m + 1
      BY <2>1, <2>2
    <3>2. Max(s) = m + 1
      BY <3>1
    <3>3. g[s \ {m + 1}] = h[s \ {m + 1}]
      BY <1>2
    <3>4. g[s] = F[<<h[s \ {m + 1}], m + 1>>]
      BY <2>2
    <3> QED BY <3>2, <3>3, <3>4
  <2>3. CASE m + 1 \notin s
    <3>1. /\ s \in SUBSET (1..m) /\ s \ {Max(s)} \in SUBSET (1..m)
          /\ m + 1 \notin s \ {Max(s)}
      BY <1>2, <2>3
    <3>2. h[s] = F[<<h[s \ {Max(s)}], Max(s)>>]
      BY <1>4, <3>1 DEF FoldOf
    <3>3. g[s] = h[s] /\ g[s \ {Max(s)}] = h[s \ {Max(s)}]
      BY <2>3, <3>1
    <3> QED BY <3>2, <3>3
  <2> QED BY <2>2, <2>3
<1>5. g[{}] = b
  BY DEF FoldOf
<1>6. FoldOf(m + 1, b, F, g)
  <2> HIDE DEF g
  <2> QED BY <1>4, <1>5 DEF FoldOf
<1> HIDE DEF g
<1> QED BY <1>3, <1>6

(* ... so a fold over all of them exists, if each step stays in A.         *)
LEMMA FoldExists ==
    ASSUME NEW A, NEW n \in Nat, NEW b \in A, NEW F \in [A \X (1..n) -> A]
    PROVE  \E g \in [SUBSET (1..n) -> A] : FoldOf(n, b, F, g)
<1> DEFINE S == {m \in Nat : m <= n => Folded(m, b, F, A)}
<1>1. 0 \in S
  <2> DEFINE g == [s \in SUBSET (1..0) |-> b]
  <2>1. \A s \in SUBSET (1..0) : s = {}
    OBVIOUS
  <2>2. g \in [SUBSET (1..0) -> A] /\ FoldOf(0, b, F, g)
    BY <2>1 DEF FoldOf
  <2>3. Folded(0, b, F, A)
    BY <2>2 DEF Folded
  <2> QED BY <2>3
<1>2. ASSUME NEW m \in Nat, m + 1 <= n, Folded(m, b, F, A) PROVE Folded(m + 1, b, F, A)
  <2>1. PICK h \in [SUBSET (1..m) -> A] : FoldOf(m, b, F, h)
    BY <1>2 DEF Folded
  <2>2. \E g \in [SUBSET (1..(m + 1)) -> A] : FoldOf(m + 1, b, F, g)
    BY <1>2, <2>1, FoldGrows
  <2> QED BY <2>2 DEF Folded
<1>3. \A m \in Nat : m \in S => m + 1 \in S
  BY <1>2
<1>4. Nat \subseteq S
  <2> HIDE DEF S
  <2> QED BY <1>1, <1>3, SetInduction
<1>5. Folded(n, b, F, A)
  BY <1>4
<1> QED BY <1>5 DEF Folded

(* What holds of a fold at the start, and is kept by each step, holds at   *)
(* the end.                                                                *)
LEMMA SegmentInduction ==
    ASSUME NEW n \in Nat, NEW A, NEW f, f[{}] \in A[0],
           \A m \in 1..n : f[1..(m - 1)] \in A[m - 1] => f[1..m] \in A[m]
    PROVE  f[1..n] \in A[n]
<1> DEFINE S == {m \in Nat : m <= n => f[1..m] \in A[m]}
<1>1. 0 \in S
  <2>1. 1..0 = {}
    OBVIOUS
  <2> QED BY <2>1
<1>2. ASSUME NEW m \in Nat, m \in S PROVE m + 1 \in S
  <2>1. (m + 1) - 1 = m
    OBVIOUS
  <2> QED BY <1>2, <2>1
<1>3. n \in S
  <2> HIDE DEF S
  <2> QED BY <1>1, <1>2, SetInduction
<1> QED BY <1>3

(* it satisfies the recursion of MapThenFoldSet where its values are       *)
(* known.                                                                  *)
Unrolled(n, U, F, it) ==
    \A s \in SUBSET (1..n) : s # {} /\ it[s \ {Max(s)}] \in U
                             => it[s] = F[<<it[s \ {Max(s)}], Max(s)>>]

(* A step takes A[i - 1] to A[i].                                          *)
Kept(n, U, A, F) ==
    \A i \in 1..n : \A acc \in U : acc \in A[i - 1] => F[<<acc, i>>] \in A[i]

(* The same for the value that FoldLeft unrolls to, whose type is known    *)
(* only as far as it has been unrolled.                                    *)
LEMMA FoldStays ==
    ASSUME NEW n \in Nat, NEW U, NEW A, NEW F \in [U \X (1..n) -> U], NEW it,
           it[{}] \in U, it[{}] \in A[0]
    PROVE  Unrolled(n, U, F, it) /\ Kept(n, U, A, F) => it[1..n] \in U /\ it[1..n] \in A[n]
<1> SUFFICES ASSUME Unrolled(n, U, F, it), Kept(n, U, A, F)
             PROVE  it[1..n] \in U /\ it[1..n] \in A[n]
  OBVIOUS
<1> DEFINE B == [m \in 0..n |-> U \cap A[m]]
<1>1. it[{}] \in B[0]
  OBVIOUS
<1>2. ASSUME NEW m \in 1..n, it[1..(m - 1)] \in B[m - 1] PROVE it[1..m] \in B[m]
  <2>1. /\ 1..m \in SUBSET (1..n) /\ 1..m # {} /\ Max(1..m) = m
        /\ (1..m) \ {m} = 1..(m - 1)
    BY MaxOfSegment
  <2>2. m \in 0..n /\ m - 1 \in 0..n
    OBVIOUS
  <2>3. it[1..(m - 1)] \in U /\ it[1..(m - 1)] \in A[m - 1]
    BY <1>2, <2>2
  <2>4. it[1..m] = F[<<it[1..(m - 1)], m>>]
    BY <2>1, <2>3 DEF Unrolled
  <2>5. it[1..m] \in U /\ it[1..m] \in A[m]
    BY <2>3, <2>4 DEF Kept
  <2> QED BY <2>2, <2>5
<1>3. it[1..n] \in B[n]
  <2> HIDE DEF B
  <2> QED BY <1>1, <1>2, SegmentInduction
<1> QED BY <1>3

(* One more element.                                                       *)
LEMMA Appended ==
    ASSUME NEW S, NEW q \in Seq(S), NEW x \in S
    PROVE  /\ Append(q, x) \in Seq(S) /\ Len(Append(q, x)) = Len(q) + 1 /\ Append(q, x) # <<>>
           /\ DOMAIN Append(q, x) = 1..(Len(q) + 1) /\ DOMAIN q = 1..Len(q) /\ Len(q) \in Nat
           /\ \A i \in DOMAIN Append(q, x) : Append(q, x)[i] = IF i = Len(q) + 1 THEN x ELSE q[i]
           /\ Range(Append(q, x)) = Range(q) \cup {x}
<1>1. /\ Append(q, x) \in Seq(S) /\ Len(Append(q, x)) = Len(q) + 1
      /\ \A i \in 1..Len(q) : Append(q, x)[i] = q[i]
      /\ Append(q, x)[Len(q) + 1] = x
  BY AppendProperties
<1>2. DOMAIN Append(q, x) = 1..(Len(q) + 1) /\ DOMAIN q = 1..Len(q) /\ Len(q) \in Nat
  BY <1>1, LenProperties
<1>3. Append(q, x) # <<>>
  BY <1>1, <1>2, EmptySeq
<1>4. Range(Append(q, x)) = Range(q) \cup {x}
  BY <1>1, <1>2 DEF Range
<1> QED BY <1>1, <1>2, <1>3, <1>4

(* No two elements of q have one topic.                                    *)
Apart(q) == \A i, j \in DOMAIN q : Topic(q[i]) = Topic(q[j]) => i = j

(* An element of a new topic.                                              *)
LEMMA AppendedApart ==
    ASSUME NEW S, NEW q \in Seq(S), NEW x \in S, Apart(q),
           Topic(x) \notin Topics(Range(q))
    PROVE  Apart(Append(q, x))
<1>1. \A i \in DOMAIN q : Topic(q[i]) \in Topics(Range(q))
  BY DEF Topics, Range
<1>2. \A i \in DOMAIN q : Topic(q[i]) # Topic(x)
  BY <1>1
<1> QED BY <1>2, Appended DEF Apart

(* acc is what Among has picked of the first m elements.                   *)
Picked(acc, q, S, m) ==
    /\ Len(acc) <= m
    /\ Range(acc) = S \cap {q[j] : j \in 1..m}
    /\ (Apart(q) => Apart(acc))

(* One step of Among.                                                      *)
LEMMA OnePickedMore ==
    ASSUME NEW T, NEW q \in Seq(T), NEW S, NEW acc \in Seq(T), NEW i \in 1..Len(q),
           Picked(acc, q, S, i - 1)
    PROVE  /\ q[i] \in S => Len(acc) < Len(q) /\ Picked(Append(acc, q[i]), q, S, i)
           /\ q[i] \notin S => Picked(acc, q, S, i)
<1>1. DOMAIN q = 1..Len(q) /\ Len(q) \in Nat /\ q[i] \in T /\ Len(acc) \in Nat
  BY LenProperties, ElementOfSeq
<1>2. Len(acc) <= i - 1 /\ Range(acc) = S \cap {q[j] : j \in 1..(i - 1)}
  BY DEF Picked
<1>3. Len(acc) < Len(q) /\ Len(acc) + 1 <= i /\ Len(acc) <= i
  BY <1>1, <1>2
<1>4. {q[j] : j \in 1..i} = {q[j] : j \in 1..(i - 1)} \cup {q[i]}
  OBVIOUS
<1>5. ASSUME q[i] \in S PROVE Picked(Append(acc, q[i]), q, S, i)
  <2>1. Len(Append(acc, q[i])) <= i /\ Range(Append(acc, q[i])) = Range(acc) \cup {q[i]}
    BY <1>1, <1>3, Appended
  <2>2. Range(Append(acc, q[i])) = S \cap {q[j] : j \in 1..i}
    BY <1>2, <1>4, <1>5, <2>1
  <2>3. ASSUME Apart(q) PROVE Apart(Append(acc, q[i]))
    <3>1. ASSUME NEW j \in 1..(i - 1) PROVE Topic(q[j]) # Topic(q[i])
      <4>1. j \in DOMAIN q /\ i \in DOMAIN q /\ j # i
        BY <1>1
      <4> QED BY <2>3, <4>1 DEF Apart
    <3>2. Topic(q[i]) \notin Topics(Range(acc))
      BY <1>2, <3>1 DEF Topics
    <3>3. Apart(acc)
      BY <2>3 DEF Picked
    <3> QED BY <1>1, <3>2, <3>3, AppendedApart
  <2> QED BY <2>1, <2>2, <2>3 DEF Picked
<1>6. ASSUME q[i] \notin S PROVE Picked(acc, q, S, i)
  <2>1. Range(acc) = S \cap {q[j] : j \in 1..i}
    BY <1>2, <1>4, <1>6
  <2> QED BY <1>3, <2>1 DEF Picked
<1> QED BY <1>3, <1>5, <1>6

(* Among: the elements in S, no two of one topic if there were none        *)
(* before.                                                                 *)
LEMMA AmongAre ==
    ASSUME NEW T, NEW q \in Seq(T), NEW S
    PROVE  /\ Among(q, S) \in Seq(T) /\ Range(Among(q, S)) = S \cap Range(q)
           /\ Len(Among(q, S)) <= Len(q) /\ (Apart(q) => Apart(Among(q, S)))
<1> DEFINE n == Len(q)
           One(acc, i) == IF Len(acc) < n /\ q[i] \in S THEN Append(acc, q[i]) ELSE acc
           U == Seq(T)
           A == [m \in 0..n |-> {acc \in U : Picked(acc, q, S, m)}]
           F == [p \in U \X (1..n) |-> One(p[1], p[2])]
           it == CHOOSE g : g = [s \in SUBSET (1..n) |->
                                   IF s = {} THEN <<>>
                                   ELSE One(g[s \ {Max(s)}], Max(s))]
<1>1. DOMAIN q = 1..n /\ n \in Nat
  BY LenProperties
<1>2. Among(q, S) = it[1..n]
  BY <1>1 DEF Among, Extended, FoldLeft, MapThenFoldSet
<1>3. <<>> \in U /\ <<>> \in A[0]
  <2>1. Picked(<<>>, q, S, 0)
    BY EmptySeq DEF Range, Apart, Picked
  <2>2. <<>> \in U /\ 0 \in 0..n
    BY <1>1, EmptySeq
  <2> HIDE DEF U
  <2> QED BY <2>1, <2>2
<1>4. ASSUME NEW acc \in U, NEW i \in 1..n
      PROVE  One(acc, i) \in U /\ (acc \in A[i - 1] => One(acc, i) \in A[i])
  <2>1. q[i] \in T
    BY <1>1, ElementOfSeq
  <2>2. Append(acc, q[i]) \in U
    BY <2>1, Appended
  <2>3. ASSUME Picked(acc, q, S, i - 1)
        PROVE  /\ (q[i] \in S => Len(acc) < n /\ Picked(Append(acc, q[i]), q, S, i))
               /\ (q[i] \notin S => Picked(acc, q, S, i))
    BY <2>3, OnePickedMore
  <2>4. i \in 0..n /\ i - 1 \in 0..n
    BY <1>1
  <2>5. Picked(acc, q, S, i - 1) => Picked(One(acc, i), q, S, i)
    <3> HIDE DEF U, n
    <3> QED BY <2>3
  <2>6. One(acc, i) \in U
    <3> HIDE DEF U
    <3> QED BY <2>2
  <2> HIDE DEF One, U, n
  <2> QED BY <2>4, <2>5, <2>6
<1>5. F \in [U \X (1..n) -> U]
  <2> HIDE DEF U, One
  <2> QED BY <1>4
<1>6. it = [s \in SUBSET (1..n) |->
               IF s = {} THEN <<>> ELSE One(it[s \ {Max(s)}], Max(s))]
  <2>1. PICK g \in [SUBSET (1..n) -> U] : FoldOf(n, <<>>, F, g)
    <3> HIDE DEF U, F
    <3> QED BY <1>1, <1>3, <1>5, FoldExists
  <2>2. ASSUME NEW s \in SUBSET (1..n), s # {}
        PROVE  g[s] = One(g[s \ {Max(s)}], Max(s))
    <3>1. Max(s) \in 1..n /\ g[s \ {Max(s)}] \in U
      BY <1>1, <2>2, MaxIsIn
    <3>2. g[s] = F[<<g[s \ {Max(s)}], Max(s)>>]
      BY <2>1, <2>2 DEF FoldOf
    <3> HIDE DEF U, One
    <3> QED BY <3>1, <3>2
  <2>3. g[{}] = <<>>
    BY <2>1 DEF FoldOf
  <2>4. g = [s \in SUBSET (1..n) |->
                IF s = {} THEN <<>> ELSE One(g[s \ {Max(s)}], Max(s))]
    <3> HIDE DEF U, One
    <3> QED BY <2>2, <2>3
  <2> HIDE DEF One
  <2> QED BY <2>4
<1>7. it[1..n] \in U /\ it[1..n] \in A[n]
  <2>1. it[{}] = <<>>
    <3> HIDE DEF it, One
    <3> QED BY <1>6
  <2>2. ASSUME NEW s \in SUBSET (1..n), s # {}, it[s \ {Max(s)}] \in U
        PROVE  it[s] = F[<<it[s \ {Max(s)}], Max(s)>>]
    <3>1. Max(s) \in 1..n
      BY <1>1, <2>2, MaxIsIn
    <3>2. it[s] = One(it[s \ {Max(s)}], Max(s))
      <4> HIDE DEF it, One
      <4> QED BY <1>6, <2>2
    <3> HIDE DEF it, U, One
    <3> QED BY <2>2, <3>1, <3>2
  <2>3. ASSUME NEW i \in 1..n, NEW acc \in U, acc \in A[i - 1] PROVE F[<<acc, i>>] \in A[i]
    <3> HIDE DEF U, A, One
    <3> QED BY <1>4, <2>3
  <2> HIDE DEF n, A, U, F, it
  <2>4. Unrolled(n, U, F, it) /\ Kept(n, U, A, F)
    BY <2>2, <2>3 DEF Unrolled, Kept
  <2> QED BY <1>1, <1>3, <1>5, <2>1, <2>4, FoldStays
<1> HIDE DEF it
<1>8. Picked(it[1..n], q, S, n) /\ it[1..n] \in Seq(T)
  <2>1. n \in 0..n
    BY <1>1
  <2> HIDE DEF n
  <2> QED BY <1>7, <2>1
<1>9. {q[j] : j \in 1..n} = Range(q)
  BY <1>1 DEF Range
<1> QED BY <1>2, <1>8, <1>9 DEF Picked

(* Take: a prefix.                                                         *)
LEMMA Taken ==
    ASSUME NEW T, NEW q \in Seq(T), NEW n \in Nat
    PROVE  /\ Take(q, n) \in Seq(T) /\ Len(Take(q, n)) <= n
           /\ Len(Take(q, n)) = IF n < Len(q) THEN n ELSE Len(q)
           /\ DOMAIN Take(q, n) = 1..Len(Take(q, n))
           /\ DOMAIN Take(q, n) \subseteq DOMAIN q
           /\ \A i \in DOMAIN Take(q, n) : Take(q, n)[i] = q[i]
           /\ Range(Take(q, n)) \subseteq Range(q)
           /\ (Apart(q) => Apart(Take(q, n)))
           /\ (Len(q) <= n => Take(q, n) = q)
<1> DEFINE k == IF n < Len(q) THEN n ELSE Len(q)
           t == SubSeq(q, 1, k)
<1>1. DOMAIN q = 1..Len(q) /\ Len(q) \in Nat /\ \A i \in 1..Len(q) : q[i] \in T
  BY LenProperties, ElementOfSeq
<1>2. k \in Nat /\ k <= n /\ k <= Len(q) /\ (Len(q) <= n => k = Len(q))
  <2>1. Len(q) \in Nat
    BY <1>1
  <2>2. CASE n < Len(q)
    BY <2>1, <2>2
  <2>3. CASE ~(n < Len(q))
    BY <2>1, <2>3
  <2> QED BY <2>2, <2>3
<1> HIDE DEF k
<1>3. t = Take(q, n)
  BY DEF Take, k
<1>4. ASSUME NEW i \in 1..k PROVE q[i] \in T
  <2>1. Len(q) \in Nat /\ k \in Nat /\ k <= Len(q) /\ i \in Nat /\ 1 <= i /\ i <= k
    <3>1. Len(q) \in Nat
      BY <1>1
    <3>2. k \in Nat
      BY <1>2
    <3>3. k <= Len(q)
      BY <1>2
    <3>4. i \in Nat /\ 1 <= i /\ i <= k
      BY <3>2
    <3> QED BY <3>1, <3>2, <3>3, <3>4
  <2>2. i \in 1..Len(q)
    <3> HIDE <1>1, <1>2
    <3> QED BY <2>1
  <2> QED BY <2>2, ElementOfSeq
<1>5. /\ t \in Seq(T) /\ Len(t) = (IF 1 <= k THEN k - 1 + 1 ELSE 0)
      /\ \A i \in 1..(k - 1 + 1) : t[i] = q[1 + i - 1]
  BY <1>2, <1>4, SubSeqProperties
<1> HIDE DEF t
<1>6. Len(t) = k /\ DOMAIN t = 1..k
  BY <1>2, <1>5, LenProperties
<1>7. \A i \in 1..k : t[i] = q[i] /\ i \in DOMAIN q
  <2>1. ASSUME NEW i \in 1..k PROVE t[i] = q[i]
    <3>1. i \in 1..(k - 1 + 1) /\ 1 + i - 1 = i
      BY <1>2
    <3> QED BY <1>5, <3>1
  <2>2. ASSUME NEW i \in 1..k PROVE i \in DOMAIN q
    <3>1. Len(q) \in Nat
      BY <1>1
    <3>2. k \in Nat /\ k <= Len(q)
      BY <1>2
    <3>3. i \in 1..Len(q)
      BY <3>1, <3>2
    <3> QED BY <1>1, <3>3
  <2> QED BY <2>1, <2>2
<1>8. Range(t) \subseteq Range(q)
  BY <1>6, <1>7 DEF Range
<1>9. Apart(q) => Apart(t)
  BY <1>6, <1>7 DEF Apart
<1>10. Len(q) <= n => t = q
  <2>1. ASSUME Len(q) <= n PROVE Len(t) = Len(q) /\ \A i \in 1..Len(t) : t[i] = q[i]
    BY <1>2, <1>6, <1>7, <2>1
  <2>2. ASSUME Len(q) <= n PROVE t = q
    BY <1>5, <2>1, <2>2, SeqEqual
  <2> QED BY <2>2
<1>11. DOMAIN t \subseteq DOMAIN q
  BY <1>6, <1>7
<1> HIDE DEF t
<1>12. k = IF n < Len(q) THEN n ELSE Len(q)
  BY DEF k
<1> QED BY <1>2, <1>3, <1>5, <1>6, <1>7, <1>8, <1>9, <1>10, <1>11, <1>12

(* _cluster_cap leaves one signal per topic.                               *)
LEMMA ClusterCapped ==
    ASSUME NEW T, NEW q \in Seq(T)
    PROVE  ClusterCap(q) \in Seq(T) /\ Apart(ClusterCap(q))
<1> DEFINE n == Len(q)
           One(acc, i) == IF Len(acc) < n /\ Topic(q[i]) \notin Topics(Range(acc))
                           THEN Append(acc, q[i]) ELSE acc
           U == {c \in Seq(T) : Apart(c)}
           A == [m \in 0..n |-> U]
           F == [p \in U \X (1..n) |-> One(p[1], p[2])]
           it == CHOOSE g : g = [s \in SUBSET (1..n) |->
                                   IF s = {} THEN <<>>
                                   ELSE One(g[s \ {Max(s)}], Max(s))]
<1>1. DOMAIN q = 1..n /\ n \in Nat
  BY LenProperties
<1>2. ClusterCap(q) = it[1..n]
  BY <1>1 DEF ClusterCap, Extended, FoldLeft, MapThenFoldSet, NewTopic
<1>3. <<>> \in U /\ <<>> \in A[0]
  <2>1. <<>> \in U
    BY EmptySeq DEF Apart
  <2>2. 0 \in 0..n
    BY <1>1
  <2> HIDE DEF U
  <2> QED BY <2>1, <2>2
<1>4. ASSUME NEW acc \in U, NEW i \in 1..n
      PROVE  One(acc, i) \in U /\ (acc \in A[i - 1] => One(acc, i) \in A[i])
  <2>1. q[i] \in T
    BY <1>1, ElementOfSeq
  <2>2. ASSUME Topic(q[i]) \notin Topics(Range(acc)) PROVE Append(acc, q[i]) \in U
    BY <2>1, <2>2, Appended, AppendedApart
  <2>3. One(acc, i) \in U
    <3> HIDE DEF U
    <3> QED BY <2>2
  <2>4. i \in 0..n
    BY <1>1
  <2> HIDE DEF One, U, n
  <2> QED BY <2>3, <2>4
<1>5. F \in [U \X (1..n) -> U]
  <2> HIDE DEF U, One
  <2> QED BY <1>4
<1>6. it = [s \in SUBSET (1..n) |->
               IF s = {} THEN <<>> ELSE One(it[s \ {Max(s)}], Max(s))]
  <2>1. PICK g \in [SUBSET (1..n) -> U] : FoldOf(n, <<>>, F, g)
    <3> HIDE DEF U, F
    <3> QED BY <1>1, <1>3, <1>5, FoldExists
  <2>2. ASSUME NEW s \in SUBSET (1..n), s # {}
        PROVE  g[s] = One(g[s \ {Max(s)}], Max(s))
    <3>1. Max(s) \in 1..n /\ g[s \ {Max(s)}] \in U
      BY <1>1, <2>2, MaxIsIn
    <3>2. g[s] = F[<<g[s \ {Max(s)}], Max(s)>>]
      BY <2>1, <2>2 DEF FoldOf
    <3> HIDE DEF U, One
    <3> QED BY <3>1, <3>2
  <2>3. g[{}] = <<>>
    BY <2>1 DEF FoldOf
  <2>4. g = [s \in SUBSET (1..n) |->
                IF s = {} THEN <<>> ELSE One(g[s \ {Max(s)}], Max(s))]
    <3> HIDE DEF U, One
    <3> QED BY <2>2, <2>3
  <2> HIDE DEF One
  <2> QED BY <2>4
<1>7. it[1..n] \in U /\ it[1..n] \in A[n]
  <2>1. it[{}] = <<>>
    <3> HIDE DEF it, One
    <3> QED BY <1>6
  <2>2. ASSUME NEW s \in SUBSET (1..n), s # {}, it[s \ {Max(s)}] \in U
        PROVE  it[s] = F[<<it[s \ {Max(s)}], Max(s)>>]
    <3>1. Max(s) \in 1..n
      BY <1>1, <2>2, MaxIsIn
    <3>2. it[s] = One(it[s \ {Max(s)}], Max(s))
      <4> HIDE DEF it, One
      <4> QED BY <1>6, <2>2
    <3> HIDE DEF it, U, One
    <3> QED BY <2>2, <3>1, <3>2
  <2>3. ASSUME NEW i \in 1..n, NEW acc \in U, acc \in A[i - 1] PROVE F[<<acc, i>>] \in A[i]
    <3> HIDE DEF U, A, One
    <3> QED BY <1>4, <2>3
  <2> HIDE DEF n, A, U, F, it
  <2>4. Unrolled(n, U, F, it) /\ Kept(n, U, A, F)
    BY <2>2, <2>3 DEF Unrolled, Kept
  <2> QED BY <1>1, <1>3, <1>5, <2>1, <2>4, FoldStays
<1> HIDE DEF it
<1>8. it[1..n] \in U
  BY <1>7
<1> QED BY <1>2, <1>8

(* A top-up adds neither a second signal of a topic nor one that the model *)
(* rejected.                                                               *)
LEMMA ToppedUp ==
    ASSUME NEW kept \in Seq(Signals), NEW out, Scored \in Seq(Signals),
           Apart(kept),
           Topics(Range(kept)) \cap out = {}
    PROVE  /\ TopUp(kept, out) \in Seq(Signals) /\ Apart(TopUp(kept, out))
           /\ Topics(Range(TopUp(kept, out))) \cap out = {}
           /\ (kept # <<>> => TopUp(kept, out) # <<>>)
<1> DEFINE n == Len(Scored)
           One(acc, i) == IF Len(acc) < ShortMin
                             /\ /\ Topic(Scored[i]) \notin Topics(Range(acc))
                                /\ Bridged(Scored[i])
                                /\ Topic(Scored[i]) \notin out
                           THEN Append(acc, Scored[i]) ELSE acc
           U == {c \in Seq(Signals) : /\ Apart(c) /\ Topics(Range(c)) \cap out = {}
                                       /\ (kept # <<>> => c # <<>>)}
           A == [m \in 0..n |-> U]
           F == [p \in U \X (1..n) |-> One(p[1], p[2])]
           it == CHOOSE g : g = [s \in SUBSET (1..n) |->
                                   IF s = {} THEN kept
                                   ELSE One(g[s \ {Max(s)}], Max(s))]
<1>1. DOMAIN Scored = 1..n /\ n \in Nat
  BY LenProperties
<1>2. TopUp(kept, out) = it[1..n]
  BY <1>1 DEF TopUp, Extended, FoldLeft, MapThenFoldSet, NewTopic
<1>3. kept \in U /\ kept \in A[0]
  <2>1. kept \in U
    OBVIOUS
  <2>2. 0 \in 0..n
    BY <1>1
  <2> HIDE DEF U
  <2> QED BY <2>1, <2>2
<1>4. ASSUME NEW acc \in U, NEW i \in 1..n
      PROVE  One(acc, i) \in U /\ (acc \in A[i - 1] => One(acc, i) \in A[i])
  <2>1. Scored[i] \in Signals
    BY <1>1, ElementOfSeq
  <2>2. ASSUME Topic(Scored[i]) \notin Topics(Range(acc)),
               Topic(Scored[i]) \notin out
        PROVE  Append(acc, Scored[i]) \in U
    <3>1. Topics(Range(Append(acc, Scored[i])))
       = Topics(Range(acc)) \cup {Topic(Scored[i])}
      BY <2>1, Appended DEF Topics
    <3>2. Append(acc, Scored[i]) \in Seq(Signals) /\ Append(acc, Scored[i]) # <<>>
      BY <2>1, Appended
    <3>3. Apart(Append(acc, Scored[i]))
      BY <2>1, <2>2, AppendedApart
    <3> QED BY <2>2, <3>1, <3>2, <3>3
  <2>3. One(acc, i) \in U
    <3> HIDE DEF U
    <3> QED BY <2>2
  <2>4. i \in 0..n
    BY <1>1
  <2> HIDE DEF One, U, n
  <2> QED BY <2>3, <2>4
<1>5. F \in [U \X (1..n) -> U]
  <2> HIDE DEF U, One
  <2> QED BY <1>4
<1>6. it = [s \in SUBSET (1..n) |->
               IF s = {} THEN kept ELSE One(it[s \ {Max(s)}], Max(s))]
  <2>1. PICK g \in [SUBSET (1..n) -> U] : FoldOf(n, kept, F, g)
    <3> HIDE DEF U, F
    <3> QED BY <1>1, <1>3, <1>5, FoldExists
  <2>2. ASSUME NEW s \in SUBSET (1..n), s # {}
        PROVE  g[s] = One(g[s \ {Max(s)}], Max(s))
    <3>1. Max(s) \in 1..n /\ g[s \ {Max(s)}] \in U
      BY <1>1, <2>2, MaxIsIn
    <3>2. g[s] = F[<<g[s \ {Max(s)}], Max(s)>>]
      BY <2>1, <2>2 DEF FoldOf
    <3> HIDE DEF U, One
    <3> QED BY <3>1, <3>2
  <2>3. g[{}] = kept
    BY <2>1 DEF FoldOf
  <2>4. g = [s \in SUBSET (1..n) |->
                IF s = {} THEN kept ELSE One(g[s \ {Max(s)}], Max(s))]
    <3> HIDE DEF U, One
    <3> QED BY <2>2, <2>3
  <2> HIDE DEF One
  <2> QED BY <2>4
<1>7. it[1..n] \in U /\ it[1..n] \in A[n]
  <2>1. it[{}] = kept
    <3> HIDE DEF it, One
    <3> QED BY <1>6
  <2>2. ASSUME NEW s \in SUBSET (1..n), s # {}, it[s \ {Max(s)}] \in U
        PROVE  it[s] = F[<<it[s \ {Max(s)}], Max(s)>>]
    <3>1. Max(s) \in 1..n
      BY <1>1, <2>2, MaxIsIn
    <3>2. it[s] = One(it[s \ {Max(s)}], Max(s))
      <4> HIDE DEF it, One
      <4> QED BY <1>6, <2>2
    <3> HIDE DEF it, U, One
    <3> QED BY <2>2, <3>1, <3>2
  <2>3. ASSUME NEW i \in 1..n, NEW acc \in U, acc \in A[i - 1] PROVE F[<<acc, i>>] \in A[i]
    <3> HIDE DEF U, A, One
    <3> QED BY <1>4, <2>3
  <2> HIDE DEF n, A, U, F, it
  <2>4. Unrolled(n, U, F, it) /\ Kept(n, U, A, F)
    BY <2>2, <2>3 DEF Unrolled, Kept
  <2> QED BY <1>1, <1>3, <1>5, <2>1, <2>4, FoldStays
<1> HIDE DEF it
<1>8. it[1..n] \in U
  BY <1>7
<1> QED BY <1>2, <1>8

(* Questions as they may be asked: of candidates, none of them or of their *)
(* topics served lately, and no two of one topic.                          *)
Sound(qs, old) ==
    /\ qs \in Seq(SUBSET Range(list))
    /\ \A refs \in Range(qs) : /\ refs # {} /\ refs \cap old.signals = {}
                               /\ Topics(refs) \cap old.topics = {}
    /\ \A i, j \in DOMAIN qs : i # j => Topics(qs[i]) \cap Topics(qs[j]) = {}

(* An accepted question goes with those before it.                         *)
LEMMA OneMore ==
    ASSUME NEW qs, NEW refs \in SUBSET Range(list), NEW old, Sound(qs, old),
           Accepted(qs, refs, old)
    PROVE  /\ Sound(Append(qs, refs), old)
           /\ Used(Append(qs, refs)) = Used(qs) \cup Topics(refs)
           /\ Len(Append(qs, refs)) = Len(qs) + 1 /\ Len(qs) \in Nat
<1>1. qs \in Seq(SUBSET Range(list))
  BY DEF Sound
<1> DEFINE q == Append(qs, refs)
<1>2. /\ q \in Seq(SUBSET Range(list)) /\ Len(q) = Len(qs) + 1 /\ Len(qs) \in Nat
      /\ DOMAIN q = 1..(Len(qs) + 1) /\ DOMAIN qs = 1..Len(qs)
      /\ \A i \in DOMAIN q : q[i] = IF i = Len(qs) + 1 THEN refs ELSE qs[i]
      /\ Range(q) = Range(qs) \cup {refs}
  BY <1>1, Appended
<1> HIDE DEF q
<1>3. Used(q) = Used(qs) \cup Topics(refs)
  BY <1>2 DEF Used, Topics
<1>4. ASSUME NEW i \in DOMAIN qs PROVE Topics(qs[i]) \cap Topics(refs) = {}
  <2>1. qs[i] \in Range(qs)
    BY DEF Range
  <2>2. Topics(qs[i]) \subseteq Used(qs)
    BY <2>1 DEF Used, Topics
  <2> QED BY <2>2 DEF Accepted
<1>5. ASSUME NEW i \in DOMAIN q, NEW j \in DOMAIN q, i # j
      PROVE  Topics(q[i]) \cap Topics(q[j]) = {}
  <2>1. CASE i = Len(qs) + 1
    <3>1. j \in DOMAIN qs /\ q[i] = refs /\ q[j] = qs[j]
      BY <1>2, <1>5, <2>1
    <3> QED BY <1>4, <3>1
  <2>2. CASE j = Len(qs) + 1
    <3>1. i \in DOMAIN qs /\ q[j] = refs /\ q[i] = qs[i]
      BY <1>2, <1>5, <2>2
    <3> QED BY <1>4, <3>1
  <2>3. CASE i # Len(qs) + 1 /\ j # Len(qs) + 1
    <3>1. i \in DOMAIN qs /\ j \in DOMAIN qs /\ q[i] = qs[i] /\ q[j] = qs[j]
      BY <1>2, <2>3
    <3> QED BY <1>5, <3>1 DEF Sound
  <2> QED BY <2>1, <2>2, <2>3
<1>6. \A r \in Range(q) : /\ r # {} /\ r \cap old.signals = {}
                          /\ Topics(r) \cap old.topics = {}
  BY <1>2 DEF Sound, Accepted
<1>7. Sound(q, old)
  BY <1>2, <1>5, <1>6 DEF Sound
<1> QED BY <1>2, <1>3, <1>7 DEF q

(* Whatever the model composes, what is taken of it is sound.              *)
LEMMA FromModelSound ==
    ASSUME NEW X, NEW raw \in Seq(X), NEW old
    PROVE  Sound(FromModel(raw, old), old)
<1> DEFINE n == Len(raw)
           One(acc, i) == IF Accepted(acc, raw[i] \cap Range(list), old)
                           THEN Append(acc, raw[i] \cap Range(list)) ELSE acc
           U == {c \in Seq(SUBSET Range(list)) : Sound(c, old)}
           A == [m \in 0..n |-> U]
           F == [p \in U \X (1..n) |-> One(p[1], p[2])]
           it == CHOOSE g : g = [s \in SUBSET (1..n) |->
                                   IF s = {} THEN <<>>
                                   ELSE One(g[s \ {Max(s)}], Max(s))]
<1>1. DOMAIN raw = 1..n /\ n \in Nat
  BY LenProperties
<1>2. FromModel(raw, old) = it[1..n]
  BY <1>1 DEF FromModel, FoldLeft, MapThenFoldSet
<1>3. <<>> \in U /\ <<>> \in A[0]
  <2>1. <<>> \in U
    BY EmptySeq DEF Sound, Range
  <2>2. 0 \in 0..n
    BY <1>1
  <2> HIDE DEF U
  <2> QED BY <2>1, <2>2
<1>4. ASSUME NEW acc \in U, NEW i \in 1..n
      PROVE  One(acc, i) \in U /\ (acc \in A[i - 1] => One(acc, i) \in A[i])
  <2>1. raw[i] \cap Range(list) \in SUBSET Range(list)
    OBVIOUS
  <2>2. ASSUME Accepted(acc, raw[i] \cap Range(list), old)
        PROVE  Append(acc, raw[i] \cap Range(list)) \in U
    <3>1. Sound(Append(acc, raw[i] \cap Range(list)), old)
      BY <2>1, <2>2, OneMore
    <3> QED BY <3>1 DEF Sound
  <2>3. One(acc, i) \in U
    <3> HIDE DEF U
    <3> QED BY <2>2
  <2>4. i \in 0..n
    BY <1>1
  <2> HIDE DEF One, U, n
  <2> QED BY <2>3, <2>4
<1>5. F \in [U \X (1..n) -> U]
  <2> HIDE DEF U, One
  <2> QED BY <1>4
<1>6. it = [s \in SUBSET (1..n) |->
               IF s = {} THEN <<>> ELSE One(it[s \ {Max(s)}], Max(s))]
  <2>1. PICK g \in [SUBSET (1..n) -> U] : FoldOf(n, <<>>, F, g)
    <3> HIDE DEF U, F
    <3> QED BY <1>1, <1>3, <1>5, FoldExists
  <2>2. ASSUME NEW s \in SUBSET (1..n), s # {}
        PROVE  g[s] = One(g[s \ {Max(s)}], Max(s))
    <3>1. Max(s) \in 1..n /\ g[s \ {Max(s)}] \in U
      BY <1>1, <2>2, MaxIsIn
    <3>2. g[s] = F[<<g[s \ {Max(s)}], Max(s)>>]
      BY <2>1, <2>2 DEF FoldOf
    <3> HIDE DEF U, One
    <3> QED BY <3>1, <3>2
  <2>3. g[{}] = <<>>
    BY <2>1 DEF FoldOf
  <2>4. g = [s \in SUBSET (1..n) |->
                IF s = {} THEN <<>> ELSE One(g[s \ {Max(s)}], Max(s))]
    <3> HIDE DEF U, One
    <3> QED BY <2>2, <2>3
  <2> HIDE DEF One
  <2> QED BY <2>4
<1>7. it[1..n] \in U /\ it[1..n] \in A[n]
  <2>1. it[{}] = <<>>
    <3> HIDE DEF it, One
    <3> QED BY <1>6
  <2>2. ASSUME NEW s \in SUBSET (1..n), s # {}, it[s \ {Max(s)}] \in U
        PROVE  it[s] = F[<<it[s \ {Max(s)}], Max(s)>>]
    <3>1. Max(s) \in 1..n
      BY <1>1, <2>2, MaxIsIn
    <3>2. it[s] = One(it[s \ {Max(s)}], Max(s))
      <4> HIDE DEF it, One
      <4> QED BY <1>6, <2>2
    <3> HIDE DEF it, U, One
    <3> QED BY <2>2, <3>1, <3>2
  <2>3. ASSUME NEW i \in 1..n, NEW acc \in U, acc \in A[i - 1] PROVE F[<<acc, i>>] \in A[i]
    <3> HIDE DEF U, A, One
    <3> QED BY <1>4, <2>3
  <2> HIDE DEF n, A, U, F, it
  <2>4. Unrolled(n, U, F, it) /\ Kept(n, U, A, F)
    BY <2>2, <2>3 DEF Unrolled, Kept
  <2> QED BY <1>1, <1>3, <1>5, <2>1, <2>4, FoldStays
<1> HIDE DEF it
<1>8. it[1..n] \in U
  BY <1>7
<1> QED BY <1>2, <1>8

(* With fewer questions than wanted, none of the first m candidates is     *)
(* left.                                                                   *)
Served(acc, old, m) == Len(acc) < Ask => \A j \in 1..m : ~Accepted(acc, {list[j]}, old)

(* _pad_questions keeps that, and stops at five or after every candidate.  *)
LEMMA Padded ==
    ASSUME NEW T, list \in Seq(T), Ask \in Nat, NEW qs, NEW old, Sound(qs, old)
    PROVE  Sound(Pad(qs, old), old) /\ Served(Pad(qs, old), old, Len(list))
<1> DEFINE n == Len(list)
           One(acc, i) == IF Len(acc) < Ask /\ Accepted(acc, {list[i]}, old)
                           THEN Append(acc, {list[i]}) ELSE acc
           U == {c \in Seq(SUBSET Range(list)) : Sound(c, old)}
           A == [m \in 0..n |-> {c \in U : Served(c, old, m)}]
           F == [p \in U \X (1..n) |-> One(p[1], p[2])]
           it == CHOOSE g : g = [s \in SUBSET (1..n) |->
                                   IF s = {} THEN qs ELSE One(g[s \ {Max(s)}], Max(s))]
<1>1. DOMAIN list = 1..n /\ n \in Nat
  BY LenProperties
<1>2. Pad(qs, old) = it[1..n]
  BY <1>1 DEF Pad, FoldLeft, MapThenFoldSet
<1>3. qs \in U /\ qs \in A[0]
  <2>1. qs \in U
    BY DEF Sound
  <2>2. 0 \in 0..n
    BY <1>1
  <2>3. Served(qs, old, 0)
    BY DEF Served
  <2> HIDE DEF U
  <2> QED BY <2>1, <2>2, <2>3
<1>4. ASSUME NEW acc \in U, NEW i \in 1..n
      PROVE  One(acc, i) \in U /\ (acc \in A[i - 1] => One(acc, i) \in A[i])
  <2>1. {list[i]} \in SUBSET Range(list)
    BY <1>1 DEF Range
  <2>2. ASSUME Accepted(acc, {list[i]}, old)
        PROVE  /\ Append(acc, {list[i]}) \in U
               /\ Used(Append(acc, {list[i]})) = Used(acc) \cup Topics({list[i]})
               /\ Len(Append(acc, {list[i]})) = Len(acc) + 1 /\ Len(acc) \in Nat
    <3>1. Sound(Append(acc, {list[i]}), old)
      BY <2>1, <2>2, OneMore
    <3>2. Append(acc, {list[i]}) \in U
      BY <3>1 DEF Sound
    <3> QED BY <2>1, <2>2, <3>2, OneMore
  <2>3. One(acc, i) \in U
    <3> HIDE DEF U
    <3> QED BY <2>2
  <2>4. i \in 0..n /\ i - 1 \in 0..n
    BY <1>1
  <2>5. ASSUME Served(acc, old, i - 1) PROVE Served(One(acc, i), old, i)
    <3>1. ASSUME NEW j \in 1..i, j # i PROVE j \in 1..(i - 1)
      BY <3>1
    <3>2. CASE Len(acc) < Ask /\ Accepted(acc, {list[i]}, old)
      <4> DEFINE q == Append(acc, {list[i]})
      <4>1. One(acc, i) = q
        BY <3>2
      <4>2. /\ Used(q) = Used(acc) \cup Topics({list[i]})
            /\ Len(q) = Len(acc) + 1 /\ Len(acc) \in Nat
        BY <2>2, <3>2
      <4> HIDE DEF q
      <4>3. ~Accepted(q, {list[i]}, old)
        BY <4>2 DEF Accepted, Topics
      <4>4. ASSUME NEW j \in 1..(i - 1), Len(q) < Ask PROVE ~Accepted(q, {list[j]}, old)
        <5>1. Len(acc) < Ask
          BY <3>2
        <5>2. ~Accepted(acc, {list[j]}, old)
          BY <2>5, <5>1 DEF Served
        <5> QED BY <4>2, <5>2 DEF Accepted
      <4>5. Served(q, old, i)
        BY <3>1, <4>3, <4>4 DEF Served
      <4> QED BY <4>1, <4>5
    <3>3. CASE ~(Len(acc) < Ask /\ Accepted(acc, {list[i]}, old))
      <4>1. One(acc, i) = acc
        BY <3>3
      <4>2. Served(acc, old, i)
        BY <2>5, <3>1, <3>3 DEF Served
      <4> QED BY <4>1, <4>2
    <3> QED BY <3>2, <3>3
  <2> HIDE DEF One, U, n
  <2> QED BY <2>3, <2>4, <2>5
<1>5. F \in [U \X (1..n) -> U]
  <2> HIDE DEF U, One
  <2> QED BY <1>4
<1>6. it = [s \in SUBSET (1..n) |->
               IF s = {} THEN qs ELSE One(it[s \ {Max(s)}], Max(s))]
  <2>1. PICK g \in [SUBSET (1..n) -> U] : FoldOf(n, qs, F, g)
    <3> HIDE DEF U, F
    <3> QED BY <1>1, <1>3, <1>5, FoldExists
  <2>2. ASSUME NEW s \in SUBSET (1..n), s # {}
        PROVE  g[s] = One(g[s \ {Max(s)}], Max(s))
    <3>1. Max(s) \in 1..n /\ g[s \ {Max(s)}] \in U
      BY <1>1, <2>2, MaxIsIn
    <3>2. g[s] = F[<<g[s \ {Max(s)}], Max(s)>>]
      BY <2>1, <2>2 DEF FoldOf
    <3> HIDE DEF U, One
    <3> QED BY <3>1, <3>2
  <2>3. g[{}] = qs
    BY <2>1 DEF FoldOf
  <2>4. g = [s \in SUBSET (1..n) |->
                IF s = {} THEN qs ELSE One(g[s \ {Max(s)}], Max(s))]
    <3> HIDE DEF U, One
    <3> QED BY <2>2, <2>3
  <2> HIDE DEF One
  <2> QED BY <2>4
<1>7. it[1..n] \in U /\ it[1..n] \in A[n]
  <2>1. it[{}] = qs
    <3> HIDE DEF it, One
    <3> QED BY <1>6
  <2>2. ASSUME NEW s \in SUBSET (1..n), s # {}, it[s \ {Max(s)}] \in U
        PROVE  it[s] = F[<<it[s \ {Max(s)}], Max(s)>>]
    <3>1. Max(s) \in 1..n
      BY <1>1, <2>2, MaxIsIn
    <3>2. it[s] = One(it[s \ {Max(s)}], Max(s))
      <4> HIDE DEF it, One
      <4> QED BY <1>6, <2>2
    <3> HIDE DEF it, U, One
    <3> QED BY <2>2, <3>1, <3>2
  <2>3. ASSUME NEW i \in 1..n, NEW acc \in U, acc \in A[i - 1] PROVE F[<<acc, i>>] \in A[i]
    <3> HIDE DEF U, A, One
    <3> QED BY <1>4, <2>3
  <2> HIDE DEF n, A, U, F, it
  <2>4. Unrolled(n, U, F, it) /\ Kept(n, U, A, F)
    BY <2>2, <2>3 DEF Unrolled, Kept
  <2> QED BY <1>1, <1>3, <1>5, <2>1, <2>4, FoldStays
<1> HIDE DEF it
<1>8. it[1..n] \in U /\ Served(it[1..n], old, n)
  <2>1. n \in 0..n
    BY <1>1
  <2> HIDE DEF n, U
  <2> QED BY <1>7, <2>1
<1> QED BY <1>2, <1>8

(* A prefix of sound questions.                                            *)
LEMMA SoundTaken ==
    ASSUME NEW qs, NEW old, NEW n \in Nat, Sound(qs, old)
    PROVE  Sound(Take(qs, n), old)
<1> DEFINE t == Take(qs, n)
<1>1. qs \in Seq(SUBSET Range(list))
  BY DEF Sound
<1>2. /\ t \in Seq(SUBSET Range(list)) /\ DOMAIN t \subseteq DOMAIN qs
      /\ \A i \in DOMAIN t : t[i] = qs[i] /\ Range(t) \subseteq Range(qs)
  BY <1>1, Taken
<1>3. Range(t) \subseteq Range(qs)
  BY <1>1, Taken
<1> HIDE DEF t
<1>4. Sound(t, old)
  BY <1>2, <1>3 DEF Sound
<1> QED BY <1>4 DEF t

USE PipelineAssumption

(* What the screening reads.                                               *)
LEMMA ScreenedTyped ==
    /\ Corpus \in Seq(Signals) /\ Scored \in Seq(Signals)
    /\ Preselected \in Seq(Signals) /\ Apart(Preselected)
<1>1. Corpus \in Seq(Signals)
  BY DEF Signals, PipelineAssumption
<1>2. Among(Corpus, BridgedSignals) \in Seq(Signals)
      /\ Among(Corpus, Signals \ BridgedSignals) \in Seq(Signals)
  BY <1>1, AmongAre
<1>3. Scored \in Seq(Signals)
  BY <1>2, ConcatProperties DEF Scored
<1>4. ClusterCap(Scored) \in Seq(Signals) /\ Apart(ClusterCap(Scored))
  BY <1>3, ClusterCapped
<1>5. Preselect \in Nat
  BY DEF PipelineAssumption
<1>6. Preselected \in Seq(Signals) /\ Apart(Preselected)
  BY <1>4, <1>5, Taken DEF Preselected
<1> QED BY <1>1, <1>3, <1>6

(* A list of candidates, none of a topic in out.                           *)
Listed(l, out) ==
    /\ l \in Seq(Signals) /\ Len(l) <= ShortMax /\ Apart(l)
    /\ Topics(Range(l)) \cap out = {}

(* The shortlist has one signal per topic and none of a rejected one. The  *)
(* fallback does not ask what was rejected, but is taken only if nothing   *)
(* was.                                                                    *)
LEMMA Shortlisted ==
    ASSUME NEW kept \in Seq(Signals), NEW out, Apart(kept),
           Topics(Range(kept)) \cap out = {}, out = {} \/ kept # <<>>
    PROVE  Listed(Take(OrFallback(TopUp(kept, out)), ShortMax), out)
<1> DEFINE first == Take(ClusterCap(Scored), ShortMax)
           plain == {s \in Signals : class[s] # "famous"}
           top == TopUp(kept, out)
           l == OrFallback(top)
<1>1. Scored \in Seq(Signals) /\ ShortMax \in Nat /\ ShortMin \in Nat
  BY ScreenedTyped DEF PipelineAssumption
<1>2. /\ top \in Seq(Signals) /\ Apart(top) /\ Topics(Range(top)) \cap out = {}
      /\ (kept # <<>> => top # <<>>)
  BY <1>1, ToppedUp
<1>3. first \in Seq(Signals) /\ Apart(first)
  BY <1>1, ClusterCapped, Taken
<1>4. Among(first, plain) \in Seq(Signals) /\ Apart(Among(first, plain))
  <2> HIDE DEF first, plain
  <2> QED BY <1>3, AmongAre
<1>5. Take(Among(first, plain), ShortMin) \in Seq(Signals)
      /\ Apart(Take(Among(first, plain), ShortMin))
  <2> HIDE DEF first, plain
  <2> QED BY <1>1, <1>4, Taken
<1>6. l = IF top # <<>> THEN top ELSE Take(Among(first, plain), ShortMin)
  BY DEF OrFallback
<1> HIDE DEF first, plain, top, l
<1>7. l \in Seq(Signals) /\ Apart(l) /\ Topics(Range(l)) \cap out = {}
  BY <1>2, <1>5, <1>6
<1>8. /\ Take(l, ShortMax) \in Seq(Signals) /\ Len(Take(l, ShortMax)) <= ShortMax
      /\ Apart(Take(l, ShortMax)) /\ Range(Take(l,
               ShortMax)) \subseteq Range(l)
  BY <1>1, <1>7, Taken
<1>9. Listed(Take(l, ShortMax), out)
  BY <1>7, <1>8 DEF Listed, Topics
<1> QED BY <1>9 DEF l, top

(* The parts of the invariant: what is drawn of the corpus ...             *)
Drawn ==
    /\ at \in Nodes
    /\ class \in [Signals -> Classes]
    /\ Listed(list, rejected)
    /\ rejected \subseteq Topics(Signals) /\ (at = "screen" => rejected = {})
    /\ orgs \subseteq Signals
    /\ recent.signals \subseteq Signals /\ recent.topics \subseteq Topics(Signals)

(* ... what the filter leaves ...                                          *)
Cleared ==
    at \in {"deep", "compose", "done"} =>
        Range(list) \cap orgs = {} /\ \A s \in Range(list) : class[s] # "famous"

(* ... and what is asked in the end.                                       *)
Answered ==
    /\ at # "done" => questions = <<>>
    /\ at = "done" => /\ Sound(questions, recent) /\ Len(questions) <= Cap
                      /\ Served(questions, recent, Len(list))

PipeInv == Drawn /\ Cleared /\ Answered

(* The invariant holds initially ...                                       *)
LEMMA PipeStart == ASSUME PipelineInit PROVE PipeInv
<1>1. list = <<>> /\ Range(list) = {} /\ Topics(Range(list)) = {}
  BY DEF PipelineInit, Range, Topics
<1>2. Listed(list, rejected)
  BY <1>1, EmptySeq DEF Listed, Apart, PipelineAssumption
<1> QED BY <1>1, <1>2 DEF PipelineInit, PipeInv, Drawn, Cleared, Answered, Nodes

(* ... is kept by a cut ...                                                *)
LEMMA Shortened ==
    ASSUME PipeInv, NEW n \in Nat, list' = Take(list, n)
    PROVE  Listed(list', rejected) /\ Range(list') \subseteq Range(list)
<1>1. list \in Seq(Signals) /\ Len(list) <= ShortMax /\ Apart(list)
      /\ Topics(Range(list)) \cap rejected = {}
  BY DEF PipeInv, Drawn, Listed
<1>2. Len(list) \in Nat /\ ShortMax \in Nat
  BY <1>1, LenProperties DEF PipelineAssumption
<1> DEFINE l == Take(list, n)
<1>3. /\ l \in Seq(Signals) /\ Len(l) = (IF n < Len(list) THEN n ELSE Len(list))
      /\ Apart(l) /\ Range(l) \subseteq Range(list)
  BY <1>1, Taken
<1> HIDE DEF l
<1>4. Len(l) <= ShortMax
  BY <1>1, <1>2, <1>3
<1>5. Listed(l, rejected)
  BY <1>1, <1>3, <1>4 DEF Listed, Topics
<1> QED BY <1>3, <1>5 DEF l

(* ... and by every node.                                                  *)
LEMMA PipeStep ==
    ASSUME PipeInv, [PipelineNext]_pipelineVars
    PROVE  PipeInv'
<1> USE DEF Nodes
<1>0. /\ {Preselect, ShortMax, ShortMin, ResearchMax, DeepMax, Ask, Cap} \subseteq Nat
      /\ Ask <= Cap
  BY DEF PipelineAssumption
<1>1. CASE ScreenCold
  <2>1. Listed(list', {})
    <3>1. ClusterCap(Corpus) \in Seq(Signals) /\ Apart(ClusterCap(Corpus))
      BY ScreenedTyped, ClusterCapped
    <3>2. /\ list' \in Seq(Signals) /\ Len(list') <= ShortMax /\ Apart(list')
      BY <1>0, <1>1, <3>1, Taken DEF ScreenCold
    <3> QED BY <3>2 DEF Listed
  <2> QED BY <1>1, <2>1 DEF ScreenCold, PipeInv, Drawn, Cleared, Answered, Listed
<1>2. CASE ScreenHeuristic
  <2> DEFINE kept == Among(Preselected, BridgedSignals)
  <2>1. kept \in Seq(Signals) /\ Apart(kept)
    BY ScreenedTyped, AmongAre
  <2>2. Listed(list', rejected') /\ rejected' = {}
    BY <1>2, <2>1, Shortlisted DEF ScreenHeuristic, Shortlist
  <2> HIDE DEF kept
  <2> QED BY <1>2, <2>2
          DEF ScreenHeuristic, Shortlist, PipeInv, Drawn, Cleared, Answered, Listed
<1>3. CASE ScreenByModel
  <2>1. PICK keep \in (SUBSET Range(Preselected)) \ {{}} :
               Shortlist(Among(Preselected, keep),
                         Topics(Range(Preselected)) \ Topics(keep))
    BY <1>3 DEF ScreenByModel
  <2> DEFINE kept == Among(Preselected, keep)
             out == Topics(Range(Preselected)) \ Topics(keep)
  <2>2. /\ kept \in Seq(Signals) /\ Apart(kept)
        /\ Range(kept) = keep \cap Range(Preselected)
    BY ScreenedTyped, AmongAre
  <2>3. Range(kept) = keep /\ keep # {}
    <3>1. keep \subseteq Range(Preselected) /\ keep # {}
      OBVIOUS
    <3> HIDE DEF kept
    <3> QED BY <2>2, <3>1
  <2>4. kept # <<>>
    <3>1. Range(<<>>) = {}
      BY DEF Range
    <3> HIDE DEF kept
    <3> QED BY <2>3, <3>1
  <2>5. Topics(Range(kept)) \cap out = {}
    BY <2>3
  <2>6. out \subseteq Topics(Signals)
    <3>1. Range(Preselected) \subseteq Signals
      BY ScreenedTyped, ElementOfSeq, LenProperties DEF Range
    <3> QED BY <3>1 DEF Topics
  <2> HIDE DEF kept, out
  <2>7. Listed(Take(OrFallback(TopUp(kept, out)), ShortMax), out)
    BY <2>2, <2>4, <2>5, Shortlisted
  <2>8. /\ list' = Take(OrFallback(TopUp(kept, out)), ShortMax) /\ rejected' = out
        /\ at' = "research" /\ UNCHANGED <<class, orgs, recent, questions>>
    BY <2>1 DEF Shortlist, kept, out
  <2>9. Listed(list', rejected')
    BY <2>7, <2>8 DEF Listed
  <2> QED BY <1>3, <2>6, <2>8, <2>9
          DEF ScreenByModel, PipeInv, Drawn, Cleared, Answered, Listed
<1>4. CASE Research
  <2>1. Listed(list', rejected)
    BY <1>0, <1>4, Shortened DEF Research
  <2> QED BY <1>4, <2>1 DEF Research, PipeInv, Drawn, Cleared, Answered, Listed
<1>5. CASE Filter
  <2>1. PICK named \in SUBSET Range(list), keep \in SUBSET (Range(list) \cup {Fake}) :
         /\ orgs' = named
         /\ list' = Among(list, {s \in Range(list) : /\ Allowed(s, named)
                                                     /\ keep # {} => s \in keep})
    BY <1>5 DEF Filter
  <2> DEFINE S == {s \in Range(list) : Allowed(s, named) /\ (keep # {} => s \in keep)}
  <2>2. list \in Seq(Signals) /\ Len(list) <= ShortMax /\ Apart(list)
        /\ Topics(Range(list)) \cap rejected = {}
    BY DEF PipeInv, Drawn, Listed
  <2>3. list' = Among(list, S)
    BY <2>1
  <2>4. S \subseteq Range(list) /\ \A s \in S : s \notin named /\ class[s] # "famous"
    BY DEF Allowed
  <2> HIDE DEF S
  <2>5. /\ list' \in Seq(Signals) /\ Range(list') = S \cap Range(list)
        /\ Len(list') <= Len(list) /\ Apart(list')
    BY <2>2, <2>3, AmongAre
  <2>6. Len(list') <= ShortMax
    <3>1. Len(list) \in Nat /\ Len(list') \in Nat /\ ShortMax \in Nat
      BY <1>0, <2>2, <2>5, LenProperties
    <3> QED BY <2>2, <2>5, <3>1
  <2>7. Listed(list', rejected)
    BY <2>2, <2>5, <2>6 DEF Listed, Topics
  <2>8. Range(list) \subseteq Signals
    BY <2>2, ElementOfSeq, LenProperties DEF Range
  <2>9. /\ Range(list') \cap orgs' = {} /\ \A s \in Range(list') : class[s] # "famous"
        /\ orgs' \subseteq Signals
    BY <2>1, <2>4, <2>5, <2>8
  <2> QED BY <1>5, <2>7, <2>9 DEF Filter, PipeInv, Drawn, Cleared, Answered, Listed
<1>6. CASE Deep
  <2>1. Listed(list', rejected) /\ Range(list') \subseteq Range(list)
    BY <1>0, <1>6, Shortened DEF Deep
  <2> QED BY <1>6, <2>1 DEF Deep, PipeInv, Drawn, Cleared, Answered, Listed
<1>7. CASE Compose
  <2>1. PICK raw \in RawQuestions, sig \in SUBSET Range(list),
             top \in SUBSET Topics(Range(list)) :
          LET old == [signals |-> sig, topics |-> top]
          IN  /\ recent' = old
              /\ questions' = Take(Pad(FromModel(raw, old), old), Cap)
    BY <1>7 DEF Compose
  <2> DEFINE old == [signals |-> sig, topics |-> top]
             pad == Pad(FromModel(raw, old), old)
  <2>2. recent' = old /\ questions' = Take(pad, Cap) /\ old.signals = sig /\ old.topics = top
    BY <2>1
  <2>3. list \in Seq(Signals) /\ list' = list
    BY <1>7 DEF Compose, PipeInv, Drawn, Listed
  <2>4. PICK X : raw \in Seq(X)
    <3> DEFINE X == SUBSET (Range(list) \cup {Fake})
    <3>1. raw = <<>> \/ \E n \in Nat : raw \in [1..n -> X]
      <4> DEFINE Y == {r \in SUBSET (Range(list) \cup {Fake}) : Cardinality(r) \in 1..2}
      <4>1. CASE list = <<>>
        BY <4>1 DEF RawQuestions
      <4>2. CASE list # <<>>
        <5>1. raw \in UNION {[1..n -> Y] : n \in 0..MaxRaw}
          BY <4>2 DEF RawQuestions
        <5>2. PICK n \in 0..MaxRaw : raw \in [1..n -> Y]
          <6> HIDE DEF Y
          <6> QED BY <5>1
        <5>3. Y \subseteq X
          OBVIOUS
        <5>4. raw \in [1..n -> X] /\ n \in Nat
          <6> HIDE DEF X, Y
          <6> QED BY <5>2, <5>3
        <5> QED BY <5>4
      <4> QED BY <4>1, <4>2
    <3> HIDE DEF X
    <3>2. raw \in Seq(X)
      <4>1. CASE raw = <<>>
        BY <4>1, EmptySeq
      <4>2. CASE \E n \in Nat : raw \in [1..n -> X]
        BY <4>2
      <4> QED BY <3>1, <4>1, <4>2
    <3> QED BY <3>2
  <2>5. Sound(FromModel(raw, old), old)
    <3> HIDE DEF old
    <3> QED BY <2>4, FromModelSound
  <2>6. Sound(pad, old) /\ Served(pad, old, Len(list))
    <3> HIDE DEF old
    <3> QED BY <1>0, <2>3, <2>5, Padded
  <2> HIDE DEF old, pad
  <2>7. pad \in Seq(SUBSET Range(list))
    BY <2>6 DEF Sound
  <2> DEFINE qs == Take(pad, Cap)
  <2>8. Len(qs) <= Cap /\ Len(qs) = (IF Cap < Len(pad) THEN Cap ELSE Len(pad))
        /\ (Len(pad) <= Cap => qs = pad) /\ Len(pad) \in Nat
    BY <1>0, <2>7, Taken, LenProperties
  <2>9. Sound(qs, old)
    BY <1>0, <2>6, SoundTaken
  <2> HIDE DEF qs
  <2>10. Served(qs, old, Len(list))
    <3>1. Len(qs) < Ask => qs = pad
      BY <1>0, <2>8
    <3> QED BY <2>6, <3>1 DEF Served
  <2>11. Range(list) \subseteq Signals
    BY <2>3, ElementOfSeq, LenProperties DEF Range
  <2>12. questions' = qs /\ recent' = old /\ list' = list /\ at' = "done"
         /\ UNCHANGED <<class, rejected, orgs>>
    BY <1>7, <2>2 DEF qs, Compose
  <2>13. Sound(questions, recent)'
    BY <2>9, <2>12 DEF Sound
  <2>14. Served(questions, recent, Len(list))'
    BY <2>10, <2>12 DEF Served, Accepted, Used, Topics
  <2>15. Answered'
    BY <2>8, <2>12, <2>13, <2>14 DEF Answered
  <2>16. Cleared'
    BY <1>7, <2>12 DEF Cleared, PipeInv, Compose
  <2>17. Drawn'
    BY <2>2, <2>11, <2>12 DEF PipeInv, Drawn, Listed, Topics
  <2> QED BY <2>15, <2>16, <2>17 DEF PipeInv
<1>8. CASE UNCHANGED pipelineVars
  BY <1>8 DEF pipelineVars, PipeInv, Drawn, Cleared, Answered, Listed, Sound, Served,
              Accepted, Used, Topics, Apart
<1> QED BY <1>1, <1>2, <1>3, <1>4, <1>5, <1>6, <1>7, <1>8 DEF PipelineNext

(* The inductive invariant of QuestionPipeline.                            *)
THEOREM PipelineInvariant == PipelineSpec => []PipeInv
<1>1. PipelineInit => PipeInv
  BY PipeStart
<1>2. PipeInv /\ [PipelineNext]_pipelineVars => PipeInv'
  BY PipeStep
<1> QED BY <1>1, <1>2, PTL DEF PipelineSpec

(* Types of QuestionPipeline, the limits of the lists, and one candidate   *)
(* per topic.                                                              *)
THEOREM PipelineTyped == PipelineSpec => []PipelineTypeOK
<1>1. PipeInv => PipelineTypeOK
  <2> SUFFICES ASSUME PipeInv PROVE PipelineTypeOK
    OBVIOUS
  <2>1. list \in Seq(Signals) /\ Len(list) <= ShortMax /\ Apart(list)
    BY DEF PipeInv, Drawn, Listed
  <2>2. Range(list) \subseteq Signals
    BY <2>1, ElementOfSeq, LenProperties DEF Range
  <2>3. Range(questions) \subseteq SUBSET Signals /\ Len(questions) <= Cap
    <3>1. CASE at = "done"
      <4>1. questions \in Seq(SUBSET Range(list)) /\ Len(questions) <= Cap
        BY <3>1 DEF PipeInv, Answered, Sound
      <4>2. Range(questions) \subseteq SUBSET Range(list)
        BY <4>1, ElementOfSeq, LenProperties DEF Range
      <4> QED BY <2>2, <4>1, <4>2
    <3>2. CASE at # "done"
      <4>1. questions = <<>>
        BY <3>2 DEF PipeInv, Answered
      <4> QED BY <4>1, EmptySeq DEF Range, PipelineAssumption
    <3> QED BY <3>1, <3>2
  <2> QED BY <2>1, <2>2, <2>3 DEF PipelineTypeOK, PipeInv, Drawn, Apart
<1> QED BY <1>1, PipelineInvariant, PTL

(* Questions are there at the end only, and of the candidates.             *)
LEMMA AnsweredSound ==
    ASSUME PipeInv, NEW refs \in Range(questions)
    PROVE  at = "done" /\ Sound(questions, recent) /\ refs \in SUBSET Range(list)
<1>1. at = "done"
  BY DEF PipeInv, Answered, Range
<1>2. Sound(questions, recent)
  BY <1>1 DEF PipeInv, Answered
<1>3. refs \in SUBSET Range(list)
  BY <1>2, ElementOfSeq, LenProperties DEF Sound, Range
<1> QED BY <1>1, <1>2, <1>3

(* Whatever the model answers or fails to answer, no question refers to a  *)
(* signal that names another organisation, is famous without a bridge, or  *)
(* is of a topic that the model rejected, although the shortlist is topped *)
(* up and falls back, and questions are padded (nodes.py).                 *)
THEOREM AskedAreAllowed == PipelineSpec => []AskedIsAllowed
<1>1. PipeInv => AskedIsAllowed
  <2> SUFFICES ASSUME PipeInv, NEW refs \in Range(questions)
               PROVE  /\ refs # {} /\ refs \subseteq Signals
                      /\ refs \cap orgs = {}
                      /\ \A s \in refs : class[s] # "famous"
                      /\ Topics(refs) \cap rejected = {}
    BY DEF AskedIsAllowed
  <2>1. at = "done" /\ Sound(questions, recent) /\ refs \in SUBSET Range(list)
    BY AnsweredSound
  <2>2. refs # {}
    BY <2>1 DEF Sound
  <2>3. list \in Seq(Signals) /\ Topics(Range(list)) \cap rejected = {}
    BY DEF PipeInv, Drawn, Listed
  <2>4. Range(list) \subseteq Signals
    BY <2>3, ElementOfSeq, LenProperties DEF Range
  <2>5. Range(list) \cap orgs = {} /\ \A s \in Range(list) : class[s] # "famous"
    BY <2>1 DEF PipeInv, Cleared
  <2> QED BY <2>1, <2>2, <2>3, <2>4, <2>5 DEF Topics
<1> QED BY <1>1, PipelineInvariant, PTL

(* No two questions share a topic or repeat what was served lately,        *)
(* whether the model or a template wrote them (validate_and_pad,           *)
(* nodes.py).                                                              *)
THEOREM TopicsStayApart == PipelineSpec => []TopicsApart
<1>1. PipeInv => TopicsApart
  <2> SUFFICES ASSUME PipeInv PROVE TopicsApart
    OBVIOUS
  <2>1. CASE at = "done"
    BY <2>1 DEF PipeInv, Answered, Sound, TopicsApart
  <2>2. CASE at # "done"
    BY <2>2 DEF PipeInv, Answered, TopicsApart, Range
  <2> QED BY <2>1, <2>2
<1> QED BY <1>1, PipelineInvariant, PTL

(* Fewer questions than wanted come out only if every candidate's topic is *)
(* asked about or was just served.                                         *)
THEOREM NothingFreshIsLeft == PipelineSpec => []NoFreshCandidateLeft
<1>1. PipeInv => NoFreshCandidateLeft
  <2> SUFFICES ASSUME PipeInv, at = "done", Len(questions) < Ask, NEW s \in Range(list)
               PROVE  s \in recent.signals \/ Topic(s) \in recent.topics \cup Used(questions)
    BY DEF NoFreshCandidateLeft
  <2>1. list \in Seq(Signals)
    BY DEF PipeInv, Drawn, Listed
  <2>2. PICK j \in 1..Len(list) : s = list[j]
    BY <2>1, LenProperties DEF Range
  <2>3. ~Accepted(questions, {s}, recent)
    BY <2>2 DEF PipeInv, Answered, Served
  <2> QED BY <2>3 DEF Accepted, Topics
<1> QED BY <1>1, PipelineInvariant, PTL
=============================================================================
