--------------------------- MODULE ActivationJobs ---------------------------
(***************************************************************************)
(* The durable activation jobs of the DMaaS API: the customer's request    *)
(* that creates a job and hands it to Trigger.dev, the process-job handler *)
(* Trigger.dev calls back (at least once, with retries), cancellation, and *)
(* the daily sweep that fails stale jobs and dead-letters failed ones.     *)
(*                                                                         *)
(* Every `async with get_db_connection()` block of the code is one         *)
(* transaction and one action here; between two of them any other actor    *)
(* may run, and the process may be restarted.                              *)
(***************************************************************************)
EXTENDS JobRow, Naturals

CONSTANTS Jobs, NoJob,  \* job ids
          Requests,     \* calls that create a job: POST /campaigns, schedule_next_step
          Workers,      \* concurrent executions of process-job
          Cancels,      \* calls of cancel_job
          MaxAttempts   \* the task's retry.maxAttempts

ASSUME ActivationJobsAssumption ==
  /\ NoJob \notin Jobs
  /\ MaxAttempts \in Nat \ {0}

VARIABLES jobs,       \* the table
          runs,       \* Trigger.dev's runs
          request, worker, cancel, sweep,   \* where each actor is, and what it read
          campaigns,  \* ghost: jobs on whose behalf a campaign row was committed
          activated   \* ghost: jobs whose activate_step returned

vars == <<jobs, runs, request, worker, cancel, sweep, campaigns, activated>>

RequestPCs == {"idle", "insert", "reread", "enqueue", "persist", "mark_failed", "done"}
WorkerPCs == {"idle", "begin", "activate", "succeed", "fail"}
CancelPCs == {"idle", "trigger", "write", "done"}
RunStates == {"unused", "waiting", "executing", "finished", "cancelled"}

IdleRequest == [pc |-> "idle", key |-> NoKey, kind |-> "campaign", job |-> NoJob, run |-> NoRun]
IdleWorker == [pc |-> "idle", job |-> NoJob, run |-> NoRun, try |-> 0]
IdleCancel == [pc |-> "idle", job |-> NoJob, run |-> NoRun]
IdleSweep == [pass |-> "idle", todo |-> {}]
UnusedRun == [job |-> NoJob, state |-> "unused", tries |-> 0]

RequestRecords == [pc : RequestPCs, key : Keys \cup {NoKey}, kind : JobKinds,
                   job : Jobs \cup {NoJob}, run : RunIds \cup {NoRun}]
WorkerRecords == [pc : WorkerPCs, job : Jobs \cup {NoJob}, run : RunIds \cup {NoRun}, try : Nat]
CancelRecords == [pc : CancelPCs, job : Jobs \cup {NoJob}, run : RunIds \cup {NoRun}]
RunRecords == [job : Jobs \cup {NoJob}, state : RunStates, tries : Nat]

\* Every actor's record and every row of the table has its type.
TypeOK ==
  /\ jobs \in [Jobs -> JobRows]
  /\ runs \in [RunIds -> RunRecords]
  /\ request \in [Requests -> RequestRecords]
  /\ worker \in [Workers -> WorkerRecords]
  /\ cancel \in [Cancels -> CancelRecords]
  /\ sweep \in [pass : {"idle", "running", "failed"}, todo : SUBSET Jobs]
  /\ campaigns \in SUBSET Jobs
  /\ activated \in SUBSET Jobs

Init ==
  /\ jobs = [j \in Jobs |-> AbsentJob]
  /\ runs = [r \in RunIds |-> UnusedRun]
  /\ request = [q \in Requests |-> IdleRequest]
  /\ worker = [w \in Workers |-> IdleWorker]
  /\ cancel = [x \in Cancels |-> IdleCancel]
  /\ sweep = IdleSweep
  /\ campaigns = {}
  /\ activated = {}

-----------------------------------------------------------------------------
(***************************************************************************)
(* Creating a job.  create_job looks the key up, inserts, and on a unique  *)
(* violation reads the winner's row; the caller then enqueues unless the   *)
(* row it holds already names a run.  The scheduler's calls send no key.   *)
(***************************************************************************)
\* A bug: the unique index, and the lookup, cover open jobs only.
OpenJobsWithKey(key) ==
  {j \in Jobs : key # NoKey /\ jobs[j].key = key /\ jobs[j].status \notin TerminalStatuses}

JobsWithKey(key) == {j \in Jobs : key # NoKey /\ jobs[j].key = key}

\* A bug: a replay enqueues again whatever still reads queued.
EnqueueIfQueued(j) == IF jobs[j].status = "queued" THEN "enqueue" ELSE "done"

\* `if job.trigger_run_id: return` of create_dmaas_campaign.
AfterReading(j) == IF jobs[j].run # NoRun THEN "done" ELSE "enqueue"

LookupJob(q, kind, key) ==
  /\ request[q].pc = "idle"
  /\ kind = "step" => key = NoKey
  /\ \/ /\ JobsWithKey(key) = {}
        /\ request' = [request EXCEPT ![q] =
                         [@ EXCEPT !.pc = "insert", !.key = key, !.kind = kind]]
     \/ \E j \in JobsWithKey(key) :
          request' = [request EXCEPT ![q] =
                        [@ EXCEPT !.pc = AfterReading(j), !.key = key, !.kind = kind, !.job = j]]
  /\ UNCHANGED <<jobs, runs, worker, cancel, sweep, campaigns, activated>>

\* A bug: no unique index on (organization_id, idempotency_key).
InsertUnchecked(q) ==
  /\ request[q].pc = "insert"
  /\ \E j \in Jobs :
       /\ jobs[j].status = "absent"
       /\ jobs' = [jobs EXCEPT ![j] = NewJob(request[q].kind, request[q].key)]
       /\ request' = [request EXCEPT ![q] = [@ EXCEPT !.pc = "enqueue", !.job = j]]
  /\ UNCHANGED <<runs, worker, cancel, sweep, campaigns, activated>>

InsertJob(q) ==
  /\ request[q].pc = "insert"
  /\ \/ /\ JobsWithKey(request[q].key) = {}
        /\ \E j \in Jobs :
             /\ jobs[j].status = "absent"
             /\ jobs' = [jobs EXCEPT ![j] = NewJob(request[q].kind, request[q].key)]
             /\ request' = [request EXCEPT ![q] = [@ EXCEPT !.pc = "enqueue", !.job = j]]
     \/ /\ JobsWithKey(request[q].key) # {}
        /\ request' = [request EXCEPT ![q] = [@ EXCEPT !.pc = "reread"]]
        /\ UNCHANGED jobs
  /\ UNCHANGED <<runs, worker, cancel, sweep, campaigns, activated>>

RereadJob(q) ==
  /\ request[q].pc = "reread"
  /\ \E j \in JobsWithKey(request[q].key) :
       request' = [request EXCEPT ![q] = [@ EXCEPT !.pc = AfterReading(j), !.job = j]]
  /\ UNCHANGED <<jobs, runs, worker, cancel, sweep, campaigns, activated>>

StartRun(r, j) ==
  /\ runs[r].state = "unused"
  /\ runs' = [runs EXCEPT ![r] = [job |-> j, state |-> "waiting", tries |-> 0]]

\* enqueue_via_trigger: Trigger.dev answers with a run id; it refuses
\* (TriggerEnqueueError); or no answer arrives, an httpx error no caller
\* catches, and the run may exist or not.
EnqueueJob(q) ==
  /\ request[q].pc = "enqueue"
  /\ \/ \E r \in RunIds :
          /\ StartRun(r, request[q].job)
          /\ request' = [request EXCEPT ![q] = [@ EXCEPT !.pc = "persist", !.run = r]]
     \/ /\ request' = [request EXCEPT ![q] = [@ EXCEPT !.pc = "mark_failed"]]
        /\ UNCHANGED runs
     \/ /\ request' = [request EXCEPT ![q] = [@ EXCEPT !.pc = "done"]]
        /\ \E r \in RunIds : StartRun(r, request[q].job)
  /\ UNCHANGED <<jobs, worker, cancel, sweep, campaigns, activated>>

\* The transition to "queued" that stores the run id once Trigger.dev has it.
PersistRun(q) ==
  /\ request[q].pc = "persist"
  /\ jobs' = [jobs EXCEPT ![request[q].job] = Transitioned(@, "queued", request[q].run, "none")]
  /\ request' = [request EXCEPT ![q] = [@ EXCEPT !.pc = "done", !.run = NoRun]]
  /\ UNCHANGED <<runs, worker, cancel, sweep, campaigns, activated>>

MarkEnqueueFailed(q) ==
  /\ request[q].pc = "mark_failed"
  /\ jobs' = [jobs EXCEPT ![request[q].job] = Transitioned(@, "failed", NoRun, "enqueue_failed")]
  /\ request' = [request EXCEPT ![q] = [@ EXCEPT !.pc = "done"]]
  /\ UNCHANGED <<runs, worker, cancel, sweep, campaigns, activated>>

\* The API process stops, or a database call raises, in mid-request.
AbortRequest(q) ==
  /\ request[q].pc \in {"insert", "reread", "enqueue", "persist", "mark_failed"}
  /\ request' = [request EXCEPT ![q] = [@ EXCEPT !.pc = "done", !.run = NoRun]]
  /\ UNCHANGED <<jobs, runs, worker, cancel, sweep, campaigns, activated>>

-----------------------------------------------------------------------------
(***************************************************************************)
(* Trigger.dev and process-job.  A run makes at most MaxAttempts attempts; *)
(* an attempt is one call of process-job.  If the call's connection is     *)
(* lost, Trigger.dev counts the attempt as failed although the handler     *)
(* keeps running, so two executions for one job may overlap.               *)
(***************************************************************************)
IsCurrentAttempt(r, try) == runs[r].state = "executing" /\ runs[r].tries = try

\* What Trigger.dev makes of an attempt that answered an error, or nothing.
AfterFailedAttempt(r) ==
  [runs EXCEPT ![r].state = IF runs[r].tries < MaxAttempts THEN "waiting" ELSE "finished"]

\* The handler answers 200 and stops; the answer to an attempt already given up is ignored.
Answered(w) ==
  LET r == worker[w].run IN
  /\ worker' = [worker EXCEPT ![w] = IdleWorker]
  /\ runs' = IF IsCurrentAttempt(r, worker[w].try)
             THEN [runs EXCEPT ![r].state = "finished"] ELSE runs

\* The handler raises or its process dies; a live attempt is retried.
Raised(w) ==
  LET r == worker[w].run IN
  /\ worker' = [worker EXCEPT ![w] = IdleWorker]
  /\ runs' = IF IsCurrentAttempt(r, worker[w].try) THEN AfterFailedAttempt(r) ELSE runs

\* A bug: process-job does not look at the status of the job it was given.
ReceiveUnguarded(r, w) ==
  /\ runs[r].state = "waiting"
  /\ worker[w].pc = "idle"
  /\ runs' = [runs EXCEPT ![r].state = "executing", ![r].tries = @ + 1]
  /\ worker' = [worker EXCEPT ![w] =
                   [pc |-> "begin", job |-> runs[r].job, run |-> r, try |-> runs[r].tries + 1]]
  /\ UNCHANGED <<jobs, request, cancel, sweep, campaigns, activated>>

\* process_dmaas_job reads the job; a terminal one is skipped with a 200.
ReceiveJob(r, w) ==
  /\ runs[r].state = "waiting"
  /\ worker[w].pc = "idle"
  /\ \/ /\ jobs[runs[r].job].status \in TerminalStatuses
        /\ runs' = [runs EXCEPT ![r].state = "finished", ![r].tries = @ + 1]
        /\ UNCHANGED worker
     \/ /\ jobs[runs[r].job].status \notin TerminalStatuses
        /\ runs' = [runs EXCEPT ![r].state = "executing", ![r].tries = @ + 1]
        /\ worker' = [worker EXCEPT ![w] = [pc |-> "begin", job |-> runs[r].job,
                                            run |-> r, try |-> runs[r].tries + 1]]
  /\ UNCHANGED <<jobs, request, cancel, sweep, campaigns, activated>>

LoseConnection(r) ==
  /\ runs[r].state = "executing"
  /\ runs' = AfterFailedAttempt(r)
  /\ UNCHANGED <<jobs, request, worker, cancel, sweep, campaigns, activated>>

MarkRunning(w) ==
  /\ worker[w].pc = "begin"
  /\ jobs' = [jobs EXCEPT ![worker[w].job] = Transitioned(@, "running", worker[w].run, "none")]
  /\ worker' = [worker EXCEPT ![w] = [@ EXCEPT !.pc = "activate"]]
  /\ UNCHANGED <<runs, request, cancel, sweep, campaigns, activated>>

(***************************************************************************)
(* run_campaign_activation.  A brand that left the organization is a       *)
(* DMaaSActivationError and fails the job.  Otherwise stage 1 commits a    *)
(* campaign row, and stage 2 raises: create_channel_campaign refuses a     *)
(* direct_mail channel campaign without design_id, and the pipeline passes *)
(* none.  The handler re-raises what is not a DMaaSActivationError.        *)
(***************************************************************************)
ActivateCampaign(w) ==
  /\ worker[w].pc = "activate"
  /\ jobs[worker[w].job].kind = "campaign"
  /\ \/ /\ worker' = [worker EXCEPT ![w] = [@ EXCEPT !.pc = "fail"]]
        /\ UNCHANGED <<runs, campaigns>>
     \/ /\ campaigns' = campaigns \cup {worker[w].job}
        /\ Raised(w)
  /\ UNCHANGED <<jobs, request, cancel, sweep, activated>>

\* A bug: a step in the wrong status is reported as an activated one.
ActivateStepUnchecked(w) ==
  /\ worker[w].pc = "activate"
  /\ jobs[worker[w].job].kind = "step"
  /\ worker' = [worker EXCEPT ![w] = [@ EXCEPT !.pc = "succeed"]]
  /\ activated' \in {activated, activated \cup {worker[w].job}}
  /\ UNCHANGED <<jobs, runs, request, cancel, sweep, campaigns>>

\* _process_step_activation: activate_step returns, or refuses the step's status.
ActivateStep(w) ==
  /\ worker[w].pc = "activate"
  /\ jobs[worker[w].job].kind = "step"
  /\ \/ /\ worker' = [worker EXCEPT ![w] = [@ EXCEPT !.pc = "succeed"]]
        /\ activated' = activated \cup {worker[w].job}
     \/ /\ worker' = [worker EXCEPT ![w] = [@ EXCEPT !.pc = "fail"]]
        /\ UNCHANGED activated
  /\ UNCHANGED <<jobs, runs, request, cancel, sweep, campaigns>>

MarkSucceeded(w) ==
  /\ worker[w].pc = "succeed"
  /\ jobs' = [jobs EXCEPT ![worker[w].job] = Transitioned(@, "succeeded", NoRun, "none")]
  /\ Answered(w)
  /\ UNCHANGED <<request, cancel, sweep, campaigns, activated>>

MarkFailed(w) ==
  /\ worker[w].pc = "fail"
  /\ jobs' = [jobs EXCEPT ![worker[w].job] = Transitioned(@, "failed", NoRun, "activation")]
  /\ Answered(w)
  /\ UNCHANGED <<request, cancel, sweep, campaigns, activated>>

\* An exception at any await of the handler, or a restart of its process.
HandlerDies(w) ==
  /\ worker[w].pc # "idle"
  /\ Raised(w)
  /\ UNCHANGED <<jobs, request, cancel, sweep, campaigns, activated>>

-----------------------------------------------------------------------------
(***************************************************************************)
(* cancel_job: read, cancel the Trigger.dev run (best effort), write.      *)
(***************************************************************************)
ReadForCancel(x, j) ==
  /\ cancel[x].pc = "idle"
  /\ jobs[j].status \in {"queued", "running"}
  /\ cancel' = [cancel EXCEPT ![x] = [pc |-> "trigger", job |-> j, run |-> jobs[j].run]]
  /\ UNCHANGED <<jobs, runs, request, worker, sweep, campaigns, activated>>

CancelTriggerRun(x) ==
  /\ cancel[x].pc = "trigger"
  /\ cancel' = [cancel EXCEPT ![x] = [@ EXCEPT !.pc = "write"]]
  /\ \/ /\ cancel[x].run # NoRun
        /\ runs[cancel[x].run].state \in {"waiting", "executing"}
        /\ runs' = [runs EXCEPT ![cancel[x].run].state = "cancelled"]
     \/ UNCHANGED runs
  /\ UNCHANGED <<jobs, request, worker, sweep, campaigns, activated>>

WriteCancelled(x) ==
  /\ cancel[x].pc = "write"
  /\ jobs' = [jobs EXCEPT ![cancel[x].job] = Transitioned(@, "cancelled", NoRun, "user_requested")]
  /\ cancel' = [cancel EXCEPT ![x] = [@ EXCEPT !.pc = "done", !.run = NoRun]]
  /\ UNCHANGED <<runs, request, worker, sweep, campaigns, activated>>

-----------------------------------------------------------------------------
(***************************************************************************)
(* The daily sweep, reconciliation/stale_jobs.py: one SELECT, then one     *)
(* unguarded UPDATE per row it returned; twice.                            *)
(***************************************************************************)
SelectStaleRunning ==
  /\ sweep.pass = "idle"
  /\ sweep' = [pass |-> "running",
               todo |-> {j \in Jobs : jobs[j].status = "running" /\ jobs[j].started = "old"}]
  /\ UNCHANGED <<jobs, runs, request, worker, cancel, campaigns, activated>>

FailStaleRunning(j) ==
  /\ sweep.pass = "running"
  /\ j \in sweep.todo
  /\ jobs' = [jobs EXCEPT ![j] = Transitioned(@, "failed", NoRun, "stale_running")]
  /\ sweep' = [sweep EXCEPT !.todo = @ \ {j}]
  /\ UNCHANGED <<runs, request, worker, cancel, campaigns, activated>>

SelectOldFailed ==
  /\ sweep.pass = "running"
  /\ sweep.todo = {}
  /\ sweep' = [pass |-> "failed",
               todo |-> {j \in Jobs : jobs[j].status = "failed" /\ jobs[j].completed = "old"}]
  /\ UNCHANGED <<jobs, runs, request, worker, cancel, campaigns, activated>>

\* A bug: dead-lettering only stamps dead_lettered_at.
DeadLetterStampOnly(j) ==
  /\ sweep.pass = "failed"
  /\ j \in sweep.todo
  /\ sweep' = [sweep EXCEPT !.todo = @ \ {j}]
  /\ UNCHANGED <<jobs, runs, request, worker, cancel, campaigns, activated>>

DeadLetter(j) ==
  /\ sweep.pass = "failed"
  /\ j \in sweep.todo
  /\ jobs' = [jobs EXCEPT ![j] = Transitioned(@, "dead_lettered", NoRun, "dead_letter")]
  /\ sweep' = [sweep EXCEPT !.todo = @ \ {j}]
  /\ UNCHANGED <<runs, request, worker, cancel, campaigns, activated>>

EndSweep ==
  /\ sweep.pass = "failed"
  /\ sweep.todo = {}
  /\ sweep' = IdleSweep
  /\ UNCHANGED <<jobs, runs, request, worker, cancel, campaigns, activated>>

\* Hours pass: started_at, or completed_at, falls behind its threshold.
StartedAges(j) ==
  /\ jobs[j].started = "recent"
  /\ jobs' = [jobs EXCEPT ![j] = [@ EXCEPT !.started = "old"]]
  /\ UNCHANGED <<runs, request, worker, cancel, sweep, campaigns, activated>>

CompletedAges(j) ==
  /\ jobs[j].completed = "recent"
  /\ jobs' = [jobs EXCEPT ![j] = [@ EXCEPT !.completed = "old"]]
  /\ UNCHANGED <<runs, request, worker, cancel, sweep, campaigns, activated>>

-----------------------------------------------------------------------------
RequestStep(q) ==
  \/ \E kind \in JobKinds, key \in Keys \cup {NoKey} : LookupJob(q, kind, key)
  \/ InsertJob(q) \/ RereadJob(q) \/ EnqueueJob(q) \/ PersistRun(q)
  \/ MarkEnqueueFailed(q) \/ AbortRequest(q)

WorkerStep(w) ==
  \/ \E r \in RunIds : ReceiveJob(r, w)
  \/ MarkRunning(w) \/ ActivateCampaign(w) \/ ActivateStep(w)
  \/ MarkSucceeded(w) \/ MarkFailed(w) \/ HandlerDies(w)

CancelStep(x) ==
  (\E j \in Jobs : ReadForCancel(x, j)) \/ CancelTriggerRun(x) \/ WriteCancelled(x)

SweepStep ==
  \/ SelectStaleRunning \/ SelectOldFailed \/ EndSweep
  \/ \E j \in Jobs : FailStaleRunning(j) \/ DeadLetter(j)

TimePasses == \E j \in Jobs : StartedAges(j) \/ CompletedAges(j)

Next ==
  \/ \E q \in Requests : RequestStep(q)
  \/ \E w \in Workers : WorkerStep(w)
  \/ \E r \in RunIds : LoseConnection(r)
  \/ \E x \in Cancels : CancelStep(x)
  \/ SweepStep
  \/ TimePasses

Spec == Init /\ [][Next]_vars

\* The cron keeps firing and a sweep that starts is finished; time does not
\* stop.  Nothing is assumed of requests, of Trigger.dev or of the workers.
Fairness ==
  /\ WF_vars(SweepStep)
  /\ \A j \in Jobs : WF_vars(StartedAges(j)) /\ WF_vars(CompletedAges(j))

FairSpec == Spec /\ Fairness

-----------------------------------------------------------------------------
\* The job of a key, as the unique index makes it.
JobOfKey(key) ==
  IF JobsWithKey(key) = {} THEN NoJob ELSE CHOOSE j \in JobsWithKey(key) : TRUE

Registry == INSTANCE JobRegistry WITH
  holder <- [k \in Keys |-> JobOfKey(k)],
  answer <- [q \in Requests |->
               IF request[q].job = NoJob THEN [key |-> NoKey, job |-> NoJob]
               ELSE [key |-> request[q].key, job |-> request[q].job]]

\* create_job's lookup, INSERT and second lookup act as one atomic registration
\* per key: a caller gets the job of its key, or registers it, or (with no key)
\* gets a job nobody else has.
ImplementsRegistry == Registry!Spec

\* Two requests that present the same Idempotency-Key and got as far as holding
\* a job hold the same job, however their lookups and inserts interleave.
SameKeySameJob ==
  \A q1, q2 \in Requests :
    /\ request[q1].key = request[q2].key
    /\ request[q1].key # NoKey
    /\ request[q1].job # NoJob
    /\ request[q2].job # NoJob
    => request[q1].job = request[q2].job

\* A job that reads succeeded had its activation return, whatever retries,
\* overlapping executions, cancels and sweeps wrote to the row before.
SucceededMeansActivated ==
  \A j \in Jobs : jobs[j].status = "succeeded" => j \in activated

\* Some actor read or created job j while it was open and still has a write to make.
InFlight(j) ==
  \/ \E q \in Requests : request[q].job = j /\ request[q].pc \in {"enqueue", "persist", "mark_failed"}
  \/ \E w \in Workers : worker[w].job = j /\ worker[w].pc # "idle"
  \/ \E x \in Cancels : cancel[x].job = j /\ cancel[x].pc \in {"trigger", "write"}
  \/ j \in sweep.todo /\ ~(sweep.pass = "failed" /\ jobs[j].status = "failed")

Settled(j) ==
  jobs[j].status \in TerminalStatuses /\ jobs[j].run # NoRun /\ ~InFlight(j)

\* transition_job checks nothing, so the readers must: once a job with a run is
\* terminal and the calls already under way have ended, no replay, retry, cancel
\* or sweep changes its status again, but for failed becoming dead_lettered.
SettledJobsStaySettled ==
  [][\A j \in Jobs : Settled(j) =>
       /\ Settled(j)'
       /\ \/ jobs'[j].status = jobs[j].status
          \/ jobs[j].status = "failed" /\ jobs'[j].status = "dead_lettered"]_vars

RunsOf(j) == {r \in RunIds : runs[r].job = j}

\* The run id of j is stored and no request is about to enqueue j.
Enqueued(j) ==
  jobs[j].run # NoRun /\ \A q \in Requests : ~(request[q].job = j /\ request[q].pc = "enqueue")

\* From then on no replay of j's key, however late, starts another run, and
\* nothing erases the run id the replays are recognised by.  Which of its runs
\* that id names is another matter: of two requests that both enqueued j, the
\* one that stores its run last may have enqueued first (dmaas_campaigns.py:182).
NoRunOnceStored ==
  [][\A j \in Jobs : Enqueued(j) => Enqueued(j)' /\ RunsOf(j)' = RunsOf(j)]_vars

\* No job stays running or failed: the sweep gets every one of them, also those
\* whose handler died after Trigger.dev's last attempt.
NoStuckRunning ==
  \A j \in Jobs : jobs[j].status \in {"running", "failed"}
                   ~> jobs[j].status \in {"succeeded", "cancelled", "dead_lettered", "queued"}
=============================================================================
