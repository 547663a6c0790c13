------------------------ MODULE ActivationJobsProofs ------------------------
(***************************************************************************)
(* Proofs about ActivationJobs, for any number of jobs, requests, workers, *)
(* cancels and runs.  IInv is the inductive invariant: besides the types   *)
(* it says that an actor in mid-call holds a job, and what the row of a    *)
(* job a request or a worker holds must look like.                         *)
(***************************************************************************)
EXTENDS ActivationJobs, TLAPS

\* A request that has not got its job yet holds none, one in mid-call holds one;
\* the job it holds was created, with the request's own key.
RequestFits(rec) ==
  /\ rec.pc \in {"enqueue", "persist", "mark_failed"} => rec.job \in Jobs
  /\ rec.pc \in {"idle", "insert", "reread"} => rec.job = NoJob
  /\ rec.job # NoJob => jobs[rec.job].status # "absent" /\ jobs[rec.job].key = rec.key

\* A worker about to report success saw activate_step return.
WorkerFits(rec) ==
  /\ rec.pc # "idle" => rec.job \in Jobs /\ rec.run \in RunIds
  /\ rec.pc = "succeed" => rec.job \in activated

\* An actor in the middle of a call holds a job; so does a run Trigger.dev started.
ActorsFit ==
  /\ \A q \in Requests : RequestFits(request[q])
  /\ \A w \in Workers : WorkerFits(worker[w])
  /\ \A x \in Cancels : cancel[x].pc \in {"trigger", "write"} => cancel[x].job \in Jobs
  /\ \A r \in RunIds : runs[r].state # "unused" => runs[r].job \in Jobs

\* The unique index on (organization_id, idempotency_key).
KeysUnique ==
  \A j1, j2 \in Jobs : jobs[j1].key # NoKey /\ jobs[j1].key = jobs[j2].key => j1 = j2

\* A job not created yet has no key and no run id.
AbsentUnused ==
  \A j \in Jobs : jobs[j].status = "absent" => jobs[j].key = NoKey /\ jobs[j].run = NoRun

TableFits == KeysUnique /\ AbsentUnused /\ SucceededMeansActivated

IInv == TypeOK /\ ActorsFit /\ TableFits

-----------------------------------------------------------------------------
\* What the UPDATE of transition_job keeps and sets, for every row.
LEMMA TransitionedRow ==
  ASSUME NEW row \in JobRows, NEW status \in JobStatuses,
         NEW run \in RunIds \cup {NoRun}, NEW error \in JobErrors
  PROVE  /\ Transitioned(row, status, run, error) \in JobRows
         /\ Transitioned(row, status, run, error).status = status
         /\ Transitioned(row, status, run, error).key = row.key
         /\ Transitioned(row, status, run, error).kind = row.kind
         /\ run = NoRun => Transitioned(row, status, run, error).run = row.run
         /\ run # NoRun => Transitioned(row, status, run, error).run = run
  <1> DEFINE new == Transitioned(row, status, run, error)
  <1>1. /\ new.status = status
        /\ new.key = row.key
        /\ new.kind = row.kind
        /\ run = NoRun => new.run = row.run
        /\ run # NoRun => new.run = run
    BY DEF Transitioned, JobRows
  <1>2. Stamped(row.started) \in Stamps /\ Stamped(row.completed) \in Stamps
    BY DEF Stamped, Stamps, JobRows
  <1>3. /\ (IF status = "running" THEN Stamped(row.started) ELSE row.started) \in Stamps
        /\ (IF status \in TerminalStatuses THEN Stamped(row.completed) ELSE row.completed) \in Stamps
        /\ (IF run = NoRun THEN row.run ELSE run) \in RunIds \cup {NoRun}
        /\ (IF error = "none" THEN row.error ELSE error) \in JobErrors
    BY <1>2 DEF JobRows
  <1>4. new \in JobRows
    BY <1>3 DEF Transitioned, JobRows
  <1> QED
    BY <1>1, <1>4

\* The row create_job inserts.
LEMMA NewJobRow ==
  ASSUME NEW kind \in JobKinds, NEW key \in Keys \cup {NoKey}
  PROVE  /\ NewJob(kind, key) \in JobRows
         /\ NewJob(kind, key).status = "queued"
         /\ NewJob(kind, key).key = key
         /\ NewJob(kind, key).run = NoRun
  BY DEF NewJob, AbsentJob, JobRows, JobStatuses, JobErrors, Stamps, JobKinds

LEMMA InitIInv == Init => IInv
  <1> SUFFICES ASSUME Init PROVE IInv
    OBVIOUS
  <1> USE DEF Init
  <1>1. AbsentJob \in JobRows
    BY DEF AbsentJob, JobRows, JobStatuses, JobErrors, Stamps, JobKinds
  <1>2. TypeOK
    BY <1>1, ActivationJobsAssumption
       DEF TypeOK, UnusedRun, IdleRequest, IdleWorker, IdleCancel, IdleSweep, RequestPCs,
           WorkerPCs, CancelPCs, RunStates, JobKinds, RequestRecords, WorkerRecords,
           CancelRecords, RunRecords
  <1>3. ActorsFit
    BY DEF ActorsFit, RequestFits, WorkerFits, UnusedRun, IdleRequest, IdleWorker, IdleCancel
  <1>4. TableFits
    BY DEF TableFits, KeysUnique, AbsentUnused, SucceededMeansActivated, AbsentJob
  <1> QED
    BY <1>2, <1>3, <1>4 DEF IInv

-----------------------------------------------------------------------------
(***************************************************************************)
(* What a step may do to the table, whoever takes it: the row of a created *)
(* job keeps its key, stays created, and reads succeeded only if that was  *)
(* seen.  Then the records that are not touched still fit.                 *)
(***************************************************************************)
TableKept ==
  /\ jobs' \in [Jobs -> JobRows]
  /\ activated \subseteq activated'
  /\ \A j \in Jobs : jobs[j].status # "absent" =>
       jobs'[j].status # "absent" /\ jobs'[j].key = jobs[j].key
  /\ TableFits'

LEMMA TransitionKeepsTable ==
  ASSUME IInv, NEW job \in Jobs, NEW status \in JobStatuses \ {"absent"},
         NEW run \in RunIds \cup {NoRun}, NEW error \in JobErrors,
         jobs' = [jobs EXCEPT ![job] = Transitioned(@, status, run, error)],
         activated' = activated,
         status = "succeeded" => job \in activated
  PROVE  TableKept
  <1>1. jobs \in [Jobs -> JobRows] /\ TableFits
    BY DEF IInv, TypeOK
  <1> DEFINE new == Transitioned(jobs[job], status, run, error)
  <1>2. new \in JobRows /\ new.status = status /\ new.key = jobs[job].key
    BY <1>1, TransitionedRow
  <1>3. jobs' = [jobs EXCEPT ![job] = new]
    OBVIOUS
  <1> HIDE DEF new
  <1>4. KeysUnique'
    BY <1>1, <1>2, <1>3 DEF TableFits, KeysUnique
  <1>5. AbsentUnused'
    BY <1>1, <1>2, <1>3 DEF TableFits, AbsentUnused
  <1>6. SucceededMeansActivated'
    BY <1>1, <1>2, <1>3 DEF TableFits, SucceededMeansActivated
  <1> QED
    BY <1>1, <1>2, <1>3, <1>4, <1>5, <1>6 DEF TableKept, TableFits

LEMMA UnchangedKeepsTable == IInv /\ UNCHANGED <<jobs, activated>> => TableKept
  BY DEF IInv, TypeOK, TableKept, TableFits, KeysUnique, AbsentUnused, SucceededMeansActivated

\* Requests and workers whose record is not written still fit.
LEMMA OthersFit ==
  ASSUME IInv, TableKept
  PROVE  /\ \A q \in Requests : request'[q] = request[q] => RequestFits(request[q])'
         /\ \A w \in Workers : worker'[w] = worker[w] => WorkerFits(worker[w])'
  <1>1. ASSUME NEW q \in Requests, request'[q] = request[q]
        PROVE  RequestFits(request[q])'
    <2>1. request[q].job \in Jobs \cup {NoJob} /\ RequestFits(request[q])
      BY DEF IInv, TypeOK, RequestRecords, ActorsFit
    <2> QED
      BY <1>1, <2>1 DEF RequestFits, TableKept
  <1>2. ASSUME NEW w \in Workers, worker'[w] = worker[w]
        PROVE  WorkerFits(worker[w])'
    BY <1>2 DEF IInv, ActorsFit, WorkerFits, TableKept
  <1> QED
    BY <1>1, <1>2

-----------------------------------------------------------------------------
(***************************************************************************)
(* Requests.                                                               *)
(***************************************************************************)
RunsFit ==
  /\ runs \in [RunIds -> RunRecords]
  /\ \A r \in RunIds : runs[r].state # "unused" => runs[r].job \in Jobs

LEMMA RequestWritten ==
  ASSUME IInv, TableKept, RunsFit', NEW q \in Requests,
         request' \in [Requests -> RequestRecords],
         \A p \in Requests \ {q} : request'[p] = request[p],
         RequestFits(request[q])',
         UNCHANGED <<worker, cancel, sweep, campaigns, activated>>
  PROVE  IInv'
  <1>1. TypeOK'
    BY DEF IInv, TypeOK, TableKept, RunsFit
  <1>2. \A p \in Requests : RequestFits(request[p])'
    BY OthersFit
  <1>3. \A w \in Workers : WorkerFits(worker[w])'
    BY OthersFit
  <1>4. ActorsFit'
    BY <1>2, <1>3 DEF IInv, ActorsFit, RunsFit
  <1> QED
    BY <1>1, <1>4 DEF IInv, TableKept

LEMMA LookupKeepsIInv ==
  ASSUME IInv, NEW q \in Requests, NEW kind \in JobKinds, NEW key \in Keys \cup {NoKey},
         LookupJob(q, kind, key)
  PROVE  IInv'
  <1> USE DEF LookupJob
  <1>1. TableKept /\ RunsFit'
    BY UnchangedKeepsTable DEF IInv, TypeOK, ActorsFit, RunsFit
  <1>2. request \in [Requests -> RequestRecords] /\ RequestFits(request[q])
    BY DEF IInv, TypeOK, ActorsFit
  <1>3. ASSUME request' = [request EXCEPT ![q] =
                             [@ EXCEPT !.pc = "insert", !.key = key, !.kind = kind]]
        PROVE  IInv'
    <2> DEFINE new == [request[q] EXCEPT !.pc = "insert", !.key = key, !.kind = kind]
    <2>1. new \in RequestRecords /\ new.pc = "insert" /\ new.job = NoJob
      BY <1>2 DEF RequestRecords, RequestPCs, RequestFits
    <2>2. request' = [request EXCEPT ![q] = new]
      BY <1>3
    <2> HIDE DEF new
    <2>3. RequestFits(request[q])'
      BY <1>2, <2>1, <2>2 DEF RequestFits
    <2> QED
      BY <1>1, <1>2, <2>1, <2>2, <2>3, RequestWritten
  <1>4. ASSUME NEW j \in JobsWithKey(key),
               request' = [request EXCEPT ![q] =
                 [@ EXCEPT !.pc = AfterReading(j), !.key = key, !.kind = kind, !.job = j]]
        PROVE  IInv'
    <2> DEFINE new == [request[q] EXCEPT !.pc = AfterReading(j), !.key = key,
                                         !.kind = kind, !.job = j]
    <2>1. j \in Jobs /\ key # NoKey /\ jobs[j].key = key
      BY DEF JobsWithKey
    <2>2. jobs[j].status # "absent"
      BY <2>1 DEF IInv, TableFits, AbsentUnused
    <2>3. /\ new \in RequestRecords
          /\ new.pc \in {"done", "enqueue"}
          /\ new.key = key
          /\ new.job = j
      <3>1. AfterReading(j) \in {"done", "enqueue"}
        BY DEF AfterReading
      <3> QED
        BY <1>2, <2>1, <3>1 DEF RequestRecords, RequestPCs
    <2>4. request' = [request EXCEPT ![q] = new]
      BY <1>4
    <2> HIDE DEF new
    <2>5. RequestFits(request[q])'
      BY <1>2, <2>1, <2>2, <2>3, <2>4, ActivationJobsAssumption DEF RequestFits
    <2> QED
      BY <1>1, <1>2, <2>3, <2>4, <2>5, RequestWritten
  <1> QED
    BY <1>3, <1>4

LEMMA InsertKeepsIInv ==
  ASSUME IInv, NEW q \in Requests, InsertJob(q)
  PROVE  IInv'
  <1> USE DEF InsertJob
  <1>1. RunsFit'
    BY DEF IInv, TypeOK, ActorsFit, RunsFit
  <1>2. /\ request \in [Requests -> RequestRecords]
        /\ RequestFits(request[q])
        /\ jobs \in [Jobs -> JobRows]
        /\ TableFits
    BY DEF IInv, TypeOK, ActorsFit
  <1>3. ASSUME NEW j \in Jobs,
               JobsWithKey(request[q].key) = {},
               jobs[j].status = "absent",
               jobs' = [jobs EXCEPT ![j] = NewJob(request[q].kind, request[q].key)],
               request' = [request EXCEPT ![q] = [@ EXCEPT !.pc = "enqueue", !.job = j]]
        PROVE  IInv'
    <2> DEFINE row == NewJob(request[q].kind, request[q].key)
               new == [request[q] EXCEPT !.pc = "enqueue", !.job = j]
    <2>1. /\ row \in JobRows
          /\ row.status = "queued"
          /\ row.key = request[q].key
      <3>1. request[q].kind \in JobKinds /\ request[q].key \in Keys \cup {NoKey}
        BY <1>2 DEF RequestRecords
      <3> QED
        BY <3>1, NewJobRow
    <2>2. /\ new \in RequestRecords
          /\ new.pc = "enqueue"
          /\ new.key = request[q].key
          /\ new.job = j
      BY <1>2 DEF RequestRecords, RequestPCs
    <2>3. jobs' = [jobs EXCEPT ![j] = row] /\ request' = [request EXCEPT ![q] = new]
      BY <1>3
    <2> HIDE DEF row, new
    <2>4. KeysUnique'
      <3>1. \A i \in Jobs : request[q].key # NoKey => jobs[i].key # request[q].key
        BY <1>3 DEF JobsWithKey
      <3>2. \A i \in Jobs : jobs'[i].key = IF i = j THEN request[q].key ELSE jobs[i].key
        BY <1>2, <2>1, <2>3
      <3> QED
        BY <1>2, <3>1, <3>2 DEF TableFits, KeysUnique
    <2>5. AbsentUnused' /\ SucceededMeansActivated'
      BY <1>2, <2>1, <2>3 DEF TableFits, AbsentUnused, SucceededMeansActivated
    <2>6. TableKept
      BY <1>2, <1>3, <2>1, <2>3, <2>4, <2>5 DEF TableKept, TableFits
    <2>7. RequestFits(request[q])'
      BY <1>2, <2>1, <2>2, <2>3, ActivationJobsAssumption DEF RequestFits
    <2> QED
      BY <1>1, <1>2, <2>2, <2>3, <2>6, <2>7, RequestWritten
  <1>4. ASSUME request' = [request EXCEPT ![q] = [@ EXCEPT !.pc = "reread"]], UNCHANGED jobs
        PROVE  IInv'
    <2> DEFINE new == [request[q] EXCEPT !.pc = "reread"]
    <2>1. new \in RequestRecords /\ new.pc = "reread" /\ new.job = NoJob
      BY <1>2 DEF RequestRecords, RequestPCs, RequestFits
    <2>2. request' = [request EXCEPT ![q] = new]
      BY <1>4
    <2> HIDE DEF new
    <2>3. RequestFits(request[q])'
      BY <1>2, <2>1, <2>2 DEF RequestFits
    <2> QED
      BY <1>1, <1>2, <1>4, <2>1, <2>2, <2>3, RequestWritten, UnchangedKeepsTable
  <1> QED
    BY <1>3, <1>4

LEMMA RereadKeepsIInv ==
  ASSUME IInv, NEW q \in Requests, RereadJob(q)
  PROVE  IInv'
  <1> USE DEF RereadJob
  <1>1. TableKept /\ RunsFit'
    BY UnchangedKeepsTable DEF IInv, TypeOK, ActorsFit, RunsFit
  <1>2. request \in [Requests -> RequestRecords] /\ RequestFits(request[q])
    BY DEF IInv, TypeOK, ActorsFit
  <1>3. PICK j \in JobsWithKey(request[q].key) :
          request' = [request EXCEPT ![q] = [@ EXCEPT !.pc = AfterReading(j), !.job = j]]
    OBVIOUS
  <1>4. j \in Jobs /\ jobs[j].key = request[q].key /\ jobs[j].status # "absent"
    BY DEF JobsWithKey, IInv, TableFits, AbsentUnused
  <1> DEFINE new == [request[q] EXCEPT !.pc = AfterReading(j), !.job = j]
  <1>5. /\ new \in RequestRecords
        /\ new.pc \in {"done", "enqueue"}
        /\ new.key = request[q].key
        /\ new.job = j
    BY <1>2, <1>4 DEF RequestRecords, RequestPCs, AfterReading
  <1>6. request' = [request EXCEPT ![q] = new]
    BY <1>3
  <1> HIDE DEF new
  <1>7. RequestFits(request[q])'
    BY <1>2, <1>4, <1>5, <1>6, ActivationJobsAssumption DEF RequestFits
  <1> QED
    BY <1>1, <1>2, <1>5, <1>6, <1>7, RequestWritten

\* Trigger.dev's new run is for the job the request holds.
LEMMA StartRunFits ==
  ASSUME IInv, NEW r \in RunIds, NEW j \in Jobs, StartRun(r, j)
  PROVE  RunsFit'
  <1>1. [job |-> j, state |-> "waiting", tries |-> 0] \in RunRecords
    BY DEF RunRecords, RunStates
  <1> QED
    BY <1>1 DEF IInv, TypeOK, ActorsFit, RunsFit, StartRun

LEMMA EnqueueKeepsIInv ==
  ASSUME IInv, NEW q \in Requests, EnqueueJob(q)
  PROVE  IInv'
  <1> USE DEF EnqueueJob
  <1>1. TableKept
    BY UnchangedKeepsTable
  <1>2. /\ request \in [Requests -> RequestRecords]
        /\ RequestFits(request[q])
        /\ request[q].job \in Jobs
    BY DEF IInv, TypeOK, ActorsFit, RequestFits
  <1>3. RunsFit'
    <2>1. ASSUME UNCHANGED runs PROVE RunsFit'
      BY <2>1 DEF IInv, TypeOK, ActorsFit, RunsFit
    <2> QED
      BY <1>2, <2>1, StartRunFits
  <1>4. ASSUME NEW pc \in {"persist", "mark_failed", "done"}, NEW run \in RunIds \cup {NoRun},
               request' = [request EXCEPT ![q] = [@ EXCEPT !.pc = pc, !.run = run]]
        PROVE  IInv'
    <2> DEFINE new == [request[q] EXCEPT !.pc = pc, !.run = run]
    <2>1. /\ new \in RequestRecords
          /\ new.pc = pc
          /\ new.key = request[q].key
          /\ new.job = request[q].job
      BY <1>2 DEF RequestRecords, RequestPCs
    <2>2. request' = [request EXCEPT ![q] = new]
      BY <1>4
    <2> HIDE DEF new
    <2>3. RequestFits(request[q])'
      BY <1>2, <2>1, <2>2 DEF RequestFits
    <2> QED
      BY <1>1, <1>2, <1>3, <2>1, <2>2, <2>3, RequestWritten
  <1>5. ASSUME NEW pc \in {"persist", "mark_failed", "done"}
        PROVE  [request[q] EXCEPT !.pc = pc] = [request[q] EXCEPT !.pc = pc, !.run = request[q].run]
    BY <1>2 DEF RequestRecords
  <1>6. request[q].run \in RunIds \cup {NoRun}
    BY <1>2 DEF RequestRecords
  <1>7. ASSUME NEW r \in RunIds,
               request' = [request EXCEPT ![q] = [@ EXCEPT !.pc = "persist", !.run = r]]
        PROVE  IInv'
    BY <1>4, <1>7
  <1>8. ASSUME NEW pc \in {"mark_failed", "done"},
               request' = [request EXCEPT ![q] = [@ EXCEPT !.pc = pc]]
        PROVE  IInv'
    BY <1>4, <1>5, <1>6, <1>8
  <1> QED
    BY <1>7, <1>8

\* The last write of a request: the row is updated and the call ends.
LEMMA RequestEnds ==
  ASSUME IInv, NEW q \in Requests, TableKept, UNCHANGED runs,
         request[q].pc \notin {"idle", "done"},
         NEW new, new \in {[request[q] EXCEPT !.pc = "done"],
                           [request[q] EXCEPT !.pc = "done", !.run = NoRun]},
         request' = [request EXCEPT ![q] = new],
         UNCHANGED <<worker, cancel, sweep, campaigns, activated>>
  PROVE  IInv'
  <1>1. /\ request \in [Requests -> RequestRecords]
        /\ RequestFits(request[q])
        /\ request[q].job \in Jobs \cup {NoJob}
    BY DEF IInv, TypeOK, ActorsFit, RequestRecords
  <1>2. /\ new \in RequestRecords
        /\ new.pc = "done"
        /\ new.key = request[q].key
        /\ new.job = request[q].job
    BY <1>1 DEF RequestRecords, RequestPCs
  <1>3. RequestFits(request[q])'
    BY <1>1, <1>2 DEF RequestFits, TableKept
  <1>4. RunsFit'
    BY DEF IInv, TypeOK, ActorsFit, RunsFit
  <1> QED
    BY <1>1, <1>2, <1>3, <1>4, RequestWritten

LEMMA PersistKeepsIInv ==
  ASSUME IInv, NEW q \in Requests, PersistRun(q)
  PROVE  IInv'
  <1>1. request[q].job \in Jobs /\ request[q].run \in RunIds \cup {NoRun}
    BY DEF IInv, TypeOK, ActorsFit, RequestFits, PersistRun, RequestRecords
  <1>2. TableKept
    <2>1. "queued" \in JobStatuses \ {"absent"} /\ "none" \in JobErrors
      BY DEF JobStatuses, JobErrors
    <2>2. /\ jobs' = [jobs EXCEPT ![request[q].job] =
                       Transitioned(@, "queued", request[q].run, "none")]
          /\ activated' = activated
      BY DEF PersistRun
    <2> QED
      BY <1>1, <2>1, <2>2, TransitionKeepsTable
  <1> QED
    BY <1>2, RequestEnds DEF PersistRun

LEMMA MarkEnqueueFailedKeepsIInv ==
  ASSUME IInv, NEW q \in Requests, MarkEnqueueFailed(q)
  PROVE  IInv'
  <1>1. request[q].job \in Jobs
    BY DEF IInv, ActorsFit, RequestFits, MarkEnqueueFailed
  <1>2. TableKept
    <2>1. "failed" \in JobStatuses \ {"absent"} /\ "enqueue_failed" \in JobErrors
      BY DEF JobStatuses, JobErrors, TerminalStatuses
    <2>2. /\ jobs' = [jobs EXCEPT ![request[q].job] =
                       Transitioned(@, "failed", NoRun, "enqueue_failed")]
          /\ activated' = activated
      BY DEF MarkEnqueueFailed
    <2> QED
      BY <1>1, <2>1, <2>2, TransitionKeepsTable
  <1> QED
    BY <1>2, RequestEnds DEF MarkEnqueueFailed

LEMMA AbortKeepsIInv ==
  ASSUME IInv, NEW q \in Requests, AbortRequest(q)
  PROVE  IInv'
  BY UnchangedKeepsTable, RequestEnds DEF AbortRequest

LEMMA RequestKeepsIInv ==
  ASSUME IInv, NEW q \in Requests, RequestStep(q)
  PROVE  IInv'
  BY LookupKeepsIInv, InsertKeepsIInv, RereadKeepsIInv, EnqueueKeepsIInv, PersistKeepsIInv,
     MarkEnqueueFailedKeepsIInv, AbortKeepsIInv DEF RequestStep

-----------------------------------------------------------------------------
(***************************************************************************)
(* Trigger.dev's runs and the workers.                                     *)
(***************************************************************************)
LEMMA FailedAttemptFits ==
  ASSUME IInv, NEW r \in RunIds, runs[r].state # "unused", runs' = AfterFailedAttempt(r)
  PROVE  RunsFit'
  <1> DEFINE state == IF runs[r].tries < MaxAttempts THEN "waiting" ELSE "finished"
  <1>1. state \in {"waiting", "finished"}
    OBVIOUS
  <1>2. runs' = [runs EXCEPT ![r].state = state]
    BY DEF AfterFailedAttempt
  <1> HIDE DEF state
  <1>3. runs \in [RunIds -> RunRecords] /\ runs[r].job \in Jobs
    BY DEF IInv, TypeOK, ActorsFit
  <1>4. /\ runs' \in [RunIds -> RunRecords]
        /\ \A s \in RunIds : runs'[s].job = runs[s].job
        /\ \A s \in RunIds \ {r} : runs'[s].state = runs[s].state
    BY <1>1, <1>2, <1>3 DEF RunRecords, RunStates
  <1> QED
    BY <1>3, <1>4 DEF IInv, ActorsFit, RunsFit

LEMMA ClosedRunFits ==
  ASSUME IInv, NEW r \in RunIds, NEW state \in {"finished", "cancelled"},
         runs[r].state # "unused", runs' = [runs EXCEPT ![r].state = state]
  PROVE  RunsFit'
  <1>1. runs \in [RunIds -> RunRecords] /\ runs[r].job \in Jobs
    BY DEF IInv, TypeOK, ActorsFit
  <1>2. /\ runs' \in [RunIds -> RunRecords]
        /\ \A s \in RunIds : runs'[s].job = runs[s].job
        /\ \A s \in RunIds \ {r} : runs'[s].state = runs[s].state
    BY <1>1 DEF RunRecords, RunStates
  <1> QED
    BY <1>1, <1>2 DEF IInv, ActorsFit, RunsFit

LEMMA WorkerWritten ==
  ASSUME IInv, TableKept, RunsFit', NEW w \in Workers,
         worker' \in [Workers -> WorkerRecords],
         \A v \in Workers \ {w} : worker'[v] = worker[v],
         WorkerFits(worker[w])',
         campaigns' \in SUBSET Jobs, activated' \in SUBSET Jobs,
         UNCHANGED <<request, cancel, sweep>>
  PROVE  IInv'
  <1>1. TypeOK'
    BY DEF IInv, TypeOK, TableKept, RunsFit
  <1>2. \A q \in Requests : RequestFits(request[q])'
    BY OthersFit
  <1>3. \A v \in Workers : WorkerFits(worker[v])'
    BY OthersFit
  <1>4. ActorsFit'
    BY <1>2, <1>3 DEF IInv, ActorsFit, RunsFit
  <1> QED
    BY <1>1, <1>4 DEF IInv, TableKept

\* What a worker in mid-call holds.
LEMMA WorkerHolds ==
  ASSUME IInv, NEW w \in Workers, worker[w].pc # "idle"
  PROVE  /\ worker \in [Workers -> WorkerRecords]
         /\ worker[w].job \in Jobs
         /\ worker[w].run \in RunIds
         /\ worker[w].try \in Nat
  BY DEF IInv, TypeOK, ActorsFit, WorkerFits, WorkerRecords

\* A worker goes on to its next step with the job it holds.
LEMMA WorkerMoves ==
  ASSUME IInv, TableKept, NEW w \in Workers, worker[w].pc # "idle",
         NEW pc \in WorkerPCs, pc = "succeed" => worker[w].job \in activated',
         worker' = [worker EXCEPT ![w] = [@ EXCEPT !.pc = pc]],
         activated' \in SUBSET Jobs,
         UNCHANGED <<runs, request, cancel, sweep, campaigns>>
  PROVE  IInv'
  <1> DEFINE new == [worker[w] EXCEPT !.pc = pc]
  <1>1. /\ new \in WorkerRecords
        /\ new.pc = pc
        /\ new.job = worker[w].job
        /\ new.run = worker[w].run
    BY WorkerHolds DEF WorkerRecords
  <1>2. worker' = [worker EXCEPT ![w] = new]
    OBVIOUS
  <1> HIDE DEF new
  <1>3. WorkerFits(worker[w])'
    BY <1>1, <1>2, WorkerHolds DEF WorkerFits
  <1>4. RunsFit'
    BY DEF IInv, TypeOK, ActorsFit, RunsFit
  <1>5. campaigns' \in SUBSET Jobs
    BY DEF IInv, TypeOK
  <1> QED
    BY <1>1, <1>2, <1>3, <1>4, <1>5, WorkerHolds, WorkerWritten

\* A worker that stops, with or without an answer.
LEMMA WorkerStops ==
  ASSUME IInv, TableKept, NEW w \in Workers, worker[w].pc # "idle",
         Answered(w) \/ Raised(w),
         campaigns' \in SUBSET Jobs,
         UNCHANGED <<request, cancel, sweep, activated>>
  PROVE  IInv'
  <1>1. worker' = [worker EXCEPT ![w] = IdleWorker]
    BY DEF Answered, Raised
  <1>2. IdleWorker \in WorkerRecords /\ IdleWorker.pc = "idle"
    BY DEF IdleWorker, WorkerRecords, WorkerPCs
  <1>3. WorkerFits(worker[w])'
    BY <1>1, <1>2, WorkerHolds DEF WorkerFits
  <1>4. RunsFit'
    <2>1. CASE UNCHANGED runs
      BY <2>1 DEF IInv, TypeOK, ActorsFit, RunsFit
    <2>2. CASE IsCurrentAttempt(worker[w].run, worker[w].try)
      <3>1. runs[worker[w].run].state = "executing"
        BY <2>2 DEF IsCurrentAttempt
      <3>2. worker[w].run \in RunIds
        BY WorkerHolds DEF IInv, ActorsFit, WorkerFits
      <3> QED
        BY <2>2, <3>1, <3>2, FailedAttemptFits, ClosedRunFits DEF Answered, Raised
    <2> QED
      BY <2>1, <2>2 DEF Answered, Raised
  <1>5. activated' \in SUBSET Jobs
    BY DEF IInv, TypeOK
  <1> QED
    BY <1>1, <1>2, <1>3, <1>4, <1>5, WorkerHolds, WorkerWritten

LEMMA ReceiveKeepsIInv ==
  ASSUME IInv, NEW w \in Workers, NEW r \in RunIds, ReceiveJob(r, w)
  PROVE  IInv'
  <1> USE DEF ReceiveJob
  <1>1. TableKept
    BY UnchangedKeepsTable
  <1>2. /\ runs \in [RunIds -> RunRecords]
        /\ runs[r].job \in Jobs
        /\ runs[r].tries \in Nat
        /\ runs[r].tries + 1 \in Nat
    BY DEF IInv, TypeOK, ActorsFit, RunRecords
  <1>3. PICK state \in {"finished", "executing"} :
          runs' = [runs EXCEPT ![r].state = state, ![r].tries = @ + 1]
    OBVIOUS
  <1>4. RunsFit'
    <2>1. /\ runs' \in [RunIds -> RunRecords]
          /\ \A s \in RunIds : runs'[s].job = runs[s].job
          /\ \A s \in RunIds \ {r} : runs'[s].state = runs[s].state
      BY <1>2, <1>3 DEF RunRecords, RunStates
    <2> QED
      BY <1>2, <2>1 DEF IInv, ActorsFit, RunsFit
  <1>5. campaigns' \in SUBSET Jobs /\ activated' \in SUBSET Jobs /\ worker \in [Workers -> WorkerRecords]
    BY DEF IInv, TypeOK
  <1>6. CASE UNCHANGED worker
    <2>1. WorkerFits(worker[w])'
      BY <1>1, <1>6, OthersFit
    <2> QED
      BY <1>1, <1>4, <1>5, <1>6, <2>1, WorkerWritten
  <1>7. CASE worker' = [worker EXCEPT ![w] = [pc |-> "begin", job |-> runs[r].job,
                                              run |-> r, try |-> runs[r].tries + 1]]
    <2> DEFINE new == [pc |-> "begin", job |-> runs[r].job, run |-> r, try |-> runs[r].tries + 1]
    <2>1. new \in WorkerRecords /\ new.pc = "begin" /\ new.job = runs[r].job /\ new.run = r
      BY <1>2 DEF WorkerRecords, WorkerPCs
    <2>2. worker' = [worker EXCEPT ![w] = new]
      BY <1>7
    <2> HIDE DEF new
    <2>3. WorkerFits(worker[w])'
      BY <1>2, <1>5, <2>1, <2>2 DEF WorkerFits
    <2> QED
      BY <1>1, <1>4, <1>5, <2>1, <2>2, <2>3, WorkerWritten
  <1> QED
    BY <1>6, <1>7

LEMMA MarkRunningKeepsIInv ==
  ASSUME IInv, NEW w \in Workers, MarkRunning(w)
  PROVE  IInv'
  <1>1. worker[w].job \in Jobs /\ worker[w].run \in RunIds \cup {NoRun} /\ worker[w].pc # "idle"
    BY WorkerHolds DEF MarkRunning
  <1>2. TableKept
    <2>1. "running" \in JobStatuses \ {"absent"} /\ "none" \in JobErrors
      BY DEF JobStatuses, JobErrors, TerminalStatuses
    <2>2. /\ jobs' = [jobs EXCEPT ![worker[w].job] = Transitioned(@, "running", worker[w].run, "none")]
          /\ activated' = activated
      BY DEF MarkRunning
    <2> QED
      BY <1>1, <2>1, <2>2, TransitionKeepsTable
  <1>3. activated' \in SUBSET Jobs /\ "activate" \in WorkerPCs
    BY DEF IInv, TypeOK, MarkRunning, WorkerPCs
  <1> QED
    BY <1>1, <1>2, <1>3, WorkerMoves DEF MarkRunning

LEMMA ActivateCampaignKeepsIInv ==
  ASSUME IInv, NEW w \in Workers, ActivateCampaign(w)
  PROVE  IInv'
  <1> USE DEF ActivateCampaign
  <1>1. TableKept
    BY UnchangedKeepsTable
  <1>2. worker[w].pc # "idle" /\ worker[w].job \in Jobs
    BY WorkerHolds
  <1>3. activated' \in SUBSET Jobs /\ campaigns \in SUBSET Jobs /\ "fail" \in WorkerPCs
    BY DEF IInv, TypeOK, WorkerPCs
  <1>4. CASE worker' = [worker EXCEPT ![w] = [@ EXCEPT !.pc = "fail"]] /\ UNCHANGED <<runs, campaigns>>
    BY <1>1, <1>2, <1>3, <1>4, WorkerMoves
  <1>5. CASE campaigns' = campaigns \cup {worker[w].job} /\ Raised(w)
    BY <1>1, <1>2, <1>3, <1>5, WorkerStops
  <1> QED
    BY <1>4, <1>5

LEMMA ActivateStepKeepsIInv ==
  ASSUME IInv, NEW w \in Workers, ActivateStep(w)
  PROVE  IInv'
  <1> USE DEF ActivateStep
  <1>1. worker[w].pc # "idle" /\ worker[w].job \in Jobs
    BY WorkerHolds
  <1>2. activated \in SUBSET Jobs /\ activated' \in SUBSET Jobs /\ activated \subseteq activated'
    BY <1>1 DEF IInv, TypeOK
  <1>3. TableKept
    BY <1>2 DEF IInv, TypeOK, TableKept, TableFits, KeysUnique, AbsentUnused, SucceededMeansActivated
  <1>4. "fail" \in WorkerPCs /\ "succeed" \in WorkerPCs
    BY DEF WorkerPCs
  <1>5. CASE worker' = [worker EXCEPT ![w] = [@ EXCEPT !.pc = "succeed"]]
             /\ activated' = activated \cup {worker[w].job}
    BY <1>1, <1>2, <1>3, <1>4, <1>5, WorkerMoves
  <1>6. CASE worker' = [worker EXCEPT ![w] = [@ EXCEPT !.pc = "fail"]]
    BY <1>1, <1>2, <1>3, <1>4, <1>6, WorkerMoves
  <1> QED
    BY <1>5, <1>6

LEMMA MarkSucceededKeepsIInv ==
  ASSUME IInv, NEW w \in Workers, MarkSucceeded(w)
  PROVE  IInv'
  <1>1. /\ worker[w].job \in Jobs
        /\ worker[w].pc # "idle"
        /\ NoRun \in RunIds \cup {NoRun}
        /\ worker[w].job \in activated
    BY WorkerHolds DEF MarkSucceeded, IInv, ActorsFit, WorkerFits
  <1>2. TableKept
    <2>1. "succeeded" \in JobStatuses \ {"absent"} /\ "none" \in JobErrors
      BY DEF JobStatuses, JobErrors, TerminalStatuses
    <2>2. /\ jobs' = [jobs EXCEPT ![worker[w].job] = Transitioned(@, "succeeded", NoRun, "none")]
          /\ activated' = activated
      BY DEF MarkSucceeded
    <2> QED
      BY <1>1, <2>1, <2>2, TransitionKeepsTable
  <1>3. campaigns' \in SUBSET Jobs
    BY DEF IInv, TypeOK, MarkSucceeded
  <1> QED
    BY <1>1, <1>2, <1>3, WorkerStops DEF MarkSucceeded

LEMMA MarkFailedKeepsIInv ==
  ASSUME IInv, NEW w \in Workers, MarkFailed(w)
  PROVE  IInv'
  <1>1. worker[w].job \in Jobs /\ worker[w].pc # "idle" /\ NoRun \in RunIds \cup {NoRun}
    BY WorkerHolds DEF MarkFailed
  <1>2. TableKept
    <2>1. "failed" \in JobStatuses \ {"absent"} /\ "activation" \in JobErrors
      BY DEF JobStatuses, JobErrors, TerminalStatuses
    <2>2. /\ jobs' = [jobs EXCEPT ![worker[w].job] = Transitioned(@, "failed", NoRun, "activation")]
          /\ activated' = activated
      BY DEF MarkFailed
    <2> QED
      BY <1>1, <2>1, <2>2, TransitionKeepsTable
  <1>3. campaigns' \in SUBSET Jobs
    BY DEF IInv, TypeOK, MarkFailed
  <1> QED
    BY <1>1, <1>2, <1>3, WorkerStops DEF MarkFailed

LEMMA WorkerKeepsIInv ==
  ASSUME IInv, NEW w \in Workers, WorkerStep(w)
  PROVE  IInv'
  <1>1. ASSUME HandlerDies(w) PROVE IInv'
    <2>1. campaigns' \in SUBSET Jobs
      BY <1>1 DEF IInv, TypeOK, HandlerDies
    <2> QED
      BY <1>1, <2>1, UnchangedKeepsTable, WorkerStops DEF HandlerDies
  <1> QED
    BY <1>1, ReceiveKeepsIInv, MarkRunningKeepsIInv, ActivateCampaignKeepsIInv,
       ActivateStepKeepsIInv, MarkSucceededKeepsIInv, MarkFailedKeepsIInv DEF WorkerStep

LEMMA LoseConnectionKeepsIInv ==
  ASSUME IInv, NEW r \in RunIds, LoseConnection(r)
  PROVE  IInv'
  <1>1. TableKept /\ RunsFit'
    BY UnchangedKeepsTable, FailedAttemptFits DEF LoseConnection
  <1>2. TypeOK' /\ ActorsFit'
    BY <1>1, OthersFit DEF LoseConnection, IInv, TypeOK, ActorsFit, RunsFit
  <1> QED
    BY <1>1, <1>2 DEF IInv, TableKept

-----------------------------------------------------------------------------
(***************************************************************************)
(* Cancels, the sweep and the clock.                                       *)
(***************************************************************************)
LEMMA CancelWritten ==
  ASSUME IInv, TableKept, RunsFit', NEW x \in Cancels,
         cancel' \in [Cancels -> CancelRecords],
         \A y \in Cancels \ {x} : cancel'[y] = cancel[y],
         cancel'[x].pc \in {"trigger", "write"} => cancel'[x].job \in Jobs,
         UNCHANGED <<request, worker, sweep, campaigns, activated>>
  PROVE  IInv'
  <1>1. TypeOK'
    BY DEF IInv, TypeOK, TableKept, RunsFit
  <1>2. ActorsFit'
    BY OthersFit DEF IInv, ActorsFit, RunsFit
  <1> QED
    BY <1>1, <1>2 DEF IInv, TableKept

LEMMA CancelKeepsIInv ==
  ASSUME IInv, NEW x \in Cancels, CancelStep(x)
  PROVE  IInv'
  <1>1. cancel \in [Cancels -> CancelRecords] /\ jobs \in [Jobs -> JobRows]
    BY DEF IInv, TypeOK
  <1>2. UNCHANGED runs => RunsFit'
    BY DEF IInv, TypeOK, ActorsFit, RunsFit
  <1>3. ASSUME NEW j \in Jobs, ReadForCancel(x, j) PROVE IInv'
    <2> DEFINE new == [pc |-> "trigger", job |-> j, run |-> jobs[j].run]
    <2>1. new \in CancelRecords /\ new.job = j
      BY <1>1 DEF CancelRecords, CancelPCs, JobRows
    <2>2. cancel' = [cancel EXCEPT ![x] = new]
      BY <1>3 DEF ReadForCancel
    <2> HIDE DEF new
    <2> QED
      BY <1>1, <1>2, <1>3, <2>1, <2>2, CancelWritten, UnchangedKeepsTable DEF ReadForCancel
  <1>4. ASSUME CancelTriggerRun(x) PROVE IInv'
    <2> DEFINE new == [cancel[x] EXCEPT !.pc = "write"]
    <2>1. cancel[x].job \in Jobs
      BY <1>4 DEF CancelTriggerRun, IInv, ActorsFit
    <2>2. new \in CancelRecords /\ new.job = cancel[x].job
      BY <1>1 DEF CancelRecords, CancelPCs
    <2>3. cancel' = [cancel EXCEPT ![x] = new]
      BY <1>4 DEF CancelTriggerRun
    <2> HIDE DEF new
    <2>4. RunsFit'
      <3>1. CASE /\ cancel[x].run # NoRun
                 /\ runs[cancel[x].run].state \in {"waiting", "executing"}
                 /\ runs' = [runs EXCEPT ![cancel[x].run].state = "cancelled"]
        <4>1. cancel[x].run \in RunIds
          BY <1>1, <3>1 DEF CancelRecords
        <4> QED
          BY <3>1, <4>1, ClosedRunFits
      <3> QED
        BY <1>2, <1>4, <3>1 DEF CancelTriggerRun
    <2> QED
      BY <1>1, <1>4, <2>1, <2>2, <2>3, <2>4, CancelWritten, UnchangedKeepsTable
         DEF CancelTriggerRun
  <1>5. ASSUME WriteCancelled(x) PROVE IInv'
    <2> DEFINE new == [cancel[x] EXCEPT !.pc = "done", !.run = NoRun]
    <2>1. cancel[x].job \in Jobs /\ NoRun \in RunIds \cup {NoRun}
      BY <1>5 DEF WriteCancelled, IInv, ActorsFit
    <2>2. new \in CancelRecords /\ new.pc = "done"
      BY <1>1 DEF CancelRecords, CancelPCs
    <2>3. cancel' = [cancel EXCEPT ![x] = new]
      BY <1>5 DEF WriteCancelled
    <2> HIDE DEF new
    <2>4. "cancelled" \in JobStatuses \ {"absent"} /\ "user_requested" \in JobErrors
      BY DEF JobStatuses, JobErrors, TerminalStatuses
    <2>5. /\ jobs' = [jobs EXCEPT ![cancel[x].job] =
                       Transitioned(@, "cancelled", NoRun, "user_requested")]
          /\ UNCHANGED <<runs, request, worker, sweep, campaigns, activated>>
      BY <1>5 DEF WriteCancelled
    <2>6. TableKept
      BY <2>1, <2>4, <2>5, TransitionKeepsTable
    <2> QED
      BY <1>1, <1>2, <2>2, <2>3, <2>5, <2>6, CancelWritten
  <1> QED
    BY <1>3, <1>4, <1>5 DEF CancelStep

\* Steps that write the table and the sweep's own state only.
LEMMA TableWritten ==
  ASSUME IInv, TableKept, sweep' \in [pass : {"idle", "running", "failed"}, todo : SUBSET Jobs],
         UNCHANGED <<runs, request, worker, cancel, campaigns, activated>>
  PROVE  IInv'
  <1>1. TypeOK'
    BY DEF IInv, TypeOK, TableKept
  <1>2. ActorsFit'
    BY OthersFit DEF IInv, ActorsFit
  <1> QED
    BY <1>1, <1>2 DEF IInv, TableKept

LEMMA SweepKeepsIInv ==
  ASSUME IInv, SweepStep
  PROVE  IInv'
  <1>1. sweep \in [pass : {"idle", "running", "failed"}, todo : SUBSET Jobs]
    BY DEF IInv, TypeOK
  <1>2. CASE SelectStaleRunning
    BY <1>2, UnchangedKeepsTable, TableWritten DEF SelectStaleRunning
  <1>3. CASE SelectOldFailed
    BY <1>3, UnchangedKeepsTable, TableWritten DEF SelectOldFailed
  <1>4. CASE EndSweep
    BY <1>4, UnchangedKeepsTable, TableWritten DEF EndSweep, IdleSweep
  <1>5. ASSUME NEW j \in Jobs, FailStaleRunning(j) \/ DeadLetter(j)
        PROVE  IInv'
    <2>1. PICK status \in {"failed", "dead_lettered"}, error \in {"stale_running", "dead_letter"} :
            jobs' = [jobs EXCEPT ![j] = Transitioned(@, status, NoRun, error)]
      BY <1>5 DEF FailStaleRunning, DeadLetter
    <2>2. /\ status \in JobStatuses \ {"absent"}
          /\ status # "succeeded"
          /\ error \in JobErrors
          /\ NoRun \in RunIds \cup {NoRun}
      BY <2>1 DEF JobStatuses, JobErrors, TerminalStatuses
    <2>3. /\ sweep' = [sweep EXCEPT !.todo = @ \ {j}]
          /\ UNCHANGED <<runs, request, worker, cancel, campaigns, activated>>
      BY <1>5 DEF FailStaleRunning, DeadLetter
    <2>4. TableKept
      BY <2>1, <2>2, <2>3, TransitionKeepsTable
    <2> QED
      BY <1>1, <2>3, <2>4, TableWritten
  <1> QED
    BY <1>2, <1>3, <1>4, <1>5 DEF SweepStep

LEMMA TimeKeepsIInv ==
  ASSUME IInv, TimePasses
  PROVE  IInv'
  <1> SUFFICES ASSUME NEW j \in Jobs, StartedAges(j) \/ CompletedAges(j) PROVE IInv'
    BY DEF TimePasses
  <1> DEFINE started == [jobs[j] EXCEPT !.started = "old"]
             completed == [jobs[j] EXCEPT !.completed = "old"]
  <1>1. jobs \in [Jobs -> JobRows] /\ TableFits
    BY DEF IInv, TypeOK
  <1>2. \A row \in {started, completed} :
          /\ row \in JobRows
          /\ row.status = jobs[j].status
          /\ row.key = jobs[j].key
          /\ row.run = jobs[j].run
    BY <1>1 DEF JobRows, Stamps
  <1>3. PICK row \in {started, completed} : jobs' = [jobs EXCEPT ![j] = row]
    BY DEF StartedAges, CompletedAges
  <1> HIDE DEF started, completed
  <1>4. UNCHANGED <<runs, request, worker, cancel, sweep, campaigns, activated>>
    BY DEF StartedAges, CompletedAges
  <1>5. \A i \in Jobs : /\ jobs'[i].status = jobs[i].status
                        /\ jobs'[i].key = jobs[i].key
                        /\ jobs'[i].run = jobs[i].run
    BY <1>1, <1>2, <1>3
  <1>6. TableFits'
    BY <1>1, <1>4, <1>5
       DEF TableFits, KeysUnique, AbsentUnused, SucceededMeansActivated
  <1>7. TableKept
    BY <1>1, <1>2, <1>3, <1>4, <1>5, <1>6 DEF TableKept
  <1> QED
    BY <1>4, <1>7, TableWritten DEF IInv, TypeOK

-----------------------------------------------------------------------------
LEMMA NextIInv == IInv /\ [Next]_vars => IInv'
  <1> SUFFICES ASSUME IInv, [Next]_vars PROVE IInv'
    OBVIOUS
  <1>1. CASE UNCHANGED vars
    BY <1>1, UnchangedKeepsTable, TableWritten DEF vars, IInv, TypeOK
  <1>2. CASE Next
    BY <1>2, RequestKeepsIInv, WorkerKeepsIInv, LoseConnectionKeepsIInv, CancelKeepsIInv,
       SweepKeepsIInv, TimeKeepsIInv DEF Next
  <1> QED
    BY <1>1, <1>2

\* IInv holds in every reachable state.
THEOREM Inductive == Spec => []IInv
  BY InitIInv, NextIInv, PTL DEF Spec

\* Every variable of the job life cycle keeps its type, for any number of
\* requests, workers, runs and cancels.
THEOREM TypeCorrect == Spec => []TypeOK
  <1>1. IInv => TypeOK
    BY DEF IInv
  <1> QED
    BY <1>1, Inductive, PTL

\* create_job: requests that present one Idempotency-Key hold one job, however
\* the lookups, the inserts and the reads after a unique violation interleave.
THEOREM OneJobPerKey == Spec => []SameKeySameJob
  <1>1. IInv => SameKeySameJob
    <2> SUFFICES ASSUME IInv, NEW q1 \in Requests, NEW q2 \in Requests,
                        request[q1].key = request[q2].key, request[q1].key # NoKey,
                        request[q1].job # NoJob, request[q2].job # NoJob
                 PROVE  request[q1].job = request[q2].job
      BY DEF SameKeySameJob
    <2>1. \A q \in Requests : request[q].job # NoJob =>
            request[q].job \in Jobs /\ jobs[request[q].job].key = request[q].key
      BY DEF IInv, TypeOK, ActorsFit, RequestFits, RequestRecords
    <2> QED
      BY <2>1 DEF IInv, TableFits, KeysUnique
  <1> QED
    BY <1>1, Inductive, PTL

\* process-job: whatever retries, overlapping executions, cancels and sweeps
\* write, a job that reads succeeded had its activation return.
THEOREM SuccessIsReal == Spec => []SucceededMeansActivated
  <1>1. IInv => SucceededMeansActivated
    BY DEF IInv, TableFits
  <1> QED
    BY <1>1, Inductive, PTL
-----------------------------------------------------------------------------
(***************************************************************************)
(* What one step may do to one part of the state, whoever takes it.  The   *)
(* two action properties below are put together from these lemmas.         *)
(***************************************************************************)
\* A stored run id is never erased.
RunIdKept == \A j \in Jobs : jobs[j].run # NoRun => jobs'[j].run # NoRun

\* A run keeps the job it was started for, and stays started.
RunsMove ==
  \A r \in RunIds : /\ runs'[r].job = runs[r].job
                    /\ runs'[r].state = "unused" => runs[r].state = "unused"

\* The calls of a request that end in a write to its job, or in a run for it.
Calling == {"enqueue", "persist", "mark_failed"}

LEMMA TransitionKeepsRunId ==
  ASSUME IInv, NEW job \in Jobs, NEW status \in JobStatuses,
         NEW run \in RunIds \cup {NoRun}, NEW error \in JobErrors,
         jobs' = [jobs EXCEPT ![job] = Transitioned(@, status, run, error)]
  PROVE  RunIdKept
  <1>1. jobs \in [Jobs -> JobRows]
    BY DEF IInv, TypeOK
  <1> DEFINE new == Transitioned(jobs[job], status, run, error)
  <1>2. jobs[job].run # NoRun => new.run # NoRun
    BY <1>1, TransitionedRow
  <1>3. jobs' = [jobs EXCEPT ![job] = new]
    OBVIOUS
  <1> HIDE DEF new
  <1> QED
    BY <1>1, <1>2, <1>3 DEF RunIdKept

LEMMA StatusesAndErrors ==
  /\ {"queued", "running", "succeeded", "failed", "cancelled", "dead_lettered"} \subseteq JobStatuses
  /\ {"none", "enqueue_failed", "activation", "stale_running", "user_requested", "dead_letter"}
       \subseteq JobErrors
  BY DEF JobStatuses, TerminalStatuses, JobErrors

\* What a step may change in the status of a row: nothing; a job is created;
\* or the caller that writes is one that holds the job.
StatusMoves(j) ==
  \/ jobs'[j].status = jobs[j].status
  \/ jobs[j].status = "absent"
  \/ \E q \in Requests : request[q].job = j /\ request[q].pc \in {"persist", "mark_failed"}
  \/ \E w \in Workers : worker[w].job = j /\ worker[w].pc # "idle"
  \/ \E x \in Cancels : cancel[x].job = j /\ cancel[x].pc = "write"
  \/ sweep.pass = "running" /\ j \in sweep.todo
  \/ /\ sweep.pass = "failed" /\ j \in sweep.todo
     /\ jobs'[j].status = "dead_lettered" /\ j \notin sweep'.todo

LEMMA RequestKeepsRow ==
  ASSUME IInv, NEW q \in Requests, RequestStep(q)
  PROVE  RunIdKept /\ \A j \in Jobs : StatusMoves(j)
  <1>1. jobs \in [Jobs -> JobRows] /\ request[q] \in RequestRecords /\ RequestFits(request[q])
    BY DEF IInv, TypeOK, ActorsFit
  <1>2. ASSUME UNCHANGED jobs PROVE RunIdKept /\ \A j \in Jobs : StatusMoves(j)
    BY <1>2 DEF RunIdKept, StatusMoves
  <1>3. ASSUME InsertJob(q) PROVE RunIdKept /\ \A j \in Jobs : StatusMoves(j)
    <2>1. CASE UNCHANGED jobs
      BY <1>2, <2>1
    <2>2. ASSUME NEW i \in Jobs, jobs[i].status = "absent",
                 jobs' = [jobs EXCEPT ![i] = NewJob(request[q].kind, request[q].key)]
          PROVE  RunIdKept /\ \A j \in Jobs : StatusMoves(j)
      <3>1. jobs[i].run = NoRun
        BY <2>2 DEF IInv, TableFits, AbsentUnused
      <3> QED
        BY <1>1, <2>2, <3>1 DEF RunIdKept, StatusMoves
    <2> QED
      BY <1>3, <2>1, <2>2 DEF InsertJob
  <1>4. ASSUME PersistRun(q) PROVE RunIdKept /\ \A j \in Jobs : StatusMoves(j)
    <2>1. /\ request[q].job \in Jobs
          /\ request[q].run \in RunIds \cup {NoRun}
          /\ jobs' = [jobs EXCEPT ![request[q].job] =
                        Transitioned(@, "queued", request[q].run, "none")]
      BY <1>1, <1>4 DEF PersistRun, RequestFits, RequestRecords
    <2>2. RunIdKept
      BY <2>1, StatusesAndErrors, TransitionKeepsRunId
    <2> QED
      BY <1>1, <1>4, <2>1, <2>2 DEF StatusMoves, PersistRun
  <1>5. ASSUME MarkEnqueueFailed(q) PROVE RunIdKept /\ \A j \in Jobs : StatusMoves(j)
    <2>1. /\ request[q].job \in Jobs
          /\ NoRun \in RunIds \cup {NoRun}
          /\ jobs' = [jobs EXCEPT ![request[q].job] =
                        Transitioned(@, "failed", NoRun, "enqueue_failed")]
      BY <1>1, <1>5 DEF MarkEnqueueFailed, RequestFits
    <2>2. RunIdKept
      BY <2>1, StatusesAndErrors, TransitionKeepsRunId
    <2> QED
      BY <1>1, <1>5, <2>1, <2>2 DEF StatusMoves, MarkEnqueueFailed
  <1>6. ASSUME NEW kind, NEW key, LookupJob(q, kind, key) PROVE UNCHANGED jobs
    BY <1>6 DEF LookupJob
  <1>7. RereadJob(q) \/ EnqueueJob(q) \/ AbortRequest(q) => UNCHANGED jobs
    BY DEF RereadJob, EnqueueJob, AbortRequest
  <1> QED
    BY <1>2, <1>3, <1>4, <1>5, <1>6, <1>7 DEF RequestStep

LEMMA WorkerKeepsRow ==
  ASSUME IInv, NEW w \in Workers, WorkerStep(w)
  PROVE  RunIdKept /\ \A j \in Jobs : StatusMoves(j)
  <1> DEFINE job == worker[w].job
  <1>1. jobs \in [Jobs -> JobRows]
    BY DEF IInv, TypeOK
  <1>2. ASSUME UNCHANGED jobs PROVE RunIdKept /\ \A j \in Jobs : StatusMoves(j)
    BY <1>2 DEF RunIdKept, StatusMoves
  <1>3. ASSUME worker[w].pc # "idle", NEW status \in JobStatuses,
               NEW run \in RunIds \cup {NoRun}, NEW error \in JobErrors,
               jobs' = [jobs EXCEPT ![job] = Transitioned(@, status, run, error)]
        PROVE  RunIdKept /\ \A j \in Jobs : StatusMoves(j)
    <2>1. job \in Jobs
      BY <1>3, WorkerHolds
    <2>2. RunIdKept
      BY <1>3, <2>1, TransitionKeepsRunId
    <2>3. \A j \in Jobs \ {job} : jobs'[j] = jobs[j]
      BY <1>1, <1>3, <2>1
    <2> QED
      BY <1>3, <2>2, <2>3 DEF StatusMoves
  <1>4. CASE MarkRunning(w)
    <2>1. worker[w].pc # "idle" /\ worker[w].run \in RunIds \cup {NoRun}
      BY <1>4, WorkerHolds DEF MarkRunning
    <2> QED
      BY <1>3, <1>4, <2>1, StatusesAndErrors DEF MarkRunning
  <1>5. CASE MarkSucceeded(w)
    BY <1>3, <1>5, StatusesAndErrors DEF MarkSucceeded
  <1>6. CASE MarkFailed(w)
    BY <1>3, <1>6, StatusesAndErrors DEF MarkFailed
  <1>7. ASSUME NEW r, ReceiveJob(r, w) PROVE UNCHANGED jobs
    BY <1>7 DEF ReceiveJob
  <1>8. ActivateCampaign(w) \/ ActivateStep(w) \/ HandlerDies(w) => UNCHANGED jobs
    BY DEF ActivateCampaign, ActivateStep, HandlerDies
  <1> QED
    BY <1>2, <1>4, <1>5, <1>6, <1>7, <1>8 DEF WorkerStep

LEMMA CancelKeepsRow ==
  ASSUME IInv, NEW x \in Cancels, CancelStep(x)
  PROVE  RunIdKept /\ \A j \in Jobs : StatusMoves(j)
  <1>1. jobs \in [Jobs -> JobRows]
    BY DEF IInv, TypeOK
  <1>2. ASSUME UNCHANGED jobs PROVE RunIdKept /\ \A j \in Jobs : StatusMoves(j)
    BY <1>2 DEF RunIdKept, StatusMoves
  <1>3. CASE WriteCancelled(x)
    <2>1. /\ cancel[x].job \in Jobs
          /\ NoRun \in RunIds \cup {NoRun}
          /\ jobs' = [jobs EXCEPT ![cancel[x].job] =
                        Transitioned(@, "cancelled", NoRun, "user_requested")]
      BY <1>3 DEF WriteCancelled, IInv, ActorsFit
    <2>2. RunIdKept
      BY <2>1, StatusesAndErrors, TransitionKeepsRunId
    <2> QED
      BY <1>1, <1>3, <2>1, <2>2 DEF StatusMoves, WriteCancelled
  <1>4. ASSUME NEW j, ReadForCancel(x, j) PROVE UNCHANGED jobs
    BY <1>4 DEF ReadForCancel
  <1>5. CancelTriggerRun(x) => UNCHANGED jobs
    BY DEF CancelTriggerRun
  <1> QED
    BY <1>2, <1>3, <1>4, <1>5 DEF CancelStep

LEMMA SweepKeepsRow ==
  ASSUME IInv, SweepStep
  PROVE  RunIdKept /\ \A j \in Jobs : StatusMoves(j)
  <1>1. /\ jobs \in [Jobs -> JobRows]
        /\ sweep \in [pass : {"idle", "running", "failed"}, todo : SUBSET Jobs]
        /\ NoRun \in RunIds \cup {NoRun}
    BY DEF IInv, TypeOK
  <1>2. ASSUME NEW i \in Jobs, FailStaleRunning(i)
        PROVE  RunIdKept /\ \A j \in Jobs : StatusMoves(j)
    <2>1. jobs' = [jobs EXCEPT ![i] = Transitioned(@, "failed", NoRun, "stale_running")]
      BY <1>2 DEF FailStaleRunning
    <2>2. RunIdKept
      BY <1>1, <2>1, StatusesAndErrors, TransitionKeepsRunId
    <2> QED
      BY <1>1, <1>2, <2>1, <2>2 DEF StatusMoves, FailStaleRunning
  <1>3. ASSUME NEW i \in Jobs, DeadLetter(i)
        PROVE  RunIdKept /\ \A j \in Jobs : StatusMoves(j)
    <2>1. jobs' = [jobs EXCEPT ![i] = Transitioned(@, "dead_lettered", NoRun, "dead_letter")]
      BY <1>3 DEF DeadLetter
    <2>2. RunIdKept
      BY <1>1, <2>1, StatusesAndErrors, TransitionKeepsRunId
    <2>3. Transitioned(jobs[i], "dead_lettered", NoRun, "dead_letter").status = "dead_lettered"
      <3>1. jobs[i] \in JobRows /\ "dead_lettered" \in JobStatuses /\ "dead_letter" \in JobErrors
        BY <1>1, StatusesAndErrors
      <3> QED
        BY <1>1, <3>1, TransitionedRow
    <2>4. jobs'[i].status = "dead_lettered" /\ i \in sweep.todo /\ i \notin sweep'.todo
      BY <1>1, <1>3, <2>1, <2>3 DEF DeadLetter
    <2>5. \A j \in Jobs \ {i} : jobs'[j].status = jobs[j].status
      BY <1>1, <2>1
    <2> QED
      BY <1>3, <2>2, <2>4, <2>5 DEF StatusMoves, DeadLetter
  <1>4. SelectStaleRunning \/ SelectOldFailed \/ EndSweep => UNCHANGED jobs
    BY DEF SelectStaleRunning, SelectOldFailed, EndSweep
  <1>5. ASSUME UNCHANGED jobs PROVE RunIdKept /\ \A j \in Jobs : StatusMoves(j)
    BY <1>5 DEF RunIdKept, StatusMoves
  <1> QED
    BY <1>2, <1>3, <1>4, <1>5 DEF SweepStep

\* No step erases a run id, and a status is written only by a caller that holds
\* the job: transition_job checks neither.
LEMMA NextKeepsRow ==
  ASSUME IInv, [Next]_vars
  PROVE  RunIdKept /\ \A j \in Jobs : StatusMoves(j)
  <1>1. ASSUME UNCHANGED jobs PROVE RunIdKept /\ \A j \in Jobs : StatusMoves(j)
    BY <1>1 DEF RunIdKept, StatusMoves
  <1>2. ASSUME TimePasses PROVE RunIdKept /\ \A j \in Jobs : StatusMoves(j)
    <2>1. PICK i \in Jobs : StartedAges(i) \/ CompletedAges(i)
      BY <1>2 DEF TimePasses
    <2>2. jobs \in [Jobs -> JobRows]
      BY DEF IInv, TypeOK
    <2>3. \A j \in Jobs : jobs'[j].run = jobs[j].run /\ jobs'[j].status = jobs[j].status
      BY <2>1, <2>2 DEF StartedAges, CompletedAges, JobRows
    <2> QED
      BY <2>3 DEF RunIdKept, StatusMoves
  <1>3. ASSUME NEW r, LoseConnection(r) PROVE UNCHANGED jobs
    BY <1>3 DEF LoseConnection
  <1>4. UNCHANGED vars => UNCHANGED jobs
    BY DEF vars
  <1> QED
    BY <1>1, <1>2, <1>3, <1>4, RequestKeepsRow, WorkerKeepsRow, CancelKeepsRow, SweepKeepsRow
       DEF Next

-----------------------------------------------------------------------------
\* What a step may do to Trigger.dev's runs: besides a request that starts one,
\* nobody changes the job of a run or makes a started run unused.
LEMMA NextMovesRuns ==
  ASSUME IInv, [Next]_vars
  PROVE  \/ RunsMove
         \/ \E q \in Requests, r \in RunIds :
              request[q].pc = "enqueue" /\ StartRun(r, request[q].job)
  <1>1. runs \in [RunIds -> RunRecords]
    BY DEF IInv, TypeOK
  <1>2. ASSUME UNCHANGED runs PROVE RunsMove
    BY <1>2 DEF RunsMove
  <1>3. ASSUME NEW r \in RunIds, NEW state \in {"waiting", "executing", "finished", "cancelled"},
               runs' = [runs EXCEPT ![r].state = state]
        PROVE  RunsMove
    BY <1>1, <1>3 DEF RunsMove, RunRecords
  <1>4. ASSUME NEW r \in RunIds, runs' = AfterFailedAttempt(r) PROVE RunsMove
    BY <1>3, <1>4 DEF AfterFailedAttempt
  <1>5. ASSUME NEW w \in Workers, worker[w].pc # "idle", Answered(w) \/ Raised(w)
        PROVE  RunsMove
    <2>1. worker[w].run \in RunIds
      BY <1>5, WorkerHolds
    <2> QED
      BY <1>2, <1>3, <1>4, <1>5, <2>1 DEF Answered, Raised
  <1>6. ASSUME NEW w \in Workers, WorkerStep(w) PROVE RunsMove
    <2>1. ASSUME NEW r \in RunIds, ReceiveJob(r, w) PROVE RunsMove
      <3>1. PICK state \in {"finished", "executing"} :
              runs' = [runs EXCEPT ![r].state = state, ![r].tries = @ + 1]
        BY <2>1 DEF ReceiveJob
      <3> QED
        BY <1>1, <3>1 DEF RunsMove, RunRecords
    <2>2. CASE MarkRunning(w)
      BY <1>2, <2>2 DEF MarkRunning
    <2>3. CASE ActivateCampaign(w)
      BY <1>2, <1>5, <2>3 DEF ActivateCampaign
    <2>4. CASE ActivateStep(w)
      BY <1>2, <2>4 DEF ActivateStep
    <2>5. CASE MarkSucceeded(w)
      BY <1>5, <2>5 DEF MarkSucceeded
    <2>6. CASE MarkFailed(w)
      BY <1>5, <2>6 DEF MarkFailed
    <2>7. CASE HandlerDies(w)
      BY <1>5, <2>7 DEF HandlerDies
    <2> QED
      BY <1>6, <2>1, <2>2, <2>3, <2>4, <2>5, <2>6, <2>7 DEF WorkerStep
  <1>7. ASSUME NEW x \in Cancels, CancelStep(x) PROVE RunsMove
    <2>1. ASSUME CancelTriggerRun(x) PROVE RunsMove
      <3>1. CASE /\ cancel[x].run # NoRun
                 /\ runs' = [runs EXCEPT ![cancel[x].run].state = "cancelled"]
        <4>1. cancel[x].run \in RunIds
          BY <3>1 DEF IInv, TypeOK, CancelRecords
        <4> QED
          BY <1>3, <3>1, <4>1
      <3> QED
        BY <1>2, <2>1, <3>1 DEF CancelTriggerRun
    <2>2. ASSUME NEW j, ReadForCancel(x, j) PROVE UNCHANGED runs
      BY <2>2 DEF ReadForCancel
    <2>3. WriteCancelled(x) => UNCHANGED runs
      BY DEF WriteCancelled
    <2> QED
      BY <1>2, <1>7, <2>1, <2>2, <2>3 DEF CancelStep
  <1>8. ASSUME NEW q \in Requests, RequestStep(q)
        PROVE  \/ UNCHANGED runs
               \/ \E r \in RunIds : request[q].pc = "enqueue" /\ StartRun(r, request[q].job)
    <2>1. CASE EnqueueJob(q)
      BY <2>1 DEF EnqueueJob
    <2>2. ASSUME NEW kind, NEW key, LookupJob(q, kind, key) PROVE UNCHANGED runs
      BY <2>2 DEF LookupJob
    <2>3. CASE InsertJob(q)
      BY <2>3 DEF InsertJob
    <2>4. RereadJob(q) \/ PersistRun(q) \/ MarkEnqueueFailed(q) \/ AbortRequest(q) => UNCHANGED runs
      BY DEF RereadJob, PersistRun, MarkEnqueueFailed, AbortRequest
    <2> QED
      BY <1>8, <2>1, <2>2, <2>3, <2>4 DEF RequestStep
  <1>9. ASSUME SweepStep PROVE UNCHANGED runs
    BY <1>9 DEF SweepStep, SelectStaleRunning, SelectOldFailed, EndSweep, FailStaleRunning, DeadLetter
  <1>10. ASSUME TimePasses PROVE UNCHANGED runs
    BY <1>10 DEF TimePasses, StartedAges, CompletedAges
  <1>11. ASSUME NEW r \in RunIds, LoseConnection(r) PROVE RunsMove
    BY <1>4, <1>11 DEF LoseConnection
  <1>12. UNCHANGED vars => UNCHANGED runs
    BY DEF vars
  <1> QED
    BY <1>2, <1>6, <1>7, <1>8, <1>9, <1>10, <1>11, <1>12 DEF Next

\* A run Trigger.dev has not handed out is nobody's.
UnusedRunsAreFree == \A r \in RunIds : runs[r].state = "unused" => runs[r].job = NoJob

LEMMA UnusedStayFree == IInv /\ UnusedRunsAreFree /\ [Next]_vars => UnusedRunsAreFree'
  <1> SUFFICES ASSUME IInv, UnusedRunsAreFree, [Next]_vars PROVE UnusedRunsAreFree'
    OBVIOUS
  <1>1. CASE RunsMove
    BY <1>1 DEF RunsMove, UnusedRunsAreFree
  <1>2. ASSUME NEW r \in RunIds, NEW j, StartRun(r, j) PROVE UnusedRunsAreFree'
    BY <1>2 DEF StartRun, UnusedRunsAreFree, IInv, TypeOK
  <1> QED
    BY <1>1, <1>2, NextMovesRuns

LEMMA UnusedFree == Spec => []UnusedRunsAreFree
  <1>1. Init => UnusedRunsAreFree
    BY DEF Init, UnusedRunsAreFree, UnusedRun
  <1> QED
    BY <1>1, UnusedStayFree, Inductive, PTL DEF Spec

-----------------------------------------------------------------------------
\* A request is about to call Trigger.dev for, or write, a job it already held
\* there, or a job whose row it just saw without a run id: the replays end.
CallKept(q) ==
  request'[q].pc \in Calling =>
    \/ /\ request[q].pc \in Calling
       /\ request'[q].pc = "enqueue" => request[q].pc = "enqueue"
       /\ request'[q].job = request[q].job
    \/ request'[q].job \in Jobs /\ jobs[request'[q].job].run = NoRun

LEMMA RequestHolds ==
  ASSUME IInv, NEW p \in Requests, RequestStep(p)
  PROVE  \A q \in Requests : CallKept(q)
  <1>1. /\ request \in [Requests -> RequestRecords]
        /\ request[p] \in RequestRecords
        /\ AbsentUnused
    BY DEF IInv, TypeOK, TableFits
  <1>2. ASSUME NEW new, request' = [request EXCEPT ![p] = new],
               new.pc \notin Calling
                 \/ (new.job \in Jobs /\ jobs[new.job].run = NoRun)
                 \/ (request[p].pc = "enqueue" /\ new.pc # "enqueue" /\ new.job = request[p].job)
        PROVE  \A q \in Requests : CallKept(q)
    BY <1>1, <1>2 DEF CallKept, Calling
  <1>3. ASSUME NEW kind, NEW key, LookupJob(p, kind, key)
        PROVE  \A q \in Requests : CallKept(q)
    <2>1. CASE request' = [request EXCEPT ![p] =
                             [@ EXCEPT !.pc = "insert", !.key = key, !.kind = kind]]
      BY <1>1, <1>2, <2>1 DEF RequestRecords, Calling
    <2>2. ASSUME NEW j \in JobsWithKey(key),
                 request' = [request EXCEPT ![p] =
                   [@ EXCEPT !.pc = AfterReading(j), !.key = key, !.kind = kind, !.job = j]]
          PROVE  \A q \in Requests : CallKept(q)
      <3> DEFINE new == [request[p] EXCEPT !.pc = AfterReading(j), !.key = key, !.kind = kind, !.job = j]
      <3>1. j \in Jobs /\ new.pc = AfterReading(j) /\ new.job = j
        BY <1>1, <2>2 DEF RequestRecords, JobsWithKey
      <3>2. new.pc \notin Calling \/ jobs[j].run = NoRun
        BY <3>1 DEF Calling, AfterReading
      <3>3. request' = [request EXCEPT ![p] = new]
        BY <2>2
      <3> HIDE DEF new
      <3> QED
        BY <1>2, <3>1, <3>2, <3>3
    <2> QED
      BY <1>3, <2>1, <2>2 DEF LookupJob
  <1>4. CASE InsertJob(p)
    <2>1. CASE request' = [request EXCEPT ![p] = [@ EXCEPT !.pc = "reread"]]
      BY <1>1, <1>2, <2>1 DEF RequestRecords, Calling
    <2>2. ASSUME NEW j \in Jobs, jobs[j].status = "absent",
                 request' = [request EXCEPT ![p] = [@ EXCEPT !.pc = "enqueue", !.job = j]]
          PROVE  \A q \in Requests : CallKept(q)
      BY <1>1, <1>2, <2>2 DEF RequestRecords, AbsentUnused
    <2> QED
      BY <1>4, <2>1, <2>2 DEF InsertJob
  <1>5. CASE RereadJob(p)
    <2>1. PICK j \in JobsWithKey(request[p].key) :
            request' = [request EXCEPT ![p] = [@ EXCEPT !.pc = AfterReading(j), !.job = j]]
      BY <1>5 DEF RereadJob
    <2> DEFINE new == [request[p] EXCEPT !.pc = AfterReading(j), !.job = j]
    <2>2. j \in Jobs /\ new.pc = AfterReading(j) /\ new.job = j
      BY <1>1, <2>1 DEF RequestRecords, JobsWithKey
    <2>3. new.pc \notin Calling \/ jobs[j].run = NoRun
      BY <2>2 DEF Calling, AfterReading
    <2>4. request' = [request EXCEPT ![p] = new]
      BY <2>1
    <2> HIDE DEF new
    <2> QED
      BY <1>2, <2>2, <2>3, <2>4
  <1>6. CASE EnqueueJob(p)
    <2>1. ASSUME NEW pc \in {"mark_failed", "done"},
                 request' = [request EXCEPT ![p] = [@ EXCEPT !.pc = pc]]
          PROVE  \A q \in Requests : CallKept(q)
      BY <1>1, <1>2, <1>6, <2>1 DEF RequestRecords, EnqueueJob
    <2>2. ASSUME NEW r \in RunIds,
                 request' = [request EXCEPT ![p] = [@ EXCEPT !.pc = "persist", !.run = r]]
          PROVE  \A q \in Requests : CallKept(q)
      BY <1>1, <1>2, <1>6, <2>2 DEF RequestRecords, EnqueueJob
    <2> QED
      BY <1>6, <2>1, <2>2 DEF EnqueueJob
  <1>7. CASE PersistRun(p) \/ AbortRequest(p)
    <2>1. request' = [request EXCEPT ![p] = [@ EXCEPT !.pc = "done", !.run = NoRun]]
      BY <1>7 DEF PersistRun, AbortRequest
    <2> QED
      BY <1>1, <1>2, <2>1 DEF RequestRecords, Calling
  <1>8. CASE MarkEnqueueFailed(p)
    <2>1. request' = [request EXCEPT ![p] = [@ EXCEPT !.pc = "done"]]
      BY <1>8 DEF MarkEnqueueFailed
    <2> QED
      BY <1>1, <1>2, <2>1 DEF RequestRecords, Calling
  <1> QED
    BY <1>3, <1>4, <1>5, <1>6, <1>7, <1>8 DEF RequestStep

\* A worker holds the job it held, or one it just read in an open status.
WorkerKept(w) ==
  worker'[w].pc # "idle" =>
    \/ worker[w].pc # "idle" /\ worker'[w].job = worker[w].job
    \/ jobs[worker'[w].job].status \notin TerminalStatuses

LEMMA WorkerStepHolds ==
  ASSUME IInv, NEW v \in Workers, WorkerStep(v)
  PROVE  \A w \in Workers : WorkerKept(w)
  <1>1. worker \in [Workers -> WorkerRecords] /\ worker[v] \in WorkerRecords
    BY DEF IInv, TypeOK
  <1>2. ASSUME NEW new, worker' = [worker EXCEPT ![v] = new],
               new.pc = "idle" \/ (worker[v].pc # "idle" /\ new.job = worker[v].job)
                 \/ jobs[new.job].status \notin TerminalStatuses
        PROVE  \A w \in Workers : WorkerKept(w)
    BY <1>1, <1>2 DEF WorkerKept
  <1>3. ASSUME UNCHANGED worker PROVE \A w \in Workers : WorkerKept(w)
    BY <1>3 DEF WorkerKept
  <1>4. ASSUME Answered(v) \/ Raised(v) PROVE \A w \in Workers : WorkerKept(w)
    BY <1>2, <1>4 DEF Answered, Raised, IdleWorker
  <1>5. ASSUME worker[v].pc # "idle", NEW pc, worker' = [worker EXCEPT ![v] = [@ EXCEPT !.pc = pc]]
        PROVE  \A w \in Workers : WorkerKept(w)
    BY <1>1, <1>2, <1>5 DEF WorkerRecords
  <1>6. ASSUME NEW r, ReceiveJob(r, v) PROVE \A w \in Workers : WorkerKept(w)
    <2>1. CASE /\ jobs[runs[r].job].status \notin TerminalStatuses
               /\ worker' = [worker EXCEPT ![v] = [pc |-> "begin", job |-> runs[r].job,
                                                   run |-> r, try |-> runs[r].tries + 1]]
      BY <1>2, <2>1
    <2> QED
      BY <1>3, <1>6, <2>1 DEF ReceiveJob
  <1>7. CASE MarkRunning(v)
    BY <1>5, <1>7 DEF MarkRunning
  <1>8. CASE ActivateCampaign(v)
    BY <1>4, <1>5, <1>8 DEF ActivateCampaign
  <1>9. CASE ActivateStep(v)
    BY <1>5, <1>9 DEF ActivateStep
  <1>10. CASE MarkSucceeded(v) \/ MarkFailed(v) \/ HandlerDies(v)
    BY <1>4, <1>10 DEF MarkSucceeded, MarkFailed, HandlerDies
  <1> QED
    BY <1>6, <1>7, <1>8, <1>9, <1>10 DEF WorkerStep

\* A cancel holds the job it held, or one it just read queued or running.
CancelKept(x) ==
  cancel'[x].pc \in {"trigger", "write"} =>
    \/ cancel[x].pc \in {"trigger", "write"} /\ cancel'[x].job = cancel[x].job
    \/ jobs[cancel'[x].job].status \notin TerminalStatuses

LEMMA CancelStepHolds ==
  ASSUME IInv, NEW y \in Cancels, CancelStep(y)
  PROVE  \A x \in Cancels : CancelKept(x)
  <1>1. cancel \in [Cancels -> CancelRecords] /\ cancel[y] \in CancelRecords
    BY DEF IInv, TypeOK
  <1>2. CASE CancelTriggerRun(y)
    BY <1>1, <1>2 DEF CancelTriggerRun, CancelKept, CancelRecords
  <1>3. CASE WriteCancelled(y)
    BY <1>1, <1>3 DEF WriteCancelled, CancelKept, CancelRecords
  <1>4. ASSUME NEW j \in Jobs, ReadForCancel(y, j) PROVE \A x \in Cancels : CancelKept(x)
    BY <1>1, <1>4 DEF ReadForCancel, CancelKept, TerminalStatuses
  <1> QED
    BY <1>2, <1>3, <1>4 DEF CancelStep

\* The sweep holds the rows its last SELECT returned.
SweepKept ==
  \A j \in Jobs : j \in sweep'.todo =>
    \/ j \in sweep.todo /\ sweep'.pass = sweep.pass
    \/ jobs[j].status = "running"
    \/ sweep'.pass = "failed" /\ jobs[j].status = "failed"

LEMMA SweepStepHolds ==
  ASSUME IInv, SweepStep
  PROVE  SweepKept
  <1>1. sweep \in [pass : {"idle", "running", "failed"}, todo : SUBSET Jobs]
    BY DEF IInv, TypeOK
  <1>2. CASE SelectStaleRunning
    BY <1>2 DEF SelectStaleRunning, SweepKept
  <1>3. CASE SelectOldFailed
    BY <1>3 DEF SelectOldFailed, SweepKept
  <1>4. CASE EndSweep
    BY <1>4 DEF EndSweep, IdleSweep, SweepKept
  <1>5. ASSUME NEW j \in Jobs, FailStaleRunning(j) \/ DeadLetter(j) PROVE SweepKept
    BY <1>1, <1>5 DEF FailStaleRunning, DeadLetter, SweepKept
  <1> QED
    BY <1>2, <1>3, <1>4, <1>5 DEF SweepStep

\* What any step lets the actors hold.
LEMMA NextHolds ==
  ASSUME IInv, [Next]_vars
  PROVE  /\ \A q \in Requests : CallKept(q)
         /\ \A w \in Workers : WorkerKept(w)
         /\ \A x \in Cancels : CancelKept(x)
         /\ SweepKept
  <1>1. /\ UNCHANGED request => \A q \in Requests : CallKept(q)
        /\ UNCHANGED worker => \A w \in Workers : WorkerKept(w)
        /\ UNCHANGED cancel => \A x \in Cancels : CancelKept(x)
        /\ UNCHANGED sweep => SweepKept
    BY DEF CallKept, WorkerKept, CancelKept, SweepKept
  <1>2. ASSUME NEW q \in Requests, RequestStep(q)
        PROVE  UNCHANGED <<worker, cancel, sweep>>
    BY <1>2 DEF RequestStep, LookupJob, InsertJob, RereadJob, EnqueueJob, PersistRun,
                MarkEnqueueFailed, AbortRequest
  <1>3. ASSUME NEW w \in Workers, WorkerStep(w)
        PROVE  UNCHANGED <<request, cancel, sweep>>
    BY <1>3 DEF WorkerStep, ReceiveJob, MarkRunning, ActivateCampaign, ActivateStep,
                MarkSucceeded, MarkFailed, HandlerDies
  <1>4. ASSUME NEW x \in Cancels, CancelStep(x)
        PROVE  UNCHANGED <<request, worker, sweep>>
    BY <1>4 DEF CancelStep, ReadForCancel, CancelTriggerRun, WriteCancelled
  <1>5. ASSUME SweepStep
        PROVE  UNCHANGED <<request, worker, cancel>>
    BY <1>5 DEF SweepStep, SelectStaleRunning, SelectOldFailed, EndSweep, FailStaleRunning,
                DeadLetter
  <1>6. ASSUME TimePasses \/ (\E r \in RunIds : LoseConnection(r)) \/ UNCHANGED vars
        PROVE  UNCHANGED <<request, worker, cancel, sweep>>
    BY <1>6 DEF TimePasses, StartedAges, CompletedAges, LoseConnection, vars
  <1>7. CASE \E q \in Requests : RequestStep(q)
    BY <1>1, <1>2, <1>7, RequestHolds
  <1>8. CASE \E w \in Workers : WorkerStep(w)
    BY <1>1, <1>3, <1>8, WorkerStepHolds
  <1>9. CASE \E x \in Cancels : CancelStep(x)
    BY <1>1, <1>4, <1>9, CancelStepHolds
  <1>10. CASE SweepStep
    BY <1>1, <1>5, <1>10, SweepStepHolds
  <1> QED
    BY <1>1, <1>6, <1>7, <1>8, <1>9, <1>10 DEF Next

-----------------------------------------------------------------------------
LEMMA StepKeepsEnqueued ==
  ASSUME IInv, UnusedRunsAreFree, [Next]_vars, NEW j \in Jobs, Enqueued(j)
  PROVE  Enqueued(j)' /\ RunsOf(j)' = RunsOf(j)
  <1>1. jobs[j].run # NoRun
        /\ \A q \in Requests : ~(request[q].job = j /\ request[q].pc = "enqueue")
    BY DEF Enqueued
  <1>2. Enqueued(j)'
    <2>1. jobs'[j].run # NoRun
      BY <1>1, NextKeepsRow DEF RunIdKept
    <2>2. \A q \in Requests : ~(request'[q].job = j /\ request'[q].pc = "enqueue")
      BY <1>1, NextHolds DEF CallKept, Calling
    <2> QED
      BY <2>1, <2>2 DEF Enqueued
  <1>3. RunsOf(j)' = RunsOf(j)
    <2>1. CASE RunsMove
      BY <2>1 DEF RunsMove, RunsOf
    <2>2. ASSUME NEW q \in Requests, NEW r \in RunIds,
                 request[q].pc = "enqueue", StartRun(r, request[q].job)
          PROVE  RunsOf(j)' = RunsOf(j)
      <3>1. request[q].job # j
        BY <1>1, <2>2
      <3>2. runs[r].job # j
        BY <2>2, ActivationJobsAssumption DEF StartRun, UnusedRunsAreFree
      <3>3. \A s \in RunIds : runs'[s].job = IF s = r THEN request[q].job ELSE runs[s].job
        BY <2>2 DEF StartRun, IInv, TypeOK
      <3> QED
        BY <3>1, <3>2, <3>3 DEF RunsOf
    <2> QED
      BY <2>1, <2>2, NextMovesRuns
  <1> QED
    BY <1>2, <1>3

\* create_dmaas_campaign and transition_job: once a job's run id is stored and no
\* request is about to enqueue it, no replay of its key starts another run for it,
\* and no write takes the id away, whatever the other calls do meanwhile.
THEOREM NoRunIsAdded == Spec => NoRunOnceStored
  <1> DEFINE Keeps == \A j \in Jobs : Enqueued(j) => Enqueued(j)' /\ RunsOf(j)' = RunsOf(j)
  <1>1. IInv /\ UnusedRunsAreFree /\ [Next]_vars => [Keeps]_vars
    BY StepKeepsEnqueued
  <1>2. Spec => [][Keeps]_vars
    BY <1>1, Inductive, UnusedFree, PTL DEF Spec
  <1> QED
    BY <1>2 DEF NoRunOnceStored

LEMMA StepKeepsSettled ==
  ASSUME IInv, [Next]_vars, NEW j \in Jobs, Settled(j)
  PROVE  /\ Settled(j)'
         /\ \/ jobs'[j].status = jobs[j].status
            \/ jobs[j].status = "failed" /\ jobs'[j].status = "dead_lettered"
  <1>1. /\ jobs[j].status \in TerminalStatuses
        /\ jobs[j].status \notin {"absent", "running"}
        /\ jobs[j].run # NoRun
    BY DEF Settled, TerminalStatuses
  <1>2. /\ \A q \in Requests : ~(request[q].job = j /\ request[q].pc \in Calling)
        /\ \A w \in Workers : ~(worker[w].job = j /\ worker[w].pc # "idle")
        /\ \A x \in Cancels : ~(cancel[x].job = j /\ cancel[x].pc \in {"trigger", "write"})
        /\ j \in sweep.todo => sweep.pass = "failed" /\ jobs[j].status = "failed"
    BY DEF Settled, InFlight, Calling
  <1>3. jobs'[j].run # NoRun
    BY <1>1, NextKeepsRow DEF RunIdKept
  <1>4. \/ jobs'[j].status = jobs[j].status
        \/ /\ jobs[j].status = "failed" /\ jobs'[j].status = "dead_lettered"
           /\ j \notin sweep'.todo
    <2>1. StatusMoves(j)
      BY NextKeepsRow
    <2> QED
      BY <1>1, <1>2, <2>1 DEF StatusMoves, Calling
  <1>5. \A q \in Requests : ~(request'[q].job = j /\ request'[q].pc \in Calling)
    BY <1>1, <1>2, NextHolds DEF CallKept
  <1>6. \A w \in Workers : ~(worker'[w].job = j /\ worker'[w].pc # "idle")
    BY <1>1, <1>2, NextHolds DEF WorkerKept
  <1>7. \A x \in Cancels : ~(cancel'[x].job = j /\ cancel'[x].pc \in {"trigger", "write"})
    BY <1>1, <1>2, NextHolds DEF CancelKept
  <1>8. j \in sweep'.todo => sweep'.pass = "failed" /\ jobs'[j].status = "failed"
    <2>1. SweepKept
      BY NextHolds
    <2> QED
      BY <1>1, <1>2, <1>4, <2>1 DEF SweepKept
  <1>9. ~InFlight(j)'
    BY <1>5, <1>6, <1>7, <1>8 DEF InFlight, Calling
  <1>10. jobs'[j].status \in TerminalStatuses
    BY <1>1, <1>4 DEF TerminalStatuses
  <1> QED
    BY <1>3, <1>4, <1>9, <1>10 DEF Settled

\* transition_job, which checks no status: a terminal job that has its run and that
\* no call under way holds keeps its status through every later replay, retry,
\* cancel and sweep; only failed becomes dead_lettered.
THEOREM SettledForGood == Spec => SettledJobsStaySettled
  <1> DEFINE Keeps ==
        \A j \in Jobs : Settled(j) =>
          /\ Settled(j)'
          /\ \/ jobs'[j].status = jobs[j].status
             \/ jobs[j].status = "failed" /\ jobs'[j].status = "dead_lettered"
  <1>1. IInv /\ [Next]_vars => [Keeps]_vars
    BY StepKeepsSettled
  <1>2. Spec => [][Keeps]_vars
    BY <1>1, Inductive, PTL DEF Spec
  <1> QED
    BY <1>2 DEF SettledJobsStaySettled
=============================================================================
