---------------------- MODULE ActivationJobsRefinement ----------------------
(***************************************************************************)
(* ActivationJobs implements JobRegistry, for any number of jobs, keys and *)
(* actors.  The first write that gives a job its key is the registration;  *)
(* a request that reads a key's job is handed the registered one; every    *)
(* other step leaves keys and answers alone.                               *)
(***************************************************************************)
EXTENDS ActivationJobsProofs

Holder == [k \in Keys |-> JobOfKey(k)]
AnswerOf(q) ==
  IF request[q].job = NoJob THEN [key |-> NoKey, job |-> NoJob]
  ELSE [key |-> request[q].key, job |-> request[q].job]
Answer == [q \in Requests |-> AnswerOf(q)]

\* With unique keys, the job of a key is the one row that carries it.
LEMMA JobOfKeyIsTheHolder ==
  ASSUME KeysUnique, NEW key \in Keys, NEW j \in Jobs, jobs[j].key = key
  PROVE  JobOfKey(key) = j
  <1>1. key # NoKey
    BY JobRowAssumption
  <1>2. j \in JobsWithKey(key)
    BY <1>1 DEF JobsWithKey
  <1>3. \A i \in JobsWithKey(key) : i = j
    BY <1>1 DEF JobsWithKey, KeysUnique
  <1> QED
    BY <1>2, <1>3 DEF JobOfKey

LEMMA JobOfKeyInRange ==
  ASSUME NEW key
  PROVE  \/ JobOfKey(key) = NoJob /\ JobsWithKey(key) = {}
         \/ JobOfKey(key) \in JobsWithKey(key)
  BY DEF JobOfKey

KeysKept == \A j \in Jobs : jobs'[j].key = jobs[j].key

AnswerKept(q) ==
  /\ request'[q].job = request[q].job
  /\ request[q].job # NoJob => request'[q].key = request[q].key

LEMMA HolderKept == KeysKept => Holder' = Holder
  <1> SUFFICES ASSUME KeysKept PROVE Holder' = Holder
    OBVIOUS
  <1>1. ASSUME NEW k \in Keys PROVE JobsWithKey(k)' = JobsWithKey(k)
    BY DEF KeysKept, JobsWithKey
  <1>2. ASSUME NEW k \in Keys PROVE JobOfKey(k)' = JobOfKey(k)
    <2>1. JobsWithKey(k)' = JobsWithKey(k)
      BY <1>1
    <2>2. JobOfKey(k)' = IF JobsWithKey(k)' = {} THEN NoJob ELSE CHOOSE j \in JobsWithKey(k)' : TRUE
      BY DEF JobOfKey
    <2> QED
      BY <2>1, <2>2 DEF JobOfKey
  <1> QED
    BY <1>2 DEF Holder

LEMMA AnswersKept == (\A q \in Requests : AnswerKept(q)) => Answer' = Answer
  BY DEF AnswerKept, Answer, AnswerOf

LEMMA OneAnswerGiven ==
  ASSUME NEW q \in Requests, NEW a, \A p \in Requests \ {q} : AnswerKept(p), AnswerOf(q)' = a
  PROVE  Answer' = [Answer EXCEPT ![q] = a]
  <1>1. \A p \in Requests \ {q} : AnswerOf(p)' = AnswerOf(p)
    BY DEF AnswerKept, AnswerOf
  <1> QED
    BY <1>1 DEF Answer

-----------------------------------------------------------------------------
\* transition_job keeps the key, so every step that only updates rows stutters.
LEMMA TransitionKeepsKeys ==
  ASSUME TypeOK, NEW job \in Jobs, NEW status \in JobStatuses,
         NEW run \in RunIds \cup {NoRun}, NEW error \in JobErrors,
         jobs' = [jobs EXCEPT ![job] = Transitioned(@, status, run, error)]
  PROVE  KeysKept
  <1>1. jobs \in [Jobs -> JobRows]
    BY DEF TypeOK
  <1> DEFINE new == Transitioned(jobs[job], status, run, error)
  <1>2. new.key = jobs[job].key
    BY <1>1, TransitionedRow
  <1>3. jobs' = [jobs EXCEPT ![job] = new]
    OBVIOUS
  <1> HIDE DEF new
  <1> QED
    BY <1>1, <1>2, <1>3 DEF KeysKept

LEMMA ActorsKeepKeys ==
  ASSUME IInv,
         \/ \E w \in Workers : WorkerStep(w)
         \/ \E r \in RunIds : LoseConnection(r)
         \/ \E x \in Cancels : CancelStep(x)
         \/ SweepStep
         \/ TimePasses
  PROVE  KeysKept /\ UNCHANGED request
  <1>1. jobs \in [Jobs -> JobRows] /\ TypeOK
    BY DEF IInv, TypeOK
  <1>2. /\ "running" \in JobStatuses /\ "succeeded" \in JobStatuses
        /\ "failed" \in JobStatuses /\ "cancelled" \in JobStatuses
        /\ "dead_lettered" \in JobStatuses
        /\ "none" \in JobErrors /\ "activation" \in JobErrors
        /\ "user_requested" \in JobErrors /\ "stale_running" \in JobErrors
        /\ "dead_letter" \in JobErrors
        /\ NoRun \in RunIds \cup {NoRun}
    BY DEF JobStatuses, JobErrors, TerminalStatuses
  <1>3. UNCHANGED jobs => KeysKept
    BY DEF KeysKept
  <1>4. ASSUME NEW w \in Workers, WorkerStep(w) PROVE KeysKept /\ UNCHANGED request
    <2>1. CASE MarkRunning(w)
      <3>1. worker[w].job \in Jobs /\ worker[w].run \in RunIds \cup {NoRun}
        BY <2>1, WorkerHolds DEF MarkRunning
      <3>2. jobs' = [jobs EXCEPT ![worker[w].job] =
                       Transitioned(@, "running", worker[w].run, "none")]
        BY <2>1 DEF MarkRunning
      <3>3. KeysKept
        BY <1>1, <1>2, <3>1, <3>2, TransitionKeepsKeys
      <3> QED
        BY <2>1, <3>3 DEF MarkRunning
    <2>2. CASE MarkSucceeded(w)
      <3>1. worker[w].job \in Jobs
        BY <2>2, WorkerHolds DEF MarkSucceeded
      <3>2. jobs' = [jobs EXCEPT ![worker[w].job] = Transitioned(@, "succeeded", NoRun, "none")]
        BY <2>2 DEF MarkSucceeded
      <3>3. KeysKept
        BY <1>1, <1>2, <3>1, <3>2, TransitionKeepsKeys
      <3> QED
        BY <2>2, <3>3 DEF MarkSucceeded
    <2>3. CASE MarkFailed(w)
      <3>1. worker[w].job \in Jobs
        BY <2>3, WorkerHolds DEF MarkFailed
      <3>2. jobs' = [jobs EXCEPT ![worker[w].job] = Transitioned(@, "failed", NoRun, "activation")]
        BY <2>3 DEF MarkFailed
      <3>3. KeysKept
        BY <1>1, <1>2, <3>1, <3>2, TransitionKeepsKeys
      <3> QED
        BY <2>3, <3>3 DEF MarkFailed
    <2>4. CASE \/ \E r \in RunIds : ReceiveJob(r, w)
               \/ ActivateCampaign(w) \/ ActivateStep(w) \/ HandlerDies(w)
      BY <1>3, <2>4 DEF ReceiveJob, ActivateCampaign, ActivateStep, HandlerDies
    <2> QED
      BY <1>4, <2>1, <2>2, <2>3, <2>4 DEF WorkerStep
  <1>5. ASSUME NEW x \in Cancels, CancelStep(x) PROVE KeysKept /\ UNCHANGED request
    <2>1. CASE WriteCancelled(x)
      <3>1. cancel[x].job \in Jobs
        BY <2>1 DEF WriteCancelled, IInv, ActorsFit
      <3>2. jobs' = [jobs EXCEPT ![cancel[x].job] =
                       Transitioned(@, "cancelled", NoRun, "user_requested")]
        BY <2>1 DEF WriteCancelled
      <3>3. KeysKept
        BY <1>1, <1>2, <3>1, <3>2, TransitionKeepsKeys
      <3> QED
        BY <2>1, <3>3 DEF WriteCancelled
    <2>2. CASE (\E j \in Jobs : ReadForCancel(x, j)) \/ CancelTriggerRun(x)
      BY <1>3, <2>2 DEF ReadForCancel, CancelTriggerRun
    <2> QED
      BY <1>5, <2>1, <2>2 DEF CancelStep
  <1>6. ASSUME SweepStep PROVE KeysKept /\ UNCHANGED request
    <2>1. ASSUME NEW j \in Jobs, FailStaleRunning(j) PROVE KeysKept /\ UNCHANGED request
      <3>1. jobs' = [jobs EXCEPT ![j] = Transitioned(@, "failed", NoRun, "stale_running")]
        BY <2>1 DEF FailStaleRunning
      <3>2. KeysKept
        BY <1>1, <1>2, <3>1, TransitionKeepsKeys
      <3> QED
        BY <2>1, <3>2 DEF FailStaleRunning
    <2>2. ASSUME NEW j \in Jobs, DeadLetter(j) PROVE KeysKept /\ UNCHANGED request
      <3>1. jobs' = [jobs EXCEPT ![j] = Transitioned(@, "dead_lettered", NoRun, "dead_letter")]
        BY <2>2 DEF DeadLetter
      <3>2. KeysKept
        BY <1>1, <1>2, <3>1, TransitionKeepsKeys
      <3> QED
        BY <2>2, <3>2 DEF DeadLetter
    <2>3. CASE SelectStaleRunning \/ SelectOldFailed \/ EndSweep
      BY <1>3, <2>3 DEF SelectStaleRunning, SelectOldFailed, EndSweep
    <2> QED
      BY <1>6, <2>1, <2>2, <2>3 DEF SweepStep
  <1>7. ASSUME TimePasses PROVE KeysKept /\ UNCHANGED request
    BY <1>1, <1>7 DEF TimePasses, StartedAges, CompletedAges, KeysKept, JobRows
  <1>8. ASSUME NEW r \in RunIds, LoseConnection(r) PROVE KeysKept /\ UNCHANGED request
    BY <1>3, <1>8 DEF LoseConnection
  <1> QED
    BY <1>4, <1>5, <1>6, <1>7, <1>8

-----------------------------------------------------------------------------
(***************************************************************************)
(* The request's own steps.                                                *)
(***************************************************************************)
RegistryStep == Registry!Next \/ (Holder' = Holder /\ Answer' = Answer)

\* What the mapped step is: request q, which had no answer, is handed job j
\* which already carries q's key.
LEMMA HandedTheKeysJob ==
  ASSUME IInv, NEW q \in Requests, NEW j \in Jobs, NEW key \in Keys, KeysKept,
         jobs[j].key = key, request[q].job = NoJob,
         request'[q].job = j, request'[q].key = key,
         \A p \in Requests \ {q} : request'[p] = request[p]
  PROVE  Registry!Next
  <1>1. JobOfKey(key) = j /\ j # NoJob
    BY JobOfKeyIsTheHolder, ActivationJobsAssumption DEF IInv, TableFits
  <1>2. Holder' = Holder
    BY HolderKept
  <1>3. AnswerOf(q)' = [key |-> key, job |-> JobOfKey(key)]
    BY <1>1 DEF AnswerOf
  <1>4. \A p \in Requests \ {q} : AnswerKept(p)
    BY DEF AnswerKept
  <1>5. Answer' = [Answer EXCEPT ![q] = [key |-> key, job |-> JobOfKey(key)]]
    BY <1>3, <1>4, OneAnswerGiven
  <1>6. Answer[q] = [key |-> NoKey, job |-> NoJob]
    BY DEF Answer, AnswerOf
  <1>7. Holder[key] = JobOfKey(key)
    BY DEF Holder
  <1>8. Registry!Repeat(q, key)
    BY <1>1, <1>2, <1>5, <1>7 DEF Registry!Repeat, Holder, Answer, AnswerOf
  <1> QED
    BY <1>6, <1>8 DEF Registry!Next, Registry!Unanswered, Answer, AnswerOf

LEMMA RequestStepRefines ==
  ASSUME IInv, IInv', NEW q \in Requests, RequestStep(q)
  PROVE  RegistryStep
  <1>1. /\ request \in [Requests -> RequestRecords]
        /\ RequestFits(request[q])
        /\ jobs \in [Jobs -> JobRows]
        /\ TypeOK
    BY DEF IInv, TypeOK, ActorsFit
  <1>2. ASSUME KeysKept, \A p \in Requests : AnswerKept(p) PROVE RegistryStep
    BY <1>2, HolderKept, AnswersKept DEF RegistryStep
  <1>3. UNCHANGED jobs => KeysKept
    BY DEF KeysKept
  <1>4. ASSUME NEW kind \in JobKinds, NEW key \in Keys \cup {NoKey}, LookupJob(q, kind, key)
        PROVE  RegistryStep
    <2>1. KeysKept
      BY <1>3, <1>4 DEF LookupJob
    <2>2. request[q].job = NoJob
      BY <1>1, <1>4 DEF RequestFits, LookupJob
    <2>3. CASE request' = [request EXCEPT ![q] =
                             [@ EXCEPT !.pc = "insert", !.key = key, !.kind = kind]]
      <3>1. [request[q] EXCEPT !.pc = "insert", !.key = key, !.kind = kind].job = request[q].job
        BY <1>1 DEF RequestRecords
      <3>2. \A p \in Requests : AnswerKept(p)
        BY <1>1, <2>2, <2>3, <3>1 DEF AnswerKept
      <3> QED
        BY <1>2, <2>1, <3>2
    <2>4. ASSUME NEW j \in JobsWithKey(key),
                 request' = [request EXCEPT ![q] = [@ EXCEPT !.pc = AfterReading(j), !.key = key,
                                                             !.kind = kind, !.job = j]]
          PROVE  RegistryStep
      <3>1. j \in Jobs /\ key \in Keys /\ jobs[j].key = key
        BY DEF JobsWithKey
      <3> DEFINE new == [request[q] EXCEPT !.pc = AfterReading(j), !.key = key,
                                           !.kind = kind, !.job = j]
      <3>2. new.key = key /\ new.job = j
        BY <1>1 DEF RequestRecords
      <3>3. request' = [request EXCEPT ![q] = new]
        BY <2>4
      <3> HIDE DEF new
      <3>4. /\ request'[q].job = j
            /\ request'[q].key = key
            /\ \A p \in Requests \ {q} : request'[p] = request[p]
        BY <1>1, <3>2, <3>3
      <3> QED
        BY <2>1, <2>2, <3>1, <3>4, HandedTheKeysJob DEF RegistryStep
    <2> QED
      BY <1>4, <2>3, <2>4 DEF LookupJob
  <1>5. ASSUME RereadJob(q) PROVE RegistryStep
    <2>1. KeysKept
      BY <1>3, <1>5 DEF RereadJob
    <2>2. request[q].job = NoJob
      BY <1>1, <1>5 DEF RequestFits, RereadJob
    <2>3. PICK j \in JobsWithKey(request[q].key) :
            request' = [request EXCEPT ![q] = [@ EXCEPT !.pc = AfterReading(j), !.job = j]]
      BY <1>5 DEF RereadJob
    <2>4. j \in Jobs /\ request[q].key \in Keys /\ jobs[j].key = request[q].key
      BY <1>1 DEF JobsWithKey, RequestRecords
    <2> DEFINE new == [request[q] EXCEPT !.pc = AfterReading(j), !.job = j]
    <2>5. new.key = request[q].key /\ new.job = j
      BY <1>1 DEF RequestRecords
    <2>6. request' = [request EXCEPT ![q] = new]
      BY <2>3
    <2> HIDE DEF new
    <2>7. /\ request'[q].job = j
          /\ request'[q].key = request[q].key
          /\ \A p \in Requests \ {q} : request'[p] = request[p]
      BY <1>1, <2>5, <2>6
    <2> QED
      BY <2>1, <2>2, <2>4, <2>7, HandedTheKeysJob DEF RegistryStep
  <1>6. ASSUME NEW j \in Jobs,
               JobsWithKey(request[q].key) = {},
               request[q].pc = "insert",
               jobs[j].status = "absent",
               jobs' = [jobs EXCEPT ![j] = NewJob(request[q].kind, request[q].key)],
               request' = [request EXCEPT ![q] = [@ EXCEPT !.pc = "enqueue", !.job = j]]
        PROVE  RegistryStep
    <2>0. PICK key \in Keys \cup {NoKey} : key = request[q].key
      BY <1>1 DEF RequestRecords
    <2> DEFINE row == NewJob(request[q].kind, request[q].key)
               new == [request[q] EXCEPT !.pc = "enqueue", !.job = j]
    <2>1. row.key = key
      <3>1. request[q].kind \in JobKinds /\ request[q].key \in Keys \cup {NoKey}
        BY <1>1 DEF RequestRecords
      <3> QED
        BY <2>0, <3>1, NewJobRow
    <2>2. new.key = key /\ new.job = j
      BY <1>1, <2>0 DEF RequestRecords
    <2>3. jobs' = [jobs EXCEPT ![j] = row] /\ request' = [request EXCEPT ![q] = new]
      BY <1>6
    <2>4. request[q].job = NoJob /\ j # NoJob /\ jobs[j].key = NoKey
      BY <1>1, <1>6, ActivationJobsAssumption
         DEF RequestFits, RequestRecords, IInv, TableFits, AbsentUnused
    <2> HIDE DEF row, new
    <2>5. /\ request'[q].job = j
          /\ request'[q].key = key
          /\ \A p \in Requests \ {q} : request'[p] = request[p]
          /\ jobs'[j].key = key
          /\ \A i \in Jobs \ {j} : jobs'[i].key = jobs[i].key
      BY <1>1, <2>1, <2>2, <2>3
    <2>6. AnswerOf(q)' = [key |-> key, job |-> j]
      BY <2>4, <2>5 DEF AnswerOf
    <2>7. Answer' = [Answer EXCEPT ![q] = [key |-> key, job |-> j]]
      <3>1. \A p \in Requests \ {q} : AnswerKept(p)
        BY <2>5 DEF AnswerKept
      <3> QED
        BY <2>6, <3>1, OneAnswerGiven
    <2>8. Answer[q] = [key |-> NoKey, job |-> NoJob]
      BY <2>4 DEF Answer, AnswerOf
    <2>9. Registry!Fresh(j)
      <3>1. \A k \in Keys : Holder[k] # j
        <4>1. ASSUME NEW k \in Keys PROVE JobOfKey(k) # j
          BY <2>4, JobOfKeyInRange, JobRowAssumption DEF JobsWithKey
        <4> QED
          BY <4>1 DEF Holder
      <3>2. \A p \in Requests : Answer[p].job # j
        <4>1. \A p \in Requests : request[p].job # j
          BY <1>6, <2>4 DEF IInv, ActorsFit, RequestFits
        <4> QED
          BY <2>4, <4>1 DEF Answer, AnswerOf
      <3> QED
        BY <3>1, <3>2 DEF Registry!Fresh, Holder, Answer, AnswerOf
    <2>10. ASSUME NEW k \in Keys \ {key} PROVE JobOfKey(k)' = JobOfKey(k)
      <3>1. JobsWithKey(k)' = JobsWithKey(k)
        BY <2>4, <2>5, JobRowAssumption DEF JobsWithKey
      <3>2. JobOfKey(k)' = IF JobsWithKey(k)' = {} THEN NoJob
                           ELSE CHOOSE i \in JobsWithKey(k)' : TRUE
        BY DEF JobOfKey
      <3> QED
        BY <3>1, <3>2 DEF JobOfKey
    <2>11. CASE key \in Keys
      <3>1. JobOfKey(key) = NoJob
        BY <1>6, <2>0 DEF JobOfKey
      <3>2. JobOfKey(key)' = j
        <4>1. KeysUnique'
          BY DEF IInv, TableFits
        <4>2. JobsWithKey(key)' = {j}
          <5>1. \A i \in Jobs : jobs'[i].key = key <=> i = j
            BY <2>5, <2>11, <4>1, JobRowAssumption DEF KeysUnique
          <5>2. key # NoKey
            BY <2>11, JobRowAssumption
          <5> QED
            BY <5>1, <5>2 DEF JobsWithKey
        <4>3. JobOfKey(key)' = IF JobsWithKey(key)' = {} THEN NoJob
                               ELSE CHOOSE i \in JobsWithKey(key)' : TRUE
          BY DEF JobOfKey
        <4> QED
          BY <4>2, <4>3
      <3>3. Holder' = [Holder EXCEPT ![key] = j]
        BY <2>10, <2>11, <3>2 DEF Holder
      <3>4. Registry!Register(q, key, j)
        BY <2>7, <2>9, <2>11, <3>1, <3>3 DEF Registry!Register, Holder, Answer, AnswerOf
      <3> QED
        BY <2>8, <2>11, <3>4
           DEF RegistryStep, Registry!Next, Registry!Unanswered, Answer, AnswerOf
    <2>12. CASE key = NoKey
      <3>1. Holder' = Holder
        BY <2>10, <2>12, JobRowAssumption DEF Holder
      <3>2. Registry!RegisterUnkeyed(q, j)
        BY <2>7, <2>9, <2>12, <3>1 DEF Registry!RegisterUnkeyed, Holder, Answer, AnswerOf
      <3> QED
        BY <2>8, <3>2
           DEF RegistryStep, Registry!Next, Registry!Unanswered, Answer, AnswerOf
    <2> QED
      BY <2>11, <2>12
  <1>7. ASSUME UNCHANGED jobs, request' = [request EXCEPT ![q] = [@ EXCEPT !.pc = "reread"]]
        PROVE  RegistryStep
    <2>1. \A p \in Requests : AnswerKept(p)
      BY <1>1, <1>7 DEF AnswerKept, RequestRecords
    <2> QED
      BY <1>2, <1>3, <1>7, <2>1
  <1>8. ASSUME EnqueueJob(q) \/ PersistRun(q) \/ MarkEnqueueFailed(q) \/ AbortRequest(q)
        PROVE  RegistryStep
    <2>1. \A p \in Requests : AnswerKept(p)
      <3>1. PICK pc \in RequestPCs, run \in RunIds \cup {NoRun} :
              request' = [request EXCEPT ![q] = [@ EXCEPT !.pc = pc, !.run = run]]
        <4>1. \A pc \in RequestPCs :
                [request[q] EXCEPT !.pc = pc] = [request[q] EXCEPT !.pc = pc, !.run = request[q].run]
          BY <1>1 DEF RequestRecords
        <4>2. request[q].run \in RunIds \cup {NoRun} /\ NoRun \in RunIds \cup {NoRun}
          BY <1>1 DEF RequestRecords
        <4>3. {"persist", "mark_failed", "done"} \subseteq RequestPCs
          BY DEF RequestPCs
        <4>4. CASE \E r \in RunIds : request' = [request EXCEPT ![q] =
                                                [@ EXCEPT !.pc = "persist", !.run = r]]
          BY <4>3, <4>4
        <4>5. CASE \E pc \in {"mark_failed", "done"} :
                     request' = [request EXCEPT ![q] = [@ EXCEPT !.pc = pc]]
          <5>1. PICK pc \in RequestPCs : request' = [request EXCEPT ![q] = [@ EXCEPT !.pc = pc]]
            BY <4>3, <4>5
          <5>2. request' = [request EXCEPT ![q] = [@ EXCEPT !.pc = pc, !.run = request[q].run]]
            BY <4>1, <5>1
          <5> QED
            BY <4>2, <5>2
        <4>6. CASE request' = [request EXCEPT ![q] = [@ EXCEPT !.pc = "done", !.run = NoRun]]
          BY <4>2, <4>3, <4>6
        <4> QED
          BY <1>8, <4>4, <4>5, <4>6 DEF EnqueueJob, PersistRun, MarkEnqueueFailed, AbortRequest
      <3> DEFINE new == [request[q] EXCEPT !.pc = pc, !.run = run]
      <3>2. new.key = request[q].key /\ new.job = request[q].job
        BY <1>1 DEF RequestRecords
      <3>3. request' = [request EXCEPT ![q] = new]
        BY <3>1
      <3> HIDE DEF new
      <3> QED
        BY <1>1, <3>2, <3>3 DEF AnswerKept
    <2>2. KeysKept
      <3>1. /\ "queued" \in JobStatuses /\ "failed" \in JobStatuses
            /\ "none" \in JobErrors /\ "enqueue_failed" \in JobErrors
            /\ NoRun \in RunIds \cup {NoRun}
            /\ request[q].run \in RunIds \cup {NoRun}
        BY <1>1 DEF JobStatuses, JobErrors, TerminalStatuses, RequestRecords
      <3>2. ASSUME PersistRun(q) PROVE KeysKept
        <4>1. /\ request[q].job \in Jobs
              /\ jobs' = [jobs EXCEPT ![request[q].job] =
                            Transitioned(@, "queued", request[q].run, "none")]
          BY <1>1, <3>2 DEF PersistRun, RequestFits
        <4> QED
          BY <1>1, <3>1, <4>1, TransitionKeepsKeys
      <3>3. ASSUME MarkEnqueueFailed(q) PROVE KeysKept
        <4>1. /\ request[q].job \in Jobs
              /\ jobs' = [jobs EXCEPT ![request[q].job] =
                            Transitioned(@, "failed", NoRun, "enqueue_failed")]
          BY <1>1, <3>3 DEF MarkEnqueueFailed, RequestFits
        <4> QED
          BY <1>1, <3>1, <4>1, TransitionKeepsKeys
      <3>4. ASSUME EnqueueJob(q) \/ AbortRequest(q) PROVE KeysKept
        BY <1>3, <3>4 DEF EnqueueJob, AbortRequest
      <3> QED
        BY <1>8, <3>2, <3>3, <3>4
    <2> QED
      BY <1>2, <2>1, <2>2
  <1>9. ASSUME InsertJob(q) PROVE RegistryStep
    BY <1>6, <1>7, <1>9 DEF InsertJob
  <1> QED
    BY <1>4, <1>5, <1>8, <1>9 DEF RequestStep

-----------------------------------------------------------------------------
LEMMA InitRefines == Init => Registry!Init
  <1> SUFFICES ASSUME Init PROVE Registry!Init
    OBVIOUS
  <1>1. ASSUME NEW k \in Keys PROVE JobOfKey(k) = NoJob
    BY JobRowAssumption DEF Init, JobOfKey, JobsWithKey, AbsentJob
  <1>2. \A q \in Requests : request[q].job = NoJob
    BY DEF Init, IdleRequest
  <1> QED
    BY <1>1, <1>2 DEF Registry!Init, Registry!Unanswered

LEMMA StepRefines == IInv /\ IInv' /\ [Next]_vars => [Registry!Next]_(Registry!registryVars)
  <1> SUFFICES ASSUME IInv, IInv', [Next]_vars PROVE RegistryStep
    BY DEF RegistryStep, Registry!registryVars, Holder, Answer, AnswerOf
  <1>1. CASE \E q \in Requests : RequestStep(q)
    BY <1>1, RequestStepRefines
  <1>2. ASSUME KeysKept, UNCHANGED request PROVE RegistryStep
    <2>1. \A q \in Requests : AnswerKept(q)
      BY <1>2 DEF AnswerKept
    <2> QED
      BY <1>2, <2>1, HolderKept, AnswersKept DEF RegistryStep
  <1>3. CASE UNCHANGED vars
    BY <1>2, <1>3 DEF vars, KeysKept
  <1>4. CASE \/ \E w \in Workers : WorkerStep(w)
             \/ \E r \in RunIds : LoseConnection(r)
             \/ \E x \in Cancels : CancelStep(x)
             \/ SweepStep
             \/ TimePasses
    BY <1>2, <1>4, ActorsKeepKeys
  <1> QED
    BY <1>1, <1>3, <1>4 DEF Next

\* create_job, with its two lookups and its INSERT, is one atomic registration
\* per Idempotency-Key.
THEOREM Refinement == Spec => ImplementsRegistry
  BY InitRefines, StepRefines, Inductive, PTL DEF Spec, ImplementsRegistry, Registry!Spec
=============================================================================
