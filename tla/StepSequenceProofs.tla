------------------------- MODULE StepSequenceProofs -------------------------
(***************************************************************************)
(* Proofs about StepSequence, for any number of steps, audiences, jobs and *)
(* concurrent calls.                                                       *)
(***************************************************************************)
EXTENDS StepSequence, TLAPS

\* What a webhook call's record carries is there by the time it is used; and one that
\* counted its step's members and went on found them all at their end, as they still are.
Fits(r) ==
  /\ r.pc # "idle" => r.step \in Steps
  /\ r.pc = "write" => r.member \in Members
  /\ r.pc \in {"write", "status", "complete"} => r.verdict \in {"sent", "failed"}
  /\ r.pc \in {"existing", "insert"} => r.step < StepCount
  /\ r.pc \in {"enqueue", "persist", "mark_failed"} => r.job \in Jobs /\ jobs[r.job].step \in Steps
  /\ r.pc \in {"status", "complete", "next", "existing", "insert"} => StepComplete(r.step)

HooksFit == \A h \in Hooks : Fits(hook[h])

\* So is what activations, control calls and cancellations carry.
ActivationsFit ==
  \A a \in Activators :
    /\ activation[a].pc # "idle" => activation[a].step \in Steps
    /\ activation[a].pc \in {"flip", "finish"} => activation[a].result # "none"

JobsFit ==
  \A j \in Jobs :
    /\ jobs[j].status = "absent" => jobs[j].step = NoStep
    /\ calls[j] # "none" \/ jobs[j].status # "absent" \/ activation[j].pc # "idle"
         => jobs[j].step \in Steps

ControlFits ==
  /\ control.pc \in {"cancel", "cancelled"} =>
       control.job \in Jobs /\ jobs[control.job].step \in Steps
  /\ canceller.pc # "idle" => canceller.step \in Steps

IInv ==
  /\ TypeOK /\ HooksFit /\ ActivationsFit /\ JobsFit /\ ControlFits
  /\ SentStepsAreComplete /\ ScheduledAfterCompletion

\* Two things every step of the system keeps: a member that reached its end stays
\* at an end, and a job that has a step keeps it.
MembersKeepTheirEnd ==
  \A m \in Members : members[m] \in TerminalMember => members'[m] \in TerminalMember
JobsKeepTheirStep ==
  \A j \in Jobs : jobs[j].step \in Steps => jobs'[j].step = jobs[j].step

USE DEF Steps, NoStep, NoMember, StepStatuses, Done, MemberStatuses, TerminalMember,
        CampaignStatuses, JobStatuses, OpenJob, HookPCs, ActivationPCs, ControlPCs,
        CancellerPCs, Activators, StepRows, JobRows, Verdicts, Results, At, ActivationAt

LEMMA InitEstablishes == Init => IInv
<1> SUFFICES ASSUME Init PROVE IInv
  OBVIOUS
<1> USE StepSequenceAssumption
        DEF Init, IdleHook, Call, IdleActivation, IdleControl, Walk, IdleCanceller
<1>1. TypeOK
  BY DEF TypeOK, HookRecords, ActivationRecords, ControlRecords, CancellerRecords
<1>2. HooksFit /\ ActivationsFit /\ JobsFit /\ ControlFits
  BY DEF HooksFit, Fits, ActivationsFit, JobsFit, ControlFits
<1>3. SentStepsAreComplete /\ ScheduledAfterCompletion
  BY DEF SentStepsAreComplete, ScheduledAfterCompletion
<1> QED BY <1>1, <1>2, <1>3 DEF IInv

-----------------------------------------------------------------------------
(***************************************************************************)
(* What the invariant's parts depend on.                                   *)
(***************************************************************************)
\* A complete step stays complete.
LEMMA CompleteStays ==
  ASSUME MembersKeepTheirEnd, NEW CONSTANT s, StepComplete(s)
  PROVE  StepComplete(s)'
  BY DEF MembersKeepTheirEnd, StepComplete, MembersOf

\* A record that fits still does.
LEMMA FitsStill ==
  ASSUME MembersKeepTheirEnd, JobsKeepTheirStep, NEW CONSTANT r, Fits(r)
  PROVE  Fits(r)'
<1>1. StepComplete(r.step) => StepComplete(r.step)'
  BY CompleteStays
<1>2. r.job \in Jobs /\ jobs[r.job].step \in Steps => jobs'[r.job].step \in Steps
  BY DEF JobsKeepTheirStep
<1> QED BY <1>1, <1>2 DEF Fits

\* One call moves, or none, and the others fit as before.
LEMMA HooksMove ==
  ASSUME IInv, MembersKeepTheirEnd, JobsKeepTheirStep,
         \A g \in Hooks : hook'[g] = hook[g] \/ Fits(hook[g])'
  PROVE  HooksFit'
<1>1. ASSUME NEW g \in Hooks, hook'[g] = hook[g] PROVE Fits(hook[g])'
  <2>1. PICK r : r = hook[g]
    OBVIOUS
  <2>2. Fits(r)'
    BY <2>1, FitsStill DEF IInv, HooksFit
  <2> QED BY <1>1, <2>1, <2>2 DEF Fits
<1> QED BY <1>1 DEF HooksFit

\* A step reads sent, and a job exists, only on account of members at their end.
LEMMA CompletionKept ==
  ASSUME IInv, MembersKeepTheirEnd,
         \A s \in Steps : steps'[s].status = "sent" => steps[s].status = "sent" \/ StepComplete(s),
         \A j \in Jobs : jobs'[j].step = jobs[j].step
                         \/ (jobs'[j].step > 1 /\ StepComplete(jobs'[j].step - 1))
  PROVE  SentStepsAreComplete' /\ ScheduledAfterCompletion'
<1>1. SentStepsAreComplete'
  BY CompleteStays DEF IInv, SentStepsAreComplete
<1>2. ASSUME NEW j \in Jobs, jobs'[j].step # NoStep
      PROVE  jobs'[j].step > 1 /\ StepComplete(jobs'[j].step - 1)
  BY <1>2 DEF IInv, ScheduledAfterCompletion
<1>3. ScheduledAfterCompletion'
  <2> SUFFICES ASSUME NEW j \in Jobs, jobs'[j].step # NoStep
               PROVE  jobs'[j].step > 1 /\ StepComplete(jobs[j].step - 1)'
    BY DEF ScheduledAfterCompletion
  <2>1. PICK s : s = jobs'[j].step - 1
    OBVIOUS
  <2> QED BY <1>2, <2>1, CompleteStays
<1> QED BY <1>1, <1>3

\* What a step need not touch: the parts of the invariant it leaves alone follow.
LEMMA Preserved ==
  ASSUME IInv, TypeOK', MembersKeepTheirEnd, JobsKeepTheirStep,
         \A g \in Hooks : hook'[g] = hook[g] \/ Fits(hook[g])',
         activation' = activation \/ ActivationsFit',
         \A j \in Jobs :
           (jobs'[j] = jobs[j] /\ calls'[j] = calls[j] /\ activation'[j] = activation[j])
             \/ (jobs'[j].status # "absent" /\ jobs'[j].step \in Steps),
         (control' = control /\ canceller' = canceller) \/ ControlFits',
         \A s \in Steps : steps'[s].status = "sent" => steps[s].status = "sent" \/ StepComplete(s),
         \A j \in Jobs : jobs'[j].step = jobs[j].step
                         \/ (jobs'[j].step > 1 /\ StepComplete(jobs'[j].step - 1))
  PROVE  IInv'
<1>1. HooksFit'
  BY HooksMove
<1>2. ActivationsFit'
  BY DEF IInv, ActivationsFit
<1>3. JobsFit'
  BY DEF IInv, JobsFit
<1>4. ControlFits'
  BY DEF IInv, ControlFits, JobsKeepTheirStep
<1>5. SentStepsAreComplete' /\ ScheduledAfterCompletion'
  BY CompletionKept
<1> QED BY <1>1, <1>2, <1>3, <1>4, <1>5 DEF IInv

\* The call h becomes r, and nothing else happens.
LEMMA HookOnly ==
  ASSUME IInv, NEW h \in Hooks, NEW CONSTANT r \in HookRecords, Fits(r),
         hook' = [hook EXCEPT ![h] = r],
         UNCHANGED <<campaign, steps, members, jobs, calls, activation, control, canceller>>
  PROVE  IInv'
<1>1. TypeOK'
  BY DEF IInv, TypeOK
<1>2. MembersKeepTheirEnd /\ JobsKeepTheirStep
  BY DEF MembersKeepTheirEnd, JobsKeepTheirStep
<1>3. Fits(r)'
  BY <1>2, FitsStill
<1>4. \A g \in Hooks : hook'[g] = hook[g] \/ Fits(hook[g])'
  <2> SUFFICES ASSUME NEW g \in Hooks, hook'[g] # hook[g] PROVE Fits(hook[g])'
    OBVIOUS
  <2>1. hook'[g] = r
    BY DEF IInv, TypeOK
  <2> QED BY <1>3, <2>1 DEF Fits
<1>5. \A s \in Steps : steps'[s].status = "sent" => steps[s].status = "sent" \/ StepComplete(s)
  OBVIOUS
<1>6. \A j \in Jobs : jobs'[j].step = jobs[j].step
                      \/ (jobs'[j].step > 1 /\ StepComplete(jobs'[j].step - 1))
  OBVIOUS
<1>7. \A j \in Jobs :
        (jobs'[j] = jobs[j] /\ calls'[j] = calls[j] /\ activation'[j] = activation[j])
          \/ (jobs'[j].status # "absent" /\ jobs'[j].step \in Steps)
  OBVIOUS
<1>8. activation' = activation /\ control' = control /\ canceller' = canceller
  OBVIOUS
<1> QED BY <1>1, <1>2, <1>4, <1>5, <1>6, <1>7, <1>8, Preserved

-----------------------------------------------------------------------------
(***************************************************************************)
(* The steps of a webhook call.                                            *)
(***************************************************************************)
\* The steps that read, decide and go on, or return.
LEMMA HookReads ==
  ASSUME IInv, NEW h \in Hooks,
         \/ \E m \in Members, outcome \in {"sent", "failed"} : ReceivePieceEvent(h, m, outcome)
         \/ CountMembers(h) \/ ReadStepStatus(h) \/ FindNextStep(h)
         \/ FindExistingScheduledJob(h) \/ HookDies(h)
  PROVE  IInv'
<1>0. hook[h] \in HookRecords /\ Fits(hook[h])
  BY DEF IInv, TypeOK, HooksFit
<1>1. ASSUME HookReturns(h),
             UNCHANGED <<campaign, steps, members, jobs, calls, activation, control, canceller>>
      PROVE  IInv'
  <2>1. IdleHook \in HookRecords /\ Fits(IdleHook)
    BY DEF IdleHook, Call, HookRecords, Fits
  <2>2. PICK r \in HookRecords : r = IdleHook
    BY <2>1
  <2> QED BY <1>1, <2>1, <2>2, HookOnly DEF HookReturns
<1>2. ASSUME NEW m \in Members, NEW outcome \in {"sent", "failed"}, ReceivePieceEvent(h, m, outcome)
      PROVE  IInv'
  <2>1. m[1] \in Steps
    BY StepSequenceAssumption
  <2>2. PICK r \in HookRecords :
          r = [pc |-> "write", step |-> m[1], member |-> m, verdict |-> outcome, job |-> NoJob]
    BY <2>1 DEF HookRecords
  <2>3. Fits(r)
    BY <2>1, <2>2 DEF Fits
  <2> QED BY <1>2, <2>2, <2>3, HookOnly DEF ReceivePieceEvent
<1>3. CASE CountMembers(h)
  <2>1. CASE StepComplete(hook[h].step)
    <3>1. PICK v \in {"sent", "failed"} : v = TerminalStepStatus(hook[h].step)
      BY DEF TerminalStepStatus
    <3>2. PICK r \in HookRecords :
            r = Call("status", hook[h].step, v, NoJob)
      BY <1>0, <1>3 DEF HookRecords, Call, Fits, CountMembers
    <3>3. Fits(r)
      BY <1>0, <1>3, <2>1, <3>2 DEF Fits, Call, CountMembers
    <3>4. hook' = [hook EXCEPT ![h] = r]
      BY <1>3, <2>1, <3>1, <3>2 DEF CountMembers
    <3> QED BY <1>3, <3>3, <3>4, HookOnly DEF CountMembers
  <2> QED BY <1>1, <1>3, <2>1 DEF CountMembers
<1>4. ASSUME NEW pc \in HookPCs, HookGoes(h, pc),
             UNCHANGED <<campaign, steps, members, jobs, calls, activation, control, canceller>>,
             \/ hook[h].pc = "status" /\ pc = "complete"
             \/ /\ hook[h].pc = "next" /\ pc = "existing"
                /\ hook[h].step < StepCount
             \/ hook[h].pc = "existing" /\ pc = "insert"
      PROVE  IInv'
  <2>1. PICK r \in HookRecords :
          r = [pc |-> pc, step |-> hook[h].step, member |-> hook[h].member,
               verdict |-> hook[h].verdict, job |-> hook[h].job]
    BY <1>0 DEF HookRecords
  <2>2. Fits(r)
    BY <1>0, <1>4, <2>1 DEF Fits
  <2>3. [hook[h] EXCEPT !.pc = pc] = r
    BY <1>0, <2>1 DEF HookRecords
  <2>4. hook' = [hook EXCEPT ![h] = r]
    BY <1>4, <2>3 DEF HookGoes
  <2> QED BY <1>4, <2>2, <2>4, HookOnly
<1>5. CASE ReadStepStatus(h)
  BY <1>1, <1>4, <1>5 DEF ReadStepStatus
<1>6. CASE FindNextStep(h)
  BY <1>1, <1>4, <1>6 DEF FindNextStep
<1>7. CASE FindExistingScheduledJob(h)
  BY <1>1, <1>4, <1>7 DEF FindExistingScheduledJob
<1>8. CASE HookDies(h)
  BY <1>1, <1>8 DEF HookDies
<1> QED BY <1>2, <1>3, <1>5, <1>6, <1>7, <1>8

\* The call h becomes r, and rows are written with it.
LEMMA HookWrites ==
  ASSUME IInv, NEW h \in Hooks, NEW CONSTANT r \in HookRecords, Fits(r)',
         hook' = [hook EXCEPT ![h] = r],
         UNCHANGED <<campaign, activation, control, canceller>>,
         steps' \in [Steps -> StepRows], members' \in [Members -> MemberStatuses],
         jobs' \in [Jobs -> JobRows], calls' \in [Jobs -> {"none", "waiting", "executing", "over"}],
         MembersKeepTheirEnd, JobsKeepTheirStep,
         \A j \in Jobs :
           (jobs'[j] = jobs[j] /\ calls'[j] = calls[j] /\ activation'[j] = activation[j])
             \/ (jobs'[j].status # "absent" /\ jobs'[j].step \in Steps),
         \A s \in Steps : steps'[s].status = "sent" => steps[s].status = "sent" \/ StepComplete(s),
         \A j \in Jobs : jobs'[j].step = jobs[j].step
                         \/ (jobs'[j].step > 1 /\ StepComplete(jobs'[j].step - 1))
  PROVE  IInv'
<1>1. TypeOK'
  BY DEF IInv, TypeOK
<1>2. \A g \in Hooks : hook'[g] = hook[g] \/ Fits(hook[g])'
  <2> SUFFICES ASSUME NEW g \in Hooks, hook'[g] # hook[g] PROVE Fits(hook[g])'
    OBVIOUS
  <2>1. hook'[g] = r
    BY DEF IInv, TypeOK
  <2> QED BY <2>1 DEF Fits
<1>3. activation' = activation /\ control' = control /\ canceller' = canceller
  OBVIOUS
<1> QED BY <1>1, <1>2, <1>3, Preserved

\* WriteMembership: only a verdict is written, and both of them are ends.
LEMMA WriteMembershipKeeps ==
  ASSUME IInv, NEW h \in Hooks, WriteMembership(h)
  PROVE  IInv'
<1>0. hook[h] \in HookRecords /\ Fits(hook[h]) /\ hook[h].pc = "write"
  BY DEF IInv, TypeOK, HooksFit, WriteMembership
<1>1. hook[h].member \in Members /\ hook[h].verdict \in {"sent", "failed"} /\ hook[h].step \in Steps
  BY <1>0 DEF Fits
<1>2. PICK r \in HookRecords : r = Call("count", hook[h].step, "none", NoJob)
  BY <1>1 DEF HookRecords, Call
<1>3. hook' = [hook EXCEPT ![h] = r]
  BY <1>2 DEF WriteMembership
<1>4. Fits(r)'
  BY <1>1, <1>2 DEF Fits, Call
<1>5. members' \in [Members -> MemberStatuses] /\ MembersKeepTheirEnd
  BY <1>1 DEF IInv, TypeOK, WriteMembership, MembersKeepTheirEnd
<1>6. /\ UNCHANGED <<campaign, activation, control, canceller>>
      /\ steps' \in [Steps -> StepRows] /\ jobs' \in [Jobs -> JobRows]
      /\ calls' \in [Jobs -> {"none", "waiting", "executing", "over"}]
      /\ steps' = steps /\ jobs' = jobs /\ calls' = calls
  BY DEF IInv, TypeOK, WriteMembership
<1>7. JobsKeepTheirStep
  BY <1>6 DEF JobsKeepTheirStep
<1> QED BY <1>3, <1>4, <1>5, <1>6, <1>7, HookWrites

\* CompleteStep: a step is written sent only with its members at their end.
LEMMA CompleteStepKeeps ==
  ASSUME IInv, NEW h \in Hooks, CompleteStep(h)
  PROVE  IInv'
<1>0. hook[h] \in HookRecords /\ Fits(hook[h]) /\ hook[h].pc = "complete"
  BY DEF IInv, TypeOK, HooksFit, CompleteStep
<1>1. /\ hook[h].verdict \in {"sent", "failed"} /\ hook[h].step \in Steps
      /\ StepComplete(hook[h].step)
  BY <1>0 DEF Fits
<1>2. MembersKeepTheirEnd /\ JobsKeepTheirStep
  BY DEF CompleteStep, MembersKeepTheirEnd, JobsKeepTheirStep
<1>3. PICK r \in HookRecords : hook' = [hook EXCEPT ![h] = r] /\ Fits(r)
  <2>1. CASE hook[h].verdict = "sent"
    <3>1. [hook[h] EXCEPT !.pc = "next"] \in HookRecords
      BY <1>0 DEF HookRecords
    <3>2. Fits([hook[h] EXCEPT !.pc = "next"])
      BY <1>0, <1>1 DEF Fits, HookRecords
    <3> QED BY <2>1, <3>1, <3>2 DEF CompleteStep, HookGoes
  <2>2. CASE hook[h].verdict # "sent"
    <3>1. IdleHook \in HookRecords /\ Fits(IdleHook)
      BY DEF IdleHook, Call, HookRecords, Fits
    <3> QED BY <2>2, <3>1 DEF CompleteStep, HookReturns
  <2> QED BY <2>1, <2>2
<1>4. Fits(r)'
  BY <1>2, <1>3, FitsStill
<1>5. steps' \in [Steps -> StepRows]
  BY <1>1 DEF IInv, TypeOK, CompleteStep
<1>6. ASSUME NEW s \in Steps, steps'[s].status = "sent"
      PROVE  steps[s].status = "sent" \/ StepComplete(s)
  BY <1>1, <1>6 DEF IInv, TypeOK, CompleteStep
<1>7. /\ UNCHANGED <<campaign, activation, control, canceller>>
      /\ members' \in [Members -> MemberStatuses] /\ jobs' \in [Jobs -> JobRows]
      /\ calls' \in [Jobs -> {"none", "waiting", "executing", "over"}]
      /\ jobs' = jobs /\ calls' = calls
  BY DEF IInv, TypeOK, CompleteStep
<1> QED BY <1>2, <1>3, <1>4, <1>5, <1>6, <1>7, HookWrites

\* InsertScheduledJob: the new job's step follows one whose members the call found at their end.
LEMMA InsertKeeps ==
  ASSUME IInv, NEW h \in Hooks, InsertScheduledJob(h)
  PROVE  IInv'
<1>0. hook[h] \in HookRecords /\ Fits(hook[h]) /\ hook[h].pc = "insert"
  BY DEF IInv, TypeOK, HooksFit, InsertScheduledJob
<1>1. PICK s \in Steps : s = hook[h].step /\ s < StepCount /\ StepComplete(s)
  BY <1>0 DEF Fits
<1>2. s + 1 \in Steps /\ s + 1 > 1 /\ (s + 1) - 1 = s
  BY <1>1, StepSequenceAssumption
<1>3. PICK j \in Jobs :
        /\ jobs[j].status = "absent"
        /\ jobs' = [jobs EXCEPT ![j] = [status |-> "queued", step |-> s + 1, run |-> FALSE]]
        /\ hook' = [hook EXCEPT ![h] = Call("enqueue", s, "none", j)]
  BY <1>1 DEF InsertScheduledJob
<1>4. jobs[j].step = NoStep /\ jobs \in [Jobs -> JobRows]
  BY <1>3 DEF IInv, JobsFit, TypeOK
<1>5. jobs' \in [Jobs -> JobRows] /\ MembersKeepTheirEnd /\ JobsKeepTheirStep
  BY <1>2, <1>3, <1>4 DEF InsertScheduledJob, MembersKeepTheirEnd, JobsKeepTheirStep
<1>6. PICK r \in HookRecords : r = Call("enqueue", s, "none", j)
  BY DEF HookRecords, Call
<1>7. hook' = [hook EXCEPT ![h] = r]
  BY <1>3, <1>6
<1>8. Fits(r)'
  BY <1>2, <1>3, <1>4, <1>6 DEF Fits, Call
<1>9. /\ UNCHANGED <<campaign, activation, control, canceller>>
      /\ members' \in [Members -> MemberStatuses] /\ steps' \in [Steps -> StepRows]
      /\ calls' \in [Jobs -> {"none", "waiting", "executing", "over"}]
      /\ steps' = steps /\ calls' = calls
  BY DEF IInv, TypeOK, InsertScheduledJob
<1>10. ASSUME NEW k \in Jobs, k = j
       PROVE  /\ jobs'[k].status # "absent" /\ jobs'[k].step \in Steps
              /\ jobs'[k].step > 1 /\ StepComplete(jobs'[k].step - 1)
  BY <1>1, <1>2, <1>3, <1>4, <1>10
<1>11. ASSUME NEW k \in Jobs, k # j PROVE jobs'[k] = jobs[k]
  BY <1>3, <1>4, <1>11
<1>12. \A k \in Jobs :
         (jobs'[k] = jobs[k] /\ calls'[k] = calls[k] /\ activation'[k] = activation[k])
           \/ (jobs'[k].status # "absent" /\ jobs'[k].step \in Steps)
  BY <1>9, <1>10, <1>11
<1>13. \A k \in Jobs : jobs'[k].step = jobs[k].step
                       \/ (jobs'[k].step > 1 /\ StepComplete(jobs'[k].step - 1))
  BY <1>10, <1>11
<1>14. \A q \in Steps : steps'[q].status = "sent" => steps[q].status = "sent" \/ StepComplete(q)
  BY <1>9
<1> QED BY <1>5, <1>7, <1>8, <1>9, <1>12, <1>13, <1>14, HookWrites

\* The steps that follow the INSERT: they write the job's status or its run, never its step.
LEMMA HookFinishesJob ==
  ASSUME IInv, NEW h \in Hooks,
         EnqueueScheduledJob(h) \/ PersistScheduledRun(h) \/ MarkScheduleFailed(h)
  PROVE  IInv'
<1>0. /\ hook[h] \in HookRecords /\ Fits(hook[h])
      /\ hook[h].pc \in {"enqueue", "persist", "mark_failed"}
      /\ jobs \in [Jobs -> JobRows] /\ calls \in [Jobs -> {"none", "waiting", "executing", "over"}]
  BY DEF IInv, TypeOK, HooksFit, EnqueueScheduledJob, PersistScheduledRun, MarkScheduleFailed
<1>1. PICK j \in Jobs : j = hook[h].job /\ jobs[j].step \in Steps /\ jobs[j].status # "absent"
  BY <1>0 DEF Fits, IInv, JobsFit
<1>2. /\ UNCHANGED <<campaign, steps, members, activation, control, canceller>>
      /\ members' \in [Members -> MemberStatuses] /\ steps' \in [Steps -> StepRows]
  BY DEF IInv, TypeOK, EnqueueScheduledJob, PersistScheduledRun, MarkScheduleFailed
<1>3. /\ jobs' \in [Jobs -> JobRows] /\ calls' \in [Jobs -> {"none", "waiting", "executing", "over"}]
      /\ \A k \in Jobs : jobs'[k].step = jobs[k].step
      /\ \A k \in Jobs : k # j => jobs'[k] = jobs[k] /\ calls'[k] = calls[k]
      /\ jobs'[j].status # "absent"
  <2>1. CASE EnqueueScheduledJob(h)
    BY <1>0, <1>1, <2>1 DEF EnqueueScheduledJob
  <2>2. CASE PersistScheduledRun(h)
    BY <1>0, <1>1, <2>2 DEF PersistScheduledRun
  <2>3. CASE MarkScheduleFailed(h)
    BY <1>0, <1>1, <2>3 DEF MarkScheduleFailed
  <2> QED BY <2>1, <2>2, <2>3
<1>4. MembersKeepTheirEnd /\ JobsKeepTheirStep
  BY <1>2, <1>3 DEF MembersKeepTheirEnd, JobsKeepTheirStep
<1>5. PICK r \in HookRecords : hook' = [hook EXCEPT ![h] = r] /\ Fits(r)
  <2>1. ASSUME HookReturns(h)
        PROVE  \E r \in HookRecords : hook' = [hook EXCEPT ![h] = r] /\ Fits(r)
    <3>1. IdleHook \in HookRecords /\ Fits(IdleHook)
      BY DEF IdleHook, Call, HookRecords, Fits
    <3> QED BY <2>1, <3>1 DEF HookReturns
  <2>2. ASSUME NEW pc \in {"persist", "mark_failed"}, HookGoes(h, pc)
        PROVE  \E r \in HookRecords : hook' = [hook EXCEPT ![h] = r] /\ Fits(r)
    <3>1. [hook[h] EXCEPT !.pc = pc] \in HookRecords /\ Fits([hook[h] EXCEPT !.pc = pc])
      BY <1>0, <1>1 DEF HookRecords, Fits
    <3> QED BY <2>2, <3>1 DEF HookGoes
  <2> QED BY <2>1, <2>2 DEF EnqueueScheduledJob, PersistScheduledRun, MarkScheduleFailed
<1>6. Fits(r)'
  BY <1>4, <1>5, FitsStill
<1>7. \A k \in Jobs :
        (jobs'[k] = jobs[k] /\ calls'[k] = calls[k] /\ activation'[k] = activation[k])
          \/ (jobs'[k].status # "absent" /\ jobs'[k].step \in Steps)
  BY <1>1, <1>2, <1>3
<1>8. \A k \in Jobs : jobs'[k].step = jobs[k].step
                      \/ (jobs'[k].step > 1 /\ StepComplete(jobs'[k].step - 1))
  BY <1>3
<1>9. \A q \in Steps : steps'[q].status = "sent" => steps[q].status = "sent" \/ StepComplete(q)
  BY <1>2
<1>10. UNCHANGED <<campaign, activation, control, canceller>>
  BY <1>2
<1> QED BY <1>2, <1>3, <1>4, <1>5, <1>6, <1>7, <1>8, <1>9, <1>10, HookWrites

\* A campaign-level event of Lob writes failed or cancelled, never sent.
LEMMA ProjectKeeps ==
  ASSUME IInv, NEW s \in Steps, NEW status \in CampaignEvents, ProjectStepEvent(s, status)
  PROVE  IInv'
<1>1. status \in StepStatuses /\ status # "sent"
  BY StepSequenceAssumption
<1>2. TypeOK'
  BY <1>1 DEF IInv, TypeOK, ProjectStepEvent
<1>3. /\ hook' = hook /\ activation' = activation /\ control' = control /\ canceller' = canceller
      /\ members' = members /\ jobs' = jobs /\ calls' = calls
  BY DEF ProjectStepEvent
<1>4. MembersKeepTheirEnd /\ JobsKeepTheirStep
  BY <1>3 DEF MembersKeepTheirEnd, JobsKeepTheirStep
<1>5. \A q \in Steps : steps'[q].status = "sent" => steps[q].status = "sent" \/ StepComplete(q)
  BY <1>1 DEF IInv, TypeOK, ProjectStepEvent
<1>6. \A k \in Jobs : jobs'[k].step = jobs[k].step
                      \/ (jobs'[k].step > 1 /\ StepComplete(jobs'[k].step - 1))
  BY <1>3
<1>7. \A k \in Jobs :
        (jobs'[k] = jobs[k] /\ calls'[k] = calls[k] /\ activation'[k] = activation[k])
          \/ (jobs'[k].status # "absent" /\ jobs'[k].step \in Steps)
  BY <1>3
<1>8. \A g \in Hooks : hook'[g] = hook[g] \/ Fits(hook[g])'
  BY <1>3
<1> QED BY <1>2, <1>3, <1>4, <1>5, <1>6, <1>7, <1>8, Preserved

-----------------------------------------------------------------------------
(***************************************************************************)
(* The steps of an activation.                                             *)
(***************************************************************************)
ActivationFits(r) ==
  /\ r.pc # "idle" => r.step \in Steps
  /\ r.pc \in {"flip", "finish"} => r.result # "none"

\* The activation a becomes r; of the jobs only a's own may change, and not its step.
LEMMA ActivationMoves ==
  ASSUME IInv, NEW a \in Activators, NEW CONSTANT r \in ActivationRecords, ActivationFits(r),
         activation' = [activation EXCEPT ![a] = r],
         UNCHANGED <<campaign, hook, control, canceller>>,
         steps' \in [Steps -> StepRows], members' \in [Members -> MemberStatuses],
         jobs' \in [Jobs -> JobRows], calls' \in [Jobs -> {"none", "waiting", "executing", "over"}],
         MembersKeepTheirEnd,
         \A j \in Jobs : jobs'[j].step = jobs[j].step,
         \A j \in Jobs : j # a => jobs'[j] = jobs[j] /\ calls'[j] = calls[j],
         a \in Jobs => jobs[a].step \in Steps /\ jobs'[a].status # "absent",
         \A s \in Steps : steps'[s].status = "sent" => steps[s].status = "sent"
  PROVE  IInv'
<1>1. TypeOK'
  BY DEF IInv, TypeOK
<1>2. ActivationsFit'
  BY DEF IInv, TypeOK, ActivationsFit, ActivationFits
<1>3. JobsKeepTheirStep
  BY DEF JobsKeepTheirStep
<1>4. \A j \in Jobs :
        (jobs'[j] = jobs[j] /\ calls'[j] = calls[j] /\ activation'[j] = activation[j])
          \/ (jobs'[j].status # "absent" /\ jobs'[j].step \in Steps)
  <2> SUFFICES ASSUME NEW j \in Jobs, j # a PROVE activation'[j] = activation[j]
    OBVIOUS
  <2> QED BY DEF IInv, TypeOK
<1>5. \A s \in Steps : steps'[s].status = "sent" => steps[s].status = "sent" \/ StepComplete(s)
  OBVIOUS
<1>6. \A j \in Jobs : jobs'[j].step = jobs[j].step
                      \/ (jobs'[j].step > 1 /\ StepComplete(jobs'[j].step - 1))
  OBVIOUS
<1>7. \A g \in Hooks : hook'[g] = hook[g] \/ Fits(hook[g])'
  OBVIOUS
<1>8. control' = control /\ canceller' = canceller
  OBVIOUS
<1> QED BY <1>1, <1>2, <1>3, <1>4, <1>5, <1>6, <1>7, <1>8, Preserved

\* ReceiveScheduledJob, MarkJobRunning, ReadStep, ReportOutcome
LEMMA JobStepKeeps ==
  ASSUME IInv, NEW j \in Jobs, JobStep(j)
  PROVE  IInv'
<1> USE DEF ActivationGoes, ActivationEnds
<1>0. /\ j \in Activators /\ activation[j] \in ActivationRecords
      /\ jobs \in [Jobs -> JobRows] /\ calls \in [Jobs -> {"none", "waiting", "executing", "over"}]
      /\ steps \in [Steps -> StepRows] /\ members \in [Members -> MemberStatuses]
  BY DEF IInv, TypeOK
<1>1. /\ UNCHANGED <<campaign, hook, control, canceller>>
      /\ steps' = steps /\ members' = members /\ MembersKeepTheirEnd
  BY DEF JobStep, ReceiveScheduledJob, MarkJobRunning, ReadStep, ReportOutcome, MembersKeepTheirEnd
<1>2. jobs[j].step \in Steps /\ jobs[j].status # "absent"
  <2>1. calls[j] # "none" \/ activation[j].pc # "idle"
    BY DEF JobStep, ReceiveScheduledJob, MarkJobRunning, ReadStep, ReportOutcome
  <2> QED BY <2>1 DEF IInv, JobsFit
<1>3. activation[j].pc # "idle" => activation[j].step \in Steps
  BY <1>0 DEF IInv, ActivationsFit
<1>4. /\ jobs' \in [Jobs -> JobRows] /\ calls' \in [Jobs -> {"none", "waiting", "executing", "over"}]
      /\ \A k \in Jobs : jobs'[k].step = jobs[k].step
      /\ \A k \in Jobs : k # j => jobs'[k] = jobs[k] /\ calls'[k] = calls[k]
      /\ jobs'[j].status # "absent"
  <2>1. CASE ReceiveScheduledJob(j)
    BY <1>0, <1>2, <2>1 DEF ReceiveScheduledJob
  <2>2. CASE MarkJobRunning(j)
    BY <1>0, <1>2, <2>2 DEF MarkJobRunning
  <2>3. CASE ReadStep(j)
    BY <1>0, <1>2, <2>3 DEF ReadStep
  <2>4. CASE ReportOutcome(j)
    BY <1>0, <1>2, <2>4 DEF ReportOutcome
  <2> QED BY <2>1, <2>2, <2>3, <2>4 DEF JobStep
<1>5. PICK r \in ActivationRecords :
        ActivationFits(r) /\ activation' = [activation EXCEPT ![j] = r]
  <2>1. ASSUME NEW pc \in {"read", "adapter", "refused"}, activation[j].pc # "idle", ActivationGoes(j, pc)
        PROVE  \E r \in ActivationRecords :
                 ActivationFits(r) /\ activation' = [activation EXCEPT ![j] = r]
    <3>1. [activation[j] EXCEPT !.pc = pc] \in ActivationRecords
      BY <1>0 DEF ActivationRecords
    <3>2. ActivationFits([activation[j] EXCEPT !.pc = pc])
      BY <1>0, <1>3, <2>1 DEF ActivationRecords, ActivationFits
    <3> QED BY <2>1, <3>1, <3>2
  <2>2. CASE ReceiveScheduledJob(j)
    <3>1. CASE activation' = activation
      <4>1. ActivationFits(activation[j]) /\ activation' = [activation EXCEPT ![j] = activation[j]]
        BY <1>0, <3>1 DEF IInv, TypeOK, ActivationsFit, ActivationFits
      <4> QED BY <1>0, <4>1
    <3>2. CASE activation' = [activation EXCEPT ![j] =
                                [pc |-> "running", step |-> jobs[j].step, result |-> "none"]]
      BY <1>2, <3>2 DEF ActivationRecords, ActivationFits
    <3> QED BY <2>2, <3>1, <3>2 DEF ReceiveScheduledJob
  <2>3. CASE MarkJobRunning(j)
    BY <2>1, <2>3 DEF MarkJobRunning
  <2>4. CASE ReadStep(j)
    BY <2>1, <2>4 DEF ReadStep
  <2>5. CASE ReportOutcome(j)
    <3>1. IdleActivation \in ActivationRecords /\ ActivationFits(IdleActivation)
      BY DEF IdleActivation, ActivationRecords, ActivationFits
    <3> QED BY <2>5, <3>1 DEF ReportOutcome
  <2> QED BY <2>2, <2>3, <2>4, <2>5 DEF JobStep
<1> QED BY <1>0, <1>1, <1>2, <1>4, <1>5, ActivationMoves

\* CollectAudience, SubmitAudience, FlipMembers, FinishActivation, ActivationDies
LEMMA ActivationStepKeeps ==
  ASSUME IInv, NEW a \in Activators, ActivationStep(a)
  PROVE  IInv'
<1> USE DEF ActivationGoes, ActivationEnds
<1>0. /\ activation[a] \in ActivationRecords /\ ActivationFits(activation[a])
      /\ activation[a].pc # "idle" /\ activation[a].step \in Steps
      /\ jobs \in [Jobs -> JobRows] /\ calls \in [Jobs -> {"none", "waiting", "executing", "over"}]
      /\ steps \in [Steps -> StepRows] /\ members \in [Members -> MemberStatuses]
  BY DEF IInv, TypeOK, ActivationsFit, ActivationFits, ActivationStep, CollectAudience,
         SubmitAudience, FlipMembers, FinishActivation, ActivationDies
<1>1. PICK s \in Steps : s = activation[a].step
  BY <1>0
<1>2. a \in Jobs => jobs[a].step \in Steps /\ jobs[a].status # "absent"
  BY <1>0 DEF IInv, JobsFit
<1>3. UNCHANGED <<campaign, jobs, hook, control, canceller>>
  BY DEF ActivationStep, CollectAudience, SubmitAudience, FlipMembers, FinishActivation,
         ActivationDies
<1>4. members' \in [Members -> MemberStatuses] /\ MembersKeepTheirEnd
  <2>1. CASE FlipMembers(a)
    BY <1>0, <2>1 DEF FlipMembers, MembersKeepTheirEnd
  <2>2. CASE members' = members
    BY <1>0, <2>2 DEF MembersKeepTheirEnd
  <2> QED BY <2>1, <2>2 DEF ActivationStep, CollectAudience, SubmitAudience, FinishActivation,
         ActivationDies
<1>5. /\ steps' \in [Steps -> StepRows]
      /\ \A q \in Steps : steps'[q].status = "sent" => steps[q].status = "sent"
  <2>1. CASE SubmitAudience(a)
    <3>1. PICK received \in BOOLEAN : steps' = [steps EXCEPT ![s].mailed = @ \/ received]
      BY <1>1, <2>1 DEF SubmitAudience
    <3>2. PICK b \in BOOLEAN : b = (steps[s].mailed \/ received)
      BY ZenonT(30)
    <3>3. steps' = [steps EXCEPT ![s].mailed = b]
      BY <3>1, <3>2
    <3> QED BY <1>0, <3>3
  <2>2. CASE FinishActivation(a)
    <3>1. activation[a].result \in {"failed", "activating", "scheduled"}
      BY <1>0, <2>2 DEF FinishActivation, ActivationFits, ActivationRecords
    <3> QED BY <1>0, <1>1, <2>2, <3>1 DEF FinishActivation
  <2>3. CASE steps' = steps
    BY <1>0, <2>3
  <2> QED BY <2>1, <2>2, <2>3 DEF ActivationStep, CollectAudience, FlipMembers, ActivationDies
<1>6. /\ calls' \in [Jobs -> {"none", "waiting", "executing", "over"}]
      /\ \A j \in Jobs : j # a => calls'[j] = calls[j]
  <2>1. CASE calls' = calls
    BY <1>0, <2>1
  <2>2. ASSUME NEW next \in {"waiting", "over"}, calls' = [calls EXCEPT ![a] = next]
        PROVE  <1>6!1 /\ <1>6!2
    BY <1>0, <2>2
  <2> QED BY <2>1, <2>2 DEF ActivationStep, CollectAudience, SubmitAudience, FlipMembers,
         FinishActivation, ActivationDies
<1>7. PICK r \in ActivationRecords :
        ActivationFits(r) /\ activation' = [activation EXCEPT ![a] = r]
  <2>1. ASSUME NEW pc \in {"finish", "succeed"}, activation[a].result # "none", ActivationGoes(a, pc)
        PROVE  \E r \in ActivationRecords :
                 ActivationFits(r) /\ activation' = [activation EXCEPT ![a] = r]
    <3>1. [activation[a] EXCEPT !.pc = pc] \in ActivationRecords
      BY <1>0 DEF ActivationRecords
    <3>2. ActivationFits([activation[a] EXCEPT !.pc = pc])
      BY <1>0, <2>1 DEF ActivationRecords, ActivationFits
    <3> QED BY <2>1, <3>1, <3>2
  <2>2. ASSUME ActivationEnds(a)
        PROVE  \E r \in ActivationRecords :
                 ActivationFits(r) /\ activation' = [activation EXCEPT ![a] = r]
    <3>1. IdleActivation \in ActivationRecords /\ ActivationFits(IdleActivation)
      BY DEF IdleActivation, ActivationRecords, ActivationFits
    <3> QED BY <2>2, <3>1
  <2>3. ASSUME NEW result \in Results \ {"none"}, AdapterReturns(a, result)
        PROVE  \E r \in ActivationRecords :
                 ActivationFits(r) /\ activation' = [activation EXCEPT ![a] = r]
    <3>1. PICK pc \in {"finish", "flip"} : pc = IF result = "failed" THEN "finish" ELSE "flip"
      OBVIOUS
    <3>2. /\ [pc |-> pc, step |-> s, result |-> result] \in ActivationRecords
          /\ ActivationFits([pc |-> pc, step |-> s, result |-> result])
      BY DEF ActivationRecords, ActivationFits
    <3> QED BY <1>1, <2>3, <3>1, <3>2 DEF AdapterReturns
  <2>4. ASSUME CollectAudience(a), ActivationGoes(a, "submit")
         PROVE  \E r \in ActivationRecords :
                  ActivationFits(r) /\ activation' = [activation EXCEPT ![a] = r]
    <3>1. [activation[a] EXCEPT !.pc = "submit"] \in ActivationRecords
      BY <1>0 DEF ActivationRecords
    <3>2. ActivationFits([activation[a] EXCEPT !.pc = "submit"])
      BY <1>0 DEF ActivationRecords, ActivationFits
    <3> QED BY <2>4, <3>1, <3>2
  <2>5. CASE CollectAudience(a)
    BY <2>3, <2>4, <2>5 DEF CollectAudience
  <2>6. CASE SubmitAudience(a)
    BY <2>3, <2>6 DEF SubmitAudience
  <2>7. CASE FlipMembers(a)
    <3>1. activation[a].result # "none"
      BY <1>0, <2>7 DEF FlipMembers, ActivationFits
    <3> QED BY <2>1, <2>7, <3>1 DEF FlipMembers
  <2>8. CASE FinishActivation(a)
    <3>1. activation[a].result # "none"
      BY <1>0, <2>8 DEF FinishActivation, ActivationFits
    <3> QED BY <2>1, <2>2, <2>8, <3>1 DEF FinishActivation
  <2>9. CASE ActivationDies(a)
    BY <2>2, <2>9 DEF ActivationDies
  <2> QED BY <2>5, <2>6, <2>7, <2>8, <2>9 DEF ActivationStep
<1>8. jobs' \in [Jobs -> JobRows] /\ \A j \in Jobs : jobs'[j] = jobs[j]
  BY <1>0, <1>3
<1>9. /\ UNCHANGED <<campaign, hook, control, canceller>>
      /\ \A j \in Jobs : jobs'[j].step = jobs[j].step
      /\ \A j \in Jobs : j # a => jobs'[j] = jobs[j] /\ calls'[j] = calls[j]
      /\ a \in Jobs => jobs[a].step \in Steps /\ jobs'[a].status # "absent"
  BY <1>2, <1>3, <1>6, <1>8
<1> QED BY <1>4, <1>5, <1>6, <1>7, <1>8, <1>9, ActivationMoves

\* An operator lets an activation in.
LEMMA OperatorKeeps ==
  ASSUME IInv, NEW o \in Operators, NEW s \in ByHand, OperatorActivates(o, s)
  PROVE  IInv'
<1>1. s \in Steps /\ o \in Activators /\ o \notin Jobs
  BY StepSequenceAssumption
<1>2. PICK r \in ActivationRecords : r = [pc |-> "adapter", step |-> s, result |-> "none"]
  BY <1>1 DEF ActivationRecords
<1>3. ActivationFits(r)
  BY <1>1, <1>2 DEF ActivationFits
<1>4. /\ activation' = [activation EXCEPT ![o] = r]
      /\ UNCHANGED <<campaign, hook, control, canceller>>
      /\ steps' = steps /\ members' = members /\ jobs' = jobs /\ calls' = calls
  BY <1>2 DEF OperatorActivates
<1>5. /\ steps' \in [Steps -> StepRows] /\ members' \in [Members -> MemberStatuses]
      /\ jobs' \in [Jobs -> JobRows] /\ calls' \in [Jobs -> {"none", "waiting", "executing", "over"}]
      /\ MembersKeepTheirEnd
  BY <1>4 DEF IInv, TypeOK, MembersKeepTheirEnd
<1>6. /\ \A j \in Jobs : jobs'[j].step = jobs[j].step
      /\ \A j \in Jobs : j # o => jobs'[j] = jobs[j] /\ calls'[j] = calls[j]
      /\ o \in Jobs => jobs[o].step \in Steps /\ jobs'[o].status # "absent"
      /\ \A q \in Steps : steps'[q].status = "sent" => steps[q].status = "sent"
  BY <1>1, <1>4
<1> QED BY <1>1, <1>3, <1>4, <1>5, <1>6, ActivationMoves

-----------------------------------------------------------------------------
(***************************************************************************)
(* The operator's calls on the channel campaign, and cancel_step.          *)
(***************************************************************************)
\* No webhook call and no activation moves; no job gets or loses its step.
LEMMA OperatorMoves ==
  ASSUME IInv, TypeOK', ControlFits', MembersKeepTheirEnd,
         hook' = hook, activation' = activation,
         \A j \in Jobs : jobs'[j].step = jobs[j].step,
         \A j \in Jobs : (jobs'[j] = jobs[j] /\ calls'[j] = calls[j])
                         \/ (jobs[j].step \in Steps /\ jobs'[j].status # "absent"),
         \A s \in Steps : steps'[s].status = "sent" => steps[s].status = "sent"
  PROVE  IInv'
<1>1. JobsKeepTheirStep
  BY DEF JobsKeepTheirStep
<1>2. \A j \in Jobs :
        (jobs'[j] = jobs[j] /\ calls'[j] = calls[j] /\ activation'[j] = activation[j])
          \/ (jobs'[j].status # "absent" /\ jobs'[j].step \in Steps)
  OBVIOUS
<1>3. \A s \in Steps : steps'[s].status = "sent" => steps[s].status = "sent" \/ StepComplete(s)
  OBVIOUS
<1>4. \A j \in Jobs : jobs'[j].step = jobs[j].step
                      \/ (jobs'[j].step > 1 /\ StepComplete(jobs'[j].step - 1))
  OBVIOUS
<1>5. \A g \in Hooks : hook'[g] = hook[g] \/ Fits(hook[g])'
  OBVIOUS
<1> QED BY <1>1, <1>2, <1>3, <1>4, <1>5, Preserved

LEMMA ControlKeeps ==
  ASSUME IInv, ControlStep
  PROVE  IInv'
<1> USE DEF NextOfWalk, IdleControl, Walk
<1>0. TypeOK /\ ControlFits /\ control \in ControlRecords
      /\ jobs \in [Jobs -> JobRows] /\ calls \in [Jobs -> {"none", "waiting", "executing", "over"}]
      /\ steps \in [Steps -> StepRows]
  BY DEF IInv, TypeOK
<1>1. /\ hook' = hook /\ activation' = activation /\ canceller' = canceller /\ members' = members
  BY DEF ControlStep, ReadCampaign, WriteCampaign, CancelRun, WriteJobCancelled, ControlDies,
         ArchiveParentCampaign, WalkStep
<1>2. MembersKeepTheirEnd
  BY <1>1 DEF MembersKeepTheirEnd
<1>3. CASE WriteCampaign
  <2>1. campaign' \in CampaignStatuses /\ jobs' = jobs /\ calls' = calls
    BY <1>0, <1>3 DEF WriteCampaign, ControlRecords
  <2>2. /\ steps' \in [Steps -> StepRows]
        /\ \A s \in Steps : steps'[s].status = "sent" => steps[s].status = "sent"
    <3>1. ASSUME NEW s \in Steps
          PROVE  /\ [steps[s] EXCEPT !.status = "archived"] \in StepRows
                 /\ [steps[s] EXCEPT !.status = "archived"].status = "archived"
      BY <1>0
    <3>2. \A s \in Steps : steps'[s] \in {steps[s], [steps[s] EXCEPT !.status = "archived"]}
      BY <1>3 DEF WriteCampaign
    <3>3. steps' \in [Steps -> StepRows]
      BY <1>0, <1>3, <3>1 DEF WriteCampaign
    <3> QED BY <3>1, <3>2, <3>3
  <2>3. PICK affected \in SUBSET Steps :
          control' = IF affected = {} THEN IdleControl ELSE Walk("walk", affected, NoJob)
    BY <1>3 DEF WriteCampaign
  <2>4. control' \in ControlRecords /\ control'.pc \in {"idle", "walk"}
    BY <2>3 DEF ControlRecords
  <2>5. ControlFits'
    BY <1>0, <1>1, <2>4 DEF ControlFits
  <2>6. TypeOK'
    BY <1>0, <1>1, <2>1, <2>2, <2>4 DEF TypeOK
  <2> QED BY <1>1, <1>2, <2>1, <2>2, <2>5, <2>6, OperatorMoves
<1>4. CASE WriteJobCancelled
  <2>1. PICK j \in Jobs : j = control.job /\ jobs[j].step \in Steps
    BY <1>0, <1>4 DEF WriteJobCancelled, ControlFits
  <2>2. /\ jobs' \in [Jobs -> JobRows] /\ jobs'[j].status = "cancelled"
        /\ \A k \in Jobs : jobs'[k].step = jobs[k].step
        /\ \A k \in Jobs : k # j => jobs'[k] = jobs[k]
    BY <1>0, <1>4, <2>1 DEF WriteJobCancelled
  <2>3. control' \in ControlRecords /\ control'.pc \in {"idle", "walk"}
    BY <1>0, <1>4 DEF WriteJobCancelled, ControlRecords
  <2>4. campaign' = campaign /\ steps' = steps /\ calls' = calls
    BY <1>4 DEF WriteJobCancelled
  <2>5. ControlFits' /\ TypeOK'
    BY <1>0, <1>1, <2>2, <2>3, <2>4 DEF ControlFits, TypeOK
  <2> QED BY <1>1, <1>2, <2>1, <2>2, <2>4, <2>5, OperatorMoves
<1>5. CASE CancelRun
  <2>1. PICK j \in Jobs : j = control.job /\ jobs[j].step \in Steps /\ jobs[j].status # "absent"
    BY <1>0, <1>5 DEF CancelRun, ControlFits, IInv, JobsFit
  <2>2. /\ calls' \in [Jobs -> {"none", "waiting", "executing", "over"}]
        /\ \A k \in Jobs : k # j => calls'[k] = calls[k]
    BY <1>0, <1>5, <2>1 DEF CancelRun
  <2>3. campaign' = campaign /\ steps' = steps /\ jobs' = jobs
    BY <1>5 DEF CancelRun
  <2>4. control' \in ControlRecords
        /\ (control'.pc \in {"cancel", "cancelled"} => control'.job = control.job)
    BY <1>0, <1>5 DEF CancelRun, ControlRecords
  <2>5. ControlFits' /\ TypeOK'
    BY <1>0, <1>1, <2>1, <2>2, <2>3, <2>4 DEF ControlFits, TypeOK
  <2> QED BY <1>1, <1>2, <2>1, <2>2, <2>3, <2>5, OperatorMoves
<1>6. ASSUME \/ \E to \in Commands : ReadCampaign(to)
             \/ ControlDies \/ ArchiveParentCampaign
             \/ \E s \in Steps : WalkStep(s)
      PROVE  IInv'
  <2>1. campaign' \in CampaignStatuses /\ steps' = steps /\ jobs' = jobs /\ calls' = calls
    BY <1>0, <1>6 DEF TypeOK, ReadCampaign, ControlDies, ArchiveParentCampaign, WalkStep
  <2>2. /\ control' \in ControlRecords
        /\ control'.pc \in {"cancel", "cancelled"} =>
             control'.job \in Jobs /\ jobs[control'.job].step \in Steps
    <3>1. ASSUME NEW to \in Commands, ReadCampaign(to) PROVE <2>2
      <4>1. to \in CampaignStatuses
        BY <3>1, StepSequenceAssumption DEF ReadCampaign, AllowedFrom
      <4> QED BY <3>1, <4>1 DEF ReadCampaign, ControlRecords
    <3>2. CASE ControlDies
      BY <3>2 DEF ControlDies, ControlRecords
    <3>3. CASE ArchiveParentCampaign
      BY <1>0, <3>3 DEF ArchiveParentCampaign, ControlFits
    <3>4. ASSUME NEW s \in Steps, WalkStep(s) PROVE <2>2
      <4>1. control.todo \ {s} \in SUBSET Steps
        BY <1>0 DEF ControlRecords
      <4>2. CASE control' = NextOfWalk(control.todo \ {s})
        BY <4>1, <4>2 DEF ControlRecords
      <4>3. ASSUME NEW j \in OpenJobsFor(s), control' = Walk("cancel", control.todo \ {s}, j)
            PROVE  <2>2
        BY <4>1, <4>3 DEF OpenJobsFor, ControlRecords
      <4> QED BY <3>4, <4>2, <4>3 DEF WalkStep
    <3> QED BY <1>6, <3>1, <3>2, <3>3, <3>4
  <2>3. ControlFits' /\ TypeOK'
    BY <1>0, <1>1, <2>1, <2>2 DEF ControlFits, TypeOK
  <2> QED BY <1>1, <1>2, <2>1, <2>3, OperatorMoves
<1> QED BY <1>3, <1>4, <1>5, <1>6 DEF ControlStep

LEMMA CancellerKeeps ==
  ASSUME IInv, CancellerStep
  PROVE  IInv'
<1>0. /\ TypeOK /\ ControlFits /\ canceller \in CancellerRecords
      /\ steps \in [Steps -> StepRows] /\ members \in [Members -> MemberStatuses]
  BY DEF IInv, TypeOK
<1>1. /\ hook' = hook /\ activation' = activation /\ control' = control /\ campaign' = campaign
      /\ jobs' = jobs /\ calls' = calls
  BY DEF CancellerStep, ReadStepForCancel, WriteStepCancelled, CancelMembers, CancelStepDies
<1>2. members' \in [Members -> MemberStatuses] /\ MembersKeepTheirEnd
  <2>1. CASE CancelMembers
    BY <1>0, <2>1 DEF CancelMembers, MembersKeepTheirEnd
  <2>2. CASE members' = members
    BY <1>0, <2>2 DEF MembersKeepTheirEnd
  <2> QED BY <2>1, <2>2 DEF CancellerStep, ReadStepForCancel, WriteStepCancelled, CancelStepDies
<1>3. /\ canceller' \in CancellerRecords
      /\ canceller'.pc # "idle" => canceller'.step \in Steps
  <2>1. ASSUME NEW s \in Cancels, ReadStepForCancel(s) PROVE <1>3
    BY <2>1, StepSequenceAssumption DEF ReadStepForCancel, CancellerRecords
  <2>2. CASE WriteStepCancelled
    BY <1>0, <2>2 DEF WriteStepCancelled, CancellerRecords, ControlFits
  <2>3. CASE CancelMembers \/ CancelStepDies
    BY <2>3 DEF CancelMembers, CancelStepDies, IdleCanceller, CancellerRecords
  <2> QED BY <2>1, <2>2, <2>3 DEF CancellerStep
<1>4. /\ steps' \in [Steps -> StepRows]
      /\ \A s \in Steps : steps'[s].status = "sent" => steps[s].status = "sent"
  <2>1. CASE WriteStepCancelled
    BY <1>0, <2>1 DEF WriteStepCancelled, ControlFits
  <2>2. CASE steps' = steps
    BY <1>0, <2>2
  <2> QED BY <2>1, <2>2 DEF CancellerStep, ReadStepForCancel, CancelMembers, CancelStepDies
<1>5. ControlFits' /\ TypeOK'
  BY <1>0, <1>1, <1>2, <1>3, <1>4 DEF ControlFits, TypeOK
<1> QED BY <1>1, <1>2, <1>4, <1>5, OperatorMoves

-----------------------------------------------------------------------------
LEMMA NextKeeps ==
  ASSUME IInv, [Next]_vars
  PROVE  IInv'
<1>1. ASSUME NEW h \in Hooks, HookStep(h) PROVE IInv'
  BY <1>1, HookReads, WriteMembershipKeeps, CompleteStepKeeps, InsertKeeps, HookFinishesJob
     DEF HookStep
<1>2. ASSUME NEW s \in Steps, NEW status \in CampaignEvents, ProjectStepEvent(s, status)
      PROVE  IInv'
  BY <1>2, ProjectKeeps
<1>3. ASSUME NEW j \in Jobs, JobStep(j) PROVE IInv'
  BY <1>3, JobStepKeeps
<1>4. ASSUME NEW a \in Activators, ActivationStep(a) PROVE IInv'
  BY <1>4, ActivationStepKeeps
<1>5. ASSUME NEW o \in Operators, NEW s \in ByHand, OperatorActivates(o, s) PROVE IInv'
  BY <1>5, OperatorKeeps
<1>6. CASE UNCHANGED vars
  BY <1>6 DEF vars, IInv, TypeOK, HooksFit, Fits, ActivationsFit, JobsFit, ControlFits,
     SentStepsAreComplete, ScheduledAfterCompletion, StepComplete
<1> QED BY <1>1, <1>2, <1>3, <1>4, <1>5, <1>6, ControlKeeps, CancellerKeeps DEF Next

\* The invariant is inductive: whatever webhook calls, jobs, operators and losses do next,
\* what each call carries still fits the rows it will write.
THEOREM Inductive == Spec => []IInv
<1> QED BY InitEstablishes, NextKeeps, PTL DEF Spec

\* Every row and every call's local state keeps its type, for any number of steps,
\* recipients, jobs and concurrent calls (channel_campaign_steps.py, step_scheduler.py).
THEOREM TypeCorrect == Spec => []TypeOK
<1>1. IInv => TypeOK
  BY DEF IInv
<1> QED BY <1>1, Inductive, PTL

\* A step reads sent only while all its memberships are at their end
\* (maybe_complete_step_and_schedule_next against activate_step's flip and cancel_step).
THEOREM SentMeansComplete == Spec => []SentStepsAreComplete
<1>1. IInv => SentStepsAreComplete
  BY DEF IInv
<1> QED BY <1>1, Inductive, PTL

\* However many hooks race on the last members, a job is scheduled only for the step
\* after one that is complete (schedule_next_step).
THEOREM NotScheduledEarly == Spec => []ScheduledAfterCompletion
<1>1. IInv => ScheduledAfterCompletion
  BY DEF IInv
<1> QED BY <1>1, Inductive, PTL

-----------------------------------------------------------------------------
(***************************************************************************)
(* What a step of the system may do to the row of an ended step, to an     *)
(* activation's place and to the row of a cancelled job.                   *)
(***************************************************************************)
\* The places of an activation from which it writes neither its step nor members.
Harmless == {"running", "read", "succeed", "refused"}

\* An ended step is written only by an activation at work on it, and otherwise
\* with another of the statuses that end a step.
RowKept(s) ==
  (/\ steps[s].status \in Done
   /\ \A a \in Activators : activation[a].step = s => activation[a].pc \in Harmless)
  => steps'[s].status \in Done /\ steps'[s].mailed = steps[s].mailed

\* No activation gets to work on a step that has ended.
PlaceKept(a) ==
  \A s \in Steps :
    activation'[a].step = s /\ activation'[a].pc \notin Harmless =>
      \/ activation[a].step = s /\ activation[a].pc \notin Harmless
      \/ steps[s].status \notin Done

LEMMA HookKeepsEnded ==
  ASSUME IInv, NEW h \in Hooks, HookStep(h)
  PROVE  /\ \A s \in Steps : RowKept(s)
         /\ \A a \in Activators : PlaceKept(a)
<1>1. steps \in [Steps -> StepRows] /\ Fits(hook[h])
  BY DEF IInv, TypeOK, HooksFit
<1>2. ASSUME CompleteStep(h) PROVE \A s \in Steps : RowKept(s)
  <2>1. hook[h].verdict \in {"sent", "failed"}
    BY <1>1, <1>2 DEF Fits, CompleteStep
  <2> QED BY <1>1, <1>2, <2>1 DEF CompleteStep, RowKept
<1>3. ASSUME UNCHANGED steps PROVE \A s \in Steps : RowKept(s)
  BY <1>3 DEF RowKept
<1>4. ASSUME NEW m, NEW outcome, ReceivePieceEvent(h, m, outcome)
      PROVE  UNCHANGED steps /\ UNCHANGED activation
  BY <1>4 DEF ReceivePieceEvent
<1>5. \/ WriteMembership(h) \/ CountMembers(h) \/ ReadStepStatus(h)
      \/ FindNextStep(h) \/ FindExistingScheduledJob(h) \/ InsertScheduledJob(h)
      => UNCHANGED steps /\ UNCHANGED activation
  BY DEF WriteMembership, CountMembers, ReadStepStatus, FindNextStep, FindExistingScheduledJob,
         InsertScheduledJob
<1>6. \/ EnqueueScheduledJob(h) \/ PersistScheduledRun(h) \/ MarkScheduleFailed(h) \/ HookDies(h)
      => UNCHANGED steps /\ UNCHANGED activation
  BY DEF EnqueueScheduledJob, PersistScheduledRun, MarkScheduleFailed, HookDies
<1>7. CompleteStep(h) => UNCHANGED activation
  BY DEF CompleteStep
<1>8. ASSUME UNCHANGED activation PROVE \A a \in Activators : PlaceKept(a)
  BY <1>8 DEF PlaceKept
<1> QED BY <1>2, <1>3, <1>4, <1>5, <1>6, <1>7, <1>8 DEF HookStep

\* One activation is given another record: it ends, stays on its step, or was let in.
LEMMA PlaceWritten ==
  ASSUME IInv, NEW b \in Activators, NEW r, activation' = [activation EXCEPT ![b] = r],
         \/ r.pc \in Harmless
         \/ r.step = NoStep
         \/ r.step = activation[b].step /\ activation[b].pc \notin Harmless
         \/ steps[r.step].status \notin Done
  PROVE  \A a \in Activators : PlaceKept(a)
<1>1. \A a \in Activators : activation'[a] = IF a = b THEN r ELSE activation[a]
  BY DEF IInv, TypeOK
<1> QED BY <1>1 DEF PlaceKept

LEMMA JobStepKeepsEnded ==
  ASSUME IInv, NEW j \in Jobs, JobStep(j)
  PROVE  /\ \A s \in Steps : RowKept(s)
         /\ \A a \in Activators : PlaceKept(a)
<1>1. j \in Activators /\ activation[j] \in ActivationRecords
  BY DEF IInv, TypeOK
<1>2. UNCHANGED steps
  BY DEF JobStep, ReceiveScheduledJob, MarkJobRunning, ReadStep, ReportOutcome
<1>3. \A s \in Steps : RowKept(s)
  BY <1>2 DEF RowKept
<1>4. ASSUME UNCHANGED activation PROVE \A a \in Activators : PlaceKept(a)
  BY <1>4 DEF PlaceKept
<1>5. CASE ReceiveScheduledJob(j)
  <2>1. CASE activation' = [activation EXCEPT ![j] =
                              [pc |-> "running", step |-> jobs[j].step, result |-> "none"]]
    <3>1. PICK r : r = [pc |-> "running", step |-> jobs[j].step, result |-> "none"]
      OBVIOUS
    <3>2. r.pc \in Harmless /\ activation' = [activation EXCEPT ![j] = r]
      BY <2>1, <3>1 DEF Harmless
    <3> QED BY <1>1, <1>3, <3>2, PlaceWritten
  <2>2. CASE UNCHANGED activation
    BY <1>3, <1>4, <2>2
  <2> QED BY <1>5, <2>1, <2>2 DEF ReceiveScheduledJob
<1>6. CASE MarkJobRunning(j)
  <2>1. PICK r : r = [activation[j] EXCEPT !.pc = "read"]
    OBVIOUS
  <2>2. r.pc = "read" /\ activation' = [activation EXCEPT ![j] = r]
    BY <1>1, <1>6, <2>1 DEF MarkJobRunning, ActivationGoes, ActivationRecords
  <2> QED BY <1>1, <1>3, <2>2, PlaceWritten DEF Harmless
<1>7. CASE ReadStep(j)
  <2>1. PICK pc \in {"adapter", "refused"} :
          /\ pc = "adapter" => Activatable(activation[j].step)
          /\ ActivationGoes(j, pc)
    BY <1>7 DEF ReadStep
  <2>2. PICK r : r = [activation[j] EXCEPT !.pc = pc]
    OBVIOUS
  <2>3. /\ r.pc = pc /\ r.step = activation[j].step
        /\ activation' = [activation EXCEPT ![j] = r]
    BY <1>1, <2>1, <2>2 DEF ActivationGoes, ActivationRecords
  <2>4. r.pc \in Harmless \/ steps[r.step].status \notin Done
    BY <2>1, <2>3 DEF Activatable, Harmless
  <2> QED BY <1>1, <1>3, <2>3, <2>4, PlaceWritten
<1>8. CASE ReportOutcome(j)
  BY <1>1, <1>3, <1>8, PlaceWritten DEF ReportOutcome, ActivationEnds, IdleActivation
<1> QED BY <1>5, <1>6, <1>7, <1>8 DEF JobStep

LEMMA ActivationStepKeepsEnded ==
  ASSUME IInv, NEW b \in Activators, ActivationStep(b)
  PROVE  /\ \A s \in Steps : RowKept(s)
         /\ \A a \in Activators : PlaceKept(a)
<1>1. steps \in [Steps -> StepRows] /\ activation[b] \in ActivationRecords
  BY DEF IInv, TypeOK
<1>2. ASSUME UNCHANGED steps PROVE \A s \in Steps : RowKept(s)
  BY <1>2 DEF RowKept
<1>3. CASE CollectAudience(b)
  <2>1. activation[b].pc \notin Harmless /\ UNCHANGED steps
    BY <1>3 DEF CollectAudience, Harmless
  <2>2. PICK r : r.step = activation[b].step /\ activation' = [activation EXCEPT ![b] = r]
    BY <1>1, <1>3 DEF CollectAudience, AdapterReturns, ActivationGoes, ActivationRecords
  <2> QED BY <1>2, <2>1, <2>2, PlaceWritten
<1>4. CASE SubmitAudience(b)
  <2>1. activation[b].pc \notin Harmless
    BY <1>4 DEF SubmitAudience, Harmless
  <2>2. \A s \in Steps : s # activation[b].step => steps'[s] = steps[s]
    BY <1>1, <1>4 DEF SubmitAudience
  <2>3. \A s \in Steps : RowKept(s)
    BY <2>1, <2>2 DEF RowKept
  <2>4. PICK r : r.step = activation[b].step /\ activation' = [activation EXCEPT ![b] = r]
    BY <1>4 DEF SubmitAudience, AdapterReturns
  <2> QED BY <2>1, <2>3, <2>4, PlaceWritten
<1>5. CASE FlipMembers(b)
  <2>1. activation[b].pc \notin Harmless /\ UNCHANGED steps
    BY <1>5 DEF FlipMembers, Harmless
  <2>2. PICK r : r = [activation[b] EXCEPT !.pc = "finish"]
    OBVIOUS
  <2>3. r.step = activation[b].step /\ activation' = [activation EXCEPT ![b] = r]
    BY <1>1, <1>5, <2>2 DEF FlipMembers, ActivationGoes, ActivationRecords
  <2> QED BY <1>2, <2>1, <2>3, PlaceWritten
<1>6. CASE FinishActivation(b)
  <2>1. activation[b].pc \notin Harmless
    BY <1>6 DEF FinishActivation, Harmless
  <2>2. \A s \in Steps : s # activation[b].step => steps'[s] = steps[s]
    BY <1>1, <1>6 DEF FinishActivation
  <2>3. \A s \in Steps : RowKept(s)
    BY <2>1, <2>2 DEF RowKept
  <2>4. CASE b \in Jobs
    <3>1. PICK r : r = [activation[b] EXCEPT !.pc = "succeed"]
      OBVIOUS
    <3>2. r.pc = "succeed" /\ activation' = [activation EXCEPT ![b] = r]
      BY <1>1, <1>6, <2>4, <3>1 DEF FinishActivation, ActivationGoes, ActivationRecords
    <3> QED BY <2>3, <3>2, PlaceWritten DEF Harmless
  <2>5. CASE b \notin Jobs
    BY <1>6, <2>3, <2>5, PlaceWritten DEF FinishActivation, ActivationEnds, IdleActivation
  <2> QED BY <2>4, <2>5
<1>7. CASE ActivationDies(b)
  BY <1>2, <1>7, PlaceWritten DEF ActivationDies, ActivationEnds, IdleActivation
<1> QED BY <1>3, <1>4, <1>5, <1>6, <1>7 DEF ActivationStep

LEMMA CommandKeepsEnded ==
  ASSUME IInv, ControlStep \/ CancellerStep
  PROVE  /\ \A s \in Steps : RowKept(s)
         /\ \A a \in Activators : PlaceKept(a)
<1>1. steps \in [Steps -> StepRows] /\ ControlFits
  BY DEF IInv, TypeOK
<1>2. UNCHANGED activation
  BY DEF ControlStep, ReadCampaign, WriteCampaign, CancelRun, WriteJobCancelled, ControlDies,
         ArchiveParentCampaign, WalkStep, CancellerStep, ReadStepForCancel, WriteStepCancelled,
         CancelMembers, CancelStepDies
<1>3. \A a \in Activators : PlaceKept(a)
  BY <1>2 DEF PlaceKept
<1>4. ASSUME UNCHANGED steps PROVE \A s \in Steps : RowKept(s)
  BY <1>4 DEF RowKept
<1>5. CASE WriteCampaign
  <2>1. ASSUME NEW s \in Steps
        PROVE  steps'[s].status \in {steps[s].status, "archived"} /\ steps'[s].mailed = steps[s].mailed
    <3>1. steps'[s] = steps[s] \/ steps'[s] = [steps[s] EXCEPT !.status = "archived"]
      BY <1>5 DEF WriteCampaign
    <3> QED BY <1>1, <3>1
  <2>2. \A s \in Steps : RowKept(s)
    BY <2>1 DEF RowKept
  <2> QED BY <1>3, <2>2
<1>6. CASE WriteStepCancelled
  <2>1. steps' = [steps EXCEPT ![canceller.step].status = "cancelled"]
    BY <1>6 DEF WriteStepCancelled
  <2>2. \A s \in Steps : RowKept(s)
    BY <1>1, <2>1 DEF RowKept
  <2> QED BY <1>3, <2>2
<1>7. ControlStep /\ ~WriteCampaign => UNCHANGED steps
  BY DEF ControlStep, ReadCampaign, CancelRun, WriteJobCancelled, ControlDies,
         ArchiveParentCampaign, WalkStep
<1>8. CancellerStep /\ ~WriteStepCancelled => UNCHANGED steps
  BY DEF CancellerStep, ReadStepForCancel, CancelMembers, CancelStepDies
<1> QED BY <1>3, <1>4, <1>5, <1>6, <1>7, <1>8

LEMMA NextKeepsEnded ==
  ASSUME IInv, [Next]_vars
  PROVE  /\ \A s \in Steps : RowKept(s)
         /\ \A a \in Activators : PlaceKept(a)
<1>1. ASSUME UNCHANGED <<steps, activation>>
      PROVE  (\A s \in Steps : RowKept(s)) /\ \A a \in Activators : PlaceKept(a)
  BY <1>1 DEF RowKept, PlaceKept
<1>2. ASSUME NEW s \in Steps, NEW status \in CampaignEvents, ProjectStepEvent(s, status)
      PROVE  (\A t \in Steps : RowKept(t)) /\ \A a \in Activators : PlaceKept(a)
  <2>1. status \in Done
    BY StepSequenceAssumption
  <2>2. \A t \in Steps : RowKept(t)
    BY <1>2, <2>1 DEF ProjectStepEvent, RowKept, IInv, TypeOK
  <2>3. \A a \in Activators : PlaceKept(a)
    BY <1>2 DEF ProjectStepEvent, PlaceKept
  <2> QED BY <2>2, <2>3
<1>3. ASSUME NEW o \in Operators, NEW s \in ByHand, OperatorActivates(o, s)
      PROVE  (\A t \in Steps : RowKept(t)) /\ \A a \in Activators : PlaceKept(a)
  <2>1. PICK r : r = [pc |-> "adapter", step |-> s, result |-> "none"]
    OBVIOUS
  <2>2. activation' = [activation EXCEPT ![o] = r] /\ steps[r.step].status \notin Done
    BY <1>3, <2>1 DEF OperatorActivates, Activatable
  <2>3. \A a \in Activators : PlaceKept(a)
    BY <2>2, PlaceWritten
  <2>4. \A t \in Steps : RowKept(t)
    BY <1>3 DEF OperatorActivates, RowKept
  <2> QED BY <2>3, <2>4
<1>4. UNCHANGED vars => UNCHANGED <<steps, activation>>
  BY DEF vars
<1>5. CASE \E h \in Hooks : HookStep(h)
  BY <1>5, HookKeepsEnded
<1>6. CASE \E s \in Steps, status \in CampaignEvents : ProjectStepEvent(s, status)
  BY <1>2, <1>6
<1>7. CASE \E j \in Jobs : JobStep(j)
  BY <1>7, JobStepKeepsEnded
<1>8. CASE \E a \in Activators : ActivationStep(a)
  BY <1>8, ActivationStepKeepsEnded
<1>9. CASE \E o \in Operators, s \in ByHand : OperatorActivates(o, s)
  BY <1>3, <1>9
<1>10. CASE ControlStep \/ CancellerStep
  BY <1>10, CommandKeepsEnded
<1> QED BY <1>1, <1>4, <1>5, <1>6, <1>7, <1>8, <1>9, <1>10 DEF Next

\* activate_step, complete_step, cancel_step and _set_status write a step's status
\* with no condition on it; still a step that has ended, with no activation past its
\* status check, is never opened again and nothing more of it is mailed.
THEOREM EndedForGood == Spec => EndedStaysEnded
<1> DEFINE Keeps ==
      \A s \in Steps : Ended(s) => Ended(s)' /\ steps'[s].mailed = steps[s].mailed
<1>1. ASSUME IInv, [Next]_vars, NEW s \in Steps, Ended(s)
      PROVE  Ended(s)' /\ steps'[s].mailed = steps[s].mailed
  <2>1. /\ steps[s].status \in Done
        /\ \A a \in Activators : activation[a].step = s => activation[a].pc \in Harmless
    BY <1>1 DEF Ended, Harmless
  <2>2. steps'[s].status \in Done /\ steps'[s].mailed = steps[s].mailed
    BY <1>1, <2>1, NextKeepsEnded DEF RowKept
  <2>3. \A a \in Activators : activation'[a].step = s => activation'[a].pc \in Harmless
    BY <1>1, <2>1, NextKeepsEnded DEF PlaceKept
  <2> QED BY <2>2, <2>3 DEF Ended, Harmless
<1>2. IInv /\ [Next]_vars => [Keeps]_vars
  BY <1>1
<1>3. Spec => [][Keeps]_vars
  BY <1>2, Inductive, PTL DEF Spec
<1> QED BY <1>3 DEF EndedStaysEnded

-----------------------------------------------------------------------------
\* The job is cancelled, its creator is through with it and nobody executes it.
Off(j) ==
  /\ jobs[j].status = "cancelled"
  /\ ActivationAt(j, "idle")
  /\ \A h \in Hooks : hook[h].job # j

LEMMA StepKeepsOff ==
  ASSUME IInv, [Next]_vars, NEW j \in Jobs, Off(j)
  PROVE  jobs'[j].status = "cancelled" /\ activation'[j].pc = "idle"
<1>1. /\ jobs \in [Jobs -> JobRows]
      /\ activation \in [Activators -> ActivationRecords]
      /\ j \in Activators /\ j \notin Operators
      /\ jobs[j].status = "cancelled" /\ activation[j].pc = "idle"
      /\ \A h \in Hooks : hook[h].job # j
  BY StepSequenceAssumption DEF IInv, TypeOK, Off
<1>2. ASSUME NEW h \in Hooks, HookStep(h)
      PROVE  jobs'[j] = jobs[j] /\ UNCHANGED activation
  <2>1. CASE InsertScheduledJob(h)
    BY <1>1, <2>1 DEF InsertScheduledJob
  <2>2. CASE PersistScheduledRun(h) \/ MarkScheduleFailed(h)
    <3>1. /\ UNCHANGED activation
          /\ \E row : jobs' = [jobs EXCEPT ![hook[h].job] = row]
      BY <2>2 DEF PersistScheduledRun, MarkScheduleFailed
    <3> QED BY <1>1, <3>1
  <2>3. ASSUME NEW m, NEW outcome, ReceivePieceEvent(h, m, outcome)
        PROVE  UNCHANGED <<jobs, activation>>
    BY <2>3 DEF ReceivePieceEvent
  <2>4. \/ WriteMembership(h) \/ CountMembers(h) \/ ReadStepStatus(h) \/ CompleteStep(h)
        \/ FindNextStep(h) \/ FindExistingScheduledJob(h) \/ EnqueueScheduledJob(h) \/ HookDies(h)
        => UNCHANGED <<jobs, activation>>
    BY DEF WriteMembership, CountMembers, ReadStepStatus, CompleteStep, FindNextStep,
           FindExistingScheduledJob, EnqueueScheduledJob, HookDies
  <2> QED BY <1>2, <2>1, <2>2, <2>3, <2>4 DEF HookStep
<1>3. ASSUME NEW i \in Jobs, JobStep(i)
      PROVE  jobs'[j] = jobs[j] /\ activation'[j] = activation[j]
  <2>1. CASE i = j
    BY <1>1, <1>3, <2>1 DEF JobStep, ReceiveScheduledJob, MarkJobRunning, ReadStep, ReportOutcome
  <2>2. CASE i # j
    <3>1. ReceiveScheduledJob(i) \/ ReadStep(i) => UNCHANGED jobs
      BY DEF ReceiveScheduledJob, ReadStep
    <3>2. MarkJobRunning(i) => jobs'[j] = jobs[j]
      BY <1>1, <2>2 DEF MarkJobRunning
    <3>3. ReportOutcome(i) => jobs'[j] = jobs[j]
      BY <1>1, <2>2 DEF ReportOutcome
    <3>4. activation'[j] = activation[j]
      BY <1>1, <1>3, <2>2 DEF JobStep, ReceiveScheduledJob, MarkJobRunning, ReadStep,
         ReportOutcome, ActivationGoes, ActivationEnds
    <3> QED BY <1>3, <3>1, <3>2, <3>3, <3>4 DEF JobStep
  <2> QED BY <2>1, <2>2
<1>4. ASSUME NEW a \in Activators, ActivationStep(a)
      PROVE  UNCHANGED jobs /\ activation'[j] = activation[j]
  <2>1. a # j
    BY <1>1, <1>4 DEF ActivationStep, CollectAudience, SubmitAudience, FlipMembers, FinishActivation,
         ActivationDies
  <2>2. UNCHANGED jobs
    BY <1>4 DEF ActivationStep, CollectAudience, SubmitAudience, FlipMembers, FinishActivation,
         ActivationDies
  <2>3. \E r : activation' = [activation EXCEPT ![a] = r]
    BY <1>4 DEF ActivationStep, CollectAudience, SubmitAudience, FlipMembers, FinishActivation,
                ActivationDies, AdapterReturns, ActivationGoes, ActivationEnds
  <2> QED BY <1>1, <2>1, <2>2, <2>3
<1>5. ASSUME NEW o \in Operators, NEW s \in ByHand, OperatorActivates(o, s)
      PROVE  UNCHANGED jobs /\ activation'[j] = activation[j]
  BY <1>1, <1>5 DEF OperatorActivates
<1>6. ASSUME ControlStep
      PROVE  jobs'[j].status = "cancelled" /\ UNCHANGED activation
  <2>1. CASE WriteJobCancelled
    BY <1>1, <2>1 DEF WriteJobCancelled
  <2>2. ~WriteJobCancelled => UNCHANGED <<jobs, activation>>
    BY <1>6 DEF ControlStep, ReadCampaign, WriteCampaign, CancelRun, ControlDies,
                ArchiveParentCampaign, WalkStep
  <2> QED BY <1>1, <2>1, <2>2
<1>7. CancellerStep => UNCHANGED <<jobs, activation>>
  BY DEF CancellerStep, ReadStepForCancel, WriteStepCancelled, CancelMembers, CancelStepDies
<1>8. ASSUME NEW s, NEW status, ProjectStepEvent(s, status)
      PROVE  UNCHANGED <<jobs, activation>>
  BY <1>8 DEF ProjectStepEvent
<1>9. UNCHANGED vars => UNCHANGED <<jobs, activation>>
  BY DEF vars
<1> QED BY <1>1, <1>2, <1>3, <1>4, <1>5, <1>6, <1>7, <1>8, <1>9 DEF Next

\* cancel_job and process-job: a cancelled job whose creator is through with it and
\* that nobody executes stays cancelled and its step is never activated on its
\* account, though Trigger.dev's run of it may still be waiting to be executed.
THEOREM CancelledIsOff == Spec => CancelledJobsStayOff
<1> DEFINE Keeps ==
      \A j \in Jobs :
        /\ jobs[j].status = "cancelled"
        /\ ActivationAt(j, "idle")
        /\ \A h \in Hooks : hook[h].job # j
        => jobs'[j].status = "cancelled" /\ activation'[j].pc = "idle"
<1>1. IInv /\ [Next]_vars => [Keeps]_vars
  BY StepKeepsOff DEF Off
<1>2. Spec => [][Keeps]_vars
  BY <1>1, Inductive, PTL DEF Spec
<1> QED BY <1>2 DEF CancelledJobsStayOff
=============================================================================
