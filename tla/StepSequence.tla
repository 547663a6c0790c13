---------------------------- MODULE StepSequence ----------------------------
(***************************************************************************)
(* One direct-mail channel campaign and its steps, in step order: webhook  *)
(* calls that move memberships and complete a step, the scheduler they     *)
(* call for the next one, the scheduled job that activates it days later,  *)
(* and the operator's calls that activate, cancel, pause, resume and       *)
(* archive meanwhile.  One action is one database transaction or one call  *)
(* of a provider.  A Trigger.dev run's execution of process-job is kept to *)
(* one at a time per job; ActivationJobs has their overlaps.               *)
(***************************************************************************)
EXTENDS Naturals

CONSTANTS StepCount,      \* steps of the channel campaign
          Recipients,     \* who can be mailed
          Members,        \* the audiences: pairs <<step, recipient>>
          Jobs, NoJob,    \* ids of step_scheduled_activation jobs
          Hooks,          \* concurrent calls of project_lob_event
          Operators,      \* concurrent calls of POST .../activate on a step
          ByHand,         \* the steps operators activate that way
          Commands,       \* what operators ask of the channel campaign and its parent
          Cancels,        \* the steps cancel_step is called for
          CampaignEvents  \* what Lob reports of whole campaigns

ASSUME StepSequenceAssumption ==
  /\ StepCount \in Nat \ {0}
  /\ Members \in SUBSET ((1..StepCount) \X Recipients)
  /\ \A s \in 1..StepCount : \E r \in Recipients : <<s, r>> \in Members
  /\ NoJob \notin Jobs
  /\ Jobs \cap Operators = {}
  /\ Commands \subseteq {"scheduled", "paused", "archived", "archive_parent"}
  /\ ByHand \subseteq 1..StepCount
  /\ Cancels \subseteq 1..StepCount
  /\ CampaignEvents \subseteq {"failed", "cancelled"}

Steps == 1..StepCount
NoStep == 0
NoMember == <<>>
MembersOf(s) == {m \in Members : m[1] = s}

StepStatuses == {"pending", "scheduled", "activating", "sent", "failed", "cancelled", "archived"}
Done == {"sent", "failed", "cancelled", "archived"}

MemberStatuses == {"pending", "scheduled", "sent", "failed", "suppressed", "cancelled"}
\* _TERMINAL_MEMBERSHIP_STATUSES
TerminalMember == {"sent", "failed", "suppressed", "cancelled"}

CampaignStatuses == {"draft", "scheduled", "paused", "archived"}
JobStatuses == {"absent", "queued", "running", "succeeded", "failed", "cancelled"}
OpenJob == {"queued", "running"}

VARIABLES campaign,    \* status of the channel campaign
          steps,       \* status, external_provider_id set, and ghost: audience sent to Lob
          members,     \* status of every membership
          jobs,        \* the scheduled jobs: status, payload.step_id, trigger_run_id set
          calls,       \* Trigger.dev's run of each job
          hook, activation, control, canceller   \* where each call is, and what it read

vars == <<campaign, steps, members, jobs, calls, hook, activation, control, canceller>>

HookPCs == {"idle", "write", "count", "status", "complete", "next", "existing", "insert",
            "enqueue", "persist", "mark_failed"}
ActivationPCs == {"idle", "running", "read", "adapter", "submit", "flip", "finish", "succeed",
                  "refused"}
ControlPCs == {"idle", "write", "walk", "cancel", "cancelled"}
CancellerPCs == {"idle", "status", "members"}
Activators == Jobs \cup Operators

StepRows == [status : StepStatuses, linked : BOOLEAN, mailed : BOOLEAN]
JobRows == [status : JobStatuses, step : Steps \cup {NoStep}, run : BOOLEAN]
Verdicts == {"none", "sent", "failed"}
HookRecords == [pc : HookPCs, step : Steps \cup {NoStep}, member : Members \cup {NoMember},
                verdict : Verdicts, job : Jobs \cup {NoJob}]
Results == {"none", "failed", "activating", "scheduled"}
ActivationRecords == [pc : ActivationPCs, step : Steps \cup {NoStep}, result : Results]
ControlRecords == [pc : ControlPCs, to : CampaignStatuses, todo : SUBSET Steps, job : Jobs \cup {NoJob}]
CancellerRecords == [pc : CancellerPCs, step : Steps \cup {NoStep}]

\* A webhook call past its membership's write, and a control call past its campaign's.
Call(pc, s, verdict, j) ==
  [pc |-> pc, step |-> s, member |-> NoMember, verdict |-> verdict, job |-> j]
Walk(pc, todo, j) == [pc |-> pc, to |-> "draft", todo |-> todo, job |-> j]

IdleHook == Call("idle", NoStep, "none", NoJob)
IdleActivation == [pc |-> "idle", step |-> NoStep, result |-> "none"]
IdleControl == Walk("idle", {}, NoJob)
IdleCanceller == [pc |-> "idle", step |-> NoStep]

\* Every row and every call's local state has its type.
TypeOK ==
  /\ campaign \in CampaignStatuses
  /\ steps \in [Steps -> StepRows]
  /\ members \in [Members -> MemberStatuses]
  /\ jobs \in [Jobs -> JobRows]
  /\ calls \in [Jobs -> {"none", "waiting", "executing", "over"}]
  /\ hook \in [Hooks -> HookRecords]
  /\ activation \in [Activators -> ActivationRecords]
  /\ control \in ControlRecords
  /\ canceller \in CancellerRecords

\* The audiences are materialized, nothing is activated yet.
Init ==
  /\ campaign = "draft"
  /\ steps = [s \in Steps |-> [status |-> "pending", linked |-> FALSE, mailed |-> FALSE]]
  /\ members = [m \in Members |-> "pending"]
  /\ jobs = [j \in Jobs |-> [status |-> "absent", step |-> NoStep, run |-> FALSE]]
  /\ calls = [j \in Jobs |-> "none"]
  /\ hook = [h \in Hooks |-> IdleHook]
  /\ activation = [a \in Activators |-> IdleActivation]
  /\ control = IdleControl
  /\ canceller = IdleCanceller

-----------------------------------------------------------------------------
(***************************************************************************)
(* A piece event: _maybe_transition_membership reads the membership,       *)
(* writes it, and calls maybe_complete_step_and_schedule_next.             *)
(***************************************************************************)
At(h, pc) == hook[h].pc = pc
HookGoes(h, pc) == hook' = [hook EXCEPT ![h] = [@ EXCEPT !.pc = pc]]
HookReturns(h) == hook' = [hook EXCEPT ![h] = IdleHook]

\* Lob reports on pieces it has; a membership that is terminal is left alone.
ReceivePieceEvent(h, m, outcome) ==
  /\ At(h, "idle")
  /\ steps[m[1]].mailed
  /\ members[m] \notin TerminalMember
  /\ hook' = [hook EXCEPT ![h] = [pc |-> "write", step |-> m[1], member |-> m,
                                  verdict |-> outcome, job |-> NoJob]]
  /\ UNCHANGED <<campaign, steps, members, jobs, calls, activation, control, canceller>>

WriteMembership(h) ==
  /\ At(h, "write")
  /\ members' = [members EXCEPT ![hook[h].member] = hook[h].verdict]
  /\ hook' = [hook EXCEPT ![h] = Call("count", @.step, "none", NoJob)]
  /\ UNCHANGED <<campaign, steps, jobs, calls, activation, control, canceller>>

StepComplete(s) == \A m \in MembersOf(s) : members[m] \in TerminalMember

\* is_step_complete: with no piece sent, a failed or suppressed one makes the step failed.
TerminalStepStatus(s) ==
  IF /\ \A m \in MembersOf(s) : members[m] # "sent"
     /\ \E m \in MembersOf(s) : members[m] \in {"failed", "suppressed"}
  THEN "failed" ELSE "sent"

\* A bug: a step counts as complete once nothing in it is pending.
CountMembersNonePending(h) ==
  /\ At(h, "count")
  /\ IF \A m \in MembersOf(hook[h].step) : members[m] # "pending"
     THEN hook' = [hook EXCEPT ![h] = Call("status", @.step, TerminalStepStatus(@.step), NoJob)]
     ELSE HookReturns(h)
  /\ UNCHANGED <<campaign, steps, members, jobs, calls, activation, control, canceller>>

CountMembers(h) ==
  /\ At(h, "count")
  /\ IF StepComplete(hook[h].step)
     THEN hook' = [hook EXCEPT ![h] = Call("status", @.step, TerminalStepStatus(@.step), NoJob)]
     ELSE HookReturns(h)
  /\ UNCHANGED <<campaign, steps, members, jobs, calls, activation, control, canceller>>

\* get_step_simple; an archived step is not among the statuses that stop it.
ReadStepStatus(h) ==
  /\ At(h, "status")
  /\ IF steps[hook[h].step].status \in {"sent", "failed", "cancelled"}
     THEN HookReturns(h) ELSE HookGoes(h, "complete")
  /\ UNCHANGED <<campaign, steps, members, jobs, calls, activation, control, canceller>>

CompleteStep(h) ==
  /\ At(h, "complete")
  /\ steps' = [steps EXCEPT ![hook[h].step].status = hook[h].verdict]
  /\ IF hook[h].verdict = "sent" THEN HookGoes(h, "next") ELSE HookReturns(h)
  /\ UNCHANGED <<campaign, members, jobs, calls, activation, control, canceller>>

-----------------------------------------------------------------------------
(***************************************************************************)
(* schedule_next_step.                                                     *)
(***************************************************************************)
FindNextStep(h) ==
  /\ At(h, "next")
  /\ IF hook[h].step < StepCount /\ steps[hook[h].step + 1].status = "pending"
     THEN HookGoes(h, "existing") ELSE HookReturns(h)
  /\ UNCHANGED <<campaign, steps, members, jobs, calls, activation, control, canceller>>

OpenJobsFor(s) == {j \in Jobs : jobs[j].step = s /\ jobs[j].status \in OpenJob}

FindExistingScheduledJob(h) ==
  /\ At(h, "existing")
  /\ IF OpenJobsFor(hook[h].step + 1) = {} THEN HookGoes(h, "insert") ELSE HookReturns(h)
  /\ UNCHANGED <<campaign, steps, members, jobs, calls, activation, control, canceller>>

\* A bug: the new job gets a status the table's CHECK constraint does not have.
InsertJobAsScheduled(h) ==
  /\ At(h, "insert")
  /\ \E j \in Jobs :
       /\ jobs[j].status = "absent"
       /\ jobs' = [jobs EXCEPT ![j] = [status |-> "scheduled", step |-> hook[h].step + 1, run |-> FALSE]]
       /\ hook' = [hook EXCEPT ![h] = Call("enqueue", @.step, "none", j)]
  /\ UNCHANGED <<campaign, steps, members, calls, activation, control, canceller>>

InsertScheduledJob(h) ==
  /\ At(h, "insert")
  /\ \E j \in Jobs :
       /\ jobs[j].status = "absent"
       /\ jobs' = [jobs EXCEPT ![j] = [status |-> "queued", step |-> hook[h].step + 1, run |-> FALSE]]
       /\ hook' = [hook EXCEPT ![h] = Call("enqueue", @.step, "none", j)]
  /\ UNCHANGED <<campaign, steps, members, calls, activation, control, canceller>>

\* enqueue_via_trigger: accepted, refused, or no answer (which ends the call,
\* the exception being swallowed by the hook's caller).
EnqueueScheduledJob(h) ==
  /\ At(h, "enqueue")
  /\ \/ /\ calls' = [calls EXCEPT ![hook[h].job] = "waiting"]
        /\ HookGoes(h, "persist")
     \/ /\ HookGoes(h, "mark_failed")
        /\ UNCHANGED calls
     \/ /\ calls' = [calls EXCEPT ![hook[h].job] = "waiting"]
        /\ HookReturns(h)
  /\ UNCHANGED <<campaign, steps, members, jobs, activation, control, canceller>>

PersistScheduledRun(h) ==
  /\ At(h, "persist")
  /\ jobs' = [jobs EXCEPT ![hook[h].job] = [status |-> "queued", step |-> @.step, run |-> TRUE]]
  /\ HookReturns(h)
  /\ UNCHANGED <<campaign, steps, members, calls, activation, control, canceller>>

MarkScheduleFailed(h) ==
  /\ At(h, "mark_failed")
  /\ jobs' = [jobs EXCEPT ![hook[h].job] = [@ EXCEPT !.status = "failed"]]
  /\ HookReturns(h)
  /\ UNCHANGED <<campaign, steps, members, calls, activation, control, canceller>>

\* A database error, swallowed by the projector, or a restart of the process.
HookDies(h) ==
  /\ ~At(h, "idle")
  /\ HookReturns(h)
  /\ UNCHANGED <<campaign, steps, members, jobs, calls, activation, control, canceller>>

\* _project_step_event: a campaign-level event of Lob, matched on external_provider_id.
ProjectStepEvent(s, status) ==
  /\ steps[s].linked
  /\ steps[s].status # status
  /\ steps' = [steps EXCEPT ![s].status = status]
  /\ UNCHANGED <<campaign, members, jobs, calls, hook, activation, control, canceller>>

-----------------------------------------------------------------------------
(***************************************************************************)
(* Activation of a step, by its scheduled job or by an operator.           *)
(***************************************************************************)
ActivationAt(a, pc) == activation[a].pc = pc
ActivationGoes(a, pc) == activation' = [activation EXCEPT ![a] = [@ EXCEPT !.pc = pc]]
ActivationEnds(a) == activation' = [activation EXCEPT ![a] = IdleActivation]

\* A bug: activate_step refuses only a step that is already scheduled.
NotYetScheduled(s) == steps[s].status # "scheduled"

\* A bug: process-job does not look at the status of the job.
ReceiveAnyJob(j) ==
  /\ calls[j] = "waiting"
  /\ ActivationAt(j, "idle")
  /\ calls' = [calls EXCEPT ![j] = "executing"]
  /\ activation' = [activation EXCEPT ![j] =
                      [pc |-> "running", step |-> jobs[j].step, result |-> "none"]]
  /\ UNCHANGED <<campaign, steps, members, jobs, hook, control, canceller>>

\* The wait is over and the task calls process-job, which skips a terminal job.
ReceiveScheduledJob(j) ==
  /\ calls[j] = "waiting"
  /\ ActivationAt(j, "idle")
  /\ IF jobs[j].status \in OpenJob
     THEN /\ calls' = [calls EXCEPT ![j] = "executing"]
          /\ activation' = [activation EXCEPT ![j] =
                              [pc |-> "running", step |-> jobs[j].step, result |-> "none"]]
     ELSE /\ calls' = [calls EXCEPT ![j] = "over"]
          /\ UNCHANGED activation
  /\ UNCHANGED <<campaign, steps, members, jobs, hook, control, canceller>>

MarkJobRunning(j) ==
  /\ ActivationAt(j, "running")
  /\ jobs' = [jobs EXCEPT ![j] = [status |-> "running", step |-> @.step, run |-> TRUE]]
  /\ ActivationGoes(j, "read")
  /\ UNCHANGED <<campaign, steps, members, calls, hook, control, canceller>>

\* activate_step: only a pending or activating step may be activated.
Activatable(s) == steps[s].status \in {"pending", "activating"}

OperatorActivates(o, s) ==
  /\ ActivationAt(o, "idle")
  /\ Activatable(s)
  /\ activation' = [activation EXCEPT ![o] = [pc |-> "adapter", step |-> s, result |-> "none"]]
  /\ UNCHANGED <<campaign, steps, members, jobs, calls, hook, control, canceller>>

ReadStep(j) ==
  /\ ActivationAt(j, "read")
  /\ ActivationGoes(j, IF Activatable(activation[j].step) THEN "adapter" ELSE "refused")
  /\ UNCHANGED <<campaign, steps, members, jobs, calls, hook, control, canceller>>

\* The adapter's result; only a failed one skips the flip of the memberships.
AdapterReturns(a, result) ==
  activation' = [activation EXCEPT ![a] =
    [pc |-> IF result = "failed" THEN "finish" ELSE "flip", step |-> @.step, result |-> result]]

\* LobAdapter.activate_step up to the audience: it fails a check, stops half-way, or
\* collects the step's pending members, of whom there must be some.
CollectAudience(a) ==
  /\ ActivationAt(a, "adapter")
  /\ \/ AdapterReturns(a, "failed")
     \/ AdapterReturns(a, "activating")
     \/ /\ \E m \in MembersOf(activation[a].step) : members[m] = "pending"
        /\ ActivationGoes(a, "submit")
  /\ UNCHANGED <<campaign, steps, members, jobs, calls, hook, control, canceller>>

\* The upload and its file, by when the members may read otherwise; Lob may have
\* the file although the adapter got no answer and returns activating.
SubmitAudience(a) ==
  /\ ActivationAt(a, "submit")
  /\ \E received \in BOOLEAN :
       /\ steps' = [steps EXCEPT ![activation[a].step].mailed = @ \/ received]
       /\ \/ AdapterReturns(a, "activating")
          \/ received /\ AdapterReturns(a, "scheduled")
  /\ UNCHANGED <<campaign, members, jobs, calls, hook, control, canceller>>

\* A bug: the flip takes every membership of the step.
FlipEveryMember(a) ==
  LET s == activation[a].step IN
  /\ ActivationAt(a, "flip")
  /\ members' = [m \in Members |-> IF m \in MembersOf(s) THEN "scheduled" ELSE members[m]]
  /\ ActivationGoes(a, "finish")
  /\ UNCHANGED <<campaign, steps, jobs, calls, hook, control, canceller>>

\* bulk_update_pending_to_scheduled, unless the adapter failed
FlipMembers(a) ==
  LET s == activation[a].step IN
  /\ ActivationAt(a, "flip")
  /\ members' = [m \in Members |-> IF m \in MembersOf(s) /\ members[m] = "pending"
                                   THEN "scheduled" ELSE members[m]]
  /\ ActivationGoes(a, "finish")
  /\ UNCHANGED <<campaign, steps, jobs, calls, hook, control, canceller>>

\* The UPDATE that ends activate_step has no condition on the status.
FinishActivation(a) ==
  /\ ActivationAt(a, "finish")
  /\ steps' = [steps EXCEPT ![activation[a].step] =
       [status |-> activation[a].result, linked |-> activation[a].result # "failed",
        mailed |-> @.mailed]]
  /\ IF a \in Jobs THEN ActivationGoes(a, "succeed") ELSE ActivationEnds(a)
  /\ UNCHANGED <<campaign, members, jobs, calls, hook, control, canceller>>

\* process-job writes the job's outcome and answers 200.
ReportOutcome(j) ==
  /\ activation[j].pc \in {"succeed", "refused"}
  /\ jobs' = [jobs EXCEPT ![j].status = IF ActivationAt(j, "succeed") THEN "succeeded" ELSE "failed"]
  /\ calls' = [calls EXCEPT ![j] = "over"]
  /\ ActivationEnds(j)
  /\ UNCHANGED <<campaign, steps, members, hook, control, canceller>>

\* An exception or a restart; Trigger.dev retries a run that was not cancelled,
\* until its attempts are used up.
ActivationDies(a) ==
  /\ ~ActivationAt(a, "idle")
  /\ ActivationEnds(a)
  /\ \/ /\ a \in Jobs
        /\ calls[a] = "executing"
        /\ \E next \in {"waiting", "over"} : calls' = [calls EXCEPT ![a] = next]
     \/ /\ a \in Jobs => calls[a] # "executing"
        /\ UNCHANGED calls
  /\ UNCHANGED <<campaign, steps, members, jobs, hook, control, canceller>>

-----------------------------------------------------------------------------
(***************************************************************************)
(* The operator's calls on the channel campaign, one at a time.            *)
(***************************************************************************)
AllowedFrom(to) ==
  CASE to = "scheduled" -> {"draft", "paused"}    \* activate_, resume_channel_campaign
    [] to = "paused" -> {"scheduled"}
    [] to = "archived" -> {"draft", "scheduled", "paused"}
    [] OTHER -> {}

ReadCampaign(to) ==
  /\ control.pc = "idle"
  /\ campaign \in AllowedFrom(to)
  /\ control' = [pc |-> "write", to |-> to, todo |-> {}, job |-> NoJob]
  /\ UNCHANGED <<campaign, steps, members, jobs, calls, hook, activation, canceller>>

\* _set_status: one transaction writes the status, archives the steps if that
\* is what it is, and collects the steps whose jobs are to be cancelled.
WriteCampaign ==
  /\ control.pc = "write"
  /\ campaign' = control.to
  /\ LET affected == CASE control.to = "archived" -> {s \in Steps : steps[s].status # "archived"}
                       [] control.to = "paused" -> {s \in Steps : steps[s].status \notin Done}
                       [] OTHER -> {} IN
     /\ steps' = [s \in Steps |-> IF control.to = "archived"
                                  THEN [steps[s] EXCEPT !.status = "archived"] ELSE steps[s]]
     /\ control' = IF affected = {} THEN IdleControl
                   ELSE Walk("walk", affected, NoJob)
  /\ UNCHANGED <<members, jobs, calls, hook, activation, canceller>>

NextOfWalk(todo) == IF todo = {} THEN IdleControl ELSE Walk("walk", todo, NoJob)

\* cancel_scheduled_step looks up one open job of the step.
WalkStep(s) ==
  /\ control.pc = "walk"
  /\ s \in control.todo
  /\ \/ /\ OpenJobsFor(s) = {}
        /\ control' = NextOfWalk(control.todo \ {s})
     \/ \E j \in OpenJobsFor(s) :
          control' = Walk("cancel", control.todo \ {s}, j)
  /\ UNCHANGED <<campaign, steps, members, jobs, calls, hook, activation, canceller>>

\* cancel_job: read the row, refuse a terminal one (the walk goes on), cancel the
\* run it names; a run whose handler is at work is cancelled, the handler is not.
CancelRun ==
  /\ control.pc = "cancel"
  /\ IF jobs[control.job].status \in OpenJob
     THEN /\ control' = [control EXCEPT !.pc = "cancelled"]
          /\ \/ /\ jobs[control.job].run
                /\ calls[control.job] \in {"waiting", "executing"}
                /\ calls' = [calls EXCEPT ![control.job] = "over"]
             \/ UNCHANGED calls
     ELSE /\ control' = NextOfWalk(control.todo)
          /\ UNCHANGED calls
  /\ UNCHANGED <<campaign, steps, members, jobs, hook, activation, canceller>>

WriteJobCancelled ==
  /\ control.pc = "cancelled"
  /\ jobs' = [jobs EXCEPT ![control.job].status = "cancelled"]
  /\ control' = NextOfWalk(control.todo)
  /\ UNCHANGED <<campaign, steps, members, calls, hook, activation, canceller>>

ControlDies ==
  /\ control.pc # "idle"
  /\ control' = IdleControl
  /\ UNCHANGED <<campaign, steps, members, jobs, calls, hook, activation, canceller>>

\* archive_campaign of the parent: the channel campaign's row and nothing below it.
ArchiveParentCampaign ==
  /\ "archive_parent" \in Commands
  /\ campaign # "archived"
  /\ campaign' = "archived"
  /\ UNCHANGED <<steps, members, jobs, calls, hook, activation, control, canceller>>

-----------------------------------------------------------------------------
(***************************************************************************)
(* cancel_step; the Lob campaign is deleted, best effort, in between.      *)
(***************************************************************************)
ReadStepForCancel(s) ==
  /\ canceller.pc = "idle"
  /\ steps[s].status \in {"pending", "scheduled", "activating"}
  /\ canceller' = [pc |-> "status", step |-> s]
  /\ UNCHANGED <<campaign, steps, members, jobs, calls, hook, activation, control>>

WriteStepCancelled ==
  /\ canceller.pc = "status"
  /\ steps' = [steps EXCEPT ![canceller.step].status = "cancelled"]
  /\ canceller' = [canceller EXCEPT !.pc = "members"]
  /\ UNCHANGED <<campaign, members, jobs, calls, hook, activation, control>>

CancelMembers ==
  /\ canceller.pc = "members"
  /\ members' = [m \in Members |->
                   IF m \in MembersOf(canceller.step) /\ members[m] \in {"pending", "scheduled"}
                   THEN "cancelled" ELSE members[m]]
  /\ canceller' = IdleCanceller
  /\ UNCHANGED <<campaign, steps, jobs, calls, hook, activation, control>>

CancelStepDies ==
  /\ canceller.pc # "idle"
  /\ canceller' = IdleCanceller
  /\ UNCHANGED <<campaign, steps, members, jobs, calls, hook, activation, control>>

-----------------------------------------------------------------------------
HookStep(h) ==
  \/ \E m \in Members, outcome \in {"sent", "failed"} : ReceivePieceEvent(h, m, outcome)
  \/ WriteMembership(h) \/ CountMembers(h) \/ ReadStepStatus(h) \/ CompleteStep(h)
  \/ FindNextStep(h) \/ FindExistingScheduledJob(h) \/ InsertScheduledJob(h)
  \/ EnqueueScheduledJob(h) \/ PersistScheduledRun(h) \/ MarkScheduleFailed(h)
  \/ HookDies(h)

JobStep(j) ==
  ReceiveScheduledJob(j) \/ MarkJobRunning(j) \/ ReadStep(j) \/ ReportOutcome(j)

ActivationStep(a) ==
  \/ CollectAudience(a) \/ SubmitAudience(a) \/ FlipMembers(a)
  \/ FinishActivation(a) \/ ActivationDies(a)

ControlStep ==
  \/ \E to \in Commands : ReadCampaign(to)
  \/ WriteCampaign \/ CancelRun \/ WriteJobCancelled \/ ControlDies \/ ArchiveParentCampaign
  \/ \E s \in Steps : WalkStep(s)

CancellerStep ==
  \/ \E s \in Cancels : ReadStepForCancel(s)
  \/ WriteStepCancelled \/ CancelMembers \/ CancelStepDies

Next ==
  \/ \E h \in Hooks : HookStep(h)
  \/ \E s \in Steps, status \in CampaignEvents : ProjectStepEvent(s, status)
  \/ \E j \in Jobs : JobStep(j)
  \/ \E a \in Activators : ActivationStep(a)
  \/ \E o \in Operators, s \in ByHand : OperatorActivates(o, s)
  \/ ControlStep
  \/ CancellerStep

Spec == Init /\ [][Next]_vars

-----------------------------------------------------------------------------
\* A step that reads sent has no member still on its way: whatever webhooks,
\* activations and cancellations interleaved, none brings a member back.
SentStepsAreComplete ==
  \A s \in Steps : steps[s].status = "sent" => StepComplete(s)

\* A scheduled job exists only for a step whose predecessor's members have all
\* reached their end; two hooks racing on the last members do not start it early.
ScheduledAfterCompletion ==
  \A j \in Jobs : jobs[j].step # NoStep => jobs[j].step > 1 /\ StepComplete(jobs[j].step - 1)

\* Step s has ended and no activation that was let in before is still at work on it.
Ended(s) ==
  /\ steps[s].status \in Done
  /\ \A a \in Activators : activation[a].step = s =>
       activation[a].pc \in {"running", "read", "succeed", "refused"}

\* An ended step is never opened again nor mailed: late webhooks, retried jobs,
\* jobs nobody cancelled and operators' calls leave it ended.
EndedStaysEnded ==
  [][\A s \in Steps : Ended(s) => Ended(s)' /\ steps'[s].mailed = steps[s].mailed]_vars

\* A cancelled job whose own creator is through with it and that is not being
\* executed never activates its step, though its run may still be waiting.
CancelledJobsStayOff ==
  [][\A j \in Jobs :
       /\ jobs[j].status = "cancelled"
       /\ ActivationAt(j, "idle")
       /\ \A h \in Hooks : hook[h].job # j
       => jobs'[j].status = "cancelled" /\ activation'[j].pc = "idle"]_vars
=============================================================================
