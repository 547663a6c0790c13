# TLA+ models of hq-x

hq-x is a FastAPI service (`src/app`) that runs outbound campaigns for its customers: a
*campaign* has *channel campaigns* (direct mail by Lob, e-mail by EmailBison, voice by Vapi),
a channel campaign has ordered *steps*, a step has an audience of *memberships*, and each
provider reports what became of every piece by webhook. Work that outlives a request is a row
in Postgres and a run at Trigger.dev, which calls the API back. The state is in Postgres; an
`async with get_db_connection()` block is one transaction, there are no row locks and hardly a
conditional UPDATE, and between two blocks any other request, retry, webhook or cron tick may
run, or the process may stop. The models are about what that allows.

## Inventory

| part | state | operations | what is hard |
|---|---|---|---|
| activation jobs (`services/activation_jobs.py`, `routers/dmaas_campaigns.py`, `routers/internal/dmaas_jobs.py`) | `business.activation_jobs`: status, idempotency key, trigger_run_id, error, timestamps | create with Idempotency-Key, enqueue, process-job, transition, cancel | two transactions around an external call; `transition_job` has no guard; Trigger.dev calls at least once |
| stale-job sweep (`services/reconciliation/stale_jobs.py`) | none | running too long -> failed, failed for a day -> dead_lettered | writes to rows it read earlier |
| campaign activation pipeline (`services/dmaas_campaign_activation.py`) | the rows of five stages | one pass, no resume | partial failure |
| step scheduler (`services/step_scheduler.py`), Lob projector (`webhooks/lob_processor.py`) | step and membership status, scheduled jobs | completion hook, schedule next step, cancel | concurrent webhooks on the last members; runs that fire days later |
| channel campaigns and steps (`services/channel_campaigns.py`, `channel_campaign_steps.py`, `recipients.py`, `campaigns.py`) | statuses, what the step remembers of Lob | activate, pause, resume, archive, cancel, materialize | status checked in one transaction, written in another, provider calls in between |
| Lob adapter (`providers/lob/adapter.py`, `client.py`) | `external_provider_id`, `external_provider_metadata` | links, campaign, creative, audience, upload, file | resuming after a failure of any of them |
| customer webhooks (`services/customer_webhooks.py`, `routers/customer_webhooks.py`, `routers/internal/customer_webhooks.py`, `services/analytics.py`, `services/reconciliation/customer_webhook_deliveries.py`) | subscriptions, deliveries | fan-out, deliver, retry, dead-letter, sweep, pause | duplicate tasks, stale attempt counts, lost tasks |
| cluster 3 (`services/inbox_orchestrator.py`, `cluster3_dispatch.py`, `cluster3_recovery.py`, `eb_send.py`, `routers/admin/cluster3.py`) | `email_reply_classifications`, `lead_transfers` | classify a reply, dispatch one introduction, hold it for review, approve, reject, sweep | a cap counted before the row it counts; one unique index against webhook, backfill, sweep and operator at once; a send without an idempotency key |
| proposals and their activation (`services/proposals.py`, `routers/webhooks/stripe.py`, `services/customer_activation.py`, `gtm_initiatives.py`) | `proposals`, `partner_contracts`, `stripe_events`, `gtm_initiatives` | the prospect's funnel, checkout, the Stripe webhook, make and launch leg 2, the operator's launch | payment recorded in one transaction and acted on in many; redelivery; checkouts that replace each other |
| mail pieces (`services/print_mail_activation.py`, `routers/direct_mail.py`, `direct_mail/`) and Lob webhook intake (`routers/webhooks/lob.py`, `webhooks/lob_processor.py`) | `direct_mail_pieces`, `direct_mail_piece_events`, `suppressed_addresses`, `webhook_events` | gate, create, store; receive, project, replay | a return that races the next piece; events before their row, twice, out of order; a projection that stops half-way |
| EmailBison channel, Exa jobs, GTM pipeline, initiative materialization, voice, telephony, brand domains/Entri/Dub, scheduled tasks | a table or two each | request handlers, cron jobs | see the plan; `PROJECT.json` lists each with the reason it is not modelled |

How they interact: `POST /campaigns` and `schedule_next_step` create jobs and enqueue them;
Trigger.dev calls `process-job`, which runs the campaign pipeline or `activate_step`;
`activate_step` calls the Lob adapter and flips memberships; Lob's webhooks move memberships on
and, by the completion hook, complete the step and schedule the next; pausing and archiving
walk to the scheduled jobs and cancel them; every state change emits an analytics event, which
the customer webhooks fan out. Upstream of that, a proposal's payment makes and launches the
leg-2 initiative whose replies cluster 3 turns into lead transfers, counted against what the
proposal paid for; single mail pieces share the Lob webhook with the steps. Trigger.dev is shared by all of them and modelled by what it may
do: refuse a task, take it without its answer arriving, run it late, run it again.

What makes them correct, and where it is bitten: `PROJECT.json`, "hazards", and the section
"Smaller hazards" below.

## Modules

Each `Component.tla` has its variables, `TypeOK`, `Init`, one action per transaction or
provider call, `Next`, the specification and its properties; `MCComponent.tla` and
`MCComponent_<run>.cfg` instantiate it for TLC; `ComponentProofs.tla` proves about it. Operators
introduced by "A bug:" are the definitions the properties are tested with: each replaces the
definition after it, and some property must then fail. They are part of no specification.
`PROJECT.json`, "map" gives the lines each definition models.

| module | models | state | actors |
|---|---|---|---|
| `JobRow` | a row of `activation_jobs` and `transition_job` | | |
| `ActivationJobs` | the job life cycle | `jobs` the table; `runs` Trigger.dev's runs; `request`, `worker`, `cancel`, `sweep` where each actor is and what it read; `campaigns`, `activated` ghosts | requests with a key or the scheduler without one, overlapping executions of process-job, cancels, the sweep, time |
| `JobRegistry` | what `create_job` promises: one atomic registration per key | `holder`, `answer` | callers |
| `StepSequence` | a channel campaign and its steps | `campaign`, `steps`, `members`, `jobs`, `calls` (Trigger.dev's run of a job), `hook`, `activation`, `control`, `canceller` | Lob events, the hook, scheduled jobs, operators |
| `LobActivation` | one activation, call by call | `step`, `members`, `lob` (what exists at Lob), `activation`, `editor` | concurrent and retried activations, editors of the audience |
| `CustomerWebhooks` | outbound webhooks | `subs`, `deliveries`, `queue` (tasks waiting), `fanout`, `found` (the sweep's list), `worker`, `failed` observer | emitters, handlers, the sweep, the customer |
| `LeadTransfers` | cluster 3 | `replies` the classifications, `transfers` the rows, `call`, `found` (the sweep's list), `mailed` and `uncapped` observers | webhooks, operators and fire_intro (`Dispatchers`), sweeps |
| `Proposals` | one proposal, its payments and activations | `proposal`, `active` (the contract), `sessions` (Stripe's side), `stamps` (`stripe_events`), `initiatives`, `request`, `task`, `recorded` and `stopped` observers | requests on the token, webhook deliveries, operators |
| `Introductions` | what the rows of cluster 3 promise: one claim of a reply at a time, mailed, then delivered or given up; a held one only dismissed | `reply`, `status`, `mailed`, `answered` | |
| `PaidActivation` | what a payment promises: recorded, then one initiative, then that one launched, then linked | `paid`, `recorded`, `made`, `launched`, `linked` | |
| `MailPieces` | single pieces, Lob's events, suppression | `lob`, `reported` (the address in Lob's answer), `row`, `suppressed`, `stored` (`webhook_events`), `logged`, `creator`, `projector`, `past`, `late`, `replays`, `told` observers | requests, deliveries, replays |

An observer is written by the actions and read by properties only.

Composition: `ActivationJobs` INSTANCEs `JobRegistry` with a refinement mapping. `StepSequence`
has the scheduled jobs reduced to status, step and run, with one execution per job at a time
(`ActivationJobs` has the overlaps), and the adapter reduced to two actions, collecting the
audience and submitting it, with its three results. `LobActivation` has the calls, and
`LobActivationRefinement` says that they amount to that: it INSTANCEs `StepSequence` with one
step, nobody but operators at work, and a mapping under which the row's Lob campaign is
`linked`, a file with recipients is `mailed`, and a recipient outside the audience is a member
that is over. Every step of `LobActivation` is then an activation's in `StepSequence`, invisible
there, or an editor's replacement of the audience, which `StepSequence` takes as fixed
(`ActivatesAsStepSequence`). The attempt to write the mapping is what showed that the audience
must be collected and submitted in two actions: the members may change in between, and Lob may
have the file although the adapter returns `activating`. `Proposals` INSTANCEs `PaidActivation`
with the sessions Stripe has as `paid`, the initiatives with a row as `made`, those whose
tasks are scheduled as `launched` and the one the row names as `linked`; requests, stamps and tasks are
invisible there (`ImplementsPaidActivation`). `LeadTransfers` INSTANCEs `Introductions` with
the reply and the status of each row: calls, counts, attempts and the sweeps' lists are gone,
and what is left is the life of a row, which dispatches, sweeps and operators write, most of
them without a condition in the UPDATE (`ImplementsIntroductions`). Two consequences have a
theorem each and no run: a delivered row stays delivered, which the cap counts on, and an intro
that is held or was dismissed has not gone out. `StepSequence` and `MailPieces` model two halves of one
handler, `project_lob_event`: the writes to the member and the step, and the writes to the
piece, its log and the suppression list. `LeadTransfers` takes what `Proposals` sold as the
constant `PaidCount`, and whether the proposal reads `paid`, which is what makes it a cap, as free
at every count: a payment makes it so and a late checkout takes it back.

Abstractions that hold throughout:

- A timestamp is how it compares with the one threshold it is compared with.
- An error column is the reason it holds. Payloads, names and addresses are model values.
- A failed database call, an exception nobody catches and a restart have one action, which
  drops the call's local state (`AbortRequest`, `HookDies`, `ActivationDies`, `LoseHandler`...).
- No answer from Trigger.dev (an httpx timeout) is not a `TriggerEnqueueError`: no caller
  catches it, so it ends the call, with the run made or not.
- `LIMIT 200` and `LIMIT 100` of the sweeps are left out: a list is all rows that qualify.
- In `ActivationJobs` a campaign job can only fail or raise. `create_channel_campaign` refuses
  a direct-mail channel campaign without `design_id` (`channel_campaigns.py:127`) and the
  pipeline passes none, so stages 3 to 5 are not reached at this commit.
- In `StepSequence` a piece event may name any member of a mailed step. At this commit no code
  writes `recipient_id` on `direct_mail_pieces`; the rows that carry it come from elsewhere.
  Members are fixed: `LobActivation` has the changes of the audience.
- In `LeadTransfers` all replies are of one partner, contract and audience, since the cap is
  counted per partner and audience, and at most one proposal is that contract's
  (its count is NOT NULL and positive, `20260507T000600_proposals.sql:42`). While it does not read
  `paid` there is no cap (`cluster3_dispatch.py:438`). A row `deferred_capped` is left out: nothing reads it. The
  composer, its verdict and EmailBison are choices; the classifier may answer anew on every call.
- In `Proposals` what the prospect sees is left out, `expired` and `cancelled` are written by no
  code, and making the legs' campaigns and steps is one action between two crash points
  (`BuildLegs`): nothing else reads them before the launch.
- In `MailPieces` an address is the hash of a spelling of it, and complete (`insert_suppression`
  refuses a partial one). The gate hashes what the caller wrote (`To`), a return suppresses what
  Lob reports (`lob_processor.py:209`), which `MakeAtLob` chooses freely when it makes the piece:
  the same hash, another spelling's, or one no caller uses. Every event names a piece, `returned`
  stands for each kind of `SUPPRESSION_TRIGGERS` and `in_transit` for each other, and pieces name
  no Lob campaign, so there is no step to fall back to. The cancel route of
  `routers/direct_mail.py` is left out.
- Trigger.dev's task definitions (`dmaas.process_activation_job`, `customer_webhook.deliver`)
  are not in the repository; what their runs do is marked external, with the retries of
  `trigger.config.ts` (`maxAttempts: 3`).

## Runs

| run | asks | bounds | distinct states |
|---|---|---|---|
| `jobs_safety` | `TypeOK`, `SucceededMeansActivated`, `SettledJobsStaySettled`, `NoRunOnceStored` | one job and key, two requests, two run ids, two executions, one cancel, two attempts | 3.0 million |
| `jobs_keys` | `SameKeySameJob`, `ImplementsRegistry`, `NoStuckRunning` | two jobs, two requests, one run | 623 thousand |
| `steps_safety` | `TypeOK`, `SentStepsAreComplete`, `ScheduledAfterCompletion` | two steps, two members and one, two hooks, one operator, one job | 4.9 million |
| `steps_control` | `EndedStaysEnded`, `CancelledJobsStayOff` | two steps of one member, a hook, an operator, activate, pause, resume and archive, cancel of step 1 | 5.4 million |
| `lob_safety` | `TypeOK`, `ScheduledHasItsFile`, `OneCampaign`, `ScheduledIsNotMailedAgain`, `ActivatesAsStepSequence` | two recipients, two activations, one editor, two campaigns and uploads, one creative | 497 thousand |
| `webhooks` | `TypeOK`, `GivenUpAfterEveryAttempt`, `FailingIsEarned`, `SettledDeliveriesStaySettled`, `PendingIsSettled` | a subscription, a delivery, two handlers, 3 attempts, threshold 2, one waiting task, one loss, one manual retry | 147 thousand |
| `transfers_safety` | `TypeOK`, `SentMeansMailed`, `MailedAgainOnlyAfterFailure`, `OverrunBoundedByConcurrency`, `ImplementsIntroductions` | two replies, two rows, two calls and a sweep, a cap of 1 that may be absent at any count, one recovery attempt | 2.9 million |
| `transfers_settle` | `QueuedIsSettled` | one reply, two rows, two calls and a sweep, a cap of 2 that may be absent, two recovery attempts | 661 thousand |
| `proposals_safety` | `TypeOK`, `OneActivationPerSession`, `ActivationIsPaidFor`, `CheckoutsAreNotDismissed`, `LinkedIsLaunched`, `CheckoutsAreFollowedUp`, `OnlyANewCheckoutReopens`, `ImplementsPaidActivation` | two sessions, initiatives, requests and deliveries, one operator | 420 thousand |
| `pieces_safety` | `TypeOK`, `LateMailIsBounded`, `ReturnedIsSuppressed`, `DuplicatesAreNotLogged` | one piece with its two events, two spellings of its address, two requests, two deliveries, one replay | 3.1 million |

Why the bounds are enough: a lost update needs two actors on one row, and each run has two of
the actors that race; every retry loop goes round at least twice (`MaxAttempts` 2 and 3);
a second job, campaign or upload id is there wherever a duplicate would be the failure. The
proofs below then hold for every bound. The bounds that are not sizes of sets are `MaxAttempts`
(a parameter of the code), `TaskBound` (waiting tasks of a delivery beyond it are not told
apart), `PaidCount` and `MaxRecoverAttempts` (parameters of the code), `ReplayBound`, `LossBound` and `RefireBound` (how often a handler is lost or a delivery re-fired; both
cost liveness nothing, as a finite number of them). `CHECK_DEADLOCK FALSE` is set where the system may stop:
every step ended, or every id used up. Symmetry is used in runs without liveness only.

Two runs end in a counterexample. Each checks what a comment or docstring says, and the
trace is what the code does:

| run | property | the document | what happens |
|---|---|---|---|
| `lob_uploads` | `ScheduledWasUploaded` | `adapter.py:229` | `activate_step` flips the members after a result of `activating` too, and the retry then finds an empty audience |
| `transfers_retry` | `RetryIsNotItsOwnObstacle` | `cluster3_recovery.py:13` | the stuck row stays `queued` while the sweep dispatches its reply again, so the unique index refuses the retry's row and the dispatch answers `already_sent`; after three of those the row is given up |

Six more places where the code and its documents part were met while modelling. The models
behave as the code does, and no run is spent on them:

- `dmaas_campaigns.py:134`: a replay of a key before `trigger_run_id` is stored does start a
  second run (`ActivationJobs`; `NoRunOnceStored` and `SettledJobsStaySettled` hold with it). Of two
  requests that both enqueued, the one that stores its run last may have enqueued first, so the
  id that stays is one of the job's runs and not always the last.
- `dmaas_campaign_activation.py:20`: the pipeline's own exception is re-raised, the sweep fails
  the job as stale, and the campaign row it committed is named nowhere.
- `step_scheduler.py:25`: two hooks that both looked first create two scheduled jobs
  (`StepSequence`, with one job id left per hook).
- `customer_webhooks.py:235`: failures recorded while paused make a subscription
  `delivery_failing`, a success makes that `active`, so a deleted one receives events again.
- `analytics.py:169`: a timeout of one enqueue ends the fan-out, and the later matches get no row.
- `proposals.py:397`: "the webhook handler reconciles `payment_intent.succeeded` events", but it
  archives them, stamps them as processed without error and does nothing else
  (`routers/webhooks/stripe.py:108`): a payment by the embedded form leaves its proposal unpaid.
  The properties of `Proposals` speak of the payments of Checkout sessions only.

What the passing properties leave out, because the code does it: `EndedStaysEnded` speaks of a
step no activation is at work on (the UPDATE that ends `activate_step` has no condition and
overwrites a cancel or an archive); `CancelledJobsStayOff` of a job whose creator has made its
last write (`PersistScheduledRun` writes `queued` over a cancel); `SettledDeliveriesStaySettled`
of a delivery no handler holds (a stale failure overwrites a success); `NoStuckRunning` of
jobs that are not `queued` (a job whose enqueue got no answer stays queued, and no sweep looks);
`QueuedIsSettled` of replies that still read positive and unanswered (the sweep's query leaves
out the others, and their rows stay queued); `MailedAgainOnlyAfterFailure` lets a row that was
given up be mailed again, because a crash or a lost answer after the send is all it takes, and
does not see the client repeat the POST of one row (`mailed` is a set of rows);
`OverrunBoundedByConcurrency` bounds what calls that found a cap add, and nothing bounds what is
dispatched while no proposal reads `paid`; `LateMailIsBounded` speaks of the address that is on
the list, so mail to a spelling of it that hashes differently is not stopped and not bounded;
`NoRunOnceStored` of a job with its run id stored and no request about to enqueue it;
`GivenUpAfterEveryAttempt` counts failures from the insertion on, so it says nothing of what
becomes of a delivery that a manual retry re-arms after it was given up;
`OnlyANewCheckoutReopens` lets a late checkout take a paid proposal back; `CheckoutsAreFollowedUp`
excuses a payment whose first delivery failed half-way: the next one stamps it as processed, and
it leaves the list of errors that `stripe.py:23` sends operators to; `ReturnedIsSuppressed`
excuses an event whose replay told the operator that the piece was not found, and was marked
processed all the same.

## Fairness

- `ActivationJobs!FairSpec`: the cron keeps calling the sweep, which finishes (WF of
  `SweepStep`), and time passes (WF of the two ageing actions). Nothing is assumed of requests,
  Trigger.dev or the handlers: the property is that the sweep alone gets every job.
- `CustomerWebhooks!Fairness`: time passes and the sweep runs (WF); Trigger.dev, which may
  refuse or not answer any one call, takes a task if asked for ever and runs a task it took (SF
  of `EnqueueDue` and `StartDeliver`, since a refusal or another handler disables them in
  between); a handler does not hang (WF: its POST has a timeout of 10 seconds). It needs
  `DMAAS_RECONCILE_CUSTOMER_WEBHOOKS_ENABLED`, which is on by default.
- `LeadTransfers!Fairness`: time passes, the schedule keeps calling the sweep, and what the sweep
  starts ends, by finishing or by dying (WF); no candidate is for ever the one that a restart
  drops (SF of `Abandon` and `Retry`, which a restart or another caller disables in between).
  Webhooks, operators and EmailBison owe nothing: the sweep alone settles the row.
- `Proposals` and `MailPieces` state safety only: Stripe is answered 200 after a failure and Lob
  is answered `duplicate_ignored` after a crash, so only an operator resumes either, and no
  fairness can be assumed of operators.
- `StepSequence` and `LobActivation` state safety only. The sequence has no liveness to state:
  a crash between the write of `sent` and `schedule_next_step` ends it, and nothing resumes it.

## Proofs

TLAPS checks these for every value of the constants, under each module's one named assumption
(`JobRowAssumption`, `ActivationJobsAssumption`, `StepSequenceAssumption`,
`LobActivationAssumption`, `CustomerWebhooksAssumption`, `LeadTransfersAssumption`,
`ProposalsAssumption`, `MailPiecesAssumption`: the null values are no ids, different actors have
different names, the sets that are counted are finite, the limits are natural numbers or
positive, every step has a member). Each proof module names an inductive `IInv`, shows that `Init`
establishes it and that each action keeps it, one lemma or step per action, and concludes.

| module | theorems | the strengthening |
|---|---|---|
| `ActivationJobsProofs` | `TypeCorrect`, `OneJobPerKey`, `SuccessIsReal`, `NoRunIsAdded`, `SettledForGood` | `SameKeySameJob` is not inductive: a request holds a job by id, so the invariant adds that the job it holds has its key and that two rows never share one; an execution at `succeed` has its job among the activated. The two action properties need a second invariant, `UnusedRunsAreFree` (a run that Trigger.dev has not handed out is of no job), and a frame per actor: which rows it may write and whose calls it may start (`WorkerKept`, `CancelKept`, `SweepKept`, `CallKept`) |
| `ActivationJobsRefinement` | `Refinement`: `Spec => ImplementsRegistry` | from `IInv`: the lookup and the second lookup are `Repeat`, the INSERT is `Register` or `RegisterUnkeyed`, everything else stutters |
| `StepSequenceProofs` | `TypeCorrect`, `SentMeansComplete`, `NotScheduledEarly`, `EndedForGood`, `CancelledIsOff` | what a hook that counted found stays true: members never leave their end (`MembersKeepTheirEnd`), so its step is still complete when it writes `sent` or inserts the job; jobs keep their step, so what later calls write to is there. An ended step is kept by showing of each actor that its step either leaves the row alone or writes one of the ends (`RowKept`, `PlaceKept`), and that `Activatable` lets nobody in |
| `LobActivationProofs` | `TypeCorrect`, `OneCampaignPerStep`, `ScheduledIsReal`, `NotMailedAgain`, `ImplementsStepSequence` | the row and every call's copy of it name only objects that Lob has (`NamesWhatExists`), there is one campaign to name (`SameCampaign`), and a call that is about to finish as scheduled put its list into the upload it names. The implementation of `StepSequence` needs one more (`ResultsFit`): a call with a result has a campaign if and only if it did not fail, so that the row it writes is linked just when `StepSequence` says so; then one lemma per stage of the call maps its steps |
| `CustomerWebhooksProofs` | `TypeCorrect`, `NoneGivenUpEarly`, `FailingOnlyWhenEarned`, `SettledForGood` | `CountsAreEarned`: in every row, and in the copy every handler read, the attempt is at most one more than the failures recorded, so a count that a stale write sets back can only delay the end |
| `LeadTransfersProofs` | `TypeCorrect`, `SentIsMailed`, `SecondIntroNeedsAFailure`, `OverrunIsBounded`, `HeldStaysIn`, `DeliveredStays`, `RowsKeepTheirLife` | a call holds its row by id, and the row may be abandoned under it: the invariant says which status a row can have while a call is about to send or mark it (`CallersHoldRows`, `RowsHaveOneSender`) and that the index really keeps one active row per reply (`OneActiveRow`). The overrun is a count of two sets, what was delivered under a cap (`Counted`) and the calls that may add to it; no step but `BelowCap` of a call that finds a cap raises their sum, and it only below the cap. A call that finds none is in neither, and neither is its row. The implementation of `Introductions` is from the same invariant: it says which status each writer can find, so that an UPDATE without a condition is still a move the row may make |
| `ProposalsProofs` | `TypeCorrect`, `PaymentActivatesOnce`, `ActivationsArePaidFor`, `NoCheckoutDismissed`, `CheckoutsFollowedUp`, `LinkedAreLaunched`, `OnlyCheckoutsReopen`, `PaymentsKeepTheirPromise` | a session belongs to one request or to the row, never to two (`SessionsHaveOneOwner`), a paid row names a recorded session (`PaidIsRecorded`), and one call at most makes the initiative of a session (`OneMaker`); from these a second `MarkPaid` of one session is impossible although a late checkout may reopen the proposal. The implementation of `PaidActivation` adds that nothing is scheduled of an initiative before its row is made (`AbsentUnscheduled`), and maps the steps of the funnel, of the webhook and of the launch in one lemma each |
| `MailPiecesProofs` | `TypeCorrect`, `LateMailBounded`, `ReturnedSuppressed`, `LoggedOnce` | events are of pieces that Lob made, whose address it reported (`EventsAreOfPieces`), and a projection that is about to mark a return as applied has seen that address suppressed; for each address on the list, the late pieces and the requests that may still add one are counted against `past`, which no later step changes, and no request that passes the gate afterwards is of that address; every log entry is the first projection's or is owed to a replay (`LogsAreAccountedFor`, a count of projections under way) |

Only model-checked: the liveness properties `NoStuckRunning`, `PendingIsSettled` and
`QueuedIsSettled` (liveness under fairness and ENABLED are beyond the prover). Every invariant and every action
property of a passing run has its theorem.
No module here declares a RECURSIVE operator, which would cost the prover its SMT backend.

## Smaller hazards

`PROJECT.json` lists the hazards the properties are for. These were found in the same reading;
they are variants of those, take no interleaving to see, or bite in parts not modelled yet.

- `routers/internal/dmaas_jobs.py:74`: Trigger.dev retries an attempt whose answer was lost
  while the first handler still runs; the check for a terminal job is all that stops a finished
  one from running again.
- `services/dmaas_campaign_activation.py:115`: Every attempt commits a campaign row and then
  raises at the second stage; the rows it leaves are not named by the job.
- `services/channel_campaign_steps.py:377`: A late job, a retried one and an operator's call all
  try to activate a step that has ended meanwhile.
- `services/step_scheduler.py:195`: The write of the run id sets status queued over a cancel
  that came between the enqueue and it, and the cancelled job runs.
- `services/step_scheduler.py:339`: A crash between the write of sent and schedule_next_step
  ends the sequence: the next event finds the step terminal and returns.
- `services/step_scheduler.py:340`: A refused enqueue fails the job and the comment says the
  reconciliation cron picks it up, but the cron only dead-letters failed jobs, and nothing
  schedules the step again.
- `services/step_scheduler.py:308`: An archived step is not among the statuses that stop the
  hook: a late piece event turns it into sent and schedules the next step.
- `webhooks/lob_processor.py:137`: Two events of one member both read it as open; the later
  write wins, so failed may replace sent.
- `services/campaigns.py:262`: Archiving the parent campaign writes only the channel campaign's
  row: steps and queued jobs go on.
- `services/channel_campaign_steps.py:377`: Two activations of one step read it before either
  writes; both walk through Lob's calls.
- `providers/lob/adapter.py:562`: create_upload sends no idempotency key and the client retries
  it, so uploads without a file pile up at Lob, and two activations may each submit the
  audience.
- `providers/lob/adapter.py:537`: A result for an empty or rejected audience leaves out
  lob_upload_id, so the row forgets an upload that exists.
- `routers/customer_webhooks.py:200`: A manual retry re-arms a row of any status, also one a
  handler is at work on, whose stale attempt may then give it up at once.
- `services/reconciliation/customer_webhook_deliveries.py:27`: The sweep takes at most 100 due
  rows per tick and an httpx error ends the tick.
- `webhooks/emailbison_processor.py:413`: Email memberships are moved but the completion hook is
  never called, so an email step never completes.
- `services/cluster3_dispatch.py:200`: The webhook, the backfill, the sweep and an operator
  dispatch one reply at once; only the unique index tells them apart.
- `routers/admin/cluster3.py:158`: A crash between the cancel of an approved row and its new
  dispatch leaves a reply with nothing held, nothing queued and nobody to come back to it.
- `routers/admin/cluster3.py:171`: A rejected intro frees the reply's place in the index: the
  next event of the thread dispatches it again and may mail it.
- `services/cluster3_recovery.py:114`: A reply classified anew as not positive keeps its queued
  row: the sweep's query skips it, and the row blocks the reply for good.
- `services/cluster3_reconciliation.py:138`: The backfilled event is committed before the reply
  is classified; a crash in between makes the next pass count it as already processed.
- `services/customer_activation.py:983`: fire_intro reads and stamps the reply without a
  lead_transfers row: it races the dispatcher, and its intros count against no cap.
- `services/cluster3_dispatch.py:703`: _park_pending_review lets the unique violation of a
  concurrent dispatch out as an exception, where the queued path answers already_sent.
- `services/cluster3_dispatch.py:410`: The cap is looked up by status = 'paid': a proposal that
  a late checkout took back leaves its contract uncapped (`LeadTransfers` has it, no property bounds it).
- `services/gtm_initiatives.py:236`: transition_status checks the edge on a row it read and
  updates without a condition: two launches both pass.
- `services/proposals.py:311`: set_proposal_audience reads the status in one transaction and
  writes the audience in another: the audience of a paid proposal changes.
- `services/proposals.py:355`: create_checkout_session sends no idempotency key: a retried
  request leaves sessions at Stripe that the row does not name.
- `routers/webhooks/stripe.py:117`: Every failure is answered with 200, so Stripe does not
  retry; nothing in the code retries an event with processing_error.
- `routers/webhooks/lob.py:344`: A replay that is orphaned again is marked processed, against
  lob_processor.py:18 ("rather than silent skip so operators can dashboard them").
- `routers/webhooks/lob.py:109`: A slow delivery writes orphaned or dead_letter over the
  processed of a replay that overtook it.
- `direct_mail/persistence.py:253`: Events out of order move a piece back: returned, then in
  transit.
- `direct_mail/persistence.py:114`: A second batch with the same seeds upserts the status of
  Lob's answer over a row that had gone further, against print_mail_activation.py:81 ("a safe
  no-op").
- `direct_mail/addresses.py:184`: A piece to an address saved at Lob is checked against nothing.
- `webhooks/lob_processor.py:293`: A failed or deleted event of one piece that has no row falls
  through to the step, whose status becomes failed or cancelled.
- `routers/internal/voice_callbacks.py:81`: Reminders are selected, sent and stamped in three
  steps: two ticks send one reminder twice.
- `routers/internal/voice_callbacks.py:265`: A tick claims callbacks as processing and dies: no
  query selects processing again.

## Plan

In this order; the first eight are done.

1. `ActivationJobs`, `JobRow`, `JobRegistry`: every later component runs on the job row.
2. `StepSequence`: the core of the product, what is mailed to whom and when.
3. `LobActivation`: the activation that `StepSequence` takes as two actions.
4. `CustomerWebhooks`.
5. `LeadTransfers`: what the product sells, counted and capped.
6. `Proposals`: the payment that starts it.
7. `MailPieces`: Lob's webhook, its replay and the suppression list.
8. Proofs of the action properties of `ActivationJobs` and `StepSequence`, of `LobActivation` as
   an implementation of `StepSequence`'s activations, of `Proposals` as one of `PaidActivation` and
   of `LeadTransfers` as one of `Introductions`.
9. An abstract `Mailing` (each member is mailed at most once, and only while its step is open)
   that `LobActivation` implements as far as it does, with the two uploads of concurrent
   activations as the exception to state.
10. `VoiceCallbacks` (`routers/internal/voice_callbacks.py`: claim, call, mark; reminders), `StepLinks`
   (`dmaas/step_link_minting.py`), `ExaJobs`, `VoiceRetry`, `EmailStep`: the other tables with a
   life cycle of their own.

Not modelled, and not planned: the design solver (`dmaas/solver.py`, real arithmetic), auth and
MCP, listings and analytics queries, landing pages, LLM prompts, signing and secrets.
