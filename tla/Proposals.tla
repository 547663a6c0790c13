----------------------------- MODULE Proposals -----------------------------
(***************************************************************************)
(* One proposal from the prospect's first visit to the activation its      *)
(* payment starts.  Requests on the public token and the operator move the *)
(* row (services/proposals.py, routers/admin/proposals.py); Stripe takes   *)
(* the money and delivers the event, at least once                         *)
(* (routers/webhooks/stripe.py); the handler records the payment and then, *)
(* over many transactions, makes and launches the Leg-2 initiative         *)
(* (customer_activation.py), which the operator may launch as well.        *)
(* Rows of other proposals never meet these.  The payments meant are those *)
(* of Checkout sessions: a payment intent of the embedded form may be paid *)
(* as well, but its event is archived and stamped without error, and       *)
(* nothing is recorded of it (stripe.py:108).                              *)
(***************************************************************************)
EXTENDS Naturals

CONSTANTS Sessions, NoSession,         \* Stripe Checkout sessions of the proposal
          Initiatives, NoInitiative,   \* gtm_initiatives rows of leg 2
          Requests,                    \* concurrent requests on the public token
          Handlers,                    \* concurrent deliveries to /webhooks/stripe
          Operators                    \* concurrent launches by operators

Launchers == Handlers \cup Operators

ASSUME ProposalsAssumption ==
  /\ NoSession \notin Sessions /\ NoInitiative \notin Initiatives
  /\ Handlers \cap Operators = {}

VARIABLES proposal,      \* the proposals row
          active,        \* is its partner contract active
          sessions,      \* Stripe's side of each session
          stamps,        \* stripe_events: how far the Checkout event of a session's payment got
          initiatives,   \* the initiatives made for this proposal's payments
          request, task, \* where each request, each handler and each launch is
          recorded,      \* observer: the sessions whose payment was written down
          stopped        \* observer: those a delivery then left without a launch

vars == <<proposal, active, sessions, stamps, initiatives, request, task, recorded, stopped>>

\* expired and cancelled are refused by the guards and written by no code here.
Rank == [draft |-> 1, sent |-> 2, viewed |-> 3, audience_confirmed |-> 4,
         checkout_initiated |-> 5, paid |-> 6]
Statuses == DOMAIN Rank

\* created: the row exists, its campaign and steps do not yet all exist.
Initiative == [status : {"absent", "created", "draft", "active"},
               session : Sessions \cup {NoSession}, scheduled : BOOLEAN]
IdleRequest == [pc |-> "idle", session |-> NoSession]
IdleTask == [pc |-> "idle", session |-> NoSession, initiative |-> NoInitiative]
TaskPCs == {"idle", "mark", "create", "build", "launch", "transition", "schedule",
            "link", "stamp", "report"}

\* Rows, sessions and every caller's state have their types.
TypeOK ==
  /\ proposal \in [status : Statuses, session : Sessions \cup {NoSession},
                   leg2 : Initiatives \cup {NoInitiative}]
  /\ active \in BOOLEAN
  /\ sessions \in [Sessions -> {"unused", "minted", "open", "paid"}]
  /\ stamps \in [Sessions -> {"none", "received", "ok", "error"}]
  /\ initiatives \in [Initiatives -> Initiative]
  /\ request \in [Requests -> [pc : {"idle", "checkout", "intent", "audience"},
                               session : Sessions \cup {NoSession}]]
  /\ task \in [Launchers -> [pc : TaskPCs, session : Sessions \cup {NoSession},
                             initiative : Initiatives \cup {NoInitiative}]]
  /\ recorded \subseteq Sessions /\ stopped \subseteq Sessions

\* create_proposal: the contract is a draft, nothing has been paid.
Init ==
  /\ proposal = [status |-> "draft", session |-> NoSession, leg2 |-> NoInitiative]
  /\ active = FALSE
  /\ sessions = [s \in Sessions |-> "unused"]
  /\ stamps = [s \in Sessions |-> "none"]
  /\ initiatives = [i \in Initiatives |->
                      [status |-> "absent", session |-> NoSession, scheduled |-> FALSE]]
  /\ request = [r \in Requests |-> IdleRequest]
  /\ task = [x \in Launchers |-> IdleTask]
  /\ recorded = {} /\ stopped = {}

\* CASE WHEN status is an earlier one THEN status ELSE its own END.
Advance(status) ==
  proposal' = IF Rank[proposal.status] < Rank[status]
              THEN [proposal EXCEPT !.status = status] ELSE proposal

-----------------------------------------------------------------------------
(***************************************************************************)
(* The funnel up to the payment.                                           *)
(***************************************************************************)
MarkSent ==
  /\ Advance("sent")
  /\ UNCHANGED <<active, sessions, stamps, initiatives, request, task, recorded, stopped>>

View ==
  /\ Advance("viewed")
  /\ UNCHANGED <<active, sessions, stamps, initiatives, request, task, recorded, stopped>>

\* The guards of the three requests read in a transaction of their own.
StartAudience(r) ==
  /\ request[r] = IdleRequest
  /\ proposal.status \notin {"checkout_initiated", "paid"}
  /\ request' = [request EXCEPT ![r].pc = "audience"]
  /\ UNCHANGED <<proposal, active, sessions, stamps, initiatives, task, recorded, stopped>>

\* A bug: the status is set whatever it has become.
StoreAudienceAnyway(r) ==
  /\ request[r].pc = "audience"
  /\ proposal' = [proposal EXCEPT !.status = "audience_confirmed"]
  /\ request' = [request EXCEPT ![r] = IdleRequest]
  /\ UNCHANGED <<active, sessions, stamps, initiatives, task, recorded, stopped>>

\* Which audience is not told apart here.
StoreAudience(r) ==
  /\ request[r].pc = "audience"
  /\ Advance("audience_confirmed")
  /\ request' = [request EXCEPT ![r] = IdleRequest]
  /\ UNCHANGED <<active, sessions, stamps, initiatives, task, recorded, stopped>>

StartIntent(r) ==
  /\ request[r] = IdleRequest /\ proposal.status # "paid"
  /\ request' = [request EXCEPT ![r].pc = "intent"]
  /\ UNCHANGED <<proposal, active, sessions, stamps, initiatives, task, recorded, stopped>>

\* The intent's id is written and never read; its events are archived, not handled.
StoreIntent(r) ==
  /\ request[r].pc = "intent"
  /\ Advance("checkout_initiated")
  /\ request' = [request EXCEPT ![r] = IdleRequest]
  /\ UNCHANGED <<active, sessions, stamps, initiatives, task, recorded, stopped>>

\* initiate_checkout up to Stripe's answer.
StartCheckout(r, s) ==
  /\ request[r] = IdleRequest /\ proposal.status # "paid"
  /\ sessions[s] = "unused"
  /\ sessions' = [sessions EXCEPT ![s] = "minted"]
  /\ request' = [request EXCEPT ![r] = [pc |-> "checkout", session |-> s]]
  /\ UNCHANGED <<proposal, active, stamps, initiatives, task, recorded, stopped>>

\* A bug: the status is kept as initiate_payment_intent keeps it.
StoreCheckoutKeepingPaid(r) ==
  /\ request[r].pc = "checkout"
  /\ proposal' = [proposal EXCEPT !.session = request[r].session,
                                  !.status = IF @ = "paid" THEN @ ELSE "checkout_initiated"]
  /\ sessions' = [sessions EXCEPT ![request[r].session] = "open"]
  /\ request' = [request EXCEPT ![r] = IdleRequest]
  /\ UNCHANGED <<active, stamps, initiatives, task, recorded, stopped>>

\* The UPDATE has no condition; only then does the prospect get the session's URL.
StoreCheckout(r) ==
  /\ request[r].pc = "checkout"
  /\ proposal' = [proposal EXCEPT !.session = request[r].session,
                                  !.status = "checkout_initiated"]
  /\ sessions' = [sessions EXCEPT ![request[r].session] = "open"]
  /\ request' = [request EXCEPT ![r] = IdleRequest]
  /\ UNCHANGED <<active, stamps, initiatives, task, recorded, stopped>>

\* Stripe or the database answers with an error, or the process restarts.
RequestDies(r) ==
  /\ request[r] # IdleRequest
  /\ request' = [request EXCEPT ![r] = IdleRequest]
  /\ UNCHANGED <<proposal, active, sessions, stamps, initiatives, task, recorded, stopped>>

\* The prospect may pay an earlier session he still has open.
Pay(s) ==
  /\ sessions[s] = "open"
  /\ sessions' = [sessions EXCEPT ![s] = "paid"]
  /\ UNCHANGED <<proposal, active, stamps, initiatives, request, task, recorded, stopped>>

-----------------------------------------------------------------------------
(***************************************************************************)
(* stripe_webhook, for the event that says a session is paid.  Stripe      *)
(* sends it until it is answered, and may send it again.                   *)
(***************************************************************************)
Step(x, pc) == task' = [task EXCEPT ![x].pc = pc]
\* What a delivery does between recording a payment and naming its initiative.
Activating == {"create", "build", "launch", "transition", "schedule", "link"}
GiveUp(x) ==
  stopped' = IF x \in Handlers /\ task[x].pc \in Activating
             THEN stopped \cup {task[x].session} ELSE stopped
Received(s) == stamps' = [stamps EXCEPT ![s] = IF @ = "none" THEN "received" ELSE @]

\* A bug: payment_status is not looked at; an ACH checkout completes unpaid.
StartWebhookUnpaid(h, s) ==
  /\ task[h] = IdleTask /\ sessions[s] \in {"open", "paid"}
  /\ Received(s)
  /\ task' = [task EXCEPT ![h] = [pc |-> "mark", session |-> s, initiative |-> NoInitiative]]
  /\ UNCHANGED <<proposal, active, sessions, initiatives, request, recorded, stopped>>

\* _archive_event; a replay goes on like the first delivery.
StartWebhook(h, s) ==
  /\ task[h] = IdleTask /\ sessions[s] = "paid"
  /\ Received(s)
  /\ task' = [task EXCEPT ![h] = [pc |-> "mark", session |-> s, initiative |-> NoInitiative]]
  /\ UNCHANGED <<proposal, active, sessions, initiatives, request, recorded, stopped>>

\* A bug: the status guard that stops a replay is gone.
MarkPaidAgain(h) ==
  /\ task[h].pc = "mark" /\ proposal.session = task[h].session
  /\ proposal' = [proposal EXCEPT !.status = "paid"]
  /\ active' = TRUE
  /\ recorded' = recorded \cup {task[h].session}
  /\ Step(h, "create")
  /\ UNCHANGED <<sessions, stamps, initiatives, request, stopped>>

\* mark_paid_and_instantiate's first transaction, the row locked by its session.
MarkPaid(h) ==
  /\ task[h].pc = "mark" /\ proposal.session = task[h].session
  /\ proposal.status # "paid"
  /\ proposal' = [proposal EXCEPT !.status = "paid"]
  /\ active' = TRUE
  /\ recorded' = recorded \cup {task[h].session}
  /\ Step(h, "create")
  /\ UNCHANGED <<sessions, stamps, initiatives, request, stopped>>

AlreadyPaid(h) ==
  /\ task[h].pc = "mark" /\ proposal.session = task[h].session
  /\ proposal.status = "paid"
  /\ Step(h, "stamp")
  /\ UNCHANGED <<proposal, active, sessions, stamps, initiatives, request, recorded, stopped>>

\* ProposalNotFound: a later checkout has replaced the session.
SessionReplaced(h) ==
  /\ task[h].pc = "mark" /\ proposal.session # task[h].session
  /\ Step(h, "report")
  /\ UNCHANGED <<proposal, active, sessions, stamps, initiatives, request, recorded, stopped>>

\* instantiate_for_payment: the initiative's row ...
CreateLeg2(h, i) ==
  /\ task[h].pc = "create" /\ initiatives[i].status = "absent"
  /\ initiatives' = [initiatives EXCEPT ![i] =
                       [status |-> "created", session |-> task[h].session, scheduled |-> FALSE]]
  /\ task' = [task EXCEPT ![h] = [@ EXCEPT !.pc = "build", !.initiative = i]]
  /\ UNCHANGED <<proposal, active, sessions, stamps, request, recorded, stopped>>

\* ... its campaign, leg 3 and its campaign, and the steps of both ...
BuildLegs(h) ==
  /\ task[h].pc = "build"
  /\ initiatives' = [initiatives EXCEPT ![task[h].initiative].status = "draft"]
  /\ Step(h, "launch")
  /\ UNCHANGED <<proposal, active, sessions, stamps, request, recorded, stopped>>

\* A bug: an initiative that is no draft any more counts as launched.
CheckDraftLeniently(h) ==
  /\ task[h].pc = "launch"
  /\ Step(h, IF initiatives[task[h].initiative].status = "draft" THEN "transition" ELSE "link")
  /\ UNCHANGED <<proposal, active, sessions, stamps, initiatives, request, recorded, stopped>>

\* ... and launch_leg2, which refuses what is no draft any more.
CheckDraft(h) ==
  /\ task[h].pc = "launch"
  /\ IF initiatives[task[h].initiative].status = "draft"
     THEN Step(h, "transition") /\ UNCHANGED stopped
     ELSE Step(h, "report") /\ GiveUp(h)
  /\ UNCHANGED <<proposal, active, sessions, stamps, initiatives, request, recorded>>

\* The operator's launch reads the same way, and ends where it is refused.
StartLaunch(o, i) ==
  /\ task[o] = IdleTask /\ initiatives[i].status = "draft"
  /\ task' = [task EXCEPT ![o] = [pc |-> "transition", session |-> NoSession, initiative |-> i]]
  /\ UNCHANGED <<proposal, active, sessions, stamps, initiatives, request, recorded, stopped>>

\* A bug: a delivery names the initiative before its campaign is scheduled.
TransitionAndLink(x) ==
  /\ task[x].pc = "transition"
  /\ initiatives' = [initiatives EXCEPT ![task[x].initiative].status = "active"]
  /\ Step(x, IF x \in Handlers THEN "link" ELSE "schedule")
  /\ UNCHANGED <<proposal, active, sessions, stamps, request, recorded, stopped>>

\* transition_status: the UPDATE does not repeat the check.
Transition(x) ==
  /\ task[x].pc = "transition"
  /\ initiatives' = [initiatives EXCEPT ![task[x].initiative].status = "active"]
  /\ Step(x, "schedule")
  /\ UNCHANGED <<proposal, active, sessions, stamps, request, recorded, stopped>>

\* The campaign becomes active, its channel campaign scheduled.
Schedule(x) ==
  /\ task[x].pc = "schedule"
  /\ initiatives' = [initiatives EXCEPT ![task[x].initiative].scheduled = TRUE]
  /\ task' = [task EXCEPT ![x] = IF x \in Handlers THEN [@ EXCEPT !.pc = "link"] ELSE IdleTask]
  /\ UNCHANGED <<proposal, active, sessions, stamps, request, recorded, stopped>>

LinkLeg2(h) ==
  /\ task[h].pc = "link"
  /\ proposal' = [proposal EXCEPT !.leg2 = task[h].initiative]
  /\ Step(h, "stamp")
  /\ UNCHANGED <<active, sessions, stamps, initiatives, request, recorded, stopped>>

\* A bug: an error is stamped by its text, where the types keep a verdict.
StampProcessedRaw(h) ==
  /\ task[h].pc \in {"stamp", "report"}
  /\ stamps' = [stamps EXCEPT ![task[h].session] =
                  IF task[h].pc = "stamp" THEN "ok" ELSE "processing_error"]
  /\ task' = [task EXCEPT ![h] = IdleTask]
  /\ UNCHANGED <<proposal, active, sessions, initiatives, request, recorded, stopped>>

\* _stamp_processed and the answer 200, with or without an error.
StampProcessed(h) ==
  /\ task[h].pc \in {"stamp", "report"}
  /\ stamps' = [stamps EXCEPT ![task[h].session] =
                  IF task[h].pc = "stamp" THEN "ok" ELSE "error"]
  /\ task' = [task EXCEPT ![h] = IdleTask]
  /\ UNCHANGED <<proposal, active, sessions, initiatives, request, recorded, stopped>>

\* Any exception on the way: no template, a database error.
HandlerFails(h) ==
  /\ task[h].pc \notin {"idle", "report"}
  /\ Step(h, "report") /\ GiveUp(h)
  /\ UNCHANGED <<proposal, active, sessions, stamps, initiatives, request, recorded>>

\* A restart; for an operator's launch, an error as well.
TaskDies(x) ==
  /\ task[x] # IdleTask
  /\ task' = [task EXCEPT ![x] = IdleTask] /\ GiveUp(x)
  /\ UNCHANGED <<proposal, active, sessions, stamps, initiatives, request, recorded>>

-----------------------------------------------------------------------------
Prospect(r) ==
  \/ StartAudience(r) \/ StoreAudience(r) \/ StartIntent(r) \/ StoreIntent(r)
  \/ \E s \in Sessions : StartCheckout(r, s)
  \/ StoreCheckout(r) \/ RequestDies(r)

Webhook(h) ==
  \/ \E s \in Sessions : StartWebhook(h, s)
  \/ MarkPaid(h) \/ AlreadyPaid(h) \/ SessionReplaced(h)
  \/ \E i \in Initiatives : CreateLeg2(h, i)
  \/ BuildLegs(h) \/ CheckDraft(h) \/ LinkLeg2(h) \/ StampProcessed(h) \/ HandlerFails(h)

Launch(x) == Transition(x) \/ Schedule(x) \/ TaskDies(x)

Next ==
  \/ MarkSent \/ View
  \/ \E r \in Requests : Prospect(r)
  \/ \E s \in Sessions : Pay(s)
  \/ \E h \in Handlers : Webhook(h)
  \/ \E o \in Operators, i \in Initiatives : StartLaunch(o, i)
  \/ \E x \in Launchers : Launch(x)

Spec == Init /\ [][Next]_vars

-----------------------------------------------------------------------------
Made == {i \in Initiatives : initiatives[i].status # "absent"}

\* Redeliveries, parallel deliveries and late checkouts included, no payment
\* makes two activations (proposals.py, mark_paid_and_instantiate).
OneActivationPerSession ==
  \A i, j \in Made : initiatives[i].session = initiatives[j].session => i = j

\* Nothing is activated that Stripe was not paid for, under a contract in force.
ActivationIsPaidFor ==
  \A i \in Made : sessions[initiatives[i].session] = "paid" /\ active

\* The event that tells of a Checkout session's payment is stamped as processed
\* without error only when that payment was written down: "already paid" never
\* stands for another session's payment (proposals.py:479).
CheckoutsAreNotDismissed ==
  \A s \in Sessions : stamps[s] = "ok" => s \in recorded

\* The initiative the proposal names has its campaign scheduled, whoever
\* launched it.
LinkedIsLaunched ==
  LET i == proposal.leg2 IN
    i # NoInitiative => initiatives[i].status = "active" /\ initiatives[i].scheduled

\* Whatever a request or an operator read before others moved the row, its write
\* takes the proposal back in one case only: a new checkout replaces the session
\* of one that is paid.
OnlyANewCheckoutReopens ==
  [][\/ Rank[proposal.status] <= Rank[proposal'.status]
     \/ /\ proposal.status = "paid" /\ proposal'.status = "checkout_initiated"
        /\ proposal'.session # proposal.session]_vars

Launched(s) == \E i \in Made : initiatives[i].session = s /\ initiatives[i].scheduled

\* Such an event reads as processed without error only when its activation was
\* launched, is being made, or was given up by a delivery that failed or died
\* after the payment was recorded: the next delivery then finds "already paid"
\* (proposals.py:479), and what stripe.py:23 promises to show is shown no more.
CheckoutsAreFollowedUp ==
  \A s \in Sessions : stamps[s] = "ok" =>
    \/ Launched(s) \/ s \in stopped
    \/ \E h \in Handlers : task[h].session = s /\ task[h].pc \in Activating

PaidSessions == {s \in Sessions : sessions[s] = "paid"}
MadeFor == [s \in Sessions |-> {i \in Made : initiatives[i].session = s}]
UnderWay == {i \in Initiatives : initiatives[i].scheduled}

Payment == INSTANCE PaidActivation WITH
  paid <- PaidSessions, made <- MadeFor, launched <- UnderWay, linked <- proposal.leg2

\* Replaced checkouts, repeated and parallel deliveries, late requests, launches by
\* operators and everything that dies on the way amount to this: each payment of a
\* Checkout session goes its way once, in order, and none goes back.
ImplementsPaidActivation == Payment!Spec
=============================================================================
