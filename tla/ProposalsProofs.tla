-------------------------- MODULE ProposalsProofs --------------------------
(***************************************************************************)
(* Proofs about Proposals, for any number of sessions, initiatives,        *)
(* requests, deliveries and operators.                                     *)
(***************************************************************************)
EXTENDS Proposals, TLAPS

\* A session belongs to the one request that minted it until the row names it;
\* the row names no session the prospect could not pay.
SessionsHaveOneOwner ==
  /\ \A r \in Requests : request[r].pc = "checkout" =>
       request[r].session \in Sessions /\ sessions[request[r].session] = "minted"
  /\ \A r, q \in Requests :
       r # q /\ request[r].pc = "checkout" /\ request[q].pc = "checkout"
         => request[r].session # request[q].session
  /\ proposal.session # NoSession => sessions[proposal.session] \in {"open", "paid"}

\* The row is paid exactly while the session it names is one whose payment was
\* written down, which takes a payment and puts the contract in force.
PaidIsRecorded ==
  /\ proposal.status = "paid" => proposal.session \in recorded
  /\ proposal.session \in recorded => proposal.status = "paid"
  /\ \A s \in recorded : sessions[s] = "paid" /\ active

\* A delivery works for a paid session, and past its first transaction for a
\* recorded one.
DeliveriesArePaid ==
  \A h \in Handlers :
    /\ task[h].pc # "idle" => task[h].session \in Sessions /\ sessions[task[h].session] = "paid"
    /\ task[h].pc \notin {"idle", "mark", "report"} => task[h].session \in recorded

\* Between recording a payment and making its initiative a delivery is the only
\* one that could make it.
OneMaker ==
  \A h \in Handlers : task[h].pc = "create" =>
    /\ \A i \in Made : initiatives[i].session # task[h].session
    /\ \A k \in Handlers : k # h /\ task[k].pc = "create" => task[k].session # task[h].session

\* How far the initiative is that a delivery or a launch works on.
TasksFollowInitiatives ==
  /\ \A i \in Made : initiatives[i].session \in recorded
  /\ \A x \in Launchers :
       LET i == task[x].initiative IN
       /\ task[x].pc \in {"build", "launch", "transition", "schedule", "link"} => i \in Initiatives
       /\ task[x].pc = "build" => initiatives[i].status = "created"
       /\ task[x].pc \in {"launch", "transition"} => initiatives[i].status \in {"draft", "active"}
       /\ task[x].pc \in {"schedule", "link"} => initiatives[i].status = "active"
       /\ task[x].pc = "link" => initiatives[i].scheduled
       /\ x \in Handlers /\ task[x].pc \in Activating \ {"create"} =>
            initiatives[i].session = task[x].session
  /\ \A h \in Handlers : \A k \in Handlers :
       h # k /\ task[h].pc = "build" /\ task[k].pc = "build"
         => task[h].initiative # task[k].initiative
  /\ \A o \in Operators : task[o].pc \in {"idle", "transition", "schedule"}

\* Whoever recorded a payment launches its initiative or is known to have stopped.
RecordedAreFollowedUp ==
  \A s \in recorded :
    \/ Launched(s) \/ s \in stopped
    \/ \E h \in Handlers : task[h].session = s /\ task[h].pc \in Activating

IInv == /\ TypeOK /\ SessionsHaveOneOwner /\ PaidIsRecorded /\ DeliveriesArePaid
        /\ OneMaker /\ TasksFollowInitiatives
        /\ RecordedAreFollowedUp
        /\ OneActivationPerSession /\ CheckoutsAreNotDismissed /\ LinkedIsLaunched

USE DEF Rank, Statuses, Initiative, IdleRequest, IdleTask, TaskPCs, Made, Launchers, Step, Activating

LEMMA InitEstablishes == Init => IInv
<1> SUFFICES ASSUME Init PROVE IInv
  OBVIOUS
<1> USE ProposalsAssumption DEF Init
<1>1. TypeOK
  BY DEF TypeOK
<1>2. SessionsHaveOneOwner
  BY DEF SessionsHaveOneOwner
<1>3. PaidIsRecorded
  BY DEF PaidIsRecorded
<1>4. DeliveriesArePaid
  BY DEF DeliveriesArePaid
<1>5. OneMaker
  BY DEF OneMaker
<1>6. TasksFollowInitiatives
  BY DEF TasksFollowInitiatives
<1>7. OneActivationPerSession
  BY DEF OneActivationPerSession
<1>8. CheckoutsAreNotDismissed
  BY DEF CheckoutsAreNotDismissed
<1>9. LinkedIsLaunched
  BY DEF LinkedIsLaunched
<1>10. RecordedAreFollowedUp
  BY DEF RecordedAreFollowedUp
<1> QED BY <1>1, <1>2, <1>3, <1>4, <1>5, <1>6, <1>7, <1>8, <1>9, <1>10 DEF IInv

-----------------------------------------------------------------------------
\* A status written by CASE is the new one or the old one, and a paid row keeps its own.
LEMMA Advanced ==
  ASSUME TypeOK, NEW status \in {"sent", "viewed", "audience_confirmed", "checkout_initiated"},
         Advance(status)
  PROVE  /\ proposal' \in [status : Statuses, session : Sessions \cup {NoSession},
                           leg2 : Initiatives \cup {NoInitiative}]
         /\ proposal'.session = proposal.session /\ proposal'.leg2 = proposal.leg2
         /\ proposal.status = "paid" <=> proposal'.status = "paid"
         /\ Rank[proposal.status] <= Rank[proposal'.status]
<1>1. proposal.status \in Statuses
  BY DEF TypeOK
<1>2. CASE Rank[proposal.status] < Rank[status]
  <2>1. proposal' = [proposal EXCEPT !.status = status]
    BY <1>2 DEF Advance
  <2>2. proposal.status # "paid"
    BY <1>1, <1>2
  <2> QED BY <1>1, <1>2, <2>1, <2>2 DEF TypeOK
<1>3. CASE ~ (Rank[proposal.status] < Rank[status])
  <2>1. proposal' = proposal
    BY <1>3 DEF Advance
  <2> QED BY <1>1, <2>1 DEF TypeOK
<1> QED BY <1>2, <1>3

\* What a caller's state is made of, and what the updates of a field leave it.
TaskState == [pc : TaskPCs, session : Sessions \cup {NoSession},
              initiative : Initiatives \cup {NoInitiative}]

LEMMA ClaimTyped ==
  ASSUME NEW f \in [Launchers -> TaskState], NEW h \in Launchers, NEW i \in Initiatives
  PROVE  [f EXCEPT ![h] = [@ EXCEPT !.pc = "build", !.initiative = i]]
           \in [Launchers -> TaskState]
<1>1. f[h] \in TaskState
  OBVIOUS
<1>2. [f[h] EXCEPT !.pc = "build", !.initiative = i] \in TaskState
  BY <1>1 DEF TaskState
<1> QED BY <1>2

LEMMA LinkTyped ==
  ASSUME NEW f \in [Launchers -> TaskState], NEW x \in Launchers
  PROVE  [f EXCEPT ![x] = IF x \in Handlers THEN [@ EXCEPT !.pc = "link"] ELSE IdleTask]
           \in [Launchers -> TaskState]
<1>1. f[x] \in TaskState
  OBVIOUS
<1>2. [f[x] EXCEPT !.pc = "link"] \in TaskState /\ IdleTask \in TaskState
  BY <1>1 DEF TaskState
<1> QED BY <1>2

LEMMA ScheduledTyped ==
  ASSUME NEW f \in [Initiatives -> Initiative], NEW i \in Initiatives
  PROVE  [f EXCEPT ![i].scheduled = TRUE] \in [Initiatives -> Initiative]
  OBVIOUS

LEMMA FunnelPreserves ==
  ASSUME IInv, MarkSent \/ View \/ \E r \in Requests : Prospect(r)
  PROVE  IInv'
<1> USE ProposalsAssumption
        DEF IInv, TypeOK, SessionsHaveOneOwner, PaidIsRecorded, DeliveriesArePaid, OneMaker,
            TasksFollowInitiatives, OneActivationPerSession, CheckoutsAreNotDismissed,
            LinkedIsLaunched, RecordedAreFollowedUp, Launched
<1>1. CASE MarkSent
  BY <1>1, Advanced DEF MarkSent
<1>2. CASE View
  BY <1>2, Advanced DEF View
<1>3. ASSUME NEW r \in Requests, Prospect(r) PROVE IInv'
  <2>1. CASE StartAudience(r)
    BY <2>1 DEF StartAudience
  <2>2. CASE StoreAudience(r)
    BY <2>2, Advanced DEF StoreAudience
  <2>3. CASE StartIntent(r)
    BY <2>3 DEF StartIntent
  <2>4. CASE StoreIntent(r)
    BY <2>4, Advanced DEF StoreIntent
  <2>5. CASE \E s \in Sessions : StartCheckout(r, s)
    BY <2>5 DEF StartCheckout
  <2>6. CASE StoreCheckout(r)
    <3>1. TypeOK'
      BY <2>6 DEF StoreCheckout
    <3>2. SessionsHaveOneOwner'
      BY <2>6 DEF StoreCheckout
    <3>3. PaidIsRecorded'
      BY <2>6 DEF StoreCheckout
    <3>4. DeliveriesArePaid'
      BY <2>6 DEF StoreCheckout
    <3>5. OneMaker'
      BY <2>6 DEF StoreCheckout
    <3>6. TasksFollowInitiatives'
      BY <2>6 DEF StoreCheckout
    <3>7. OneActivationPerSession'
      BY <2>6 DEF StoreCheckout
    <3>8. CheckoutsAreNotDismissed'
      BY <2>6 DEF StoreCheckout
    <3>9. LinkedIsLaunched'
      BY <2>6 DEF StoreCheckout
    <3>10. RecordedAreFollowedUp'
      BY <2>6 DEF StoreCheckout
    <3> QED BY <3>1, <3>2, <3>3, <3>4, <3>5, <3>6, <3>7, <3>8, <3>9, <3>10
  <2>7. CASE RequestDies(r)
    BY <2>7 DEF RequestDies
  <2> QED BY <1>3, <2>1, <2>2, <2>3, <2>4, <2>5, <2>6, <2>7 DEF Prospect
<1> QED BY <1>1, <1>2, <1>3

LEMMA PayPreserves ==
  ASSUME IInv, NEW s \in Sessions, Pay(s)
  PROVE  IInv'
  BY ProposalsAssumption
  DEF Pay, IInv, TypeOK, SessionsHaveOneOwner, PaidIsRecorded, DeliveriesArePaid, OneMaker,
      TasksFollowInitiatives, OneActivationPerSession, CheckoutsAreNotDismissed, LinkedIsLaunched,
      RecordedAreFollowedUp, Launched

LEMMA WebhookPreserves ==
  ASSUME IInv, NEW h \in Handlers, Webhook(h)
  PROVE  IInv'
<1> USE ProposalsAssumption
        DEF IInv, TypeOK, SessionsHaveOneOwner, PaidIsRecorded, DeliveriesArePaid, OneMaker,
            TasksFollowInitiatives, OneActivationPerSession, CheckoutsAreNotDismissed,
            LinkedIsLaunched, RecordedAreFollowedUp, Launched
<1>1. CASE \E s \in Sessions : StartWebhook(h, s)
  BY <1>1 DEF StartWebhook, Received
<1>2. CASE MarkPaid(h)
  <2>1. TypeOK'
    BY <1>2 DEF MarkPaid
  <2>2. SessionsHaveOneOwner'
    BY <1>2 DEF MarkPaid
  <2>3. PaidIsRecorded'
    BY <1>2 DEF MarkPaid
  <2>4. DeliveriesArePaid'
    BY <1>2 DEF MarkPaid
  <2>5. OneMaker'
    BY <1>2 DEF MarkPaid
  <2>6. TasksFollowInitiatives'
    BY <1>2 DEF MarkPaid
  <2>7. OneActivationPerSession'
    BY <1>2 DEF MarkPaid
  <2>8. CheckoutsAreNotDismissed'
    BY <1>2 DEF MarkPaid
  <2>9. LinkedIsLaunched'
    BY <1>2 DEF MarkPaid
  <2>10. RecordedAreFollowedUp'
    BY <1>2 DEF MarkPaid
  <2> QED BY <2>1, <2>2, <2>3, <2>4, <2>5, <2>6, <2>7, <2>8, <2>9, <2>10
<1>3. CASE AlreadyPaid(h)
  BY <1>3 DEF AlreadyPaid
<1>4. CASE SessionReplaced(h)
  BY <1>4 DEF SessionReplaced
<1>5. CASE \E i \in Initiatives : CreateLeg2(h, i)
  <2>0. PICK i \in Initiatives : CreateLeg2(h, i)
    BY <1>5
  <2>1. TypeOK'
    <3>1. task[h].session \in Sessions /\ h \in Launchers
      BY <2>0 DEF CreateLeg2
    <3>2. [status |-> "created", session |-> task[h].session, scheduled |-> FALSE] \in Initiative
      BY <3>1
    <3>3. initiatives' \in [Initiatives -> Initiative]
      BY <2>0, <3>2 DEF CreateLeg2
    <3>4. task' \in [Launchers -> TaskState]
      BY <2>0, <3>1, ClaimTyped DEF CreateLeg2, TaskState
    <3> QED BY <2>0, <3>3, <3>4 DEF CreateLeg2, TaskState
  <2>2. SessionsHaveOneOwner'
    BY <2>0 DEF CreateLeg2
  <2>3. PaidIsRecorded'
    BY <2>0 DEF CreateLeg2
  <2>4. DeliveriesArePaid'
    BY <2>0 DEF CreateLeg2
  <2>5. OneMaker'
    BY <2>0 DEF CreateLeg2
  <2>6. TasksFollowInitiatives'
    BY <2>0 DEF CreateLeg2
  <2>7. OneActivationPerSession'
    BY <2>0 DEF CreateLeg2
  <2>8. CheckoutsAreNotDismissed'
    BY <2>0 DEF CreateLeg2
  <2>9. LinkedIsLaunched'
    BY <2>0 DEF CreateLeg2
  <2>10. RecordedAreFollowedUp'
    BY <2>0 DEF CreateLeg2
  <2> QED BY <2>1, <2>2, <2>3, <2>4, <2>5, <2>6, <2>7, <2>8, <2>9, <2>10
<1>6. CASE BuildLegs(h)
  <2>1. TypeOK'
    BY <1>6 DEF BuildLegs
  <2>2. SessionsHaveOneOwner'
    BY <1>6 DEF BuildLegs
  <2>3. PaidIsRecorded'
    BY <1>6 DEF BuildLegs
  <2>4. DeliveriesArePaid'
    BY <1>6 DEF BuildLegs
  <2>5. OneMaker'
    BY <1>6 DEF BuildLegs
  <2>6. TasksFollowInitiatives'
    BY <1>6 DEF BuildLegs
  <2>7. OneActivationPerSession'
    BY <1>6 DEF BuildLegs
  <2>8. CheckoutsAreNotDismissed'
    BY <1>6 DEF BuildLegs
  <2>9. LinkedIsLaunched'
    BY <1>6 DEF BuildLegs
  <2>10. RecordedAreFollowedUp'
    BY <1>6 DEF BuildLegs
  <2> QED BY <2>1, <2>2, <2>3, <2>4, <2>5, <2>6, <2>7, <2>8, <2>9, <2>10
<1>7. CASE CheckDraft(h)
  <2>1. TypeOK'
    BY <1>7 DEF CheckDraft, GiveUp
  <2>2. SessionsHaveOneOwner'
    BY <1>7 DEF CheckDraft, GiveUp
  <2>3. PaidIsRecorded'
    BY <1>7 DEF CheckDraft, GiveUp
  <2>4. DeliveriesArePaid'
    BY <1>7 DEF CheckDraft, GiveUp
  <2>5. OneMaker'
    BY <1>7 DEF CheckDraft, GiveUp
  <2>6. TasksFollowInitiatives'
    <3> DEFINE pc == IF initiatives[task[h].initiative].status = "draft"
                     THEN "transition" ELSE "report"
    <3>1. /\ task[h].pc = "launch" /\ task' = [task EXCEPT ![h].pc = pc]
          /\ UNCHANGED <<initiatives, recorded>>
      BY <1>7 DEF CheckDraft
    <3>2. \A x \in Launchers : /\ task'[x].session = task[x].session
                               /\ task'[x].initiative = task[x].initiative
                               /\ task'[x].pc = IF x = h THEN pc ELSE task[x].pc
      BY <3>1
    <3> QED BY <3>1, <3>2
  <2>7. OneActivationPerSession'
    BY <1>7 DEF CheckDraft, GiveUp
  <2>8. CheckoutsAreNotDismissed'
    BY <1>7 DEF CheckDraft, GiveUp
  <2>9. LinkedIsLaunched'
    BY <1>7 DEF CheckDraft, GiveUp
  <2>10. RecordedAreFollowedUp'
    BY <1>7 DEF CheckDraft, GiveUp
  <2> QED BY <2>1, <2>2, <2>3, <2>4, <2>5, <2>6, <2>7, <2>8, <2>9, <2>10
<1>8. CASE LinkLeg2(h)
  BY <1>8 DEF LinkLeg2
<1>9. CASE StampProcessed(h)
  BY <1>9 DEF StampProcessed
<1>10. CASE HandlerFails(h)
  BY <1>10 DEF HandlerFails, GiveUp
<1> QED
  BY <1>1, <1>2, <1>3, <1>4, <1>5, <1>6, <1>7, <1>8, <1>9, <1>10 DEF Webhook

LEMMA LaunchPreserves ==
  ASSUME IInv, NEW x \in Launchers, Launch(x) \/ (x \in Operators /\ \E i \in Initiatives : StartLaunch(x, i))
  PROVE  IInv'
<1> USE ProposalsAssumption
        DEF IInv, TypeOK, SessionsHaveOneOwner, PaidIsRecorded, DeliveriesArePaid, OneMaker,
            TasksFollowInitiatives, OneActivationPerSession, CheckoutsAreNotDismissed,
            LinkedIsLaunched, RecordedAreFollowedUp, Launched
<1>1. CASE Transition(x)
  <2>1. TypeOK'
    BY <1>1 DEF Transition
  <2>2. SessionsHaveOneOwner'
    BY <1>1 DEF Transition
  <2>3. PaidIsRecorded'
    BY <1>1 DEF Transition
  <2>4. DeliveriesArePaid'
    BY <1>1 DEF Transition
  <2>5. OneMaker'
    BY <1>1 DEF Transition
  <2>6. TasksFollowInitiatives'
    BY <1>1 DEF Transition
  <2>7. OneActivationPerSession'
    BY <1>1 DEF Transition
  <2>8. CheckoutsAreNotDismissed'
    BY <1>1 DEF Transition
  <2>9. LinkedIsLaunched'
    BY <1>1 DEF Transition
  <2>10. RecordedAreFollowedUp'
    BY <1>1 DEF Transition
  <2> QED BY <2>1, <2>2, <2>3, <2>4, <2>5, <2>6, <2>7, <2>8, <2>9, <2>10
<1>2. CASE Schedule(x)
  <2>1. TypeOK'
    <3>1. task[x].initiative \in Initiatives
      BY <1>2 DEF Schedule
    <3>2. initiatives' \in [Initiatives -> Initiative]
      BY <1>2, <3>1, ScheduledTyped DEF Schedule
    <3>3. task' \in [Launchers -> TaskState]
      BY <1>2, LinkTyped DEF Schedule, TaskState
    <3> QED BY <1>2, <3>2, <3>3 DEF Schedule, TaskState
  <2>2. SessionsHaveOneOwner'
    BY <1>2 DEF Schedule
  <2>3. PaidIsRecorded'
    BY <1>2 DEF Schedule
  <2>4. DeliveriesArePaid'
    BY <1>2 DEF Schedule
  <2>5. OneMaker'
    BY <1>2 DEF Schedule
  <2>6. TasksFollowInitiatives'
    BY <1>2 DEF Schedule
  <2>7. OneActivationPerSession'
    BY <1>2 DEF Schedule
  <2>8. CheckoutsAreNotDismissed'
    BY <1>2 DEF Schedule
  <2>9. LinkedIsLaunched'
    BY <1>2 DEF Schedule
  <2>10. RecordedAreFollowedUp'
    BY <1>2 DEF Schedule
  <2> QED BY <2>1, <2>2, <2>3, <2>4, <2>5, <2>6, <2>7, <2>8, <2>9, <2>10
<1>3. CASE TaskDies(x)
  BY <1>3 DEF TaskDies, GiveUp
<1>4. CASE x \in Operators /\ \E i \in Initiatives : StartLaunch(x, i)
  BY <1>4 DEF StartLaunch
<1> QED BY <1>1, <1>2, <1>3, <1>4 DEF Launch

LEMMA StepPreserves == IInv /\ [Next]_vars => IInv'
<1> SUFFICES ASSUME IInv, [Next]_vars PROVE IInv'
  OBVIOUS
<1>1. CASE UNCHANGED vars
  BY <1>1
  DEF vars, IInv, TypeOK, SessionsHaveOneOwner, PaidIsRecorded, DeliveriesArePaid, OneMaker,
      TasksFollowInitiatives, OneActivationPerSession, CheckoutsAreNotDismissed, LinkedIsLaunched,
      RecordedAreFollowedUp, Launched
<1>2. CASE \E o \in Operators, i \in Initiatives : StartLaunch(o, i)
  BY <1>2, LaunchPreserves
<1> QED
  BY <1>1, <1>2, FunnelPreserves, PayPreserves, WebhookPreserves, LaunchPreserves DEF Next

LEMMA Invariance == Spec => []IInv
<1>1. Init => IInv
  BY InitEstablishes
<1>2. IInv /\ [Next]_vars => IInv'
  BY StepPreserves
<1> QED BY <1>1, <1>2, PTL DEF Spec

-----------------------------------------------------------------------------
\* Rows, sessions and callers keep their types in every run of a proposal.
THEOREM TypeCorrect == Spec => []TypeOK
<1>1. IInv => TypeOK
  BY DEF IInv
<1> QED BY <1>1, Invariance, PTL

\* However often and however much in parallel its event is delivered, a payment
\* makes at most one activation.
THEOREM PaymentActivatesOnce == Spec => []OneActivationPerSession
<1>1. IInv => OneActivationPerSession
  BY DEF IInv
<1> QED BY <1>1, Invariance, PTL

\* What is activated was paid for at Stripe, and its contract is in force.
THEOREM ActivationsArePaidFor == Spec => []ActivationIsPaidFor
<1>1. IInv => ActivationIsPaidFor
  BY DEF IInv, ActivationIsPaidFor, PaidIsRecorded, TasksFollowInitiatives
<1> QED BY <1>1, Invariance, PTL

\* The webhook's "already paid" only ever means this Checkout session's own payment.
THEOREM NoCheckoutDismissed == Spec => []CheckoutsAreNotDismissed
<1>1. IInv => CheckoutsAreNotDismissed
  BY DEF IInv
<1> QED BY <1>1, Invariance, PTL

\* A Checkout payment stamped as fine is launched, is being launched, or was given up by a
\* delivery that failed or died.
THEOREM CheckoutsFollowedUp == Spec => []CheckoutsAreFollowedUp
<1>1. IInv => CheckoutsAreFollowedUp
  BY DEF IInv, CheckoutsAreNotDismissed, RecordedAreFollowedUp, CheckoutsAreFollowedUp
<1> QED BY <1>1, Invariance, PTL

\* The initiative a proposal names is under way, also when operators launch it too.
THEOREM LinkedAreLaunched == Spec => []LinkedIsLaunched
<1>1. IInv => LinkedIsLaunched
  BY DEF IInv
<1> QED BY <1>1, Invariance, PTL

-----------------------------------------------------------------------------
\* A step takes the row on, or reopens a paid one for a new session.
MovesOn ==
  \/ Rank[proposal.status] <= Rank[proposal'.status]
  \/ /\ proposal.status = "paid" /\ proposal'.status = "checkout_initiated"
     /\ proposal'.session # proposal.session

LEMMA StepMovesOn ==
  ASSUME IInv, [Next]_vars
  PROVE  MovesOn \/ UNCHANGED vars
<1>0. proposal.status \in Statuses /\ Rank[proposal.status] \in 1 .. 6
  BY DEF IInv, TypeOK
<1>1. CASE UNCHANGED proposal
  BY <1>0, <1>1 DEF MovesOn
<1>2. CASE MarkSent \/ View
  BY <1>2, Advanced DEF MarkSent, View, MovesOn, IInv
<1>3. ASSUME NEW r \in Requests, StoreAudience(r) \/ StoreIntent(r)
      PROVE  MovesOn
  BY <1>3, Advanced DEF StoreAudience, StoreIntent, MovesOn, IInv
<1>4. ASSUME NEW r \in Requests, StoreCheckout(r)
      PROVE  MovesOn
  <2>1. proposal'.status = "checkout_initiated" /\ proposal'.session = request[r].session
    BY <1>4 DEF StoreCheckout, IInv, TypeOK
  <2>2. CASE proposal.status = "paid"
    <3>1. proposal.session \in Sessions /\ sessions[proposal.session] = "paid"
      BY <2>2 DEF IInv, TypeOK, PaidIsRecorded
    <3>2. sessions[request[r].session] = "minted"
      BY <1>4 DEF StoreCheckout, IInv, SessionsHaveOneOwner
    <3> QED BY <2>1, <2>2, <3>1, <3>2 DEF MovesOn
  <2>3. CASE proposal.status # "paid"
    BY <1>0, <2>1, <2>3 DEF MovesOn
  <2> QED BY <2>2, <2>3
<1>5. ASSUME NEW h \in Handlers, MarkPaid(h) \/ LinkLeg2(h)
      PROVE  MovesOn
  <2>1. proposal'.status \in {proposal.status, "paid"}
    BY <1>5 DEF MarkPaid, LinkLeg2, IInv, TypeOK
  <2> QED BY <1>0, <2>1 DEF MovesOn
<1>6. CASE \E r \in Requests : Prospect(r)
  BY <1>1, <1>3, <1>4, <1>6
  DEF Prospect, StartAudience, StartIntent, StartCheckout, RequestDies
<1>7. CASE \E h \in Handlers : Webhook(h)
  BY <1>1, <1>5, <1>7
  DEF Webhook, StartWebhook, AlreadyPaid, SessionReplaced, CreateLeg2, BuildLegs, CheckDraft,
      StampProcessed, HandlerFails
<1>8. CASE \/ \E s \in Sessions : Pay(s)
           \/ \E o \in Operators, i \in Initiatives : StartLaunch(o, i)
           \/ \E x \in Launchers : Launch(x)
  BY <1>1, <1>8 DEF Pay, StartLaunch, Launch, Transition, Schedule, TaskDies
<1> QED BY <1>1, <1>2, <1>6, <1>7, <1>8 DEF Next, vars

\* No late write takes a proposal back, save a new checkout of a paid one.
THEOREM OnlyCheckoutsReopen == Spec => OnlyANewCheckoutReopens
<1>1. IInv /\ [Next]_vars =>
        [\/ Rank[proposal.status] <= Rank[proposal'.status]
         \/ /\ proposal.status = "paid" /\ proposal'.status = "checkout_initiated"
            /\ proposal'.session # proposal.session]_vars
  BY StepMovesOn DEF MovesOn
<1> QED BY <1>1, Invariance, PTL DEF Spec, OnlyANewCheckoutReopens

-----------------------------------------------------------------------------
(***************************************************************************)
(* Proposals, mapped, does what PaidActivation promises.                   *)
(***************************************************************************)
\* Nothing is scheduled of an initiative before its row is made.
AbsentUnscheduled ==
  \A i \in Initiatives : initiatives[i].status = "absent" => ~initiatives[i].scheduled

LEMMA StepKeepsUnscheduled == IInv /\ AbsentUnscheduled /\ [Next]_vars => AbsentUnscheduled'
<1> SUFFICES ASSUME IInv, AbsentUnscheduled, [Next]_vars PROVE AbsentUnscheduled'
  OBVIOUS
<1>1. initiatives \in [Initiatives -> Initiative]
  BY DEF IInv, TypeOK
<1>2. CASE UNCHANGED initiatives
  BY <1>2 DEF AbsentUnscheduled
<1>3. ASSUME NEW h \in Handlers, NEW i \in Initiatives, CreateLeg2(h, i)
      PROVE  AbsentUnscheduled'
  BY <1>1, <1>3 DEF CreateLeg2, AbsentUnscheduled
<1>4. ASSUME NEW h \in Handlers, BuildLegs(h) PROVE AbsentUnscheduled'
  BY <1>1, <1>4 DEF BuildLegs, AbsentUnscheduled
<1>5. ASSUME NEW x \in Launchers, Transition(x) PROVE AbsentUnscheduled'
  BY <1>1, <1>5 DEF Transition, AbsentUnscheduled
<1>6. ASSUME NEW x \in Launchers, Schedule(x) PROVE AbsentUnscheduled'
  <2>1. initiatives[task[x].initiative].status = "active"
    BY <1>6 DEF Schedule, IInv, TasksFollowInitiatives
  <2> QED BY <1>1, <1>6, <2>1 DEF Schedule, AbsentUnscheduled
<1>7. CASE \/ MarkSent \/ View
           \/ \E r \in Requests : Prospect(r)
           \/ \E s \in Sessions : Pay(s)
           \/ \E o \in Operators, i \in Initiatives : StartLaunch(o, i)
  BY <1>2, <1>7
  DEF MarkSent, View, Prospect, StartAudience, StoreAudience, StartIntent, StoreIntent,
      StartCheckout, StoreCheckout, RequestDies, Pay, StartLaunch
<1>8. CASE \E h \in Handlers : Webhook(h)
  BY <1>2, <1>3, <1>4, <1>8
  DEF Webhook, StartWebhook, MarkPaid, AlreadyPaid, SessionReplaced, CheckDraft, LinkLeg2,
      StampProcessed, HandlerFails
<1>9. CASE \E x \in Launchers : Launch(x)
  BY <1>2, <1>5, <1>6, <1>9 DEF Launch, TaskDies
<1> QED BY <1>2, <1>7, <1>8, <1>9 DEF Next, vars

LEMMA NeverUnscheduled == Spec => []AbsentUnscheduled
<1>1. Init => AbsentUnscheduled
  BY DEF Init, AbsentUnscheduled
<1> QED BY <1>1, StepKeepsUnscheduled, Invariance, PTL DEF Spec

PaymentStep == Payment!Next \/ UNCHANGED Payment!paymentVars

\* What the mapping shows is the sessions paid, the initiatives and the one linked.
LEMMA InvisibleSteps ==
  ASSUME UNCHANGED <<initiatives, recorded>>, PaidSessions' = PaidSessions,
         proposal'.leg2 = proposal.leg2
  PROVE  UNCHANGED Payment!paymentVars
BY DEF Payment!paymentVars, MadeFor, UnderWay

\* The funnel and the prospect's payment.
LEMMA FunnelMapped ==
  ASSUME IInv,
         \/ MarkSent \/ View
         \/ \E r \in Requests : Prospect(r)
         \/ \E s \in Sessions : Pay(s)
  PROVE  PaymentStep
<1>1. proposal \in [status : Statuses, session : Sessions \cup {NoSession},
                    leg2 : Initiatives \cup {NoInitiative}]
      /\ sessions \in [Sessions -> {"unused", "minted", "open", "paid"}]
  BY DEF IInv, TypeOK
<1>2. CASE MarkSent \/ View
  <2>1. proposal'.leg2 = proposal.leg2
    BY <1>2, Advanced DEF MarkSent, View, IInv
  <2> QED BY <1>2, <2>1, InvisibleSteps DEF MarkSent, View, PaymentStep, PaidSessions
<1>3. ASSUME NEW r \in Requests, Prospect(r) PROVE PaymentStep
  <2>1. proposal'.leg2 = proposal.leg2
    BY <1>1, <1>3, Advanced
    DEF IInv, Prospect, StartAudience, StoreAudience, StartIntent, StoreIntent, StartCheckout,
        StoreCheckout, RequestDies
  <2>2. PaidSessions' = PaidSessions
    <3>1. CASE StoreCheckout(r)
      <4>1. sessions[request[r].session] = "minted"
        BY <3>1 DEF StoreCheckout, IInv, SessionsHaveOneOwner
      <4> QED BY <1>1, <3>1, <4>1 DEF StoreCheckout, PaidSessions
    <3>2. CASE \E s \in Sessions : StartCheckout(r, s)
      BY <1>1, <3>2 DEF StartCheckout, PaidSessions
    <3>3. CASE \/ StartAudience(r) \/ StoreAudience(r) \/ StartIntent(r) \/ StoreIntent(r)
               \/ RequestDies(r)
      BY <3>3 DEF StartAudience, StoreAudience, StartIntent, StoreIntent, RequestDies, PaidSessions
    <3> QED BY <1>3, <3>1, <3>2, <3>3 DEF Prospect
  <2>3. UNCHANGED <<initiatives, recorded>>
    BY <1>3
    DEF Prospect, StartAudience, StoreAudience, StartIntent, StoreIntent, StartCheckout,
        StoreCheckout, RequestDies
  <2> QED BY <2>1, <2>2, <2>3, InvisibleSteps DEF PaymentStep
<1>4. ASSUME NEW s \in Sessions, Pay(s) PROVE PaymentStep
  <2>1. s \notin PaidSessions /\ PaidSessions' = PaidSessions \cup {s}
    BY <1>1, <1>4 DEF Pay, PaidSessions
  <2>2. MadeFor' = MadeFor /\ UnderWay' = UnderWay /\ UNCHANGED <<recorded, proposal>>
    BY <1>4 DEF Pay, MadeFor, UnderWay
  <2>3. Payment!Pay(s)
    BY <2>1, <2>2 DEF Payment!Pay
  <2> QED BY <2>3 DEF PaymentStep, Payment!Next
<1> QED BY <1>2, <1>3, <1>4

\* A delivery records the payment, makes the initiative and links it.
LEMMA WebhookMapped ==
  ASSUME IInv, AbsentUnscheduled, NEW h \in Handlers, Webhook(h)
  PROVE  PaymentStep
<1> USE ProposalsAssumption
<1>1. /\ proposal \in [status : Statuses, session : Sessions \cup {NoSession},
                       leg2 : Initiatives \cup {NoInitiative}]
      /\ initiatives \in [Initiatives -> Initiative]
      /\ task \in [Launchers -> TaskState]
  BY DEF IInv, TypeOK, TaskState
<1>2. CASE MarkPaid(h)
  <2>1. task[h].session \in Sessions /\ task[h].session \in PaidSessions
    BY <1>2 DEF MarkPaid, IInv, DeliveriesArePaid, PaidSessions
  <2>2. /\ PaidSessions' = PaidSessions /\ MadeFor' = MadeFor /\ UnderWay' = UnderWay
        /\ proposal'.leg2 = proposal.leg2 /\ recorded' = recorded \cup {task[h].session}
    BY <1>1, <1>2 DEF MarkPaid, PaidSessions, MadeFor, UnderWay
  <2>3. Payment!Record(task[h].session)
    BY <2>1, <2>2 DEF Payment!Record
  <2> QED BY <2>1, <2>3 DEF PaymentStep, Payment!Next
<1>3. ASSUME NEW i \in Initiatives, CreateLeg2(h, i) PROVE PaymentStep
  <2> DEFINE s == task[h].session
  <2>1. s \in Sessions /\ s \in recorded /\ \A j \in Made : initiatives[j].session # s
    BY <1>3 DEF CreateLeg2, IInv, DeliveriesArePaid, OneMaker
  <2>2. MadeFor[s] = {} /\ \A t \in Sessions : i \notin MadeFor[t]
    BY <1>3, <2>1 DEF CreateLeg2, MadeFor
  <2>3. /\ Made' = Made \cup {i}
        /\ initiatives'[i].session = s
        /\ \A j \in Initiatives \ {i} : initiatives'[j] = initiatives[j]
    BY <1>1, <1>3 DEF CreateLeg2
  <2>4. MadeFor' = [MadeFor EXCEPT ![s] = {i}]
    <3> HIDE DEF s, Made
    <3>1. \A j \in Made : j \in Initiatives /\ j # i
      BY <1>3 DEF CreateLeg2, Made
    <3>2. ASSUME NEW t \in Sessions
          PROVE  {j \in Made' : initiatives'[j].session = t} =
                   IF t = s THEN {i} ELSE {j \in Made : initiatives[j].session = t}
      BY <2>1, <2>3, <3>1
    <3> QED BY <3>2 DEF MadeFor
  <2>5. ~initiatives[i].scheduled
    BY <1>3 DEF CreateLeg2, AbsentUnscheduled
  <2>6. UnderWay' = UnderWay
    BY <1>1, <1>3, <2>3, <2>5 DEF CreateLeg2, UnderWay
  <2>7. PaidSessions' = PaidSessions /\ UNCHANGED <<recorded, proposal>>
    BY <1>3 DEF CreateLeg2, PaidSessions
  <2>8. Payment!Make(s, i)
    BY <2>1, <2>2, <2>4, <2>6, <2>7 DEF Payment!Make
  <2> QED BY <2>1, <2>8 DEF PaymentStep, Payment!Next
<1>4. CASE BuildLegs(h)
  <2> DEFINE i == task[h].initiative
  <2>1. i \in Initiatives /\ initiatives[i].status = "created"
    BY <1>4 DEF BuildLegs, IInv, TasksFollowInitiatives
  <2>2. /\ initiatives' = [initiatives EXCEPT ![i].status = "draft"]
        /\ UNCHANGED <<proposal, recorded, sessions>>
    BY <1>4 DEF BuildLegs
  <2>3. \A j \in Initiatives : /\ initiatives'[j].session = initiatives[j].session
                               /\ initiatives'[j].scheduled = initiatives[j].scheduled
                               /\ j \in Made' <=> j \in Made
    BY <1>1, <2>1, <2>2
  <2>4. MadeFor' = MadeFor /\ UnderWay' = UnderWay
    <3>1. Made' = Made /\ Made \subseteq Initiatives
      BY <2>3
    <3> HIDE DEF Made
    <3> QED BY <2>3, <3>1 DEF MadeFor, UnderWay
  <2> QED BY <2>2, <2>4 DEF PaymentStep, Payment!paymentVars, PaidSessions
<1>5. CASE LinkLeg2(h)
  <2>1. task[h].initiative \in Initiatives /\ task[h].initiative \in UnderWay
    BY <1>5 DEF LinkLeg2, IInv, TasksFollowInitiatives, UnderWay
  <2>2. /\ PaidSessions' = PaidSessions /\ MadeFor' = MadeFor /\ UnderWay' = UnderWay
        /\ recorded' = recorded /\ proposal'.leg2 = task[h].initiative
    BY <1>1, <1>5 DEF LinkLeg2, PaidSessions, MadeFor, UnderWay
  <2>3. Payment!Link(task[h].initiative)
    BY <2>1, <2>2 DEF Payment!Link
  <2> QED BY <2>1, <2>3 DEF PaymentStep, Payment!Next
<1>6. CASE \/ \E s \in Sessions : StartWebhook(h, s)
           \/ AlreadyPaid(h) \/ SessionReplaced(h) \/ CheckDraft(h) \/ StampProcessed(h)
           \/ HandlerFails(h)
  <2>1. UNCHANGED <<proposal, sessions, initiatives, recorded>>
    BY <1>6 DEF StartWebhook, AlreadyPaid, SessionReplaced, CheckDraft, StampProcessed, HandlerFails
  <2> QED BY <2>1, InvisibleSteps DEF PaymentStep, PaidSessions
<1> QED BY <1>2, <1>3, <1>4, <1>5, <1>6 DEF Webhook

\* A launch, by a delivery or an operator, schedules the initiative of some session.
LEMMA LaunchMapped ==
  ASSUME IInv,
         \/ \E o \in Operators, i \in Initiatives : StartLaunch(o, i)
         \/ \E x \in Launchers : Launch(x)
  PROVE  PaymentStep
<1>1. initiatives \in [Initiatives -> Initiative]
  BY DEF IInv, TypeOK
<1>2. ASSUME NEW x \in Launchers, Transition(x) PROVE PaymentStep
  <2> DEFINE i == task[x].initiative
  <2>1. i \in Made
    BY <1>2 DEF Transition, IInv, TasksFollowInitiatives
  <2>2. /\ initiatives' = [initiatives EXCEPT ![i].status = "active"]
        /\ UNCHANGED <<proposal, recorded, sessions>>
    BY <1>2 DEF Transition
  <2>3. \A j \in Initiatives : /\ initiatives'[j].session = initiatives[j].session
                               /\ initiatives'[j].scheduled = initiatives[j].scheduled
                               /\ j \in Made' <=> j \in Made
    BY <1>1, <2>1, <2>2
  <2>4. MadeFor' = MadeFor /\ UnderWay' = UnderWay
    <3>1. Made' = Made /\ Made \subseteq Initiatives
      BY <2>3
    <3> HIDE DEF Made
    <3> QED BY <2>3, <3>1 DEF MadeFor, UnderWay
  <2> QED BY <2>2, <2>4 DEF PaymentStep, Payment!paymentVars, PaidSessions
<1>3. ASSUME NEW x \in Launchers, Schedule(x) PROVE PaymentStep
  <2> DEFINE i == task[x].initiative
             s == initiatives[i].session
  <2>1. i \in Made
    BY <1>3 DEF Schedule, IInv, TasksFollowInitiatives
  <2>2. s \in Sessions /\ i \in MadeFor[s]
    BY <2>1 DEF IInv, TypeOK, TasksFollowInitiatives, MadeFor
  <2>3. /\ initiatives' = [initiatives EXCEPT ![i].scheduled = TRUE]
        /\ UNCHANGED <<proposal, recorded, sessions>>
    BY <1>3 DEF Schedule
  <2>4. \A j \in Initiatives : /\ initiatives'[j].session = initiatives[j].session
                               /\ initiatives'[j].scheduled = (initiatives[j].scheduled \/ j = i)
                               /\ j \in Made' <=> j \in Made
    BY <1>1, <2>3
  <2>5. MadeFor' = MadeFor /\ UnderWay' = UnderWay \cup {i}
    <3>1. Made' = Made /\ Made \subseteq Initiatives
      BY <2>4
    <3> HIDE DEF Made, i
    <3> QED BY <2>1, <2>4, <3>1 DEF MadeFor, UnderWay
  <2>6. Payment!Launch(s, i)
    BY <2>2, <2>3, <2>5 DEF Payment!Launch, PaidSessions
  <2> QED BY <2>1, <2>2, <2>6 DEF PaymentStep, Payment!Next
<1>4. CASE \/ \E o \in Operators, i \in Initiatives : StartLaunch(o, i)
           \/ \E x \in Launchers : TaskDies(x)
  <2>1. UNCHANGED <<proposal, sessions, initiatives, recorded>>
    BY <1>4 DEF StartLaunch, TaskDies
  <2> QED BY <2>1, InvisibleSteps DEF PaymentStep, PaidSessions
<1> QED BY <1>2, <1>3, <1>4 DEF Launch

\* The funnel, the webhook and the launches together do what a payment promises, for
\* any number of sessions, deliveries, requests and operators.
THEOREM PaymentsKeepTheirPromise == Spec => ImplementsPaidActivation
<1>1. Init => Payment!Init
  BY DEF Init, Payment!Init, PaidSessions, MadeFor, UnderWay
<1>2. ASSUME IInv, AbsentUnscheduled, [Next]_vars PROVE [Payment!Next]_(Payment!paymentVars)
  <2>1. CASE UNCHANGED vars
    BY <2>1 DEF vars, Payment!paymentVars, PaidSessions, MadeFor, UnderWay
  <2>2. CASE Next
    BY <1>2, <2>2, FunnelMapped, WebhookMapped, LaunchMapped DEF Next, PaymentStep
  <2> QED BY <1>2, <2>1, <2>2
<1> QED BY <1>1, <1>2, Invariance, NeverUnscheduled, PTL DEF Spec, ImplementsPaidActivation, Payment!Spec
=============================================================================
