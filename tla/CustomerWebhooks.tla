-------------------------- MODULE CustomerWebhooks --------------------------
(***************************************************************************)
(* Outbound webhooks of customers: the fan-out of an event into delivery   *)
(* rows and Trigger.dev tasks (analytics.py), the handler of one task      *)
(* (internal/customer_webhooks.py), what a success or a failure writes     *)
(* (services/customer_webhooks.py), the sweep that enqueues due deliveries *)
(* again, and the customer, who pauses, resumes and re-fires.              *)
(***************************************************************************)
EXTENDS Naturals, FiniteSets

CONSTANTS Subs, NoSub,            \* subscriptions
          Deliveries, NoDelivery, \* ids of delivery rows
          Emitters,               \* concurrent calls of emit_event
          Workers,                \* concurrent calls of /deliver
          Updates,                \* the states customers set: PATCH, and DELETE for "paused"
          MaxAttempts,            \* MAX_DELIVERY_ATTEMPTS
          Threshold,              \* DELIVERY_FAILING_THRESHOLD
          TaskBound,              \* bound: waiting tasks of a delivery that are told apart
          LossBound,              \* bound: handlers that die or lose their caller
          RefireBound             \* bound: manual retries

ASSUME CustomerWebhooksAssumption ==
  /\ NoSub \notin Subs /\ NoDelivery \notin Deliveries
  /\ Updates \subseteq {"active", "paused"}
  /\ MaxAttempts \in Nat \ {0} /\ Threshold \in Nat \ {0} /\ TaskBound \in Nat \ {0}
  /\ LossBound \in Nat /\ RefireBound \in Nat

VARIABLES subs,        \* state and consecutive_failures of each subscription
          deliveries,  \* the delivery rows
          queue,       \* how many tasks of each delivery wait at Trigger.dev
          fanout,      \* each call of emit_event: subscriptions left, row just inserted
          found,       \* what is left of the sweep's list
          worker,      \* each handler: where it is, its delivery, the attempt it read
          losses, refires,
          failed       \* observer: failures recorded of each delivery since its insertion

vars == <<subs, deliveries, queue, fanout, found, worker, losses, refires, failed>>

\* Counters that are only compared with a limit stop there.
UpTo(limit, n) == IF n > limit THEN limit ELSE n

Terminal == {"succeeded", "dead_lettered"}

\* next_retry_at: null, in the future, or past.
DeliveryRows ==
  [sub : Subs \cup {NoSub}, status : {"absent", "pending"} \cup Terminal,
   attempt : 1 .. MaxAttempts + 1, due : {"null", "future", "past"}]
NoRow == [sub |-> NoSub, status |-> "absent", attempt |-> 1, due |-> "null"]

\* A bug: attempts are counted from 0.
ArmedFromZero(s) == [sub |-> s, status |-> "pending", attempt |-> 0, due |-> "null"]

Armed(s) == [sub |-> s, status |-> "pending", attempt |-> 1, due |-> "null"]

PCs == {"idle", "dispatch", "post", "succeeded", "failed", "write"}
IdleWorker == [pc |-> "idle", delivery |-> NoDelivery, attempt |-> 1]
IdleFanout == [todo |-> {}, row |-> NoDelivery]

\* Rows, task counts and every caller's state have their types.
TypeOK ==
  /\ subs \in [Subs -> [state : {"active", "paused", "delivery_failing"}, failures : 0 .. Threshold]]
  /\ deliveries \in [Deliveries -> DeliveryRows]
  /\ queue \in [Deliveries -> 0 .. TaskBound]
  /\ fanout \in [Emitters -> [todo : SUBSET Subs, row : Deliveries \cup {NoDelivery}]]
  /\ found \subseteq Deliveries
  /\ worker \in [Workers -> [pc : PCs, delivery : Deliveries \cup {NoDelivery},
                             attempt : 1 .. MaxAttempts + 1]]
  /\ losses \in 0 .. LossBound /\ refires \in 0 .. RefireBound
  /\ failed \in [Deliveries -> 0 .. MaxAttempts]

Init ==
  /\ subs = [s \in Subs |-> [state |-> "active", failures |-> 0]]
  /\ deliveries = [d \in Deliveries |-> NoRow]
  /\ queue = [d \in Deliveries |-> 0]
  /\ fanout = [e \in Emitters |-> IdleFanout]
  /\ found = {}
  /\ worker = [w \in Workers |-> IdleWorker]
  /\ losses = 0 /\ refires = 0
  /\ failed = [d \in Deliveries |-> 0]

-----------------------------------------------------------------------------
(***************************************************************************)
(* emit_event: find the active subscriptions that match, and for each one  *)
(* insert a row and ask Trigger.dev for a task.                            *)
(***************************************************************************)
WithTask(d) == [queue EXCEPT ![d] = UpTo(TaskBound, @ + 1)]

\* find_matching_subscriptions; matching is the event's filter and brand.
EmitEvent(e, matching) ==
  /\ fanout[e] = IdleFanout
  /\ fanout' = [fanout EXCEPT ![e].todo = {s \in matching : subs[s].state = "active"}]
  /\ UNCHANGED <<subs, deliveries, queue, found, worker, losses, refires, failed>>

InsertDelivery(e, s, d) ==
  /\ s \in fanout[e].todo /\ fanout[e].row = NoDelivery
  /\ deliveries[d].status = "absent"
  /\ deliveries' = [deliveries EXCEPT ![d] = Armed(s)]
  /\ fanout' = [fanout EXCEPT ![e] = [todo |-> @.todo \ {s}, row |-> d]]
  /\ UNCHANGED <<subs, queue, found, worker, losses, refires, failed>>

\* The task is accepted, or refused (TriggerEnqueueError, logged); the loop goes on.
EnqueueDelivery(e) ==
  /\ fanout[e].row # NoDelivery
  /\ queue' \in {queue, WithTask(fanout[e].row)}
  /\ fanout' = [fanout EXCEPT ![e].row = NoDelivery]
  /\ UNCHANGED <<subs, deliveries, found, worker, losses, refires, failed>>

\* No answer: httpx raises what the loop does not catch, and emit_event swallows
\* it.  The process stopping here looks the same.
FanoutAborts(e) ==
  /\ fanout[e].row # NoDelivery
  /\ queue' \in {queue, WithTask(fanout[e].row)}
  /\ fanout' = [fanout EXCEPT ![e] = IdleFanout]
  /\ UNCHANGED <<subs, deliveries, found, worker, losses, refires, failed>>

-----------------------------------------------------------------------------
(***************************************************************************)
(* Time, and the sweep that runs every 15 minutes.                         *)
(***************************************************************************)
RetryFallsDue(d) ==
  /\ deliveries[d].due = "future"
  /\ deliveries' = [deliveries EXCEPT ![d].due = "past"]
  /\ UNCHANGED <<subs, queue, fanout, found, worker, losses, refires, failed>>

\* A bug: `next_retry_at <= NOW()` alone, which is not true of NULL.
DueByTimeOnly == {d \in Deliveries : deliveries[d].status = "pending" /\ deliveries[d].due = "past"}

\* find_pending_due_deliveries
Due == {d \in Deliveries : deliveries[d].status = "pending" /\ deliveries[d].due # "future"}

SelectDue ==
  /\ found = {} /\ Due # {}
  /\ found' = Due
  /\ UNCHANGED <<subs, deliveries, queue, fanout, worker, losses, refires, failed>>

EnqueueDue(d) ==
  /\ d \in found
  /\ queue' = WithTask(d)
  /\ found' = found \ {d}
  /\ UNCHANGED <<subs, deliveries, fanout, worker, losses, refires, failed>>

\* TriggerEnqueueError: the sweep goes on; anything else ends it, with or without the task.
EnqueueDueFails(d) ==
  /\ d \in found
  /\ \/ found' = found \ {d} /\ UNCHANGED queue
     \/ found' = {} /\ queue' \in {queue, WithTask(d)}
  /\ UNCHANGED <<subs, deliveries, fanout, worker, losses, refires, failed>>

-----------------------------------------------------------------------------
(***************************************************************************)
(* deliver: the handler of one task.                                       *)
(***************************************************************************)
At(w, pc) == worker[w].pc = pc
Row(w) == deliveries[worker[w].delivery]
GoesTo(w, pc) == worker' = [worker EXCEPT ![w].pc = pc]
Stops(w) == worker' = [worker EXCEPT ![w] = IdleWorker]

Handles(d) == [pc |-> "dispatch", delivery |-> d, attempt |-> 1]

\* A bug: the row's status is not looked at.
StartUnchecked(w, d) ==
  /\ At(w, "idle") /\ queue[d] > 0
  /\ queue' = [queue EXCEPT ![d] = @ - 1]
  /\ worker' = [worker EXCEPT ![w] = Handles(d)]
  /\ UNCHANGED <<subs, deliveries, fanout, found, losses, refires, failed>>

\* get_delivery; a terminal row is skipped.
StartDeliver(w, d) ==
  /\ At(w, "idle") /\ queue[d] > 0
  /\ queue' = [queue EXCEPT ![d] = @ - 1]
  /\ IF deliveries[d].status \in Terminal
     THEN UNCHANGED worker
     ELSE worker' = [worker EXCEPT ![w] = Handles(d)]
  /\ UNCHANGED <<subs, deliveries, fanout, found, losses, refires, failed>>

\* get_subscription_dispatch_view
LoadSubscription(w) ==
  /\ At(w, "dispatch")
  /\ GoesTo(w, IF subs[Row(w).sub].state = "paused" THEN "failed" ELSE "post")
  /\ UNCHANGED <<subs, deliveries, queue, fanout, found, losses, refires, failed>>

\* The customer's endpoint answers 2xx, or does not.
Post(w) ==
  /\ At(w, "post")
  /\ GoesTo(w, "succeeded") \/ GoesTo(w, "failed")
  /\ UNCHANGED <<subs, deliveries, queue, fanout, found, losses, refires, failed>>

\* A bug: the subscription's state is left as it is.
SucceedKeepingState(w) ==
  /\ At(w, "succeeded")
  /\ deliveries' = [deliveries EXCEPT ![worker[w].delivery] =
                      [@ EXCEPT !.status = "succeeded", !.due = "null"]]
  /\ subs' = [subs EXCEPT ![Row(w).sub].failures = 0]
  /\ Stops(w)
  /\ UNCHANGED <<queue, fanout, found, losses, refires, failed>>

MarkDeliverySucceeded(w) ==
  /\ At(w, "succeeded")
  /\ deliveries' = [deliveries EXCEPT ![worker[w].delivery] =
                      [@ EXCEPT !.status = "succeeded", !.due = "null"]]
  /\ subs' = [subs EXCEPT ![Row(w).sub] =
       [state |-> IF @.state = "delivery_failing" THEN "active" ELSE @.state, failures |-> 0]]
  /\ Stops(w)
  /\ UNCHANGED <<queue, fanout, found, losses, refires, failed>>

\* mark_delivery_failed reads the attempt in a transaction of its own ...
ReadAttempt(w) ==
  /\ At(w, "failed")
  /\ worker' = [worker EXCEPT ![w] = [@ EXCEPT !.pc = "write", !.attempt = Row(w).attempt]]
  /\ UNCHANGED <<subs, deliveries, queue, fanout, found, losses, refires, failed>>

\* A bug: a row is given up when its last retry is scheduled, not when it failed.
GivesUpEarly(attempt) == attempt + 1 >= MaxAttempts

\* delays_left_index < len(_RETRY_DELAYS_SECONDS) does not hold.
GivesUp(attempt) == attempt >= MaxAttempts

\* ... and writes what it makes of it in another, whatever the row holds by then.
RecordFailure(w) ==
  LET d == worker[w].delivery
      given == GivesUp(worker[w].attempt) IN
  /\ At(w, "write")
  /\ deliveries' = [deliveries EXCEPT ![d] =
       [@ EXCEPT !.status = IF given THEN "dead_lettered" ELSE "pending",
                 !.attempt = UpTo(MaxAttempts + 1, worker[w].attempt + 1),
                 !.due = IF given THEN "null" ELSE "future"]]
  /\ subs' = [subs EXCEPT ![Row(w).sub] =
       [state |-> IF @.failures + 1 >= Threshold THEN "delivery_failing" ELSE @.state,
        failures |-> UpTo(Threshold, @.failures + 1)]]
  /\ failed' = [failed EXCEPT ![d] = UpTo(MaxAttempts, @ + 1)]
  /\ Stops(w)
  /\ UNCHANGED <<queue, fanout, found, losses, refires>>

\* The handler dies, or its caller loses it while it goes on; Trigger.dev tries
\* the task again, or gives it up.
LoseHandler(w) ==
  /\ ~At(w, "idle") /\ losses < LossBound
  /\ losses' = losses + 1
  /\ queue' \in {queue, WithTask(worker[w].delivery)}
  /\ Stops(w) \/ UNCHANGED worker
  /\ UNCHANGED <<subs, deliveries, fanout, found, refires, failed>>

-----------------------------------------------------------------------------
(***************************************************************************)
(* The customer.                                                           *)
(***************************************************************************)
\* update_subscription and pause_subscription; consecutive_failures stays.
UpdateSubscription(s, state) ==
  /\ subs' = [subs EXCEPT ![s].state = state]
  /\ UNCHANGED <<deliveries, queue, fanout, found, worker, losses, refires, failed>>

\* retry_delivery_endpoint: any row, whatever its status; then a task, if Trigger.dev
\* takes it.
RetryDelivery(d) ==
  /\ deliveries[d].status # "absent" /\ refires < RefireBound
  /\ refires' = refires + 1
  /\ deliveries' = [deliveries EXCEPT ![d] = Armed(@.sub)]
  /\ queue' \in {queue, WithTask(d)}
  /\ UNCHANGED <<subs, fanout, found, worker, losses, failed>>

-----------------------------------------------------------------------------
EmitterStep(e) ==
  \/ \E matching \in SUBSET Subs : EmitEvent(e, matching)
  \/ \E s \in Subs, d \in Deliveries : InsertDelivery(e, s, d)
  \/ EnqueueDelivery(e) \/ FanoutAborts(e)

Delivers(w) ==
  \/ \E d \in Deliveries : StartDeliver(w, d)
  \/ LoadSubscription(w) \/ Post(w) \/ MarkDeliverySucceeded(w)
  \/ ReadAttempt(w) \/ RecordFailure(w)

Next ==
  \/ \E e \in Emitters : EmitterStep(e)
  \/ \E d \in Deliveries : RetryFallsDue(d) \/ EnqueueDue(d) \/ EnqueueDueFails(d) \/ RetryDelivery(d)
  \/ SelectDue
  \/ \E w \in Workers : Delivers(w) \/ LoseHandler(w)
  \/ \E s \in Subs, state \in Updates : UpdateSubscription(s, state)

Spec == Init /\ [][Next]_vars

\* Time passes; the cron runs the sweep, and Trigger.dev, which may refuse a task or
\* not answer, takes one in the end; it runs what it took, and handlers do not hang
\* (the POST has a timeout of 10 seconds).
Fairness ==
  /\ WF_vars(SelectDue)
  /\ \A d \in Deliveries : /\ WF_vars(RetryFallsDue(d)) /\ SF_vars(EnqueueDue(d))
                           /\ SF_vars(\E w \in Workers : StartDeliver(w, d))
  /\ \A w \in Workers : WF_vars(Delivers(w))

FairSpec == Spec /\ Fairness

-----------------------------------------------------------------------------
\* A delivery is given up only after MaxAttempts recorded failures, although two
\* handlers of it may read the same attempt and overwrite each other's count.  The
\* failures are counted from the insertion on, so of a delivery that a manual retry
\* re-arms after that this says nothing more.
GivenUpAfterEveryAttempt ==
  \A d \in Deliveries : deliveries[d].status = "dead_lettered" => failed[d] = MaxAttempts

\* Once a delivery is over and its last handler has gone, no task that still waits
\* sends it or changes it again; only a manual retry does.
SettledDeliveriesStaySettled ==
  [][\A d \in Deliveries :
       deliveries[d].status \in Terminal /\ (\A w \in Workers : worker[w].delivery # d)
       => /\ deliveries'[d] \in {deliveries[d], Armed(deliveries[d].sub)}
          /\ \A w \in Workers : worker'[w].delivery # d]_vars

\* A subscription reads delivery_failing only while the last Threshold recorded
\* results or more were failures: a success by any handler takes it out.
FailingIsEarned ==
  \A s \in Subs : subs[s].state = "delivery_failing" => subs[s].failures = Threshold

\* Every delivery is settled in the end: refused tasks, dead handlers, counts that
\* concurrent failures set back and paused subscriptions only delay it.
PendingIsSettled ==
  \A d \in Deliveries :
    deliveries[d].status = "pending" ~> deliveries[d].status \in Terminal
=============================================================================
