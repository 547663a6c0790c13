----------------------- MODULE CustomerWebhooksProofs -----------------------
(***************************************************************************)
(* Proofs about CustomerWebhooks, for any number of subscriptions,         *)
(* deliveries, emitters and handlers, and any limits.                      *)
(***************************************************************************)
EXTENDS CustomerWebhooks, TLAPS

\* Whoever holds a delivery holds one that was inserted, for a subscription; only a
\* pending one waits for its time.
HeldRowsExist ==
  /\ \A d \in Deliveries : deliveries[d].due = "future" => deliveries[d].status = "pending"
  /\ \A d \in Deliveries : deliveries[d].status # "absent" => deliveries[d].sub \in Subs
  /\ \A d \in Deliveries : queue[d] > 0 => deliveries[d].status # "absent"
  /\ \A d \in found : deliveries[d].status # "absent"
  /\ \A e \in Emitters : fanout[e].row # NoDelivery => deliveries[fanout[e].row].status # "absent"
  /\ \A w \in Workers :
       IF worker[w].pc = "idle" THEN worker[w].delivery = NoDelivery
       ELSE worker[w].delivery \in Deliveries /\ deliveries[worker[w].delivery].status # "absent"

\* No count of attempts, in a row or in the hands of a handler that is about to
\* write it, is ahead of the failures that were recorded.
CountsAreEarned ==
  /\ \A d \in Deliveries : deliveries[d].attempt <= failed[d] + 1
  /\ \A w \in Workers :
       worker[w].pc = "write" => worker[w].attempt <= failed[worker[w].delivery] + 1

IInv == TypeOK /\ HeldRowsExist /\ CountsAreEarned /\ GivenUpAfterEveryAttempt /\ FailingIsEarned

USE DEF At, GoesTo, Stops, Row, IdleWorker, IdleFanout, PCs, Terminal, UpTo

LEMMA InitEstablishes == Init => IInv
  BY CustomerWebhooksAssumption
  DEF Init, IInv, TypeOK, HeldRowsExist, CountsAreEarned, GivenUpAfterEveryAttempt,
      FailingIsEarned, DeliveryRows, NoRow

\* One more task of d may wait; no other delivery gets one.
LEMMA TaskAdded ==
  ASSUME TypeOK, NEW d \in Deliveries, queue' \in {queue, WithTask(d)}
  PROVE  /\ queue' \in [Deliveries -> 0 .. TaskBound]
         /\ \A x \in Deliveries \ {d} : queue'[x] = queue[x]
  BY CustomerWebhooksAssumption DEF TypeOK, WithTask

LEMMA EmitterPreserves ==
  ASSUME IInv, NEW e \in Emitters, EmitterStep(e)
  PROVE  IInv'
<1> USE CustomerWebhooksAssumption
        DEF IInv, TypeOK, HeldRowsExist, CountsAreEarned, GivenUpAfterEveryAttempt,
            FailingIsEarned, DeliveryRows, Armed
<1>1. CASE \E matching \in SUBSET Subs : EmitEvent(e, matching)
  BY <1>1 DEF EmitEvent
<1>2. CASE \E s \in Subs, d \in Deliveries : InsertDelivery(e, s, d)
  BY <1>2 DEF InsertDelivery
<1>3. CASE EnqueueDelivery(e)
  <2> DEFINE d == fanout[e].row
  <2>1. d \in Deliveries /\ deliveries[d].status # "absent"
    BY <1>3 DEF EnqueueDelivery
  <2>2. /\ queue' \in [Deliveries -> 0 .. TaskBound]
        /\ \A x \in Deliveries \ {d} : queue'[x] = queue[x]
    BY <1>3, <2>1, TaskAdded DEF EnqueueDelivery
  <2> QED BY <1>3, <2>1, <2>2 DEF EnqueueDelivery
<1>4. CASE FanoutAborts(e)
  <2> DEFINE d == fanout[e].row
  <2>1. d \in Deliveries /\ deliveries[d].status # "absent"
    BY <1>4 DEF FanoutAborts
  <2>2. /\ queue' \in [Deliveries -> 0 .. TaskBound]
        /\ \A x \in Deliveries \ {d} : queue'[x] = queue[x]
    BY <1>4, <2>1, TaskAdded DEF FanoutAborts
  <2> QED BY <1>4, <2>1, <2>2 DEF FanoutAborts
<1> QED BY <1>1, <1>2, <1>3, <1>4 DEF EmitterStep

LEMMA SweepPreserves ==
  ASSUME IInv, NEW d \in Deliveries,
         RetryFallsDue(d) \/ EnqueueDue(d) \/ EnqueueDueFails(d) \/ RetryDelivery(d) \/ SelectDue
  PROVE  IInv'
<1> USE CustomerWebhooksAssumption
        DEF IInv, TypeOK, HeldRowsExist, CountsAreEarned, GivenUpAfterEveryAttempt,
            FailingIsEarned, DeliveryRows, Armed
<1>1. CASE RetryFallsDue(d)
  BY <1>1 DEF RetryFallsDue
<1>2. CASE EnqueueDue(d)
  <2>1. /\ queue' \in [Deliveries -> 0 .. TaskBound]
        /\ \A x \in Deliveries \ {d} : queue'[x] = queue[x]
    BY <1>2, TaskAdded DEF EnqueueDue
  <2> QED BY <1>2, <2>1 DEF EnqueueDue
<1>3. CASE EnqueueDueFails(d)
  <2>1. CASE found' = found \ {d} /\ UNCHANGED queue
    BY <1>3, <2>1 DEF EnqueueDueFails
  <2>2. CASE found' = {} /\ queue' \in {queue, WithTask(d)}
    <3>1. /\ queue' \in [Deliveries -> 0 .. TaskBound]
          /\ \A x \in Deliveries \ {d} : queue'[x] = queue[x]
      BY <2>2, TaskAdded
    <3> QED BY <1>3, <2>2, <3>1 DEF EnqueueDueFails
  <2> QED BY <1>3, <2>1, <2>2 DEF EnqueueDueFails
<1>4. CASE RetryDelivery(d)
  <2>1. /\ queue' \in [Deliveries -> 0 .. TaskBound]
        /\ \A x \in Deliveries \ {d} : queue'[x] = queue[x]
    BY <1>4, TaskAdded DEF RetryDelivery
  <2>2. /\ \A x \in Deliveries \ {d} : deliveries'[x] = deliveries[x]
        /\ deliveries'[d] = Armed(deliveries[d].sub)
        /\ deliveries' \in [Deliveries -> DeliveryRows]
    BY <1>4 DEF RetryDelivery
  <2>3. deliveries[d].status # "absent" /\ refires' \in 0 .. RefireBound
    BY <1>4 DEF RetryDelivery
  <2>4. TypeOK'
    BY <1>4, <2>1, <2>2, <2>3 DEF RetryDelivery
  <2>5. HeldRowsExist'
    BY <1>4, <2>1, <2>2, <2>3 DEF RetryDelivery
  <2>6. CountsAreEarned' /\ GivenUpAfterEveryAttempt' /\ FailingIsEarned'
    BY <1>4, <2>2, <2>3 DEF RetryDelivery
  <2> QED BY <2>4, <2>5, <2>6
<1>5. CASE SelectDue
  BY <1>5 DEF SelectDue, Due
<1> QED BY <1>1, <1>2, <1>3, <1>4, <1>5

LEMMA HandlerPreserves ==
  ASSUME IInv, NEW w \in Workers, Delivers(w) \/ LoseHandler(w)
  PROVE  IInv'
<1> USE CustomerWebhooksAssumption
        DEF IInv, TypeOK, HeldRowsExist, CountsAreEarned, GivenUpAfterEveryAttempt,
            FailingIsEarned, DeliveryRows
<1>1. CASE \E d \in Deliveries : StartDeliver(w, d)
  <2>1. PICK d \in Deliveries : StartDeliver(w, d)
    BY <1>1
  <2>2. deliveries[d].status # "absent"
    BY <2>1 DEF StartDeliver
  <2>3. queue' \in [Deliveries -> 0 .. TaskBound] /\ \A x \in Deliveries : queue'[x] <= queue[x]
    BY <2>1 DEF StartDeliver
  <2>4. \/ worker' = worker
        \/ worker' = [worker EXCEPT ![w] = [pc |-> "dispatch", delivery |-> d, attempt |-> 1]]
    BY <2>1 DEF StartDeliver, Handles
  <2>5. worker' \in [Workers -> [pc : PCs, delivery : Deliveries \cup {NoDelivery},
                                 attempt : 1 .. MaxAttempts + 1]]
    <3>1. worker \in [Workers -> [pc : PCs, delivery : Deliveries \cup {NoDelivery},
                                  attempt : 1 .. MaxAttempts + 1]]
      OBVIOUS
    <3>2. 1 \in 1 .. MaxAttempts + 1
      OBVIOUS
    <3> HIDE DEF IInv
    <3> QED BY <2>4, <3>1, <3>2
  <2>6. TypeOK'
    BY <2>1, <2>3, <2>5 DEF StartDeliver
  <2>7. HeldRowsExist'
    <3>1. UNCHANGED <<deliveries, fanout, found>>
      BY <2>1 DEF StartDeliver
    <3>2. \A x \in Deliveries : queue'[x] > 0 => queue[x] > 0
      BY <2>3
    <3>3. \A v \in Workers :
            IF worker'[v].pc = "idle" THEN worker'[v].delivery = NoDelivery
            ELSE worker'[v].delivery \in Deliveries /\ deliveries[worker'[v].delivery].status # "absent"
      BY <2>2, <2>4
    <3> QED BY <3>1, <3>2, <3>3
  <2>8. CountsAreEarned' /\ GivenUpAfterEveryAttempt' /\ FailingIsEarned'
    <3>1. UNCHANGED <<subs, deliveries, failed>>
      BY <2>1 DEF StartDeliver
    <3>2. \A v \in Workers : worker'[v].pc = "write" => worker'[v] = worker[v]
      BY <2>4
    <3> QED BY <3>1, <3>2
  <2> QED BY <2>6, <2>7, <2>8
<1>2. CASE LoadSubscription(w)
  BY <1>2 DEF LoadSubscription
<1>3. CASE Post(w)
  <2>1. PICK pc \in {"succeeded", "failed"} : worker' = [worker EXCEPT ![w].pc = pc]
    BY <1>3 DEF Post
  <2> QED BY <1>3, <2>1 DEF Post
<1>4. CASE MarkDeliverySucceeded(w)
  <2> DEFINE d == worker[w].delivery
             s == deliveries[d].sub
  <2>1. d \in Deliveries /\ s \in Subs /\ deliveries[d].status # "absent"
    BY <1>4 DEF MarkDeliverySucceeded
  <2>2. /\ \A x \in Deliveries \ {d} : deliveries'[x] = deliveries[x]
        /\ deliveries'[d] = [deliveries[d] EXCEPT !.status = "succeeded", !.due = "null"]
    BY <1>4, <2>1 DEF MarkDeliverySucceeded
  <2>3. deliveries' \in [Deliveries -> DeliveryRows]
    <3>1. deliveries[d] \in DeliveryRows
      BY <2>1
    <3>2. deliveries'[d] \in DeliveryRows
      <4> HIDE DEF d
      <4> QED BY <2>2, <3>1
    <3>3. deliveries' = [deliveries EXCEPT ![d] = deliveries'[d]]
      BY <1>4, <2>1 DEF MarkDeliverySucceeded
    <3>4. deliveries \in [Deliveries -> DeliveryRows]
      OBVIOUS
    <3> HIDE DEF d, IInv, DeliveryRows
    <3> QED BY <2>1, <3>2, <3>3, <3>4
  <2>4. /\ subs' \in [Subs -> [state : {"active", "paused", "delivery_failing"},
                               failures : 0 .. Threshold]]
        /\ \A x \in Subs \ {s} : subs'[x] = subs[x]
        /\ subs'[s].state # "delivery_failing"
    <3>1. subs' = [subs EXCEPT ![s] =
            [state |-> IF subs[s].state = "delivery_failing" THEN "active" ELSE subs[s].state,
             failures |-> 0]]
      BY <1>4 DEF MarkDeliverySucceeded
    <3>2. subs[s] \in [state : {"active", "paused", "delivery_failing"}, failures : 0 .. Threshold]
      BY <2>1
    <3>3. 0 \in 0 .. Threshold
      OBVIOUS
    <3> HIDE DEF s
    <3> QED BY <2>1, <3>1, <3>2, <3>3
  <2>5. worker' = [worker EXCEPT ![w] = IdleWorker]
    BY <1>4 DEF MarkDeliverySucceeded
  <2>6. TypeOK'
    BY <1>4, <2>3, <2>4, <2>5 DEF MarkDeliverySucceeded
  <2>7. HeldRowsExist'
    BY <1>4, <2>1, <2>2, <2>3, <2>5 DEF MarkDeliverySucceeded
  <2>8. CountsAreEarned'
    BY <1>4, <2>1, <2>2, <2>3, <2>5 DEF MarkDeliverySucceeded
  <2>9. GivenUpAfterEveryAttempt'
    <3>1. failed' = failed
      BY <1>4 DEF MarkDeliverySucceeded
    <3>2. deliveries'[d].status = "succeeded"
      BY <2>1, <2>2
    <3> HIDE DEF d, TypeOK, HeldRowsExist, CountsAreEarned, FailingIsEarned
    <3> QED BY <2>2, <3>1, <3>2
  <2>10. FailingIsEarned'
    <3> HIDE DEF s, TypeOK, HeldRowsExist, CountsAreEarned, GivenUpAfterEveryAttempt
    <3> QED BY <2>4
  <2> QED BY <2>6, <2>7, <2>8, <2>9, <2>10
<1>5. CASE ReadAttempt(w)
  BY <1>5 DEF ReadAttempt
<1>6. CASE RecordFailure(w)
  <2> DEFINE d == worker[w].delivery
             s == deliveries[d].sub
             a == worker[w].attempt
  <2>1. d \in Deliveries /\ s \in Subs /\ a \in 1 .. MaxAttempts + 1 /\ a <= failed[d] + 1
    BY <1>6 DEF RecordFailure
  <2>2. /\ \A x \in Deliveries \ {d} : deliveries'[x] = deliveries[x]
        /\ deliveries'[d] = [deliveries[d] EXCEPT
             !.status = IF a >= MaxAttempts THEN "dead_lettered" ELSE "pending",
             !.attempt = IF a + 1 > MaxAttempts + 1 THEN MaxAttempts + 1 ELSE a + 1,
             !.due = IF a >= MaxAttempts THEN "null" ELSE "future"]
    BY <1>6, <2>1 DEF RecordFailure, GivesUp
  <2>3. deliveries' \in [Deliveries -> DeliveryRows]
    <3>1. deliveries'[d] \in DeliveryRows
      <4>1. deliveries[d] \in DeliveryRows
        BY <2>1
      <4>2. (IF a + 1 > MaxAttempts + 1 THEN MaxAttempts + 1 ELSE a + 1) \in 1 .. MaxAttempts + 1
        BY <2>1
      <4> HIDE DEF d, a
      <4> QED BY <2>2, <4>1, <4>2
    <3>2. deliveries' = [deliveries EXCEPT ![d] = deliveries'[d]]
      BY <1>6, <2>1 DEF RecordFailure
    <3> QED BY <3>1, <3>2
  <2>4. /\ subs' \in [Subs -> [state : {"active", "paused", "delivery_failing"},
                               failures : 0 .. Threshold]]
        /\ \A x \in Subs \ {s} : subs'[x] = subs[x]
        /\ subs'[s].state = "delivery_failing" => subs'[s].failures = Threshold
    <3> DEFINE n == subs[s].failures + 1
               m == IF n > Threshold THEN Threshold ELSE n
    <3>1. subs' = [subs EXCEPT ![s] =
            [state |-> IF n >= Threshold THEN "delivery_failing" ELSE subs[s].state,
             failures |-> m]]
      BY <1>6 DEF RecordFailure
    <3>2. subs[s].state \in {"active", "paused", "delivery_failing"} /\ subs[s].failures \in 0 .. Threshold
      BY <2>1
    <3>3. m \in 0 .. Threshold /\ (n >= Threshold => m = Threshold)
      <4>1. subs[s].failures \in Nat /\ Threshold \in Nat /\ subs[s].failures <= Threshold
        BY <3>2
      <4> HIDE DEF s, IInv
      <4> QED BY <4>1
    <3>4. subs[s].state = "delivery_failing" => n >= Threshold
      BY <2>1, <3>2
    <3> HIDE DEF s, n, m
    <3> QED BY <2>1, <3>1, <3>2, <3>3, <3>4
  <2>5. worker' = [worker EXCEPT ![w] = IdleWorker]
    BY <1>6 DEF RecordFailure
  <2>6. /\ failed' \in [Deliveries -> 0 .. MaxAttempts]
        /\ \A x \in Deliveries \ {d} : failed'[x] = failed[x]
        /\ failed'[d] = IF failed[d] + 1 > MaxAttempts THEN MaxAttempts ELSE failed[d] + 1
    BY <1>6, <2>1 DEF RecordFailure
  <2>7. TypeOK'
    <3>1. worker' \in [Workers -> [pc : PCs, delivery : Deliveries \cup {NoDelivery},
                                   attempt : 1 .. MaxAttempts + 1]]
      BY <2>5
    <3> HIDE DEF d, s, a
    <3> QED BY <1>6, <2>3, <2>4, <2>6, <3>1 DEF RecordFailure
  <2>8. HeldRowsExist'
    BY <1>6, <2>1, <2>2, <2>3, <2>5 DEF RecordFailure
  <2>9. CountsAreEarned'
    <3>1. \A x \in Deliveries : deliveries'[x].attempt <= failed'[x] + 1
      <4>1. deliveries'[d].attempt = IF a + 1 > MaxAttempts + 1 THEN MaxAttempts + 1 ELSE a + 1
        BY <2>1, <2>2
      <4>2. failed[d] \in 0 .. MaxAttempts
        BY <2>1
      <4>3. deliveries'[d].attempt <= failed'[d] + 1
        <5> HIDE DEF d, a
        <5> QED BY <2>1, <2>6, <4>1, <4>2
      <4>4. \A x \in Deliveries \ {d} : deliveries'[x].attempt <= failed'[x] + 1
        <5> HIDE DEF d
        <5> QED BY <2>2, <2>6
      <4> QED BY <4>3, <4>4
    <3>2. \A x \in Deliveries : failed[x] <= failed'[x]
      BY <2>1, <2>6
    <3>3. \A v \in Workers :
            worker'[v].pc = "write" => worker'[v].attempt <= failed'[worker'[v].delivery] + 1
      BY <2>5, <2>6, <3>2
    <3> QED BY <3>1, <3>3
  <2>10. GivenUpAfterEveryAttempt' /\ FailingIsEarned'
    <3>1. a >= MaxAttempts => failed'[d] = MaxAttempts
      <4>1. failed[d] \in Nat /\ MaxAttempts \in Nat /\ failed[d] <= MaxAttempts
        BY <2>1
      <4>2. a \in Nat /\ a <= failed[d] + 1
        BY <2>1
      <4>3. failed'[d] = IF failed[d] + 1 > MaxAttempts THEN MaxAttempts ELSE failed[d] + 1
        BY <2>6
      <4> HIDE DEF d, a, IInv
      <4> QED BY <4>1, <4>2, <4>3
    <3>2. deliveries'[d].status = "dead_lettered" => a >= MaxAttempts
      BY <2>1, <2>2
    <3>3. GivenUpAfterEveryAttempt'
      <4> HIDE DEF d, a
      <4> QED BY <2>2, <2>6, <3>1, <3>2
    <3>4. FailingIsEarned'
      <4> HIDE DEF s
      <4> QED BY <2>4
    <3> QED BY <3>3, <3>4
  <2> QED BY <2>7, <2>8, <2>9, <2>10
<1>7. CASE LoseHandler(w)
  <2> DEFINE d == worker[w].delivery
  <2>1. d \in Deliveries /\ deliveries[d].status # "absent"
    BY <1>7 DEF LoseHandler
  <2>2. /\ queue' \in [Deliveries -> 0 .. TaskBound]
        /\ \A x \in Deliveries \ {d} : queue'[x] = queue[x]
    BY <1>7, <2>1, TaskAdded DEF LoseHandler
  <2>3. worker' = [worker EXCEPT ![w] = IdleWorker] \/ worker' = worker
    BY <1>7 DEF LoseHandler
  <2>4. losses' \in 0 .. LossBound
    BY <1>7 DEF LoseHandler
  <2>5. TypeOK'
    <3> HIDE DEF d
    <3> QED BY <1>7, <2>2, <2>3, <2>4 DEF LoseHandler
  <2>6. HeldRowsExist'
    <3>1. UNCHANGED <<deliveries, fanout, found>>
      BY <1>7 DEF LoseHandler
    <3>2. \A x \in Deliveries : queue'[x] > 0 => deliveries[x].status # "absent"
      BY <2>1, <2>2
    <3>3. \A v \in Workers : worker'[v] \in {worker[v], IdleWorker}
      BY <2>3
    <3> QED BY <3>1, <3>2, <3>3
  <2>7. CountsAreEarned' /\ GivenUpAfterEveryAttempt' /\ FailingIsEarned'
    BY <1>7, <2>3 DEF LoseHandler
  <2> QED BY <2>5, <2>6, <2>7
<1> QED BY <1>1, <1>2, <1>3, <1>4, <1>5, <1>6, <1>7 DEF Delivers

LEMMA CustomerPreserves ==
  ASSUME IInv, NEW s \in Subs, NEW state \in Updates, UpdateSubscription(s, state)
  PROVE  IInv'
  BY CustomerWebhooksAssumption
  DEF IInv, TypeOK, HeldRowsExist, CountsAreEarned, GivenUpAfterEveryAttempt,
      FailingIsEarned, DeliveryRows, UpdateSubscription

\* The invariant holds initially and every step keeps it.
THEOREM Inductive == (Init => IInv) /\ (IInv /\ [Next]_vars => IInv')
<1>1. Init => IInv
  BY InitEstablishes
<1>2. ASSUME IInv, Next PROVE IInv'
  <2>1. CASE \E e \in Emitters : EmitterStep(e)
    BY <1>2, <2>1, EmitterPreserves
  <2>2. CASE \E d \in Deliveries :
               RetryFallsDue(d) \/ EnqueueDue(d) \/ EnqueueDueFails(d) \/ RetryDelivery(d)
    BY <1>2, <2>2, SweepPreserves
  <2>3. CASE SelectDue
    <3>1. PICK d \in Deliveries : TRUE
      BY <2>3 DEF SelectDue, Due
    <3> QED BY <1>2, <2>3, <3>1, SweepPreserves
  <2>4. CASE \E w \in Workers : Delivers(w) \/ LoseHandler(w)
    BY <1>2, <2>4, HandlerPreserves
  <2>5. CASE \E s \in Subs, state \in Updates : UpdateSubscription(s, state)
    BY <1>2, <2>5, CustomerPreserves
  <2> QED BY <1>2, <2>1, <2>2, <2>3, <2>4, <2>5 DEF Next
<1>3. ASSUME IInv, UNCHANGED vars PROVE IInv'
  BY <1>3 DEF vars, IInv, TypeOK, HeldRowsExist, CountsAreEarned, GivenUpAfterEveryAttempt,
              FailingIsEarned, DeliveryRows
<1> QED BY <1>1, <1>2, <1>3

LEMMA Invariance == Spec => []IInv
<1>1. Init => IInv
  BY InitEstablishes
<1>2. IInv /\ [Next]_vars => IInv'
  BY Inductive
<1> QED BY <1>1, <1>2, PTL DEF Spec

\* Type correctness of every reachable state.
THEOREM TypeCorrect == Spec => []TypeOK
<1>1. IInv => TypeOK
  BY DEF IInv
<1> QED BY <1>1, Invariance, PTL

\* No delivery is given up before it failed MaxAttempts times, whichever handlers of it
\* ran side by side and overwrote each other's count of attempts.
THEOREM NoneGivenUpEarly == Spec => []GivenUpAfterEveryAttempt
<1>1. IInv => GivenUpAfterEveryAttempt
  BY DEF IInv
<1> QED BY <1>1, Invariance, PTL

\* A subscription is delivery_failing only with Threshold failures on its account.
THEOREM FailingOnlyWhenEarned == Spec => []FailingIsEarned
<1>1. IInv => FailingIsEarned
  BY DEF IInv
<1> QED BY <1>1, Invariance, PTL

\* One step keeps a delivery that is over and that no handler holds, unless it is re-fired.
LEMMA StepKeepsSettled ==
  ASSUME IInv, Next, NEW d \in Deliveries,
         deliveries[d].status \in Terminal, \A w \in Workers : worker[w].delivery # d
  PROVE  /\ deliveries'[d] \in {deliveries[d], Armed(deliveries[d].sub)}
         /\ \A w \in Workers : worker'[w].delivery # d
<1> USE CustomerWebhooksAssumption DEF IInv, TypeOK, HeldRowsExist, DeliveryRows
<1>1. CASE \E e \in Emitters : EmitterStep(e)
  BY <1>1 DEF EmitterStep, EmitEvent, InsertDelivery, EnqueueDelivery, FanoutAborts
<1>2. CASE \E x \in Deliveries :
             RetryFallsDue(x) \/ EnqueueDue(x) \/ EnqueueDueFails(x) \/ RetryDelivery(x)
  <2>1. PICK x \in Deliveries :
             RetryFallsDue(x) \/ EnqueueDue(x) \/ EnqueueDueFails(x) \/ RetryDelivery(x)
    BY <1>2
  <2>2. CASE RetryFallsDue(x)
    BY <2>2 DEF RetryFallsDue
  <2>3. CASE EnqueueDue(x) \/ EnqueueDueFails(x)
    BY <2>3 DEF EnqueueDue, EnqueueDueFails
  <2>4. CASE RetryDelivery(x)
    BY <2>4 DEF RetryDelivery
  <2> QED BY <2>1, <2>2, <2>3, <2>4
<1>3. CASE SelectDue
  BY <1>3 DEF SelectDue
<1>4. CASE \E w \in Workers : Delivers(w) \/ LoseHandler(w)
  <2>1. PICK w \in Workers : Delivers(w) \/ LoseHandler(w)
    BY <1>4
  <2>2. CASE \E x \in Deliveries : StartDeliver(w, x)
    <3>1. PICK x \in Deliveries : StartDeliver(w, x)
      BY <2>2
    <3>2. deliveries' = deliveries
      BY <3>1 DEF StartDeliver
    <3>3. CASE x = d
      BY <3>1, <3>2, <3>3 DEF StartDeliver
    <3>4. CASE x # d
      BY <3>1, <3>2, <3>4 DEF StartDeliver, Handles
    <3> QED BY <3>3, <3>4
  <2>3. CASE LoadSubscription(w) \/ Post(w) \/ ReadAttempt(w)
    <3>1. deliveries' = deliveries
      BY <2>3 DEF LoadSubscription, Post, ReadAttempt
    <3>2. \A v \in Workers : worker'[v].delivery = worker[v].delivery
      <4>1. CASE LoadSubscription(w)
        BY <4>1 DEF LoadSubscription
      <4>2. CASE Post(w)
        BY <4>2 DEF Post
      <4>3. CASE ReadAttempt(w)
        BY <4>3 DEF ReadAttempt
      <4> QED BY <2>3, <4>1, <4>2, <4>3
    <3> QED BY <3>1, <3>2
  <2>4. CASE MarkDeliverySucceeded(w) \/ RecordFailure(w)
    BY <2>4 DEF MarkDeliverySucceeded, RecordFailure
  <2>5. CASE LoseHandler(w)
    BY <2>5 DEF LoseHandler
  <2> QED BY <2>1, <2>2, <2>3, <2>4, <2>5 DEF Delivers
<1>5. CASE \E s \in Subs, state \in Updates : UpdateSubscription(s, state)
  BY <1>5 DEF UpdateSubscription
<1> QED BY <1>1, <1>2, <1>3, <1>4, <1>5 DEF Next

\* A delivery that is over and whose handlers have gone is never sent again and never
\* changed, except by a manual retry.
THEOREM SettledForGood == Spec => SettledDeliveriesStaySettled
<1> DEFINE Keeps ==
      \A d \in Deliveries :
        deliveries[d].status \in Terminal /\ (\A w \in Workers : worker[w].delivery # d)
        => /\ deliveries'[d] \in {deliveries[d], Armed(deliveries[d].sub)}
           /\ \A w \in Workers : worker'[w].delivery # d
<1>1. IInv /\ [Next]_vars => [Keeps]_vars
  BY StepKeepsSettled
<1>2. Spec => [][Keeps]_vars
  BY <1>1, Invariance, PTL DEF Spec
<1> QED BY <1>2 DEF SettledDeliveriesStaySettled
=============================================================================
