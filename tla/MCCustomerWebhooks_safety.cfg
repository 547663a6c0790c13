CONSTANTS
  Subs = {s1}
  NoSub = NoSub
  Deliveries = {d1}
  NoDelivery = NoDelivery
  Emitters = {e1}
  Workers = {w1, w2}
  Updates = {"active", "paused"}
  MaxAttempts = 3
  Threshold = 2
  TaskBound = 1
  LossBound = 1
  RefireBound = 1
SPECIFICATION FairSpec
INVARIANTS
  TypeOK
  GivenUpAfterEveryAttempt
  FailingIsEarned
PROPERTIES
  SettledDeliveriesStaySettled
  PendingIsSettled
