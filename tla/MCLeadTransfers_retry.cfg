CONSTANTS
  Replies = {r1}
  NoReply = NoReply
  Transfers = {t1, t2}
  NoTransfer = NoTransfer
  Dispatchers = {d1}
  Sweepers = {s1}
  PaidCount = 2
  MaxRecoverAttempts = 1
SPECIFICATION Spec
INVARIANTS
  RetryIsNotItsOwnObstacle
CHECK_DEADLOCK FALSE
