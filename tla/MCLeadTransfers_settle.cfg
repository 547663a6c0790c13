CONSTANTS
  Replies = {r1}
  NoReply = NoReply
  Transfers = {t1, t2}
  NoTransfer = NoTransfer
  Dispatchers = {d1, d2}
  Sweepers = {s1}
  PaidCount = 2
  MaxRecoverAttempts = 2
SPECIFICATION FairSpec
PROPERTIES
  QueuedIsSettled
CHECK_DEADLOCK FALSE
