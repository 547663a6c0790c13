CONSTANTS
  Replies = {r1, r2}
  NoReply = NoReply
  Transfers = {t1, t2}
  NoTransfer = NoTransfer
  Dispatchers = {d1, d2}
  Sweepers = {s1}
  PaidCount = 1
  MaxRecoverAttempts = 1
SPECIFICATION Spec
SYMMETRY Symmetry
INVARIANTS
  TypeOK
  SentMeansMailed
  MailedAgainOnlyAfterFailure
  OverrunBoundedByConcurrency
PROPERTIES
  ImplementsIntroductions
CHECK_DEADLOCK FALSE
