CONSTANTS
  Keys = {k1}
  NoKey = NoKey
  RunIds = {r1}
  NoRun = NoRun
  Jobs = {j1, j2}
  NoJob = NoJob
  Requests = {q1, q2}
  Workers = {w1}
  Cancels = {}
  MaxAttempts = 2
SPECIFICATION FairSpec
INVARIANTS
  SameKeySameJob
PROPERTIES
  NoStuckRunning
  ImplementsRegistry
