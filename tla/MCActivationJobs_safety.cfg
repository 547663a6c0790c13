CONSTANTS
  Keys = {k1}
  NoKey = NoKey
  RunIds = {r1, r2}
  NoRun = NoRun
  Jobs = {j1}
  NoJob = NoJob
  Requests = {q1, q2}
  Workers = {w1, w2}
  Cancels = {x1}
  MaxAttempts = 2
SPECIFICATION Spec
SYMMETRY Symmetry
INVARIANTS
  TypeOK
  SucceededMeansActivated
PROPERTIES
  SettledJobsStaySettled
  NoRunOnceStored
