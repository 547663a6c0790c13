CONSTANTS
  p1 = p1
  p2 = p2
  StepCount = 2
  Recipients = {p1, p2}
  Members <- TwoThenOne
  Jobs = {j1}
  NoJob = NoJob
  Hooks = {h1, h2}
  Operators = {o1}
  Commands = {"archive_parent"}
  Cancels = {}
  ByHand = {1}
  CampaignEvents = {"failed"}
SPECIFICATION Spec
SYMMETRY Symmetry
INVARIANTS
  TypeOK
  SentStepsAreComplete
  ScheduledAfterCompletion
CHECK_DEADLOCK FALSE
