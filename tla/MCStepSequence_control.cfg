CONSTANTS
  p1 = p1
  p2 = p2
  StepCount = 2
  Recipients = {p1}
  Members <- OneThenOne
  Jobs = {j1}
  NoJob = NoJob
  Hooks = {h1}
  Operators = {o1}
  Commands = {"scheduled", "paused", "archived"}
  Cancels = {1}
  ByHand = {1}
  CampaignEvents = {}
SPECIFICATION Spec
PROPERTIES
  EndedStaysEnded
  CancelledJobsStayOff
CHECK_DEADLOCK FALSE
