CONSTANTS
  Recipients = {p1, p2}
  Activations = {a1, a2}
  Editors = {e1}
  Campaigns = {c1, c2}
  NoCampaign = NoCampaign
  Creatives = {v1}
  NoCreative = NoCreative
  Uploads = {u1, u2}
  NoUpload = NoUpload
SPECIFICATION Spec
SYMMETRY Symmetry
INVARIANTS
  TypeOK
  ScheduledHasItsFile
  OneCampaign
PROPERTIES
  ScheduledIsNotMailedAgain
  ActivatesAsStepSequence
CHECK_DEADLOCK FALSE
