CONSTANTS
  Recipients = {p1}
  Activations = {a1}
  Editors = {e1}
  Campaigns = {c1}
  NoCampaign = NoCampaign
  Creatives = {v1}
  NoCreative = NoCreative
  Uploads = {u1, u2}
  NoUpload = NoUpload
SPECIFICATION Spec
INVARIANTS
  ScheduledWasUploaded
CHECK_DEADLOCK FALSE
