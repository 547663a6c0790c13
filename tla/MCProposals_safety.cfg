CONSTANTS
  Sessions = {s1, s2}
  NoSession = NoSession
  Initiatives = {i1, i2}
  NoInitiative = NoInitiative
  Requests = {r1, r2}
  Handlers = {h1, h2}
  Operators = {o1}
SPECIFICATION Spec
SYMMETRY Symmetry
INVARIANTS
  TypeOK
  OneActivationPerSession
  ActivationIsPaidFor
  CheckoutsAreNotDismissed
  LinkedIsLaunched
  CheckoutsAreFollowedUp
PROPERTIES
  OnlyANewCheckoutReopens
  ImplementsPaidActivation
CHECK_DEADLOCK FALSE
