CONSTANTS
  Pieces = {p1}
  NoPiece = NoPiece
  NoEvent = NoEvent
  Written = Written
  Standard = Standard
  Addresses <- Spellings
  NoAddress = NoAddress
  To <- AsWritten
  Creators = {c1, c2}
  Receivers = {h1, h2}
  Replayers = {o1}
  ReplayBound = 1
SPECIFICATION Spec
SYMMETRY Symmetry
INVARIANTS
  TypeOK
  LateMailIsBounded
  ReturnedIsSuppressed
  DuplicatesAreNotLogged
CHECK_DEADLOCK FALSE
