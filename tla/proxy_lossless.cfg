SPECIFICATION Spec
CONSTANTS
  NSlots = 2
  NoSlot = NoSlot
  NoContact = NoContact
  NoPos = NoPos
  NoKind = NoKind
  LoopMayEnd = FALSE
  ScrollEnabled = FALSE
  Points <- LinePoints
  Outer <- LineOuter
  Swept <- NoSweep
  Origin <- MCOrigin
  Leftover <- Used
  MaxTouches = 2
  FingersPerReport = 2
  QueueMax = 8
  Overflows = FALSE
  BadSlots = {2}
  FetchMax = 4
  MaxReports = 4
INVARIANTS
  TypeOK
  CaughtUp
  FingersCaughtUp
  ButtonsCaughtUp
  PointerFollows
