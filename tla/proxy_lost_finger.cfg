SPECIFICATION Spec
CONSTANTS
  NSlots = 2
  NoSlot = NoSlot
  NoContact = NoContact
  NoPos = NoPos
  NoKind = NoKind
  LoopMayEnd = FALSE
  ScrollEnabled = TRUE
  Points <- LinePoints
  Outer <- LineOuter
  Swept <- LineSwept
  Origin <- MCOrigin
  Leftover <- Used
  MaxTouches = 2
  FingersPerReport = 1
  QueueMax = 7
  Overflows = TRUE
  BadSlots = {}
  FetchMax = 4
  MaxReports = 5
INVARIANT
  FingersCaughtUp
