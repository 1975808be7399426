SPECIFICATION Spec
CONSTANTS
  NSlots = 1
  NoSlot = NoSlot
  NoContact = NoContact
  NoPos = NoPos
  NoKind = NoKind
  LoopMayEnd = FALSE
  ScrollEnabled = TRUE
  Points <- GridPoints
  Outer <- GridOuter
  Swept <- GridSwept
  Origin <- MCOrigin
  Leftover <- MCOrigin
  MaxTouches = 1
  FingersPerReport = 1
  QueueMax = 7
  Overflows = FALSE
  BadSlots = {}
  FetchMax = 4
  MaxReports = 5
INVARIANT
  TrappedContactPoints
