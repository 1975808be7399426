SPECIFICATION FairSpec
CONSTANTS
  NSlots = 2
  NoSlot = NoSlot
  NoContact = NoContact
  NoPos = NoPos
  NoKind = NoKind
  LoopMayEnd = TRUE
  ScrollEnabled = TRUE
  Points <- OuterLine
  Outer <- LineOuter
  Swept <- LineSwept
  Origin <- MCOrigin
  Leftover <- Used
  MaxTouches = 2
  FingersPerReport = 2
  QueueMax = 7
  Overflows = TRUE
  BadSlots = {}
  FetchMax = 4
  MaxReports = 4
INVARIANTS
  ProxyInSync
  NoStuckFinger
PROPERTIES
  CaptureFreezes
  CaptureIsLocal
  TrackedContactKept
  CopiesInOrder
  CopiesAll
  ScrollEnds
