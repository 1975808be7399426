SPECIFICATION Spec
CONSTANTS
  NSlots = 2
  NoSlot = NoSlot
  NoContact = NoContact
  NoPos = NoPos
  NoKind = NoKind
  LoopMayEnd = FALSE
  ScrollEnabled = TRUE
  Points <- OuterLine
  Outer <- LineOuter
  Swept <- LineSwept
  Origin <- MCOrigin
  Leftover <- Used
  MaxTouches = 3
  FingersPerReport = 2
  QueueMax = 8
  Overflows = TRUE
  BadSlots = {}
  FetchMax = 8
  MaxReports = 5
ACTION_CONSTRAINT LateReader
PROPERTY
  CaptureHeld
