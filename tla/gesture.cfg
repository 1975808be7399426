SPECIFICATION Spec
CONSTANTS
  NSlots = 1
  NoSlot = NoSlot
  NoContact = NoContact
  NoPos = NoPos
  ScrollEnabled = TRUE
  Outer <- OffCenter
  Swept <- RingSwept
  HalfTurn <- N
  Direction <- RingDirection
  Bearing <- RingBearing
  Near <- RingNear
  TightTurns <- SmallTurns
  HistoryCapacity = 6
  Scale = 12
  Sensitivity = 1
  Starts <- RoamStarts
  Reach <- Roam
  MaxContacts = 2
  MaxFrames = 10
  HorizontalEnable = TRUE
  HorizontalStart = 14
  HorizontalEnd = 2
  ReverseVertical = FALSE
  ReverseHorizontal = TRUE
CHECK_DEADLOCK FALSE
INVARIANTS
  TypeOK
  OneWayScroll
  ProportionalScroll
  TrapHolds
  TickNeedsTravel
