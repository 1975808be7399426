SPECIFICATION FairSpec
CONSTANTS
  NSlots = 2
  NoSlot = NoSlot
  NoContact = NoContact
  NoPos = NoPos
  Points <- OnePoint
  Origin <- MCOrigin
  MaxTouches = 2
  FingersPerReport = 1
  QueueMax = 20
  Overflows = FALSE
  BadSlots = {}
  FetchMax = 4
  MaxReports = 4
  CallsMayFail = TRUE
  MaySignal = TRUE
CHECK_DEADLOCK FALSE
INVARIANTS
  TypeOK
  ReadyMeansUntouched
  ExitReleases
  OthersLetGo
  QueueCarriesOn
PROPERTIES
  TakesOver
  ShutdownEndsWait
