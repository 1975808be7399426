SPECIFICATION FairSpec
CONSTANTS
  user = user
  system = system
  run = run
  xdg = xdg
  node1 = node1
  node2 = node2
  node3 = node3
  Nothing = Nothing
  Daemons = {user, system}
  Nodes = {node1, node2, node3}
  Dirs = {run, xdg}
  UsableDirs = {run, xdg}
  Environments <- MCEnvironments
  Device <- MCDevice
  ExplicitConfig = {system}
  ConfigFiles = {"valid", "missing"}
  ResumeThreshold = 2
  MaxEvents = 2
CHECK_DEADLOCK FALSE
INVARIANTS
  TypeOK
  SiblingsNeverMeet
  OneProxy
  NoFeedback
  RunsStartClean
  OneLateBatch
  AskedStaysOff
PROPERTIES
  LetsGo
