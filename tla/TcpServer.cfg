SPECIFICATION FairSpec
CONSTANTS
  MaxThreads = 3
  Conns = {c1, c2}
INVARIANTS
  CollectedLoopsServe
  RoundRobin
  WorkersEndFirst
  RegisteredIsHeld
PROPERTIES
  StartReturns
  DestructorsReturn
  ServedAndReleased
CHECK_DEADLOCK FALSE
