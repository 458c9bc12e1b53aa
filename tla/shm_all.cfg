SPECIFICATION FairSpec
CONSTANTS
  Procs = {p1, p2}
  Blocks = 2
  MaxPuts = 3
  MaxInits = 4
  MaxCrashes = 2
CHECK_DEADLOCK FALSE
INVARIANTS TypeOK MutualExclusion Accounted
PROPERTIES ImplementsQueue MutexWaitEnds BlocksReachReaders
