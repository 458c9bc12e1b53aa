SPECIFICATION Spec
CONSTANTS
  Fds = {3, 4, 5}
  Size = 1
  Commands <- AllCommands
  FaultSets <- NoFaults
  Tunables <- BothTimers
CHECK_DEADLOCK FALSE
INVARIANTS NoOverflow
