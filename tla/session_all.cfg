SPECIFICATION FairSpec
CONSTANTS
  Fds = {3, 4, 5}
  Size = 2
  Commands <- AllCommands
  FaultSets <- AllFaults
  Tunables <- AllTunables
CHECK_DEADLOCK FALSE
INVARIANTS TypeOK DataFdValid RetrComplete IdleHoldsNothing AborSettled
PROPERTIES NoIdleKillInTransfer DataTimeoutOnlyWhenStalled TransferEnds
