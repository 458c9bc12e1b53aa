SPECIFICATION FairSpec
CONSTANTS
  PIDs = {p1, p2, p3}
  IPs = {i1}
  NoIP = NoIP
  MaxClients = 2
  MaxPerIp = 0
  UIntMax = 15
  MaxConns = 4
  Garbage <- SomeGarbage
  InterruptPoints <- AllPoints
CHECK_DEADLOCK FALSE
INVARIANTS TypeOK ChildrenCovered GlobalLimit
PROPERTIES ZombiesCollected
