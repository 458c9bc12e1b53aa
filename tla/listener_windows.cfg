SPECIFICATION Spec
CONSTANTS
  PIDs = {p1, p2, p3}
  IPs = {i1, i2}
  NoIP = NoIP
  MaxClients = 2
  MaxPerIp = 1
  UIntMax = 15
  MaxConns = 4
  Garbage <- SomeGarbage
  InterruptPoints <- OutsideWindows
CHECK_DEADLOCK FALSE
SYMMETRY Symmetric
INVARIANTS IpCountsExact ChildrenExact
