SPECIFICATION FairSpec
CONSTANTS
  Programs = {"chat", "server", "client", "pelco"}
  Clients = {c1, c2, c3}
  Names = {n1, n2}
  NoOne = NoOne
  Buffer = 4
  MaxRequests = 1
  MaxConnectionNum = 5
  MaxOutages = 2
  MaxSends = 3
  MaxReady = 2
  Kinds = {"connect", "call", "database", "inspect", "preset", "prepare",
           "setPreset", "hand", "sql", "history", "unknown"}
  Byte = 4
  MaxConns = 2
  MaxFrames = 2
  MaxJobs = 1
CHECK_DEADLOCK FALSE
INVARIANTS TypeOK ListsAgree IdsConserved FlagFollowsSocket FramesIntact OneInspection SeqExact
PROPERTIES Reconnects
