SPECIFICATION FairSpec
CONSTANTS
  Threads = {t1, t2, t3}
  Destroyers = {d1, d2}
  MaxThreads = 2
  MaxTasks = 3
CHECK_DEADLOCK FALSE
INVARIANTS TypeOK CountersExact NoLostWakeup ParallelLimit
PROPERTIES ServiceSpec DestroyReturns TasksRun
