SPECIFICATION FairSpec
CONSTANTS
  Programs = {"projects", "UNP"}
  MaxCalls = 4
CHECK_DEADLOCK FALSE
INVARIANTS TypeOK InStep FdIsForCall
PROPERTIES NoOrphan CallEnds
