SPECIFICATION FairSpec
CONSTANTS
  p1 = p1
  p2 = p2
  Partial = Partial
  Kinds <- AllKinds
  MaxVersion = 3
  Pids <- MCPids
  MaxFaults = 1
INVARIANTS
  ExeComplete
  Restorable
  LeftNeutral
PROPERTIES
  RollbackWorks
  AppComesBack
CHECK_DEADLOCK FALSE
