SPECIFICATION Spec
CONSTANTS
  p1 = p1
  p2 = p2
  t1 = t1
  t2 = t2
  s1 = s1
  s2 = s2
  Free = Free
  Processes <- MCProcesses
  Threads <- MCThreads
  Switchers <- MCSwitchers
  MaxGeneration = 3
  MaxDepth = 3
SYMMETRY Symmetry
INVARIANTS
  Exclusive
  Backed
  NotLeaked
