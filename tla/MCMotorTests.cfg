SPECIFICATION FairSpec
CONSTANTS
  ui = ui
  refresh = refresh
  UI = ui
  Orphan = Orphan
  Callers <- JustUI
  Operations <- Tests
  WorkersHang = TRUE
  MaxGen = 2
  MaxFaults = 1
  MaxCrashes = 0
INVARIANTS
  ForceOwned
PROPERTIES
  CallsReturn
  TestEnds
