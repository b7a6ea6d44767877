SPECIFICATION Spec
CONSTANTS
  ui = ui
  refresh = refresh
  UI = ui
  Orphan = Orphan
  Callers <- UIAndRefresh
  Operations <- Sessions
  WorkersHang = TRUE
  MaxGen = 2
  MaxFaults = 1
  MaxCrashes = 1
CONSTRAINT NoGap
INVARIANTS
  TypeOK
  ForceCovered
  SingleWriter
  StopMeansNeutral
PROPERTIES
  KeepsContract
