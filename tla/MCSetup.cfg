SPECIFICATION Spec
CONSTANTS
  PageCount = 6
  Boundary = 2
  MaxBoxes = 2
  MaxMigrations = 1
  MaxStarts = 2
  MaxDamage = 1
INVARIANTS PastBoundary RunningTracked
PROPERTIES RunEnds
CHECK_DEADLOCK FALSE
