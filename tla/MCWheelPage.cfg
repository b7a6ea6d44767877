SPECIFICATION MCSpec
CONSTANTS
  Wheels = {"first", "second"}
  ModelOf <- ModelsAre
  Ports = {left, right}
  left = left
  right = right
  NoPort = NoPort
  MaxPlugs = 2
  MaxFaults = 1
  MaxActs = 2
  OnePart = TRUE
  Axes = {"x", "y", "z"}
  Signatures = {"a", "b"}
  GearCount = 2
  Levels = {1, 2}
SYMMETRY Places
CONSTRAINT OneTrouble
INVARIANTS CalibrationSound StatusTrue
PROPERTIES PassLeavesSafe EvidenceKept
CHECK_DEADLOCK FALSE
