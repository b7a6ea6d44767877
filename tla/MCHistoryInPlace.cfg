SPECIFICATION Spec
CONSTANTS
  Wheels = {"first", "second"}
  Models = {"G25", "G27"}
  ModelOf <- ModelsAre
  Serial = {"first"}
  Named = {}
  Direct = {"G27"}
  Ports = {left, right}
  left = left
  right = right
  Upgraded = {FALSE}
  MaxPlugs = 4
  MaxCalls = 0
  MaxFaults = 0
SYMMETRY Places
INVARIANT HistoryBound
CHECK_DEADLOCK FALSE
