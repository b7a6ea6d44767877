SPECIFICATION Spec
CONSTANTS
  Wheels = {"first", "second"}
  Models = {"G25", "G27"}
  ModelOf <- ModelsAre
  Serial = {"first"}
  Named = {}
  Direct = {"G27"}
  Ports = {left, right}
  left = left
  right = right
  Upgraded = {TRUE}
  MaxPlugs = 2
  MaxCalls = 1
  MaxFaults = 1
SYMMETRY Places
INVARIANTS ConfirmationBound EngineBound TransitionSeen
PROPERTY SelectionHeld
CHECK_DEADLOCK FALSE
