SPECIFICATION Spec
CONSTANTS
  j1 = j1
  j2 = j2
  Tokens <- TwoTokens
  Profilers = {TRUE}
  Unbound = FALSE
  ListFails = FALSE
  MaxFaults = 1
  MaxDeaths = 1
SYMMETRY Symmetry
CONSTRAINT OneTrouble
INVARIANTS
  OneAtATime
  RollbackRestores
  JournalsEnd
CHECK_DEADLOCK FALSE
