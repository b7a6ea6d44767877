SPECIFICATION Spec
CONSTANTS
  Keys = {first, second}
  first = first
  second = second
  Values = {one}
  one = one
  Degrees = {full, narrow}
  Full = full
  full = full
  narrow = narrow
  Balanced = Balanced
  Custom = Custom
  None = None
  Appliers = {"ui"}
  MaxCalls = 3
  MaxFaults = 1
  MaxDamage = 1
SYMMETRY Wheels
INVARIANT RangeFollowsProfile
PROPERTIES OnlyResetReplaces NeverTorn
CHECK_DEADLOCK FALSE
