SPECIFICATION GameSpec
CONSTANTS
  Callers = {"ui", "refresh"}
  Kinds = {"pino", "json"}
  Automatic = {"pino"}
  Adapters = {1, 2}
  Frames <- MCFrames
  StaleAge = 1
  Full = 2
  Slew = 1
  Watchdog = 1
  MaxFailures = 1
  Gains <- MCGains
  Profiles = {2}
  Cap = 2
  Tunings <- MCTunings
  MaxCalls = 1
  MaxSessions = 1
  MaxTunings = 1
INVARIANTS ForceNeedsAuthority StoppedNeutral
CHECK_DEADLOCK FALSE
