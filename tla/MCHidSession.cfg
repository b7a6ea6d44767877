SPECIFICATION FairSpec
CONSTANTS
  ui = ui
  worker = worker
  h1 = h1
  h2 = h2
  Reader = ui
  NoHandle = NoHandle
  Callers <- MCCallers
  Operations <- PollAndWrite
  Wheels <- JustG27
  Handles <- MCHandles
  MaxOpens = 2
  MaxFaults = 1
INVARIANTS
  ClosedOnce
  NoLeak
  LatestIsLive
  AmbiguousNotReused
PROPERTIES
  SessionReopens
