CONSTANTS
  MaxFibers = 4
  MaxScopes = 2
  MaxGen = 2
  MaxTimers = 2
  MaxPending = 1
  MaxQueue = 3
  Durations = {1, 2}
  Ops = {"spawn", "scope", "yield", "sleep", "cancel-after"}
  StaleRefs = FALSE
  CaptureInner = FALSE
  AnyDrainer = FALSE
  NestedFree <- NoNesting
SPECIFICATION FairSpec
PROPERTIES
  ReadyServed
  DeadlineFires
CHECK_DEADLOCK FALSE
