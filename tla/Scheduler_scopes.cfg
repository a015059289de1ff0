CONSTANTS
  MaxFibers = 4
  MaxScopes = 3
  MaxGen = 2
  MaxTimers = 1
  MaxPending = 1
  MaxQueue = 2
  Durations = {1}
  Ops = {"spawn", "cancel", "await", "scope", "manual", "next", "fail"}
  StaleRefs = FALSE
  CaptureInner = FALSE
  AnyDrainer = FALSE
  NestedFree <- NoNesting
SPECIFICATION Spec
INVARIANTS
  TypeOK
  LiveCount
  TreeIntact
  OneWakeSource
  CancelEnds
  NothingOutlivesScope
CHECK_DEADLOCK FALSE
