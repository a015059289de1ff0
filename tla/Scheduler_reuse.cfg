CONSTANTS
  MaxFibers = 4
  MaxScopes = 2
  MaxGen = 2
  MaxTimers = 1
  MaxPending = 1
  MaxQueue = 2
  Durations = {1}
  Ops = {"spawn", "cancel", "cancel-after", "scope", "sleep", "io", "await", "defer-cancel", "defer-spawn", "defer-task"}
  StaleRefs = TRUE
  CaptureInner = FALSE
  AnyDrainer = FALSE
  NestedFree <- EmptyLists
SPECIFICATION Spec
INVARIANTS
  FreeRowsEnded
PROPERTIES
  SettledOnce
CHECK_DEADLOCK FALSE
