CONSTANTS
  Fid = {f1, f2}
  Fd = {d1}
  MaxSock = 2
  MaxOp = 2
  PoolSize = 2
  MaxUse = 2
  CloseParked = FALSE
  NoFid = NoFid
  NoFd = NoFd
SPECIFICATION Spec
INVARIANTS
  TypeOK
  OwnResult
  ExecOnce
  NoStrayResult
  ParkedHasWakeSource
  WaitsRegistered
  SocketWaitKept
PROPERTIES
  WakeReachesParked
CHECK_DEADLOCK FALSE
