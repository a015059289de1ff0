CONSTANTS
  Fid = {f1, f2}
  Fd = {d1}
  MaxSock = 0
  MaxOp = 3
  PoolSize = 1
  MaxUse = 2
  CloseParked = FALSE
  NoFid = NoFid
  NoFd = NoFd
SPECIFICATION FairSpec
PROPERTIES
  OffloadSettles
CHECK_DEADLOCK FALSE
