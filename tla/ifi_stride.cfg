CONSTANTS
  MaxAddrs = 1
  MaxSent = 1
  MaxTime = 1
  MaxArrivals = 1
  Window = 1
  InputLen = 0
  MAXLINE = 2
  SendCap = 1
  OutCap = 1
  MaxIfs = 2
  MaxLen = 1
SPECIFICATION AnySpec
INVARIANT EveryInterfaceListed
CHECK_DEADLOCK FALSE
