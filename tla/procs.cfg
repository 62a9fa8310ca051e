CONSTANTS
  Conns = {c1, c2, c3}
  Callers = {d1, d2}
  NoConn = NoConn
  MaxDatagrams = 1
  nworkers = 2
  nchildren = 2
  MsgLen = 2
  IntMax = 5
SPECIFICATION AnySpec
INVARIANTS AllTypeOK NoZombieForgotten OnlyOwnConnection LockAndCounts
           FreeChildAtAccept AloneIsServed
PROPERTY EveryRequestSettled
CHECK_DEADLOCK FALSE
