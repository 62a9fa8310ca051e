CONSTANTS
  Conns = {c1}
  Callers = {d1, d2}
  NoConn = NoConn
  MaxDatagrams = 1
  nworkers = 2
  nchildren = 2
  MsgLen = 2
  IntMax = 5
SPECIFICATION AnySpec
INVARIANT QuitsOverBadRequest
CHECK_DEADLOCK FALSE
