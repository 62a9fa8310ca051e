CONSTANTS
  c1 = c1
  c2 = c2
  c3 = c3
  Conns = {}
  Bytes <- MCBytes
  PollSlots = 2
  Window = 1
  MaxResets = 1
  nfiles = 2
  maxnconn = 2
  Users = {}
  FD_SETSIZE = 2
  MaxIcmp = 0
SPECIFICATION AnySpec
PROPERTY GetOnlyWhenEstablished
CHECK_DEADLOCK FALSE
