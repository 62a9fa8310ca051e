CONSTANTS
  c1 = c1
  c2 = c2
  c3 = c3
  Conns = {c1, c2, c3}
  Bytes <- MCBytes
  PollSlots = 2
  Window = 1
  MaxResets = 1
  nfiles = 4
  maxnconn = 3
  Users = {c1, c2}
  FD_SETSIZE = 2
  MaxIcmp = 3
SPECIFICATION AnySpec
INVARIANTS
  AllTypeOK TableMatchesConnections ScanServesReported EchoAccounts
  BooksAgree ReadOnlyWhenReady AlwaysSomethingToWaitFor NothingKept
PROPERTY EveryoneServed
CHECK_DEADLOCK FALSE
