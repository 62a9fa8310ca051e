CONSTANTS
  MaxAddrs = 3
  MaxSent = 3
  MaxTime = 6
  MaxArrivals = 2
  Window = 2
  InputLen = 4
  MAXLINE = 3
  SendCap = 2
  OutCap = 1
  MaxIfs = 5
  MaxLen = 9
SPECIFICATION AnySpec
INVARIANTS AllTypeOK SocketOfFirstUsable ReportsAreTrue NoByteLost EndsAreReal
           ChecksumCorrect AnswerComplete OpenedIsReturned
PROPERTIES ImplementsService EveryProgramSettled
CHECK_DEADLOCK FALSE
