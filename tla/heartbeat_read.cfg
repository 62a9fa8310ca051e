CONSTANTS
  MaxCalls = 0
  RTT_RXTMIN = 2
  RTT_RXTMAX = 60
  RTT_MAXNREXMT = 2
  PerSecond = 1
  Estimates = {0, 100}
  MaxLines = 0
  MaxAnswers = 0
  max_ttl = 1
  nprobes = 1
SPECIFICATION AnySpec
INVARIANT InterruptedReadRetried
CHECK_DEADLOCK FALSE
