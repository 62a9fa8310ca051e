CONSTANTS
  MaxCalls = 3
  RTT_RXTMIN = 2
  RTT_RXTMAX = 60
  RTT_MAXNREXMT = 2
  PerSecond = 4
  Estimates = {0, 9, 400}
  MaxLines = 2
  MaxAnswers = 2
  max_ttl = 2
  nprobes = 2
SPECIFICATION AnySpec
INVARIANTS
  AllTypeOK NoAnswerMistaken NoTimeoutMistaken
  TimestampOfThisBase RetransmissionBounded AlarmOnlyInCall
PROPERTIES AnswerIsOwn EveryWaitSettled
CHECK_DEADLOCK FALSE
