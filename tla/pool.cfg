CONSTANTS
  nthreads = 2
  MAXNCLI = 3
  MaxConns = 5
SPECIFICATION FairSpec
INVARIANTS TypeOK ExclusiveService NoLostWakeup QuitOnlyWhenFull
PROPERTIES ImplementsQueue EveryConnectionServed
CHECK_DEADLOCK FALSE
