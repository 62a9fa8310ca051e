CONSTANTS
  nthreads = 2
  MAXNCLI = 3
  MaxConns = 2
SPECIFICATION Spec
INVARIANT CountsInOwnSlot
CHECK_DEADLOCK FALSE
