SPECIFICATION Spec
CONSTANTS
  timeslice = 3
  fib_arg = 5
  fact_arg = 3
  bank1_arg = 0
  bank2_arg = 0
  SignalSets = {{"SIGALRM"}}
  MaxTstp = 0
INVARIANT
  ExitedNeverResumed
CHECK_DEADLOCK FALSE
