SPECIFICATION FairSpec
CONSTANTS
  timeslice = 1
  fib_arg = 4
  fact_arg = 3
  bank1_arg <- Withdraw300
  bank2_arg <- Withdraw300
  SignalSets = {{"SIGTSTP"}, {"SIGALRM"}, {"SIGTSTP", "SIGALRM"}}
  MaxTstp = 4
INVARIANTS
  TypeOK
  QueuesPartition
  WaitersHaveOwner
  AcquiredTheLock
  EndsInOrder
  HandOverMasked
  AlarmGoesOn
  PrintsRight
  BalanceExplained
PROPERTIES
  EveryThreadExits
CHECK_DEADLOCK FALSE
