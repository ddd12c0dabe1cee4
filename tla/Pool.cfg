SPECIFICATION FairSpec
CONSTANTS
  NThreads = 3
  NTasks = 4
  MaxSpurious = 1
INVARIANTS
  TypeOK
  QueueInOrder
  EachTaskOnce
  WorkConserving
  WaiterIsOwedSignal
  WaitedForMeansRun
  FreedAfterExit
PROPERTIES
  ImplementsExecutor
  TasksRun
  WaitReturns
  DestroyReturns
CHECK_DEADLOCK FALSE
