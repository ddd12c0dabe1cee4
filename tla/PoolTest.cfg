SPECIFICATION TestSpec
CONSTANTS
  NThreads = 3
  NTasks = 3
  MaxSpurious = 1
PROPERTY
  TestSucceeds
CHECK_DEADLOCK FALSE
