SPECIFICATION Spec
CONSTANTS
  MaxServices = 4
  MaxDepth = 3
  MaxCommands = 6
  Paced = TRUE
INVARIANTS
  Quiescent
  KilledMeansExited
  DiesOnlyIfDoomed
  TreeConnected
PROPERTIES
  ImplementsTree
CHECK_DEADLOCK FALSE
