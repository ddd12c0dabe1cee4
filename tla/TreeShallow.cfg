SPECIFICATION FairSpec
CONSTANTS
  MaxServices = 4
  MaxDepth = 2
  MaxCommands = 5
  Paced = TRUE
INVARIANTS
  TypeOK
PROPERTIES
  CommandsEnd
  EveryoneExits
CHECK_DEADLOCK FALSE
