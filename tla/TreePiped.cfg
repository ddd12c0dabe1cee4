SPECIFICATION FairSpec
CONSTANTS
  MaxServices = 2
  MaxDepth = 2
  MaxCommands = 2
  Paced = FALSE
PROPERTIES CommandsEnd
CHECK_DEADLOCK FALSE
