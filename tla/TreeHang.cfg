SPECIFICATION FairSpec
CONSTANTS
  MaxServices = 3
  MaxDepth = 3
  MaxCommands = 5
  Paced = TRUE
PROPERTIES CommandsEnd
CHECK_DEADLOCK FALSE
