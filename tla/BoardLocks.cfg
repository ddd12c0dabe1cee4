SPECIFICATION Spec
CONSTANTS
  NServers = 1
  NClients = 1
  RECORD_NUM = 2
  Filled = {0}
  MaxPosts = 1
  Lockable = {0, 1}
  Paced = TRUE
  MaxKills = 0
PROPERTY
  LockedUntouched
CHECK_DEADLOCK FALSE
