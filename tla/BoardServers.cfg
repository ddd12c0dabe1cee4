SPECIFICATION Spec
CONSTANTS
  NServers = 2
  NClients = 2
  RECORD_NUM = 3
  Filled = {0}
  MaxPosts = 4
  Lockable = {}
  Paced = FALSE
  MaxKills = 1
INVARIANTS
  EachPostOnce
  LocksForPosts
PROPERTIES
  PassesOverLocked
  ReadsOwnPosts
CHECK_DEADLOCK FALSE
