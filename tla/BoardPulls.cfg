SPECIFICATION FairSpec
CONSTANTS
  NServers = 1
  NClients = 2
  RECORD_NUM = 2
  Filled = {0}
  MaxPosts = 2
  Lockable = {0, 1}
  Paced = TRUE
  MaxKills = 0
INVARIANTS
  TypeOK
  SurvivesExit
PROPERTIES
  PullHidesLocked
  Answered
  PostsLogged
  ImplementsBoard
CHECK_DEADLOCK FALSE
