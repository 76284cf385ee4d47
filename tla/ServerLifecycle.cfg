CONSTANTS
  PoolSize = 3
  MaxAccepts = 3
  MaxPosts = 2
SPECIFICATION LiveSpec
INVARIANTS
  Balanced
  OneInstance
  ServerOutlivesHandlers
PROPERTIES
  StopJoins
CHECK_DEADLOCK FALSE
