CONSTANTS
  Producers = {p1, p2}
  Kinds = {"hello", "unknown", "badid"}
  Registered = {"hello", "badid"}
  Throwing = {"badid"}
  MaxPosts = 3
SPECIFICATION LiveSpec
INVARIANTS NoLostWakeup FrontExists NothingLeftBehind
PROPERTIES Ordered AllServed
CHECK_DEADLOCK FALSE
