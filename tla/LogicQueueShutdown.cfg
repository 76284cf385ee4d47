CONSTANTS
  Producers = {p1, p2}
  Kinds = {"hello"}
  Registered = {"hello"}
  Throwing = {}
  MaxPosts = 1
SPECIFICATION LiveSpec
PROPERTY CloseEndsLoop
CHECK_DEADLOCK FALSE
