CONSTANTS
  Sessions = {s1, s2}
  MaxMessages = 3
SPECIFICATION LiveSpec
INVARIANTS UsedIsAlive RegisteredWhileReading
PROPERTY RemovedGoesAway
CHECK_DEADLOCK FALSE
