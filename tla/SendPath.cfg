CONSTANTS
  MAX_SENDQUE = 1
  Pieces = 2
  MaxSends = 4
SPECIFICATION LiveSpec
INVARIANTS OneWriteOfFront SomebodyWrites QueueBound
PROPERTIES InOrder AllWritten
CHECK_DEADLOCK FALSE
