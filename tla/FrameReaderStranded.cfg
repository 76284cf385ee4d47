CONSTANTS
  HeadTotalLen = 2
  MaxLength = 2
  MCLens = {1}
  MCBad <- MCNegative
  MCFrames = 2
  Streams <- MCStreams
SPECIFICATION Spec
INVARIANT StoppedIsCleared
CHECK_DEADLOCK FALSE
