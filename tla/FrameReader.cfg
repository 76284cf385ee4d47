CONSTANTS
  HeadTotalLen = 2
  MaxLength = 5
  MCLens = {0, 4}
  MCBad <- MCBadHeads
  MCFrames = 3
  Streams <- MCStreams
SPECIFICATION LiveSpec
INVARIANT CopiesFit
PROPERTY Framed FramedLive
CHECK_DEADLOCK FALSE
