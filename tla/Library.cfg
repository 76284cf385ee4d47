\* The library: three processes and two records, two connections, three
\* files, five lines of log, three programs that make a path of two levels,
\* and short texts.
CONSTANTS
  p1 = p1
  p2 = p2
  p3 = p3
  NoPid = NoPid
  Pids <- MCPids
  MAXNUMP = 2
  MaxStarts = 3
  MaxInterrupts = 1
  Lengths <- MCLengths
  MaxConns = 2
  Waits = {"server"}
  Signalled = {"server"}
  Sizes <- MCSizes
  MaxFiles = 3
  MaxFaults = 1
  Times = 2
  MaxLogSize = 1
  Modes = {"a+", "w"}
  MaxLines = 5
  MaxSeconds = 2
  MaxOpens = 2
  MaxFailures = 1
  Makers <- MCPids
  Depth = 2
  MaxRefusals = 1
SPECIFICATION Spec
INVARIANTS
  OneInside
  OneRecordPerPid
  MemberKeepsRecord
  StreamsStayFramed
  PublishedWhole
  LinesAreKept
  OneMakerSucceeds
  ListsAndTexts
PROPERTIES
  WaitsEnd
\* Calls may end: MKDIR returns, the bounds are reached.
CHECK_DEADLOCK FALSE
