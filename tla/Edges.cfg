\* The terminal client, the relay, and the server between its peers.
CONSTANTS
  MaxRequests = 3
  MaxChats = 1
  a = a
  b = b
  Pages <- MCPages
  MaxMessages <- MCMessages
  MaxFrames <- MCFrames
  Sessions <- MCSessions
  HeadTotalLen = 1
  MaxLength = 2048
  Streams <- MCStreams
  Parts = 2
SPECIFICATION Spec
INVARIANTS
  SocketOutlivesReader
  ClientInOrder
  RelayedInOrder
  ExchangeInOrder
PROPERTIES
  ArrivesAtLast
\* The client returns and the relay may end.
CHECK_DEADLOCK FALSE
