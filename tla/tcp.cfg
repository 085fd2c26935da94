SPECIFICATION MCSpec
CONSTANTS
  Calls = {"close","abort","stop"}
  SendMax = 1
  BytesMax <- OneByte
  RtxMax = 1
  IssGap = 5
  IncMax = 2
  DupMax = 1
INVARIANTS
  TcpTypeOK
  DataIntact
  
PROPERTIES
  EventsInOrder
  ClosingEnds
CHECK_DEADLOCK FALSE
