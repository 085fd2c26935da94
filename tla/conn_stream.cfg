SPECIFICATION MCSpec
CONSTANTS
  MsgLengths = {1,3,4}
  BufSize = 4
  TcpMss = 2
  MaxRtx = 1
  MaxSynRtx = 1
  Windows = {1,2}
  IssSteps = {1,2}
  SrvGap = 5
  MaxSessions = 2
  MaxMsgs = 2
  MaxUnits = 1
INVARIANTS
  TypeOK
  StreamIntact
  StopAndWait
  ThisSession
PROPERTIES
  KeepsPromise
  WaitsEnd
CHECK_DEADLOCK FALSE
