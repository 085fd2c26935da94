SPECIFICATION Spec
CONSTANTS
  MsgLengths = {1}
  BufSize = 2
  MaxRtx = 1
  MaxSynRtx = 1
  IssSteps = {2}
  SrvGap = 5
  TcpMss = 2
  Windows = {2}
  MaxSessions = 1
  MaxMsgs = 1
  MaxUnits = 2
INVARIANTS
  AckedLinesDelivered
CHECK_DEADLOCK FALSE
