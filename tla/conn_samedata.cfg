SPECIFICATION Spec
CONSTANTS
  MsgLengths = {1, 3}
  BufSize = 4
  MaxRtx = 1
  MaxSynRtx = 1
  IssSteps = {2}
  SrvGap = 5
  TcpMss = 2
  Windows = {2}
  MaxSessions = 1
  MaxMsgs = 2
  MaxUnits = 1
INVARIANTS
  SameDataAgain
CHECK_DEADLOCK FALSE
