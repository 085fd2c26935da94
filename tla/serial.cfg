SPECIFICATION MCSpec
CONSTANTS
  Plain = {"a"}
  Packets <- MCPackets
  MAX_SIZE = 2
  MaxPackets = 3
  MaxFaults = 1
  MaxOpens = 1
  OutSize = 3
  SegmentMax = 2
  StreamMax = 4
  AsmSessions = 2
  StaleBytes = {"cr","b0","x"}
INVARIANTS
  TypesOK
  SoundIntact
  LinesAsSent
PROPERTIES
  SoundArrive
CHECK_DEADLOCK FALSE
