SPECIFICATION MCSpec
CONSTANTS
  max_buf_len = 2
  MaxKeys = 6
  Fields = 3
  NotDefault = {3}
  Entered = {"u1","u2"}
  Saves = 2
  NUMLINES = 4
  LINELEN = 3
  PerSegment = 2
  HelpLines = 2
  Segments <- MCSegments
  MaxClients = 2
  MaxMade = 5
  DhcpServers = {"a","b"}
  CLOCK_SECOND = 1
  DiscoverMax = 3
  RequestMax = 2
  ClockValues = 9
  Files <- MCFiles
  Index <- MCIndex
  NotFound <- MCNotFound
  HeaderParts = 1
  Room = 4
  IDLE_MAX = 3
  UIP_MAXRTX = 2
  Requests <- MCRequests
  Hosts = {"a","b","c","d"}
  Known = {"a","c","d"}
  Response <- MCResponse
  Location <- MCLocation
  WebRequest = 1
  LineRoom = 2
  WEBCLIENT_TIMEOUT = 2
  TimerValues = 3
  WebConns = 2
  WebSegment = 2
INVARIANTS
  ProgramsTypesOK
  KeysAsTyped
  NeverWaits
  ConfigKept
  
  RequestNamesOffer
  
PROPERTIES
  ProgramsGoOn
CHECK_DEADLOCK FALSE
