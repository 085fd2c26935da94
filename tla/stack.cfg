SPECIFICATION MCSpec
CONSTANTS
  Hosts = {"hostA","hostB"}
  AnswerKinds = {"address","error"}
  RESOLV_ENTRIES = 2
  MAX_RETRIES = 3
  SeqnoMod = 4
  MaxSessions = 3
  Neighbours = {r,n,z}
  HalfZero = {z}
  Router = r
  Macs = {m1,m2}
  Unused = u
  ARPTAB_SIZE = 2
  ARP_MAXAGE = 3
  ArpTimes = 5
  CONNS = 2
  LISTENPORTS = 1
  UDP_CONNS = 2
  Servers = {1}
  FirstPort = 1
  NextPort = 2
  LastPort = 5
  TWTimeout = 2
  Remotes = {r1,q1}
  Datagrams = {"p","q"}
  Length <- MCLength
  HeaderUnits = 1
  BufUnits = 5
  UnitsPerByte = 2
  MaxFragment = 2
  REASS_MAXAGE = 2
  Byte = 3
  LittleEndian = TRUE
  FullSegment = 5
  IcmpEcho = 2
  Routers = {"A","B"}
  Interfaces <- MCInterfaces
  Registered <- MCRegistered
  DefaultNetif <- MCDefaultNetif
  FirstPackets <- MCFirstPackets
  FWCACHE_SIZE = 2
  FW_TIME = 3
  UIP_TTL = 3
  IpHosts = {"a","b","c"}
  Unassigned = {"c"}
  UdpOpen = {"b"}
  PINGADDRCONF = TRUE
  BROADCAST = TRUE
  REASSEMBLY = FALSE
  FirstSent <- MCFirstSent
  AtOnce = 3
  Period = 2
  ArpPeriod = 6
  ClockMod = 18
  Backlog = 2
  MaxDue = 4
INVARIANTS
  StackTypesOK
  AnsweredOnce
  ArpAsHeard
  OneConnection
  
  RecentInCache
  NoneIsLost
PROPERTIES
  StackWaitsEnd
  OldestGivesWay
  LongestWaitGivesWay
  ArithmeticRight
CHECK_DEADLOCK FALSE
