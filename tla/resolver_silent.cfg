SPECIFICATION FairSpec
CONSTANTS
  Hosts = {"hostA", "hostB"}
  AnswerKinds = {"address", "error", "other"}
  RESOLV_ENTRIES = 2
  MAX_RETRIES = 3
  SeqnoMod = 4
  MaxSessions = 3
PROPERTIES
  LookupEnds
CHECK_DEADLOCK FALSE
