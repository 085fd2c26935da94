SPECIFICATION MCSpec
CONSTANTS
  None = None
  chanA = chanA
  chanB = chanB
  nickA = nickA
  nickB = nickB
  Nicks = {nickA, nickB}
  ConfigNick = nickA
  Channels = {chanA, chanB}
  AutoChannel = chanA
  Commands <- MCCommands
  MaxSessions = 2
  MaxSends = 2
  MaxLines = 2
  BUF_SIZE = 6
  NICKLEN = 2
  NICK_LIST_SIZE = 2
  Letters = {"a","A"}
  Typed = {"a"}
  Folded <- MCFolded
  Speakers <- MCSpeakers
  Talkers <- MCTalkers
INVARIANTS
  TypesOK
  AgreesWithServer
  SentOnce
  
PROPERTIES
  SlotIsChannel
  LineEdited
CHECK_DEADLOCK FALSE
