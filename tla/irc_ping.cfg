SPECIFICATION Spec
CONSTANTS
  None = None
  chanA = chanA
  chanB = chanB
  nickA = nickA
  nickB = nickB
  Nicks = {nickA, nickB}
  ConfigNick = nickA
  Channels = {chanA, chanB}
  AutoChannel = chanA
  Commands <- MCCommands
  MaxSessions = 2
  MaxSends = 2
  MaxLines = 2
INVARIANTS
  EveryPingAnswered
CHECK_DEADLOCK FALSE
