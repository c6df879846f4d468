CONSTANTS
  MaxFrames = 0
  MaxChunks = 1
  MaxPlain = 2
  SockCap = 1
  DataLen = 2
  MAX_PONG_BACKLOG = 1
SPECIFICATION LiveSpec
PROPERTIES StagedReachesSocket
CHECK_DEADLOCK FALSE
