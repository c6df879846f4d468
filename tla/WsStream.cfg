CONSTANTS
  MaxFrames = 3
  MaxChunks = 2
  MaxPlain = 2
  SockCap = 1
  DataLen = 2
  MAX_PONG_BACKLOG = 1
SPECIFICATION LiveSpec
INVARIANTS TypeOK OutgoingBounded NothingInHand
PROPERTIES CloseEndsUplink WriteResumes
CHECK_DEADLOCK FALSE
