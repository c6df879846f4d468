CONSTANTS
  Clients = {c1}
  MaxStreams = 1
  OutCap = 1
  InboxFrames = 1
  WriteBatch = 1
  Window = 1
  MaxPermits = 2
  IdMod = 2
  BridgeOpens = {}
  Faults = {}
  Peer = Peer
  None = None
SPECIFICATION LiveSpec
PROPERTIES HangupEndsStream
CHECK_DEADLOCK FALSE
