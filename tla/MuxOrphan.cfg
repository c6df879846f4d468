CONSTANTS
  Clients = {c1}
  MaxStreams = 1
  OutCap = 1
  InboxFrames = 1
  WriteBatch = 1
  Window = 2
  MaxPermits = 3
  IdMod = 2
  BridgeOpens = {}
  Faults = {"gone"}
  Peer = Peer
  None = None
SPECIFICATION LiveSpec
PROPERTIES DeadLinkEndsStreams
CHECK_DEADLOCK FALSE
