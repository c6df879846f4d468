CONSTANTS
  Clients = {c1}
  MaxStreams = 1
  OutCap = 1
  InboxFrames = 1
  WriteBatch = 1
  Window = 1
  MaxPermits = 1
  IdMod = 2
  BridgeOpens = {}
  Faults = {"silent", "shutdown"}
  Peer = Peer
  None = None
SPECIFICATION LiveSpec
PROPERTIES HalfDeadLinkCloses EvictedStreamEnds HalfOpenCloses SilenceEndsSession EvictedSenderWakes
CHECK_DEADLOCK FALSE
