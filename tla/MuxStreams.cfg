CONSTANTS
  Clients = {c1}
  MaxStreams = 1
  OutCap = 2
  InboxFrames = 1
  WriteBatch = 2
  Window = 1
  MaxPermits = 2
  IdMod = 3
  BridgeOpens = {2}
  Faults = {"bad", "gone"}
  Peer = Peer
  None = None
SPECIFICATION Spec
INVARIANTS TypeOK BudgetExact EvictionClosesGate NoHalfOpen
CHECK_DEADLOCK FALSE
