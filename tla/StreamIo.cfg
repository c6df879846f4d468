CONSTANTS
  WINDOW = 4
  MAX_PAYLOAD = 2
  GRANT_THRESHOLD = 2
  WRITE_COALESCE = 3
  OutCap = 2
  Chunks = {2}
  Buffers = {1, 2}
  Writes = {2}
  MaxWritten = 6
SPECIFICATION LiveSpec
INVARIANTS WindowsConserved ShutdownDelivers DropTells
PROPERTIES FlushReturns PeerResumes
CHECK_DEADLOCK FALSE
