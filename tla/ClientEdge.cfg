CONSTANTS
  Conns = {c1, c2}
  IPs = {a1}
  MaxPerIp = 1
SPECIFICATION LiveSpec
INVARIANTS TypeOK ClientSlotsExact
PROPERTIES HangupReleases
CHECK_DEADLOCK FALSE
