CONSTANTS
  Conns = {c1, c2, c3, c4}
  Keys = {k1}
  IPs = {a1}
  MaxBridges = 3
  MaxPerIp = 2
  None = None
SPECIFICATION LiveSpec
INVARIANTS TypeOK BudgetExact SlotsExact ZerosReclaimed RoutesServed NoStrandedLink
PROPERTIES SlotsReturn ImplementsRouteTable
CHECK_DEADLOCK FALSE
