SPECIFICATION MCSpec
CONSTANTS
  lo = lo
  hi = hi
  None = None
  Node = {lo, hi}
  Lesser = lo
  Slot = {1, 2}
  Address <- MCAddress
  RelayClient = {hi}
  MAX_QUARANTINED_CONNECTIONS = 1
  MaxFaults = 1
  MaxCommands = 2
INVARIANTS LinkSound SlotsExact
PROPERTIES OverlaySettles
CHECK_DEADLOCK FALSE
