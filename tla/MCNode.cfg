SPECIFICATION MCSpec
CONSTANTS
  Cluster = {A, B}
  Peer = {p, q}
  Address = {own, x}
  Own = own
  BootstrapPeer = {own, y}
  None = None
  Torn = Torn
  MaxStarts = 2
  MaxCalls = 1
  MaxEdits = 2
  MaxFaults = 1
  Loader = Loader
  Forever = Forever
  Junk = Junk
  a = a
  b = b
  c = c
INVARIANTS LifecycleSound    CatalogSound
PROPERTIES RowsClimb NodeSettles
CHECK_DEADLOCK FALSE
