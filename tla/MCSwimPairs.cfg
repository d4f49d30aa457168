CONSTANTS
  Owner = o
  p1 = p1
  p2 = p2
  p3 = p3
  Peer = {p1, p2, p3}
  None = None
  Address = {1}
  Annotation = {0}
  PersistMayFail = FALSE
  Partner <- MCPairs
  U64Max = 100
  MaxIncarnation = 2
  MaxHeartbeat = 0
  MaxInbox = 1
  MaxEvents = 1
SPECIFICATION FairSpec
PROPERTIES Converges
CHECK_DEADLOCK FALSE
