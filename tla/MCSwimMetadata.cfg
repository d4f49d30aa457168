CONSTANTS
  Owner = o
  Peer = {p1, p2}
  None = None
  Address = {1, 2}
  Annotation = {0}
  PersistMayFail = FALSE
  U64Max = 100
  MaxIncarnation = 2
  MaxHeartbeat = 0
  MaxInbox = 1
  MaxEvents = 2
SPECIFICATION Spec
PROPERTIES MetadataNeverReverts
CHECK_DEADLOCK FALSE
