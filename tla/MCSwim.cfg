SPECIFICATION MCSpec
CONSTANTS
  a = a
  b = b
  c = c
  Owner = o
  Peer = {p1}
  None = None
  Address = {1, 2}
  Annotation = {0, 1}
  PersistMayFail = FALSE
  U64Max = 100
  MaxIncarnation = 3
  MaxHeartbeat = 1
  MaxInbox = 1
  MaxEvents = 2
SYMMETRY Symmetry
INVARIANTS IncarnationsDurable LivenessIsOwned RegistrySound RoutesSound
PROPERTIES ViewsClimb FreshIncarnationDominates ConflictIsFinal
CHECK_DEADLOCK FALSE
