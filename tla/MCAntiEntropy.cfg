SPECIFICATION MCSpec
CONSTANTS
  a = a
  b = b
  c = c
  h1 = h1
  h2 = h2
  p1 = p1
  p2 = p2
  k1 = k1
  None = None
  Id = {a, b, c}
  Leaf = {1, 2}
  Split = {1, 2}
  leaf_index <- MCLeaf
  SplitOf <- MCTwoSubtrees
  MaxRegister = 2
  Inactive = {2}
  MaxWrites = 3
  MaxFailures = 1
  Replica = {r1, r2}
  Rumour <- MCRumour
  MaxVersion = 2
  U64Max = 2
  Origin = o
  Peer = {p1, p2}
  Link <- MCFork
  Task = {t1}
  Capacity = 2
  MaxSequence = 2
  PersistMayFail = FALSE
  MaxCrash = 1
  MaxRestart = 1
  MaxLost = 1
INVARIANTS DiffExact SessionConverges HoldsJoin StrongConvergence CacheFresh SequenceUnique AppliedOnce ManagerSound
PROPERTIES Reconciles GossipSettles WalkEndsCorrect ManagerSettles
CHECK_DEADLOCK FALSE
