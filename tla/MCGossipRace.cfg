CONSTANTS
  Origin = o
  p1 = p1
  p2 = p2
  p3 = p3
  Peer = {p1, p2, p3}
  Link <- MCLink
  Task = {t1, t2}
  Capacity = 2
  MaxSequence = 2
  PersistMayFail = FALSE
  MaxCrash = 1
  MaxRestart = 0
  MaxLost = 0
SPECIFICATION GossipSpec
INVARIANTS SequenceUnique
CHECK_DEADLOCK FALSE
