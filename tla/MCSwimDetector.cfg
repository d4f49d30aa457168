CONSTANTS
  Member = {m1, m2}
  PingInterval = 1
  PingTimeout = 2
  FailureThreshold = 2
  SuspectTimeout = 1
  MaxStep = 2
  MaxRenewals = 2
  SeqModulus = 2
  OldestGap = 4
SPECIFICATION FairSpec
INVARIANTS OnePing
PROPERTIES SuspicionEarned Detects
CHECK_DEADLOCK FALSE
