CONSTANTS
  Node = {n1, n2}
  Artifact = {1, 2}
  Version = {1, 2}
  Time = {1}
  None = None
  Torn = Torn
  MaxRegistrations = 2
  MaxFaults = 1
SPECIFICATION FairSpec
INVARIANTS ContentMatches
PROPERTIES RecordsClimb ResourcesConverge
CHECK_DEADLOCK FALSE
