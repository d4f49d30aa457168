CONSTANTS
  Node = {n1, n2}
  Artifact = {1, 2}
  Version = {1, 2, 3}
  Time = {1}
  None = None
  Torn = Torn
  MaxRegistrations = 3
  MaxFaults = 1
SPECIFICATION Spec
PROPERTIES CommitRestores
CHECK_DEADLOCK FALSE
