SPECIFICATION Spec
CONSTANTS
  n1 = n1
  n2 = n2
  n3 = n3
  None = None
  Node <- MCNode
  Sponsors <- MCSponsors
  Lan = {}
  MaxBoots = 2
  MaxFaults = 1
INVARIANTS OneAdmission 
PROPERTIES DurableSpec Settles
CHECK_DEADLOCK FALSE
