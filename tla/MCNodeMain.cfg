SPECIFICATION Spec
CONSTANTS
  n1 = n1
  n2 = n2
  Nodes = {n1, n2}
  TTL = 3
  Nap = 1
  MaxLag = 1
  MaxTerm = 2
  NMembers = 5
  Failures <- MCFailures
  MaxFaults = 1
  BlocksCount = 1
INVARIANTS
  LeaseInv
  
CHECK_DEADLOCK FALSE
 
