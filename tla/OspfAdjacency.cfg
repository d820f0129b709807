CONSTANTS
  l1 = l1
  l2 = l2
  Parts <- SecondEmpty
  Changing <- LastOne
  MaxInstances = 2
  MaxFaults = 1
  MaxRestarts = 1
  SeqLimit = 4
SPECIFICATION FairSpec
CHECK_DEADLOCK FALSE
INVARIANTS
  TypeOK
  LoadingIsAsking
  Complete
  
PROPERTY
  Adjacent
