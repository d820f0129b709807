CONSTANTS
  l1 = l1
  l2 = l2
  Lsas = {l1, l2}
  Workers = {1, 2}
  Timers = {1, 2, 3}
  Packets <- MCPackets
  MaxInstances = 1
  MaxAgings = 0
SPECIFICATION FairSpec
PROPERTIES HoldTimersEnd LsusHandled
CHECK_DEADLOCK FALSE
