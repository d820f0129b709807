CONSTANTS
  l1 = l1
  l2 = l2
  Lsas = {l1}
  Workers = {1, 2}
  Timers = {1, 2}
  Packets <- MCPackets
  MaxInstances = 2
  MaxAgings = 1
SPECIFICATION Spec
INVARIANTS TypeOK PublishedUnlessRaced
CHECK_DEADLOCK FALSE
