CONSTANTS
  h1 = h1
  p1 = p1
  e1 = e1
  e2 = e2
  m1 = m1
  m2 = m2
  None = None
  Devices = {p1}
  Nodes = {e1, e2}
  ModList <- MCOneModule
  HeadendList <- MCNoHeadend
  OldAgents = {}
  MaxAttempts = 1
  MaxFaults = 0
  MaxTopologies = 1
  Delays = {0, 1, 5}
  Desirable = 2
  Acceptable = 4
  MaxChanges = 2
  Offering = {p1}
  MaxRouteChanges = 1
SPECIFICATION DecisionSpec
INVARIANTS TypeOK SteeredAsTold
PROPERTIES GoodPathPreferred
CHECK_DEADLOCK FALSE
