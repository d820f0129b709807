CONSTANTS
  h1 = h1
  p1 = p1
  e1 = e1
  e2 = e2
  m1 = m1
  m2 = m2
  None = None
  Devices = {h1, p1}
  Nodes = {}
  ModList <- MCTwoModules
  HeadendList <- MCHeadend
  OldAgents = {p1}
  MaxAttempts = 2
  MaxFaults = 1
  MaxTopologies = 1
  Delays = {0}
  Desirable = 2
  Acceptable = 4
  MaxChanges = 0
  Offering = {}
  MaxRouteChanges = 0
SPECIFICATION ProvisionSpec
INVARIANTS NumbersAgree MarksOnce ConfiguredIsMarked
PROPERTIES Provisioned
CHECK_DEADLOCK FALSE
