CONSTANTS
  p1 = p1
  p2 = p2
  p3 = p3
  x1 = x1
  x2 = x2
  a1 = a1
  a2 = a2
  a3 = a3
  None = None
  Peers = {p1, p2}
  Prefixes = {x1}
  Attrs = {a1}
  Asns <- MCAsns
  Asn <- MCAsn
  PathOf <- MCNoPath
  PrefOf <- MCPrefOf
  Contains <- MCContains
  ImportOk <- MCAll
  ExportOk <- MCAll
  GrPeers = {p1, p2}
  Established = {}
  MaxChanges <- Bound100
  MaxSessions <- Bound110
  MaxMail = 2
SPECIFICATION Spec
INVARIANTS TypeOK ExportsCurrent DegradedCounts
CHECK_DEADLOCK FALSE
