CONSTANTS
  p1 = p1
  p2 = p2
  p3 = p3
  x1 = x1
  x2 = x2
  a1 = a1
  a2 = a2
  a3 = a3
  None = None
  Peers = {p1, p2, p3}
  Prefixes = {x1, x2}
  Attrs = {a1, a2, a3}
  Asns <- MCAsns
  Asn <- MCAsn
  PathOf <- MCPathOf
  PrefOf <- MCPrefOf
  Contains <- MCNested
  ImportOk <- MCAll
  ExportOk <- MCThirdExportOk
  GrPeers = {p1, p2, p3}
  Established = {p1, p2, p3}
  MaxChanges <- Bound200
  MaxSessions <- Bound000
  MaxMail = 2
SPECIFICATION FairSpec
INVARIANTS NoEcho ChangesReachPeers NeighboursTold
PROPERTIES Settles OffersArrive
CHECK_DEADLOCK FALSE
