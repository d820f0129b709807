CONSTANTS
  p1 = p1
  NodeList <- FourNodes
  Peers = {p1}
  Static <- StaticLinks
  Snapshots <- Graphs
  MaxCost = 5
  MaxPublished = 2
SPECIFICATION FairSpec
CHECK_DEADLOCK FALSE
INVARIANTS
  TypeOK
  ShortestPaths
  AllOrNothing
  GraphMatchesPaths
PROPERTY
  PeersFollow
