CONSTANTS
  p1 = p1
  p2 = p2
  s1 = s1
  s2 = s2
  Peers = {p1, p2}
  Speakers = {s1}
  SpeakerList <- MCOne
  SpeakerOf <- MCOfOne
  Local = {p1}
  MaxSessions <- Bound20
  MaxCommands <- Bound10
  MaxSilences = 1
  MaxQueue = 2
  MaxOther = 2
SPECIFICATION FairSpec
INVARIANTS TypeOK ConnectedIsAlive CommandsDelivered
PROPERTIES ImplementsChannels SilenceIsNoticed
CHECK_DEADLOCK FALSE
