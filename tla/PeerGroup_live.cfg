SPECIFICATION FairSpec
CONSTANTS
  Peer = {p1, p2}
  NoPeer = NoPeer
  TickMod = 4
  TickBase = 3
  CheckTimeout = 0
  MaxTick = 1
  LastConnect = 0
PROPERTIES
  ConnectionsSettle
  VersionLeadsToSession
CHECK_DEADLOCK FALSE
