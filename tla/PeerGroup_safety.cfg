SPECIFICATION Spec
CONSTANTS
  Peer = {p1, p2, p3}
  NoPeer = NoPeer
  TickMod = 4
  TickBase = 3
  CheckTimeout = 1
  MaxTick = 2
  LastConnect = 0
INVARIANTS
  TypeOK
  BusyCount
  StartAsserts
  ListedOnce
  RepliesHaveSlots
  CurrentPeerServes
  NoMixedPackages
PROPERTIES
  NoEarlyTimeout
  ImplementsLifecycle
SYMMETRY PeerSymmetry
CHECK_DEADLOCK FALSE
