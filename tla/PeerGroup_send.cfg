SPECIFICATION Spec
CONSTANTS
  Peer = {p1}
  NoPeer = NoPeer
  TickMod = 5
  TickBase = 3
  CheckTimeout = 1
  MaxTick = 3
  LastConnect = 1
INVARIANT
  SendOnOpenSocket
SYMMETRY PeerSymmetry
CHECK_DEADLOCK FALSE
