----------------------------- MODULE MCPeerGroup -----------------------------
\* Instances of PeerGroup for TLC: the endpoints are interchangeable.
EXTENDS PeerGroup, TLC

PeerSymmetry == Permutations(Peer)

\* Every connection has time to time out within the watched time.
ASSUME LastConnect + CheckTimeout < MaxTick
=============================================================================
