SPECIFICATION FairSpec
CONSTANTS
  READ_TIMEOUT = 2
  PeerTimeout <- MCPeerTimeout
  MaxMessages = 3
  MaxUntimed = 2
INVARIANTS
  TypeOK
  ReadsWithinTimeout
  ReturnsWhatArrived
PROPERTIES
  EarlyReturnHasPeers
  EndsOrBlocksInWrite
