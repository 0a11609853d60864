SPECIFICATION FairSpec
CONSTANTS
  READ_TIMEOUT = 2
  PeerTimeout <- MCPeerTimeout
  MaxMessages = 2
  MaxUntimed = 2
PROPERTIES
  TimeoutApplies
