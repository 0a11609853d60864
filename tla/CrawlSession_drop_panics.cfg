CONSTANTS
  Peer <- MCPeer
  Addr <- MCAddr
  AddrOf <- MCAddrOf
  Seed <- MCSeed
  Gossip <- MCGossip
  Handshaken <- MCHandshaken
  max_concurrent_tasks = 2
  CrawlCapacity = 1
SPECIFICATION Spec
INVARIANTS
  CoordinatorListens
