CONSTANTS
  Peer <- MCPeer
  Addr <- MCAddr
  AddrOf <- MCAddrOf
  Seed <- MCSeed
  Gossip <- MCGossip
  Handshaken <- MCHandshaken
  max_concurrent_tasks = 2
  CrawlCapacity = 1
SPECIFICATION FairSpec
INVARIANTS
  TypeOK
  ActiveTasksExact
  NoMutualWait
  EndIsComplete
  LostBatchBound
  NoPanicWhileReceiving
PROPERTIES
  StreamPromise
  Terminates
  TestedIsReported
