SPECIFICATION FairSpec
CONSTANTS
  PingCapacity = 2
  SocketCapacity = 2
  MaxMessages = 4
INVARIANTS
  TypeOK
  NoPingLost
PROPERTIES
  PongPromise
  ShutdownEnds
  CloseEnds
  PingIsAnswered
