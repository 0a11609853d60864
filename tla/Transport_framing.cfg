SPECIFICATION FairSpec
CONSTANTS
  HEADER_SIZE = 2
  PAYLOAD_LENGTH_OFFSET = 1
  PayloadLength <- MCPayloadLength
  MaxMessages = 3
INVARIANTS
  TypeOK
  Aligned
  RefusesOnlyInvalid
PROPERTIES
  ChannelPromise
  MessageIsPassed
