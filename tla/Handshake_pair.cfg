SPECIFICATION FairSpec
CONSTANTS
  a = a
  b = b
  k1 = k1
  k2 = k2
  Node = {a, b}
  Remote <- MCPair
  Foreign = {}
  Process <- MCTwoProcesses
  ProtocolVersion <- MCVersions
  Nonce = {k1, k2}
  Unknown = Unknown
  MaxForeign = 0
  Failures = TRUE
INVARIANTS
  TypeOK
  Agreement
  EnabledIffWanted
  EqualNoncesNeverComplete
PROPERTIES
  SettledAtCompletion
  Settles
