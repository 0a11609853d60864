SPECIFICATION Spec
CONSTANTS
  a = a
  b = b
  k1 = k1
  k2 = k2
  Node = {a, b}
  Remote <- MCPair
  Foreign = {b}
  Process <- MCTwoProcesses
  ProtocolVersion <- MCFewVersions
  Nonce = {k1, k2}
  Unknown = Unknown
  MaxForeign = 4
  Failures = TRUE
SYMMETRY MCNonceSymmetry
INVARIANTS
  EnabledIsEarned
  WritesInOrder
  CompleteIffExchanged
  FirstVersionCounts
