SPECIFICATION Spec
CONSTANTS
  a = a
  b = b
  k1 = k1
  k2 = k2
  Node = {a, b}
  Remote <- MCPair
  Foreign = {}
  Process <- MCOneProcess
  ProtocolVersion <- MCFewVersions
  Nonce = {k1, k2}
  Unknown = Unknown
  MaxForeign = 0
  Failures = FALSE
SYMMETRY MCNonceSymmetry
INVARIANTS
  LoopIsDetected
