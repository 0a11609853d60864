SPECIFICATION Spec
CONSTANT
  Network = {"segmenting"}
INVARIANTS
  DetectsProtocol
