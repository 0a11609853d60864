SPECIFICATION FairSpec
CONSTANT
  Network = {"reliable", "segmenting", "failing"}
INVARIANTS
  TypeOK
  TransportsAgree
  RequiredMeansV2
  OneSocket
PROPERTIES
  Connects
