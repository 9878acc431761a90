SPECIFICATION Spec
CONSTANTS
  a = a
  b = b
  Names = {a, b}
  NoName = NoName
  to83 <- ShortNames
  BootFile = a
  NClusters = 2
  ClusterSize = 2
  NSlots = 1
  MaxFds = 2
  MaxWrite = 1
  MaxSize = 5
  MaxReaders = 1
  Polite = TRUE
  Seeks = TRUE
  PowerFails = {}
INVARIANTS
  NoLostClusters
  ReadsStored
PROPERTIES
  Returns
  ImplementsStore
