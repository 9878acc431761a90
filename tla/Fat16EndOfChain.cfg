SPECIFICATION Spec
CONSTANTS
  a = a
  b = b
  Names = {a, b}
  NoName = NoName
  to83 <- ShortNames
  BootFile = a
  NClusters = 3
  ClusterSize = 2
  NSlots = 2
  MaxFds = 3
  MaxWrite = 2
  MaxSize = 3
  MaxReaders = 0
  Polite = FALSE
  Seeks = FALSE
  PowerFails = {}
INVARIANTS
  ReadsStopAtEnd
