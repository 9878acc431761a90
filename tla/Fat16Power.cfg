SPECIFICATION Spec
CONSTANTS
  a = a
  b = b
  Names = {a, b}
  NoName = NoName
  to83 <- ShortNames
  BootFile = a
  NClusters = 3
  ClusterSize = 1
  NSlots = 2
  MaxFds = 3
  MaxWrite = 1
  MaxSize = 2
  MaxReaders = 0
  Polite = TRUE
  Seeks = FALSE
  PowerFails <- InsideWrites
INVARIANTS
  NoCrossLink
  NoDangling
PROPERTIES
  ImplementsStore
