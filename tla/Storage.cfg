SPECIFICATION Spec
CONSTANTS
  SectorSize = 4
  EntrySize = 2
  ItemSize = 2
  HeaderSize = 3
  Reserved = 1
  SectorsPerFat = 2
  RootEntries = 4
  SectorsPerCluster = 2
  NClusters = 2
  Radix = 2
  HighRadix = 2
  IntBound = 64
  MaxWrites = 2
INVARIANTS
  WritesDurable
  ReadsExact
PROPERTIES
  CallReturns
