SPECIFICATION MSpec
CONSTANTS
  Tasks = {1, 2, 3, 4}
  NULL = 0
  MaxProcs = 3
  Nested = TRUE
  NTables = 4
  NEntries = 5
  PageSize = 2
  ProgVirt = 4
  StackVirt = 2
  ProgSize = 3
  StackSize = 2
  ptr <- Programs
  stack <- Stacks
  Temporaries = {16}
  HeapBlocks = 20
INVARIANTS
  TypeOK
  NothingFreed
  AllScheduled
  DirectoriesOwned
  MappingsKept
  CopyReaches
PROPERTIES
  Runs
  Resumes
  NoStaleTranslation
