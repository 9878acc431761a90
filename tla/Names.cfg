SPECIFICATION Spec
CONSTANTS
  Args <- AllArgs
  RawPaths <- Others
  Base = 1
  Ext = 1
  MaxPath = 7
  NSlots = 2
INVARIANTS
  TypeOK
  ParsedRight
  FoundAgain
