SPECIFICATION Spec
CONSTANTS
  Procs = {"sh", "child"}
  Shell = "sh"
  Size = 2
  Wrap = 4
  ScanSet <- SmallSet
  HighBit = 8
  MaxLine = 3
  Width = 2
  Height = 2
  Output <- Prompt
INVARIANTS
  TypeOK
  KeysInOrder
  ScreenShowsLine
PROPERTIES
  LineReturned
