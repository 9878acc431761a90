SPECIFICATION Spec
CONSTANTS
  Total = 6
  BlockSize = 2
  Sizes = {1, 2, 3, 6}
INVARIANTS
  TypeOK
  NoOverlap
  TableIsHeld
  ScanAgrees
