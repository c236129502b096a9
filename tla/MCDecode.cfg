SPECIFICATION Spec
CONSTANTS
  TILE = 4
  VL = 2
  SMALL_ROW_BLOCK = 1
  SmallLimit = 2
  MediumLimit = 3
  Shapes <- MCShapes
  None = None
INVARIANTS
  TypeOK
  RowsApart
  RingInOrder
  SnapshotAgrees
  ConvWindow
PROPERTIES
  DecodeRefines
CHECK_DEADLOCK FALSE
