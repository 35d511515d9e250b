SPECIFICATION Spec
CONSTANTS
  Rows = 3
  Cols = 2
  Cell = {0, 1}
  RowAddr <- MCRowAddr
  ColAddr <- MCColAddr
INVARIANTS
  TypeOK
  ClosedBufferMatchesRow
PROPERTY
  ImplementsCellArray
