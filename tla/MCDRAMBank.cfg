SPECIFICATION Spec
CONSTANTS
  Rows = 2
  Cols = 1
  Cell = {0, 1}
  Width = 3
  RowAddr <- MCRowAddr
  ColAddr <- MCColAddr
INVARIANTS
  TypeOK
  Lockstep
  ThrowingReadKeepsRest
  NothingReadBack
PROPERTY
  ImplementsWordArray
