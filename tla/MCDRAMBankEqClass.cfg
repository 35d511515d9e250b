SPECIFICATION Spec
CONSTANTS
  Rows = 2
  Cols = 1
  Cell = {0, 1}
  Width = 2
  BusWidth = 4
  RowAddr <- MCRowAddr
  ColAddr <- MCColAddr
  Sizes <- MCSizes
CHECK_DEADLOCK FALSE
INVARIANTS
  TypeOK
  AliveMeansBlank
  CrashedWithRowOpen
