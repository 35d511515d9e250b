SPECIFICATION Spec
CONSTANTS
  Modulus = 4
  Sizes = {0, 2, 4, 6, 8, 12}
  BlockSizes = {0, 2, 3, 4}
  Associativities = {0, 1, 2, 3, 4}
  WritePolicy = "WriteBack"
  Address = {0, 3, 4, 11}
  Data = {0, 1}
  Garbage = {1}
  MaxAccesses = 4
CHECK_DEADLOCK FALSE
INVARIANTS
  TypeOK
  NothingKept
  GeometryFits
