SPECIFICATION Spec
CONSTANTS
  Ways = 3
  Modulus = 8
  MaxInserts = 9
INVARIANTS
  TypeOK
  FIFOBelowReserved
