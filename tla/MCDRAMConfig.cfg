SPECIFICATION Spec
CONSTANTS
  Width64 = 13
  Width32 = 10
  Inputs <- MCInputs
  Addresses <- MCAddresses
CHECK_DEADLOCK FALSE
INVARIANTS
  TypeOK
  
  NoMappingWorks
  TopIndexOutOfRange
  MemoryIsThere
  DerivedSizes
PROPERTY
  FieldsToldApart
