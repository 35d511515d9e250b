SPECIFICATION Spec
CONSTANTS
  Client = {c1, c2, c3}
  Seqs = {0, 1, 2}
  BankId = {b1, b2}
  RowId = {r1, r2}
  OpenCycles = 1
  TransferCycles = 1
  OpenRow = {"returns", "dies"}
  Transfer = {"returns", "throws"}
  Send = {"sent", "fails", "dies"}
  None = None
SYMMETRY Symmetry
CHECK_DEADLOCK FALSE
INVARIANTS
  TypeOK
  RowServed
  NoLostWakeup
  StopDrains
  ClockBound
PROPERTY
  ImplementsInOrderService
