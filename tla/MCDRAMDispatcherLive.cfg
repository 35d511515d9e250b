SPECIFICATION FairSpec
CONSTANTS
  Client = {c1, c2}
  Seqs = {0, 1}
  BankId = {b1, b2}
  RowId = {r1}
  OpenCycles = 1
  TransferCycles = 1
  OpenRow = {"returns", "dies"}
  Transfer = {"returns", "throws"}
  Send = {"sent", "fails", "dies"}
  None = None
CHECK_DEADLOCK FALSE
PROPERTIES
  StopReturns
  ExpectedIsDispatched
