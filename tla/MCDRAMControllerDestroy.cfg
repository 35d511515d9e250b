SPECIFICATION ControllerSpec
CONSTANTS
  Client = {c1}
  Seqs = {0, 1}
  BankId = {b1}
  RowId = {r1}
  OpenCycles = 1
  TransferCycles = 1
  OpenRow = {"dies"}
  Transfer = {"throws"}
  Send = {"sent", "fails", "dies"}
  None = None
  Descriptors = 2
  DataSizes = {0}
CHECK_DEADLOCK FALSE
INVARIANT
  ShutdownIsGraceful
