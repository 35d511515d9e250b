SPECIFICATION FairControllerSpec
CONSTANTS
  Client = {c1, c2}
  Seqs = {0, 1}
  BankId = {b1}
  RowId = {r1}
  OpenCycles = 1
  TransferCycles = 1
  OpenRow = {"dies"}
  Transfer = {"throws"}
  Send = {"sent", "fails", "dies"}
  None = None
  Descriptors = 2
  DataSizes = {0, 1}
CHECK_DEADLOCK FALSE
INVARIANTS
  ControllerTypeOK
  NothingIsDispatched
  AtMostOneLate
  EarlyEndIsFull
  EndsWithController
PROPERTIES
  ImplementsDispatcher
  StopCompletes
  LateEndsStart
  RequestArrives
