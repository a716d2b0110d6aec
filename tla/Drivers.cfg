SPECIFICATION Spec
CONSTANTS
  t1 = t1
  t2 = t2
  Tasks = {t1, t2}
  None = none
  TxQSize = 1
  RxQSize = 2
  MaxTx <- TxOf
  MaxArrivals = 3
  MaxResets = 1
  I2cTasks = {t1, t2}
  Boot = boot
  NoRequester = nobody
  Sizes = {0, 1, 2, 3}
  Wrap = 4
  MaxCalls = 2
  MaxBytes = 4
INVARIANTS
  DriversTypeOK
  NotStranded
  SentAsTold
  RxInOrder
  StaysInTransfer
PROPERTIES
  QueueDrains
  TrueMeansMoved
  TransferReturns
CHECK_DEADLOCK FALSE
