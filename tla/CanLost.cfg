SPECIFICATION CanSpec
CONSTANTS
  t1 = t1
  t2 = t2
  Tasks = {t1, t2}
  None = none
  TxQSize = 3
  RxQSize = 1
  MaxTx <- TxOf
  MaxArrivals = 0
  MaxResets = 1
CHECK_DEADLOCK FALSE
INVARIANT AcceptedIsKept
