SPECIFICATION Spec
CONSTANTS
  n1 = n1
  n2 = n2
  n3 = n3
  Nodes = {n1, n2, n3}
  Neighbours <- LineOf
  Repeaters = {n2}
  Zero = zero
  Broadcast = all
  None = none
  Calls <- CallsOf
  InTurn = FALSE
  RetryCount = 1
  MaxNodes = 3
  MaxPendPkts = 2
  DiscoveryHops = 3
  FifoSize = 3
  MaxLosses = 2
  MaxEarly = 1
  RadioFifoSize = 2
  WlRxQSize = 1
  StreamPayload = 2
  WlRetries = 1
  NoPacket = noPacket
  MaxFlushes = 2
  MaxData = 2
INVARIANTS
  RadioTypeOK
  DeliveredOnce
  RetriedUntilDelivered
  LosslessDelivers
  FlushTrueMeansAcked
PROPERTIES
  Quiesces
  NewestIsKept
CHECK_DEADLOCK FALSE
