SPECIFICATION MeshSpec
CONSTANTS
  n1 = n1
  n2 = n2
  n3 = n3
  Nodes = {n1, n2, n3}
  Neighbours <- LineOf
  Repeaters = {n2}
  Zero = zero
  Broadcast = all
  None = none
  Calls <- CallsInTurn
  InTurn = TRUE
  RetryCount = 2
  MaxNodes = 4
  MaxPendPkts = 2
  DiscoveryHops = 3
  FifoSize = 3
  MaxLosses = 1
  MaxEarly = 1
CHECK_DEADLOCK FALSE
INVARIANT LostOnlyAfterRetries
