SPECIFICATION WirelessSpec
CONSTANTS
  RadioFifoSize = 2
  WlRxQSize = 1
  StreamPayload = 2
  WlRetries = 1
  NoPacket = noPacket
  MaxFlushes = 1
  MaxData = 0
PROPERTY PendingIsRetried
CHECK_DEADLOCK FALSE
