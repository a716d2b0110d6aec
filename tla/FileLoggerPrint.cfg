SPECIFICATION FlSpec
CONSTANTS
  t1 = t1
  t2 = t2
  Tasks = {t1, t2}
  Printing = {t1}
  Boot = boot
  Buffers = {b1, b2}
  NumBuffers = 2
  FlushRequest = flush
  NoBuffer = none
  BufferSize = 2
  Lengths <- LengthsOf
  MaxCalls <- PrintCallsOf
  MaxFlushes = 1
  MaxFailures = 1
INVARIANT PrintsOwnMessage
