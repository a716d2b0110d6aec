SPECIFICATION Spec
CONSTANTS
  t1 = t1
  t2 = t2
  Tasks = {t1, t2}
  Printing = {t1}
  Boot = boot
  Buffers = {b1, b2}
  NumBuffers = 2
  FlushRequest = flush
  NoBuffer = none
  BufferSize = 2
  Lengths <- LengthsOf
  MaxCalls <- CallsOf
  MaxFlushes = 1
  MaxFailures = 1
  fa = fa
  fb = fb
  Names = {fa, fb}
  LastCluster = 4
  PerSector = 4
  SectorSize = 2
  ClusterSize = 2
  Sizes <- SizesOf
  ReadSizes = {5}
  Offsets <- OffsetsOf
  MaxFatCalls = 4
  MaxRestarts = 1
INVARIANTS
  StorageTypeOK
  BuffersKept
  VolumeIsSound
PROPERTIES
  CallReturns
  CacheIsFlushed
  ImplementsStream
  ImplementsFiles
CHECK_DEADLOCK FALSE
