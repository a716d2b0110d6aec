SPECIFICATION Spec
CONSTANTS
  t1 = t1
  t2 = t2
  t3 = t3
  bit1 = bit1
  bit2 = bit2
  QTasks = {t1, t2}
  NoOwner = noOwner
  QItems = {x1, x2}
  TaskItems = {x1}
  NoItem = noItem
  QLength = 2
  SetLength = 2
  MaxLock = 1
  KtTasks = {t1, t2}
  NobodyKt = nobody
  Wheel = 4
  MaxWait = 2
  MaxTicks = 5
  MiTasks = {t1, t2, t3}
  NoHolder = noHolder
  Mutexes = {m1, m2}
  BasePriorities <- TwoLevels
  UartTasks = {t1, t2}
  UartBoot = uartBoot
  DirectSets <- DirectOf
  NoChar = noChar
  NoTask = noTask
  UartTxQSize = 2
  UartRxQSize = 1
  HwFifoSize = 2
  MaxString = 2
  MaxChars <- CharsOf
  TimerRange = 5
  BackPeriod = 2
  FeedPeriod = 3
  WatchPeriod = 5
  IrGap = 2
  MaxEdges = 1
  MaxLatency = 1
  MaxTime = 9
  RtcTasks = {t1}
  NoList = noList
  MaxAlarms = 3
  SecsPerMin = 2
  MinsPerHour = 2
  HoursPerDay = 1
  MaxSeconds = 2
  AlarmArgs <- AlarmsOf
  EgTasks = {t1, t2}
  EgBits = {bit1, bit2}
  Asks <- AsksOf
  MaxRises = 2
INVARIANTS
  KernelTypeOK
  NoLostWakeup
  SetHoldsEvents
  GivesUpInTime
  PriorityInheritance
  PrintfInOrder
  UptimeIsExact
  WatchdogNeverExpires
  AlarmsOnTime
  EventsUsedOnce
PROPERTIES
  ImplementsQueue
  TickWakesTheDue
CHECK_DEADLOCK FALSE
