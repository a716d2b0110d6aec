SPECIFICATION KqSpec
CONSTANTS
  QTasks = {a, b}
  NoOwner = noOwner
  QItems = {x}
  TaskItems = {x}
  NoItem = noItem
  QLength = 2
  SetLength = 2
  MaxLock = 2
INVARIANT SetWakes
CHECK_DEADLOCK FALSE
