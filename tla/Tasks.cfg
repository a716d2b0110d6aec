SPECIFICATION Spec
CONSTANTS
  Frequency <- SmallFrequency
  t1 = t1
  t2 = t2
  t3 = t3
  TfTasks = {t1, t2, t3}
  NobodyTask = nobody
  Priorities <- PrioritiesOf
  Stacks <- StacksOf
  Delaying <- DelayingOf
INVARIANTS
  TasksTypeOK
  ActivationsOnSchedule
  RunAfterEntries
PROPERTIES
  RebootsOnlyForOverrun
  ActivationIsServed
  EveryTaskRuns
CHECK_DEADLOCK FALSE
