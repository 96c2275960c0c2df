CONSTANTS
  t1 = t1
  t2 = t2
  t3 = t3
  NoTask = NoTask
  Tasks <- MCTasks
  MaxRetries = 2
  BreakerThreshold = 2
SPECIFICATION Spec
INVARIANTS TypeOK AcknowledgedIsPersisted RepeatsBounded DeadOnlyAfterLastRetry NoLostWakeup
PROPERTIES BreakerHolds SettledIsFinal EverySettles ImplementsOrderedWrites
CHECK_DEADLOCK FALSE
