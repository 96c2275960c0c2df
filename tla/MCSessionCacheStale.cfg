CONSTANTS
  t1 = t1
  t2 = t2
  t3 = t3
  c1 = c1
  Toggles <- MCToggles
  Checks <- MCChecks
  MaxActive = 2
  MaxRestarts = 1
SPECIFICATION Spec
INVARIANTS CacheAgreesWithTable
CHECK_DEADLOCK FALSE
