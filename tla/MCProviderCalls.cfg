CONSTANTS
  o1 = o1
  o2 = o2
  l1 = l1
  Onboardings <- MCOnboardings
  Lookups <- MCLookups
  MaxLosses = 2
SPECIFICATION Spec
INVARIANTS TypeOK OwnerIsAsked OnePollAfterDeadline OnlyReconnectsLoseCredentials
PROPERTIES EveryCallEnds
CHECK_DEADLOCK FALSE
