CONSTANTS
  u1 = u1
  u2 = u2
  u3 = u3
  u4 = u4
  u5 = u5
  alice = alice
  bob = bob
  spammer = spammer
  m1 = m1
  m2 = m2
  m3 = m3
  m4 = m4
  Runner = Runner
  Updates <- CrossUpdates
  Owner <- TwoOwners
  Sender <- OneSender
  Message <- FourMessages
  ReceivedAt <- AnyTime
  Window = 0
  MaxInFlight = 2
  MaxCrashes = 1
  MaxWrites = 2
  Faults = {"session", "unblock"}
SPECIFICATION Spec
INVARIANTS OneDecisionPerRow LoggedBlockHolds
PROPERTIES EveryRowDecided
CHECK_DEADLOCK FALSE
