CONSTANTS
  u1 = u1
  u2 = u2
  u3 = u3
  u4 = u4
  u5 = u5
  alice = alice
  bob = bob
  spammer = spammer
  m1 = m1
  m2 = m2
  m3 = m3
  m4 = m4
  Runner = Runner
  Updates <- CrossUpdates
  Owner <- OneOwner
  Sender <- OneSender
  Message <- FourMessages
  ReceivedAt <- AnyTime
  Window = 0
  MaxInFlight = 2
  MaxCrashes = 0
  MaxWrites = 1
  Faults = {"block"}
SPECIFICATION SafeSpec
INVARIANTS LoggedBlockHolds
CHECK_DEADLOCK FALSE
