CONSTANTS
  u1 = u1
  u2 = u2
  u3 = u3
  u4 = u4
  u5 = u5
  alice = alice
  bob = bob
  spammer = spammer
  m1 = m1
  m2 = m2
  m3 = m3
  m4 = m4
  Runner = Runner
  Updates <- StrikeUpdates
  Owner <- OneOwner
  Sender <- OneSender
  Message <- FourMessages
  ReceivedAt <- Bursts
  Window = 5
  MaxInFlight = 2
  MaxCrashes = 1
  MaxWrites = 1
  Faults = {"forget", "save", "lost", "read", "session", "throw", "unblock", "block", "log"}
SPECIFICATION SafeSpec
INVARIANTS TypeOK OneRowPerMessage BlockNeedsThreeBursts
CHECK_DEADLOCK FALSE
