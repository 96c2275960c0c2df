CONSTANTS
  b1 = b1
  p1 = p1
  p2 = p2
  k1 = k1
  k2 = k2
  None = None
  Calls <- MCCalls
  Phoned <- MCPhoned
  Accounts <- MCAccounts
  AccountOf <- MCAccountOf
  PhoneOf <- MCPhoneOf
SPECIFICATION FairSpec
INVARIANTS TypeOK OneClientPerAccount LoginsAreAwaited OnlyLateClientsLeftOpen
PROPERTIES EveryCallEnds
CHECK_DEADLOCK FALSE
