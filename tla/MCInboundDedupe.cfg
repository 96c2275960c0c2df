CONSTANTS
  m1 = m1
  m2 = m2
  m3 = m3
  m4 = m4
  m5 = m5
  k1 = k1
  k2 = k2
  k3 = k3
  k4 = k4
  Messages <- MCMessages
  Keys <- MCKeys
  KeyOf <- MCKeyOf
  Ttl = 2
  MaxKeys = 2
  PruneEvery = 3
  MaxNow = 6
SPECIFICATION Spec
SYMMETRY MCSymmetry
INVARIANTS TypeOK RefusesOnlyRecent
PROPERTIES ForgetsOnlyWhenFull
