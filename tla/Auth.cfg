SPECIFICATION Spec
CONSTANTS
  t1 = t1
  i1 = i1
  i2 = i2
  s1 = s1
  s2 = s2
  b1 = b1
  Tokens = {t1}
  SessionIds = {i1, i2}
  Browsers = {b1}
  Slots = {s1, s2}
  Addresses <- MCAddresses
  SameClient <- MCSameClient
  None = None
  TokenTTL = 1
  SessionTTL = 1
  MaxTime = 3
SYMMETRY Symmetry
INVARIANTS
  TypeOK
  OneSessionPerToken
PROPERTIES
  ImplementsAccess
  OnlyItsClientKeepsItAlive
  NothingLiveIsSwept
CHECK_DEADLOCK FALSE
