SPECIFICATION Spec
CONSTANTS
  a = a
  b = b
  p = p
  q = q
  s1 = s1
  s2 = s2
  Ids = {a, b}
  Pins = {p, q}
  None = None
  MaxAttempts = 3
  LockoutThreshold = 2
  Slots = {s1, s2}
  MaxCreds = 2
SYMMETRY Symmetry
INVARIANTS
  TypeOK
  TimerArmed
  NoGuessForgotten
  ScreenMatchesSession
  QuietWipeStands
