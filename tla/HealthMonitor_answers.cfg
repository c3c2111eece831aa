SPECIFICATION Spec
CONSTANTS
  a = a
  b = b
  x = x
  y = y
  r1 = r1
  r2 = r2
  None = None
  Ticker = ticker
  Ids = {a, b}
  Targets = {x}
  Requests = {r1, r2}
  Reloads = FALSE
SYMMETRY Symmetry
INVARIANTS
  CompleteRows
  FreshUnlessOverlapped
CHECK_DEADLOCK FALSE
