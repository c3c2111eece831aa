SPECIFICATION FairSpec
CONSTANTS
  a = a
  b = b
  x = x
  y = y
  r1 = r1
  r2 = r2
  None = None
  Ticker = ticker
  Ids = {a}
  Targets = {x, y}
  Requests = {r1}
  Reloads = TRUE
PROPERTIES
  StatusConverges
  RequestEnds
CHECK_DEADLOCK FALSE
