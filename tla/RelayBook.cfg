SPECIFICATION BookSpec
CONSTANTS
  d = d
  c = c
  t1 = t1
  t2 = t2
  Urls = {d, c}
  Defaults = {d}
  ConfigRelays = {c}
  NoList = NoList
  Points = 1
  Tests = {t1, t2}
SYMMETRY Symmetry
INVARIANTS
  BookTypeOK
  PanelIsTrue
  NoOldTrend
