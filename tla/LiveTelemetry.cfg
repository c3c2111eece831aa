SPECIFICATION Spec
CONSTANTS
  w1 = w1
  w2 = w2
  w3 = w3
  NoWindow = NoWindow
  Windows = {w1, w2, w3}
  Panels = {"history"}
SYMMETRY Symmetry
INVARIANTS
  TypeOK
  ClicksAreAnswered
  LiveZoneFollowsSession
  ProofEndsWithSession
