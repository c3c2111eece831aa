SPECIFICATION FairSpec
CONSTANTS
  MaxMainEdits = 2
  MaxDropInEdits = 2
  MaxHups = 2
  MaxEvents = 4
INVARIANTS
  TypeOK
  AgreeUnlessOverlapped
PROPERTIES
  AnnouncedIsServed
  HupTakesEffect
CHECK_DEADLOCK FALSE
