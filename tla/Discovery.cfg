SPECIFICATION FairSpec
CONSTANTS
  r1 = r1
  Relays = {r1}
  MaxClients = 2
  MaxRequests = 2
  MaxReplies = 2
  MaxSubs = 2
INVARIANTS
  TypeOK
  NewestStays
  StatusIsTrue
PROPERTIES
  WaitingEnds
  DeathIsNoticed
CHECK_DEADLOCK FALSE
