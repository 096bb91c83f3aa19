CONSTANTS
  r1 = r1
  r2 = r2
  NumWatches = 2
  Ids <- MCOneId
  Limit = 1
  MaxWrites = 2
  MaxFaults = 1
  MaxConns = 1
SPECIFICATION FairSpec
INVARIANTS
  NoLostWakeup
PROPERTIES
  EventuallyDelivered
CHECK_DEADLOCK FALSE
