CONSTANTS
  r1 = r1
  r2 = r2
  NumWatches = 1
  Ids <- MCIds
  Limit = 1
  MaxWrites = 3
  MaxFaults = 1
  MaxConns = 2
SPECIFICATION Spec
SYMMETRY MCSymmetry
INVARIANTS
  TypeOK
  NothingMissed
PROPERTIES
  TailIsCurrent
  EventsInOrder
CHECK_DEADLOCK FALSE
