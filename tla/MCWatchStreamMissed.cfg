CONSTANTS
  r1 = r1
  r2 = r2
  NumWatches = 1
  Ids <- MCIds
  Limit = 1
  MaxWrites = 2
  MaxFaults = 0
  MaxConns = 2
SPECIFICATION Spec
SYMMETRY MCSymmetry
INVARIANTS
  NoEventMissed
CHECK_DEADLOCK FALSE
