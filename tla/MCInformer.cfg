SPECIFICATION Spec
CONSTANTS
  device = device
  metadata = metadata
  Kinds <- MCKinds
  MaxRows = 1
  MaxWire = 2
  MaxResets = 2
  MaxFailures = 1
INVARIANTS TypeOK ListIsWhole
PROPERTIES LoopCatchesUp
CHECK_DEADLOCK FALSE
