CONSTANTS
  t1 = t1
  t2 = t2
  t3 = t3
  p1 = p1
  p2 = p2
  Streams <- MCStreams
  Replicas <- MCReplicas
  MaxWire = 1
  MaxFaults = 0
SPECIFICATION Spec
INVARIANTS
  OnlineWhateverUpdates
