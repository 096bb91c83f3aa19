CONSTANTS
  t1 = t1
  t2 = t2
  t3 = t3
  p1 = p1
  p2 = p2
  Streams <- MCStreams
  Replicas <- MCReplicas
  MaxWire = 1
  MaxFaults = 1
SPECIFICATION Spec
SYMMETRY StreamsAlike
INVARIANTS
  TypeOK
  CountsItsStreams
  OnlineWhileServed
