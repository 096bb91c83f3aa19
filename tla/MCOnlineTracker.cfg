CONSTANTS
  t1 = t1
  t2 = t2
  t3 = t3
  p1 = p1
  p2 = p2
  Streams <- MCTwoStreams
  Replicas <- MCReplicas
  MaxWire = 2
  MaxFaults = 1
SPECIFICATION FairSpec
INVARIANTS
  TypeOK
  CountsItsStreams
  OnlineWhileServed
PROPERTIES
  OfflineWhenGone
