CONSTANTS
  f1 = f1
  f2 = f2
  r1 = r1
  r2 = r2
  Fetchers <- MCFetchers
  Ids <- MCIds
  CacheSize = 2
  Limit = 2
  MaxRev = 3
  MaxFaults = 1
SPECIFICATION FairSpec
INVARIANTS
  TypeOK
  NothingSkipped
PROPERTIES
  ImplementsFeed
  CatchesUp
