CONSTANTS
  d1 = d1
  d2 = d2
  q1 = q1
  q2 = q2
  default = default
  private = private
  net = net
  sloppy = sloppy
  route = route
  Nothing = Nothing
  Devices <- MCDevices
  Vpcs <- MCVpcs
  OrgVpc = default
  NamespaceOf <- MCNamespaceOf
  Cidrs <- MCCidrs
  DefaultRoutes <- MCDefaultRoutes
  Clean <- MCClean
  CidrLists <- MCCidrLists
  Requests <- MCRequests
  PoolSize = 2
  MaxRequests = 2
  MaxFaults = 0
SPECIFICATION Spec
SYMMETRY MCSymmetry
INVARIANTS
  AdvertisedIsHeld
CHECK_DEADLOCK FALSE
