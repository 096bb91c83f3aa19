CONSTANTS
  def = def
  priv = priv
  net = net
  i1 = i1
  i2 = i2
  i3 = i3
  k1 = k1
  k2 = k2
  rk = rk
  g1 = g1
  None = None
  Vpcs <- MCVpcs
  Networks <- MCNetworks
  Default = def
  Private <- MCPrivate
  Ids <- MCIds
  Keys <- MCKeys
  RegKeys <- MCRegKeys
  Groups <- MCGroups
  Dialects <- MCDialects
  MaxRequests = 2
  MaxCalls = 4
SPECIFICATION Spec
SYMMETRY MCSymmetry
INVARIANTS
  UsedOnce
CHECK_DEADLOCK FALSE
