CONSTANTS
  i1 = i1
  i2 = i2
  s1 = s1
  s2 = s2
  Nobody = Nobody
  Idps <- MCIdps
  Servers <- MCServers
  Dialects <- MCDialects
  MaxIds = 2
  MaxInvites = 0
  MaxRequests = 1
  MaxCalls = 1
SPECIFICATION Spec
SYMMETRY MCSymmetry
PROPERTIES
  OrgDiesWithItsOwners
CHECK_DEADLOCK FALSE
