CONSTANTS
  i1 = i1
  i2 = i2
  s1 = s1
  s2 = s2
  Nobody = Nobody
  Idps <- MCIdps
  Servers <- MCServers
  Dialects <- MCDialects
  MaxIds = 3
  MaxInvites = 1
  MaxRequests = 2
  MaxCalls = 3
SPECIFICATION Spec
SYMMETRY MCSymmetry
CONSTRAINT MCStart
INVARIANTS
  TypeOK
  OneUserPerPerson
  DeletedForgotten
  OrgsGoEmpty
  InvitationReachesUser
CHECK_DEADLOCK FALSE
