SPECIFICATION PeeringSpec
CONSTANTS
  p = p
  q = q
  Gone = Gone
  Peers <- MCPeers
  Selves <- MCSelves
  DeviceKinds <- MCDeviceKinds
  Ways <- MCWays
  Octets = 2
  MaxChanges = 1
  MaxFaults = 1
INVARIANTS PeeringTypeOK ConfigIsTrue LoopbackOfOne
PROPERTIES HealthyKeepsMethod
CHECK_DEADLOCK FALSE
