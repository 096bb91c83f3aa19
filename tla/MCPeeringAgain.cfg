SPECIFICATION PeeringSpec
CONSTANTS
  p = p
  q = q
  Gone = Gone
  Peers <- MCPeers
  Selves <- MCSelves
  DeviceKinds <- MCDeviceKinds
  Ways <- MCWays
  Octets = 2
  MaxChanges = 2
  MaxFaults = 0
INVARIANTS NewPeersDeployed
CHECK_DEADLOCK FALSE
