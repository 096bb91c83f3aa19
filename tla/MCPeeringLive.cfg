SPECIFICATION PeeringSpec
CONSTANTS
  p = p
  q = q
  Gone = Gone
  Peers <- MCPeers
  Selves <- MCSelves
  DeviceKinds <- MCDeviceKinds
  Ways <- MCLiveWays
  Octets = 4
  MaxChanges = 1
  MaxFaults = 0
PROPERTIES ServedInTheEnd
CHECK_DEADLOCK FALSE
