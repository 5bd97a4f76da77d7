CONSTANTS
  Keys <- MCKeys
  Hosts <- MCHosts
  Ports <- MCPorts
  MaxServers = 2
  BadKey = BadKey
  Unparsable = Unparsable
  NaN = NaN
  Path = Path
SPECIFICATION Spec
INVARIANTS TypeOK IdsDistinct WsAddressFollowsSpec
CHECK_DEADLOCK FALSE
