SPECIFICATION FairSpec
CONSTANTS
  s1 = s1
  Interfaces <- MCInterfaces
  Stations <- MCStations
  Ethernet = eth1
  AnySource = any
  PortNumbers <- MCPortNumbers
  MaxCommands = 3
  MaxEarly = 2
  MaxChanges = 2
INVARIANTS
  NodesAgree
  ExceptionOnlyAfter
  FlowsFollowStations
  UplinksLeadToBoundPorts
PROPERTIES
  DatapathSpec
  GroupImplementsService
  ComesToRest
CHECK_DEADLOCK FALSE
