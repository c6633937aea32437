SPECIFICATION Spec
CONSTANTS
  s1 = s1
  Interfaces <- MCInterfaces
  Stations <- MCStations
  Ethernet = eth1
  AnySource = any
  PortNumbers <- MCPortNumbers
  MaxCommands = 2
  MaxEarly = 2
  MaxChanges = 3
INVARIANT
  StationsAssociated
CHECK_DEADLOCK FALSE
