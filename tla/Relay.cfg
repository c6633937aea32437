SPECIFICATION Spec
CONSTANTS
  pA = pA
  pB = pB
  pC = pC
  pD = pD
  Packets <- MCPackets
  IdOf <- MCIdOf
  TotalOf <- MCTotalOf
  PACKET_SPACES = 2
  MaxTotal = 3
  NULL = NULL
  MaxDuplicates = 1
  Addresses = {b1, b2, host, bcast}
  HOSTAPD = host
  BROADCAST = bcast
  Spellings = {lower, upper}
  Lower = lower
  MaxSyncs = 4
  MaxFrames = 1
  MaxAgents = 3
INVARIANTS
  OneBufferPerId
  WholeWhenReady
  SearchSound
  ListFollowsCommands
  AgentsAccounted
PROPERTY
  GivenUpOnlyWhenFull
CHECK_DEADLOCK FALSE
