SPECIFICATION FairSpec
CONSTANTS
  Bss = {1, 2}
  Stations = {s1}
  NonErp = {s1}
  MaxAid = 1
  MaxNumSta = 1
  MaxPending = 2
INVARIANTS
  OneTimerEach
  AssociationsSound
  KernelFollows
PROPERTY
  SilentStationRemoved
CHECK_DEADLOCK FALSE
