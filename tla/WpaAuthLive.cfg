SPECIFICATION FairSpec
CONSTANTS
  Sta = {s1, s2}
  WrongPsk = {s2}
  UpdateCount = 1
  MaxQueue = 2
  MaxAssoc = 2
  MaxLeave = 1
  MaxGtk = 2
  MaxPtk = 0
  MaxLose = 1
  MaxDrop = 0
  Budget <- MCBudget
INVARIANT
  CountsMarked
PROPERTIES
  HandshakeEnds
  RekeyCompletes
CHECK_DEADLOCK FALSE
