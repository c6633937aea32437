SPECIFICATION Spec
CONSTANTS
  Sta = {s1}
  WrongPsk = {}
  UpdateCount = 2
  MaxQueue = 2
  MaxAssoc = 2
  MaxLeave = 1
  MaxGtk = 1
  MaxPtk = 1
  MaxLose = 1
  MaxDrop = 1
  Budget <- MCBudget
INVARIANTS
  AtRest
  KeysAgree
  CountsMarked
CHECK_DEADLOCK FALSE
