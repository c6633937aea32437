SPECIFICATION Spec
CONSTANTS
  Bss = {1}
  Stations = {s1, s2}
  NonErp = {s1}
  MaxAid = 2
  MaxNumSta = 2
  MaxPending = 1
INVARIANT
  BooksBalance
CHECK_DEADLOCK FALSE
