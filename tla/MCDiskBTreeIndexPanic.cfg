\* Many rows with the same value, no failure of any kind.
SPECIFICATION Spec
CONSTANTS
  Keys = {1, 2, 3}
  RangeEnds = {1, 3}
  KeySize <- FixedSize
  CountSize = 1
  TIDSize = 1
  ChildSize = 1
  Capacity = 7
  PageBytes = 8
  MaxTids <- ManyRows
  MaxInserts = 7
  MaxFaults = 0
  MaxRestarts = 0
INVARIANT NoPanic
CHECK_DEADLOCK FALSE
