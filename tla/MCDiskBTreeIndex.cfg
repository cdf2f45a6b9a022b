\* One key to a leaf, two separators to a node, up to three levels; one failed
\* page operation or eviction at any step and one restart.
SPECIFICATION Spec
CONSTANTS
  Keys <- AroundZero
  RangeEnds <- InnerKeys
  KeySize <- FixedSize
  CountSize = 1
  TIDSize = 1
  ChildSize = 1
  Capacity = 7
  PageBytes = 8
  MaxTids <- OneTwice
  MaxInserts = 6
  MaxFaults = 1
  MaxRestarts = 1
INVARIANTS SearchFindsAll TreeWellFormed AnswersAreSound
CHECK_DEADLOCK FALSE
