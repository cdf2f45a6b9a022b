\* One session, one restart: an acknowledged row is gone.
SPECIFICATION Spec
CONSTANTS
  Inserters = {w}
  Readers = {}
  Rows = {a}
  Torn = Torn
  Objects = {o1, o2}
  None = None
  PageCapacity = 2
  MaxPages = 2
  Evictions = FALSE
  MaxRestarts = 1
INVARIANT AckedNeverLost
CHECK_DEADLOCK FALSE
