\* One writer and one reader; pages are evicted at any moment and the process
\* restarts.
SPECIFICATION Spec
CONSTANTS
  Inserters = {w}
  Readers = {r}
  Rows = {a, b, c, d}
  Torn = Torn
  Objects = {o1, o2, o3}
  None = None
  PageCapacity = 3
  MaxPages = 2
  Evictions = TRUE
  MaxRestarts = 1
SYMMETRY ObjectAndRowSymmetry
INVARIANTS AckedReadable TidsStayValid
PROPERTY SelectComplete
CHECK_DEADLOCK FALSE
