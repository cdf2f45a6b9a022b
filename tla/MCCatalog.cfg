\* Two tables, two indexes, one I/O error, two crashes at any steps.
SPECIFICATION Spec
CONSTANTS
  TableNames = {t, u}
  IndexNames = {i, j}
  MaxColumns = 2
  PerPage = 2
  MaxPagesCount = 1
  MaxFaults = 1
  MaxRestarts = 2
INVARIANTS AckedDefined RestartIsTransparent MapsWellFormed
CHECK_DEADLOCK FALSE
