\* One writing and one reading session, three rows, two indexes, one error.
SPECIFICATION Spec
CONSTANTS
  Nil = Nil
  Sessions = {w, r}
  Writers = {w}
  Readers = {r}
  Columns = {"a", "b"}
  Rows <- MCRows
  Indexes <- MCIndexes
  Queries <- MCQueries
  Predicates <- MCPredicates
  PerPage = 2
  MaxRows = 3
  MaxFaults = 1
INVARIANTS PlanCovers SelectExact IndexAgrees
