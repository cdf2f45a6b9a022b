\* 290 bytes beside the header: up to eight records.
SPECIFICATION Spec
CONSTANTS
  PageSize = 300
  Records <- MCRecords
INVARIANTS Layout RecordsKept RefusedOnlyWhenFull
