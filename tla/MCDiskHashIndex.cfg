\* Growth from one bucket over two rounds of splits, with one failed page
\* operation or eviction at any step and one restart.
SPECIFICATION FairSpec
CONSTANTS
  k1 = k1
  k1b = k1b
  k2 = k2
  k5 = k5
  Keys = {k1, k1b, k2, k5}
  Hash <- MCHash
  EntrySize <- MCEntrySize
  PageRoom = 2
  InitialBuckets = 1
  MaxPerBucket = 1
  DirPages = 3
  DirEntriesPerPage = 2
  MaxInserts = 4
  MaxFaults = 1
  MaxRestarts = 1
INVARIANTS SearchExact TableWellFormed InsertSucceeds
PROPERTY InsertEnds
CHECK_DEADLOCK FALSE
