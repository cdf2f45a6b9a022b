\* Three pages compete for two slots, so that two slots can be dirty when
\* FlushAllPages or a batch (of one) stops half way and evictions still
\* happen; one I/O error; fair checkpointer.
SPECIFICATION MCSpec
CONSTANTS
  Keys = {k1, k2, k3}
  Contents = {a, b}
  NoPage = NoPage
  PoolSize = 2
  BatchSize = 1
  MaxFaults = 1
  Edited = {k1, k2}
  Varied = {k1}
  Blank = a
INVARIANTS PoolConsistent NoStaleRead CleanIsDurable CandidatesLostOnlyToErrors
PROPERTIES ImplementsPageStore DirtyIsFlushed
