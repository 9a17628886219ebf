SPECIFICATION FairSpec
CONSTANTS
  Workers = {w1, w2, w3}
  NoTask = NoTask
  Task = {"t1", "t2", "t3", "t4"}
  BatchLists <- MCBatchLists
INVARIANTS Barrier NoTaskDropped
PROPERTIES PoolDrains
CHECK_DEADLOCK FALSE
