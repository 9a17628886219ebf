SPECIFICATION FairSpec
CONSTANTS
  Workers = {w1, w2}
  NoTask = NoTask
  Task = {"t1", "t2", "t3", "t4"}
  BatchLists <- MCBatchLists
PROPERTIES CompletionReleasesMain
CHECK_DEADLOCK FALSE
