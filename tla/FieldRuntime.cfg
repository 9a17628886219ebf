SPECIFICATION RuntimeSpec
CONSTANTS
  Folds = {0, 1}
  LaneSize = 2
  Interval = 2
  Entropy0 = 14
  Threshold = 25
  Storage = TRUE
  Restore = TRUE
  MaxTick = 3
  MaxRuns = 2
  MaxFold = 1
  Tile = 2
  Sizes = {2, 3}
  Manifests = 2
  MaxHeaps = 2
  MaxEvents = 4
\* A run ends.
CHECK_DEADLOCK FALSE
INVARIANTS LaneIsHistory ArchiveComplete ResidencyExact
