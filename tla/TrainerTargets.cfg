SPECIFICATION TrainingSpec
CONSTANTS
  NSeq = 3
  BatchSize = 2
  SaveEvery = 2
  MaxSteps = 1
  Tensors = {p1, p2}
  Modes <- MCModes
  Configs <- MCConfigs
  Models <- MCModels
  Lengths <- MCLengths
  NL = 2
  NH = 2
  Folds = {"Sek"}
  AllFolds = "any"
  MaxDigits = 7
  MaxRuns = 0
\* A program ends.
CHECK_DEADLOCK FALSE
INVARIANTS TargetUnseen
