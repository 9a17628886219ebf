SPECIFICATION TrainingSpec
CONSTANTS
  NSeq = 3
  BatchSize = 2
  SaveEvery = 2
  MaxSteps = 6
  Tensors = {p1, p2}
  Modes <- MCModes
  Configs <- MCConfigs
  Models <- MCFoldModels
  Lengths <- MCLengths
  NL = 2
  NH = 2
  Folds = {"Sek"}
  AllFolds = "any"
  MaxDigits = 7
  MaxRuns = 2
\* A program ends.
CHECK_DEADLOCK FALSE
INVARIANTS OwnGradient
