SPECIFICATION KernelSpec
CONSTANTS
  Workers = {w1, w2}
  Text = Text
  NoTask = NoTask
  Programs <- MCTrees
  Sources <- MCSources
\* A process ends.
CHECK_DEADLOCK FALSE
INVARIANTS RaceFreeResult EmitsAgree CommandsAgree MeaningKept FusionAgrees
