SPECIFICATION FairSpec
CONSTANTS
  i1 = i1
  i2 = i2
  Ids = {i1, i2}
  Slots = 2
  MaxWords = 2
\* The connection ends.
CHECK_DEADLOCK FALSE
INVARIANTS TableExact StopCancelsAll
PROPERTIES SilentAfterCancel Answered
