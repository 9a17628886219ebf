CONSTANTS
  InitialM = 2
  InitialCredits = 2
  DraftCredits = 3
  KnobCap = 3
  PromptLen = 1
  MaxTokens = 3
  MaxSeq = 6
SPECIFICATION Spec
CHECK_DEADLOCK FALSE
INVARIANTS KvAligned CommitInsideCache OvershootBounded NoCreditLost
PROPERTIES ImplementsScheduler DecodeTerminates
