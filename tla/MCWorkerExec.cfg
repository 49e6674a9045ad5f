\* The whole protocol with kills outside the unprotected windows.
CONSTANTS
  Cap = 3
  MaxIter = 2
  MutateDepth = 2
  FailKinds = {"CRASH", "TIMEOUT"}
  KillAt <- KillOutsideWindows
  MaxLost = 1
SPECIFICATION FairSpec
INVARIANTS TypeOK ResultsMatchRuns ClientOwnsBlock
PROPERTIES LetGoReturns BatchRefined
