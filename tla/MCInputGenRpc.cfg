\* One worker, three blobs through two slots, callbacks: what becomes of the
\* blobs, and whether the spare tokens of the reset are enough.
CONSTANTS
  NWorkers = 1
  Cap = 2
  MaxBlobs = 3
  ResetTokens = 3
  s1 = s1
  s2 = s2
  Seeds = {s1, s2}
  NoSeed = NoSeed
  NewId = NewId
  HasGenerator = TRUE
  HasMutator = TRUE
  HasCb = TRUE
SPECIFICATION FairSpec
INVARIANTS TypeOK BlobsKept OwnAnswer
PROPERTIES RunCmdReturns
\* After the reset the stage finds the generator not ready for ever.
CHECK_DEADLOCK FALSE
