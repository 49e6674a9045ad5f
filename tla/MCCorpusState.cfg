\* Two workers, one with a testlang stage, and every batch of 2 inputs.
CONSTANTS
  w0 = w0
  Nobody = Nobody
  w1 = w1
  a = a
  b = b
  c = c
  x = x
  y = y
  l1 = l1
  l2 = l2
  raw = raw
  Workers = {w0, w1}
  Testlang = {w1}
  FirstWorker = w0
  Inputs = {a, b, c}
  Dummy = a
  Addrs = {x, y}
  Cov <- MCCov
  Logs = {l1, l2, raw}
  RawLog <- MCRawLog
  PovLog <- MCPovLog
  Kinds = {"normal", "testlang"}
  MaxBatch = 2
  MaxBatches = 1
SPECIFICATION CorpusSpec
INVARIANTS CorpusTypes ClaimedOnce CoverageOwned Settled
\* Workers stop when MaxBatches is reached.
CHECK_DEADLOCK FALSE
