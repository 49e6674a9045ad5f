\* Two workers, two runs of the agents, batches of one input: a seed, and two
\* blobs with a script or one with a report and a script that does not load.
CONSTANTS
  w0 = w0
  w1 = w1
  c0 = c0
  b0 = b0
  b1 = b1
  s0 = s0
  s1 = s1
  r0 = r0
  Workers = {w0, w1}
  IterCnt = 2
  FirstAtOnce = TRUE
  Seeds = {c0}
  Blobs = {b0, b1}
  Scripts = {s0, s1}
  BadScripts = {s1}
  Reports = {r0}
  Yields <- MCYields
  Cap = 1
  Nothing = Nothing
SPECIFICATION FairSpec
INVARIANTS TypeOK OneAgents NothingLost RunsTold
PROPERTIES AllUsed
