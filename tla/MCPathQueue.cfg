\* One harness with two consumers and two paths, put twice, in two runs.
CONSTANTS
  w1 = w1
  w2 = w2
  p1 = p1
  p2 = p2
  Harnesses = {h1}
  Workers = {w1, w2}
  Paths = {p1, p2}
  MaxPuts = 2
  MaxRuns = 2
  Faults = TRUE
SPECIFICATION FairSpec
INVARIANTS TypeOK QueueSound OncePerRun
PROPERTIES MainEnds
\* After the last run nothing is left to do.
CHECK_DEADLOCK FALSE
