CONSTANTS
  w1 = w1
  w2 = w2
  p1 = p1
  p2 = p2
  Harnesses = {h1}
  Workers = {w1, w2}
  Paths = {p1, p2}
  MaxPuts = 1
  MaxRuns = 2
  Faults = FALSE
SPECIFICATION Spec
PROPERTIES ExploredOnce
CHECK_DEADLOCK FALSE
