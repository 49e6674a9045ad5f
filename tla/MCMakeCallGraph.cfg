\* Two roots that call each other, or one the other, or one a third function;
\* models fail, submissions raise and waits time out in the first run, and the
\* second takes what it finds, the rest of a broken-off flush included.
CONSTANTS
  main = main
  init = init
  parse = parse
  Fns <- MCFns
  Graphs <- MCGraphs
  Roots <- MCRoots
  Vuln = {init, parse}
  MaxExec = 2
  MaxIdle = 1
  MaxRuns = 2
  FlushPeriod = 2
  PriorRuns = 1
  FaultRuns = {1}
SPECIFICATION GraphFairSpec
INVARIANTS GraphTypes SentinelsEarned DoneHasDoneCallees NewSinkSubmitted
PROPERTIES RunEnds
\* After the last run nothing is left to do.
CHECK_DEADLOCK FALSE
