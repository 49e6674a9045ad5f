\* Three requests over two names, with each tool, and deaths at any point.
CONSTANTS
  seed = seed
  tmp = tmp
  Tools = {"bin", "jvm", "runner"}
  Names = {seed, tmp}
  MaxReqs = 3
SPECIFICATION FairSpec
INVARIANTS TypeOK AnswersMatch
PROPERTIES SaveReturns
\* The worker stops asking at MaxReqs.
CHECK_DEADLOCK FALSE
