\* Two workers, a first run of the reverser and one rerun, two trials in a process,
\* which may be started again once, and two testlangs in all.
CONSTANTS
  w1 = w1
  w2 = w2
  Workers = {w1, w2}
  First = w1
  TestlangCores = 2
  MaxTries = 2
  MaxTrials = 2
  MinTrials = 1
  MaxOutputs = 2
  MaxReruns = 1
SPECIFICATION Spec
INVARIANTS TypeOK RerunsApart FileFollows GuessesAgree
\* Without a testlang uniafl gives up: TestLangPool::new() panics.
CHECK_DEADLOCK FALSE
