\* Two builders and a reader over two files, one of which does not parse, in
\* behaviours with kills, with long pauses, with Redis errors or overwriting.
CONSTANTS
  i1 = i1
  i2 = i2
  Indexers = {i1, i2}
  Readers = {r1}
  Files = {f1, f2}
  BadFiles = {f2}
  MaxWaits = 1
  MaxStarts = 2
  FaultSets <- MCFaultSets
SPECIFICATION FairSpec
INVARIANTS TypeOK IndexSound
PROPERTIES LockFreed
\* Every process may end for good.
CHECK_DEADLOCK FALSE
