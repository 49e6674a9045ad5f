\* Two contexts, one of them with preselected sanitizers, and one slot.
CONSTANTS
  c1 = c1
  c2 = c2
  Contexts = {c1, c2}
  Targeted = {c1, c2}
  Preselected = {c1}
  UseSets <- MCUseSets
  MaxIter = 3
  Limit <- MCLimit
  Slots = 1
SPECIFICATION FairSpec
INVARIANTS TypeOK LoopSound
PROPERTIES AgentsEnd
\* Once all agents have ended nothing is left to do.
CHECK_DEADLOCK FALSE
