\* Two requests, and a Java process that dies during the first.
CONSTANTS
  seed = seed
  tmp = tmp
  Tools = {"jvm"}
  Names = {tmp}
  MaxReqs = 2
SPECIFICATION FairSpec
PROPERTIES UniaflTimesOut
CHECK_DEADLOCK FALSE
