SPECIFICATION FairSpec
CONSTANTS
  Viewers = {v1, v2, v3}
  Streams = {s1, s2}
  MaxStops = 1
  NoStream = none
INVARIANTS
  CloseIsSafe
  CanBeStopped
  QuietAfterStop
PROPERTY StoppedStreamEnds
CHECK_DEADLOCK FALSE
