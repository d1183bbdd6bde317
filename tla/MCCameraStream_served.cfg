SPECIFICATION Spec
CONSTANTS
  Viewers = {v1, v2}
  Streams = {s1, s2}
  MaxStops = 0
  NoStream = none
INVARIANT ServedUntilHangUp
CHECK_DEADLOCK FALSE
