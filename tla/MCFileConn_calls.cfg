SPECIFICATION FairSpec
CONSTANTS
  Calls = {c1, c2}
  None = none
INVARIANTS
  OneUserPerConnection
  NoConnectionLost
  NothingPartial
  TruncationIsSeen
PROPERTIES
  LockIsReleased
  NothingRemains
CHECK_DEADLOCK FALSE
