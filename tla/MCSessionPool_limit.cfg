SPECIFICATION FairSpec
CONSTANTS
  Requests = {r1, r2}
  Expirer = expirer
  Serials = {p1, p2}
  Hosts = {a, b}
  Codes = {x}
  ClientIds = {c1, c2}
  SessionIds = {s1, s2}
  MaxSessions = 1
  IdleTimeout = 0
  MaxTime = 1
  MaxTransfers = 2
  Bridging = FALSE
  None = none
INVARIANT SessionLimit
PROPERTY EveryCallReturns
CHECK_DEADLOCK FALSE
