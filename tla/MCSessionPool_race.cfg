SPECIFICATION Spec
CONSTANTS
  Requests = {r1, r2}
  Expirer = expirer
  Serials = {p1}
  Hosts = {a}
  Codes = {x}
  ClientIds = {c1, c2}
  SessionIds = {s1, s2}
  MaxSessions = 2
  IdleTimeout = 0
  MaxTime = 0
  MaxTransfers = 0
  Bridging = FALSE
  None = none
INVARIANT SessionClientRuns
CHECK_DEADLOCK FALSE
