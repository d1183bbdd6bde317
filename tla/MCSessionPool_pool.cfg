SPECIFICATION Spec
CONSTANTS
  Requests = {r1, r2}
  Expirer = expirer
  Serials = {p1}
  Hosts = {a, b}
  Codes = {x, y}
  ClientIds = {c1, c2, c3}
  SessionIds = {s1, s2}
  MaxSessions = 2
  IdleTimeout = 0
  MaxTime = 1
  MaxTransfers = 0
  Bridging = TRUE
  None = none
SYMMETRY Symmetry
INVARIANTS
  PoolIsTheRunning
  BridgesFollowPool
  SessionsKnowTheirCode
  NoIdleConnection
CHECK_DEADLOCK FALSE
