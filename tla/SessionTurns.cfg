SPECIFICATION Spec
CONSTANTS
  c1 = c1
  c2 = c2
  a = a
  b = b
  Calls = {c1, c2}
  Starter = {c1}
  Interactive = {c1}
  Replicas = {a, b}
  Placements <- MCPlacements
  Messages = {m1, m2}
  QueueCap = 1
  IterCap = 2
  Cancellers = {k1}
  Setups <- MCSetups
  None = None
SYMMETRY MessageSymmetry
INVARIANTS LocalLockExclusive OneLiveRun SessionReturned AcceptedIsRead CancelInTurnStops
CHECK_DEADLOCK FALSE
