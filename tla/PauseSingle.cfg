SPECIFICATION Spec
CONSTANTS
  Replicas = {a}
  Runs = {r1, r2}
  Clustered = FALSE
  Ops = {"Pause", "Resume", "Shutdown"}
  Faults = {"persist"}
  MaxCalls = 4
SYMMETRY PauseSymmetry
INVARIANTS SignalsMatchState LastCallWins
PROPERTIES InterruptReachesAll
CHECK_DEADLOCK FALSE
