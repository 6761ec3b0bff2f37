SPECIFICATION FairSpec
CONSTANTS
  Replicas = {a, b}
  Runs = {}
  Clustered = TRUE
  Ops = {"Pause", "Resume", "Shutdown"}
  Faults = {"lost", "row"}
  MaxCalls = 2
INVARIANTS ShutdownSticks
PROPERTIES StateConverges
CHECK_DEADLOCK FALSE
