SPECIFICATION Spec
CONSTANTS
    Replicas = {a, b}
    Runs = {r1, r2}
    NoReplica = NoReplica
    Cap = 2
    MaxCrashes = 2
    MaxFaults = 0
    MaxParks = 0
    MaxBoots = 1
INVARIANTS ReapCountsMarked
CHECK_DEADLOCK FALSE
