SPECIFICATION Spec
CONSTANTS
    Replicas = {a, b}
    Runs = {r1, r2}
    NoReplica = NoReplica
    Cap = 2
    MaxCrashes = 1
    MaxFaults = 1
    MaxParks = 2
    MaxBoots = 1
SYMMETRY Symmetry
INVARIANTS OneLoop  CleanHandoffExact
CHECK_DEADLOCK FALSE
