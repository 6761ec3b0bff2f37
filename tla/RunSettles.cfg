SPECIFICATION FairSpec
CONSTANTS
    Replicas = {a, b}
    Runs = {r1}
    NoReplica = NoReplica
    Cap = 1
    MaxCrashes = 1
    MaxFaults = 1
    MaxParks = 1
    MaxBoots = 1
PROPERTIES EveryRunSettles
CHECK_DEADLOCK FALSE
