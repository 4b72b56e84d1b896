SPECIFICATION FairSpec
CONSTANTS
    Frame = {1, 2, 3, 4}
    Path = {1, 2, 3}
    PathOf <- Paths
    Stuck = {1}
    BatchSize = 2
    Threshold = 3
    Target = 1
    MaxConnections = 2
    MaxPresses = 1
    MaxFaults = 2
INVARIANTS TypeOK OrphansNeedFaults ImagelessNeedFaults TargetRespected
PROPERTIES PressServed PressureRelieved
