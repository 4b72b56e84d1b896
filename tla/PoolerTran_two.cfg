SPECIFICATION FairSpec
CONSTANTS
    Frame = {1, 2, 3, 4, 5}
    Dust = {1, 2, 3, 4, 5}
    Amr = {1, 2}
    Waypoint = {10, 20}
    NoWp = 0
    InitWp = 99
    AmrOf <- PairAmr
    DustOf <- PairDust
    WpOf <- PairWp
    ValueOf <- PairValue
    BatchSize = 2
    MaxAttempts = 0
    ClearOnStart = TRUE
    SweepEnabled = TRUE
    MaxFaults = 1
    Cleanable = {}
PROPERTIES GoneForGood LeftWaypointHandled
