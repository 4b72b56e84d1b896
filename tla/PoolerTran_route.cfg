SPECIFICATION Spec
CONSTANTS
    Frame = {1, 2, 3, 4, 5}
    Dust = {1, 2, 3}
    Amr = {1}
    Waypoint = {10, 20}
    NoWp = 0
    InitWp = 99
    AmrOf <- RouteAmr
    DustOf <- RouteDust
    WpOf <- RouteWp
    ValueOf <- RouteValue
    BatchSize = 2
    MaxAttempts = 1
    ClearOnStart = FALSE
    SweepEnabled = FALSE
    MaxFaults = 2
    Cleanable = {3}
INVARIANTS ProcessedWasDecided DeadRowsKept DecisionsCoherent DiscardFollowsBatch
