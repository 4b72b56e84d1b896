SPECIFICATION Spec
CONSTANTS
    Reading = {1, 2, 3}
    Frame = {1, 2}
    NoReading = 0
    Observing = {1, 3}
    Ahead = 2
    After = 1
    Interval = 2
    Lookback = 6
    MaxTime = 6
    MaxFaults = 1
INVARIANTS PairedInTime NearestSoFar PairsAreObservations
CHECK_DEADLOCK FALSE
