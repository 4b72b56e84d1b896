SPECIFICATION FairSpec
CONSTANTS
    hour = hour
    day = day
    UnitList <- MCUnitList
    Freezable = {day}
    Time = {0, 1, 2}
    BucketOf <- MCBucketOf
    Limit = 2
    FailCap = 2
    None = None
    MaxSample = 3
    MaxLate = 1
    MaxFaults = 2
CHECK_DEADLOCK FALSE
INVARIANTS TypeOK FrozenWhole HiddenExplained
PROPERTIES BucketsFreeze
