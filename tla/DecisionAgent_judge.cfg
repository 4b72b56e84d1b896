SPECIFICATION FairSpec
CONSTANTS
    Record = {1, 2}
    ResultOf <- Results
    NotSeeded <- NoSensorRow
    Request = {q1}
    RoleEdits <- SwapVision
    AlarmEdits <- TuneVision
    Forced = {"warning"}
    BatchSize = 2
    MaxEdits = 2
    MaxFaults = 1
INVARIANTS JudgedByOneVersion
PROPERTIES DecidedOnce RoleCacheConverges EventuallyDecided
