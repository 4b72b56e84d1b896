SPECIFICATION Spec
CONSTANTS
    Conn = {k1, k2}
    Total = 2
    Day = {0, 1}
    None = None
    MaxBeats = 1
    MaxSamples = 1
    MaxEdits = 1
    MaxFaults = 1
CHECK_DEADLOCK FALSE
INVARIANTS StoredWhole AckMeansStored NoOrphans
