SPECIFICATION Spec
CONSTANTS
    Name = {m, n}
    Sample = {n}
    Station = {s1, s2, s3}
    Free = Free
    Gone = Gone
    Admin = {a1, a2}
    Sender = {g1}
    None = None
    MaxEdits = 1
    MaxFaults = 2
SYMMETRY Interchangeable
CHECK_DEADLOCK FALSE
INVARIANTS TwinsExplained ApprovedHasStation ReadingsTogether
