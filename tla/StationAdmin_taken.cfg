SPECIFICATION Spec
CONSTANTS
    Name = {m, n}
    Sample = {n}
    Station = {s1, s2, s3}
    Free = Free
    Gone = Gone
    Admin = {a1, a2}
    Sender = {g1}
    None = None
    MaxEdits = 0
    MaxFaults = 0
CHECK_DEADLOCK FALSE
PROPERTIES TakenNameRefused
