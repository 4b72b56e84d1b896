SPECIFICATION SyncFairSpec
CONSTANTS
    Name = {n1}
    Id = {A, B}
    Nobody = Nobody
    Admin = {a1, a2}
    MaxEdits = 2
    MaxFailures = 1
INVARIANTS NoTaskUnderConflict MixingDecided
PROPERTIES SyncSettles
