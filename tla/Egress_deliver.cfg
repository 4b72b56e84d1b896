SPECIFICATION FairSpec
CONSTANTS
    Decision = {1, 2, 3, 4, 5}
    NoDecision = 0
    EventOf <- Events
    NoReading = {5}
    Poison = {3}
    Filters <- OneFilter
    BatchSize = 2
    MaxFaults = 2
INVARIANTS SentWasDelivered DuplicatesNeedFaults NothingLeftToReplay
PROPERTIES AtLeastOnce EventuallySettled
CHECK_DEADLOCK FALSE
