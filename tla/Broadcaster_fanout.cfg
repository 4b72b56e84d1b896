SPECIFICATION SseFairSpec
CONSTANTS
    Station = {s1}
    All = All
    Client = {c1, c2}
    Cap <- MCCap
    NoTopic = NoTopic
    MaxEvents = 3
    MaxDeaths = 1
CHECK_DEADLOCK FALSE
INVARIANTS NewestInOrder PumpsFollowQueues
PROPERTIES PumpsStop
