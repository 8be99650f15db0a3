SPECIFICATION FairSpec
CONSTANTS
    Instances = {i1, i2}
    Handlers = {h1}
    PreSteps = {1}
    PostSteps = {2}
    Manual = {1, 2}
    StartsAt = 2
    EndsAt = 3
    Lead = 1
    PreGrace = 0
    Delay = 0
    PostGrace = 0
    CloseDelay = 0
    Ahead = 1
    Past = 1
    MaxNow = 4
    MaxRequests = 2
    MaxFaults = 1
CHECK_DEADLOCK FALSE
INVARIANTS
    AtMostOnce
    LogHonest
    InvitedOnce
PROPERTIES
    StatusStands
    DueIsRecorded
    SendingSettles
    ClosedInTheEnd
