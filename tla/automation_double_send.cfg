SPECIFICATION Spec
CONSTANTS
    Instances = {i1, i2}
    Handlers = {h1, h2}
    PreSteps = {1}
    PostSteps = {2}
    Manual = {1, 2}
    StartsAt = 2
    EndsAt = 3
    Lead = 1
    PreGrace = 0
    Delay = 0
    PostGrace = 0
    CloseDelay = 0
    Ahead = 1
    Past = 1
    MaxNow = 3
    MaxRequests = 3
    MaxFaults = 1
SYMMETRY WorkerSymmetry
CHECK_DEADLOCK FALSE
INVARIANT NeverTwice
