SPECIFICATION Spec
CONSTANTS
    Tenants = {t1}
    Handlers = {h1, h2}
    PaidPlans = {lite}
    MaxTxns = 2
    MaxNow = 2
    TrialLength = 0
    MonthLength = 1
    MaxRequests = 5
    MaxFaults = 0
    Kinds <- DoubleRequestKinds
INVARIANTS
    OneOpenRequest
CHECK_DEADLOCK FALSE
