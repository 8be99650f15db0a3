SPECIFICATION Spec
CONSTANTS
    Tenants = {t1}
    Handlers = {h1}
    PaidPlans = {lite}
    MaxTxns = 2
    MaxNow = 4
    TrialLength = 1
    MonthLength = 2
    MaxRequests = 6
    MaxFaults = 1
    Kinds <- SerialKinds
INVARIANTS
    OneGrantPerPayment
    OneOpenRequest
PROPERTIES
    PaidIsFinal
    LapsedIsExpired
CHECK_DEADLOCK FALSE
