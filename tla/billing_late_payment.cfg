SPECIFICATION Spec
CONSTANTS
    Tenants = {t1}
    Handlers = {h1}
    PaidPlans = {lite, grow}
    MaxTxns = 2
    MaxNow = 3
    TrialLength = 0
    MonthLength = 1
    MaxRequests = 5
    MaxFaults = 0
    Kinds <- LatePaymentKinds
INVARIANTS
    UnlockedHasCredentials
CHECK_DEADLOCK FALSE
