SPECIFICATION Spec
CONSTANTS
    Invoices = {i1, i2, i3}
    Entries = {e1}
    Txs = {}
    Handlers = {h1, h2}
    Terms <- OneTerm
    Selections <- OneOrTwo
    Instalments <- AskedFor
    Amounts = {}
    FeedAmounts = {}
    MaxRequests = 3
    MaxFaults = 1
CHECK_DEADLOCK FALSE
INVARIANTS
    BilledOnce
    PlanCoversDebt
PROPERTIES
    InstalmentsGoOut
