SPECIFICATION Spec
CONSTANTS
    Invoices = {i1}
    Entries = {}
    Txs = {x1, x2}
    Handlers = {h1, h2}
    Terms <- OneTerm
    Selections = {}
    Instalments = {}
    Amounts = {1}
    FeedAmounts <- InAndOut
    MaxRequests = 7
    MaxFaults = 0
SYMMETRY Interchangeable
CHECK_DEADLOCK FALSE
INVARIANTS
    
    PaidIsBanked
PROPERTIES
    CancelledUnpaid
