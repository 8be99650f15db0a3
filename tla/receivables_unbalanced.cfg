SPECIFICATION Spec
CONSTANTS
    Invoices = {i1}
    Entries = {}
    Txs = {x1}
    Handlers = {h1}
    Terms <- OneTerm
    Selections = {}
    Instalments = {}
    Amounts = {1}
    FeedAmounts <- InAndOut
    MaxRequests = 5
    MaxFaults = 0
CHECK_DEADLOCK FALSE
INVARIANT BooksBalance
