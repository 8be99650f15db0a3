SPECIFICATION Spec
CONSTANTS
    Ledgers = {l1, l2}
    Movements = {m1, m2, m3}
    Staff = {ann, ben}
    Handlers = {h1, h2}
    MaxAmount = 2
    MaxRequests = 5
    MaxFaults = 1
SYMMETRY AllSymmetry
CHECK_DEADLOCK FALSE
INVARIANTS
    NoOverdraw
    DualControl
    DecisionsFresh
    BooksFollow
PROPERTY DecisionsStand
