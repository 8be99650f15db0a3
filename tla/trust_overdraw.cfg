SPECIFICATION Spec
CONSTANTS
    Ledgers = {l1}
    Movements = {m1, m2, m3}
    Staff = {ann, ben}
    Handlers = {h1, h2}
    MaxAmount = 1
    MaxRequests = 5
    MaxFaults = 0
SYMMETRY AllSymmetry
CHECK_DEADLOCK FALSE
INVARIANT NeverOverdrawn
