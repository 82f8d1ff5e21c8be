SPECIFICATION Spec
CONSTANTS
    Clients = {c1, c2}
    MaxEvents = 2
    Limit = 2
    MaxDrops = 1
SYMMETRY Symmetry
INVARIANTS
    HistoryComplete
CHECK_DEADLOCK FALSE
