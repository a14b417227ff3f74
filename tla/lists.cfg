CONSTANTS
    Devs = {d1, d2}
    Ports = {p1, p2}
    Ttys = {p1, p2}
    None = None
    Workers = 2
    MaxRequests = 2
SPECIFICATION Spec
SYMMETRY MCSymmetry
CHECK_DEADLOCK FALSE
INVARIANTS
    TypeOK
    
    PolledAsListed
    ListsFollow
