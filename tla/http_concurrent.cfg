CONSTANTS
    r1 = r1
    r2 = r2
    r3 = r3
    Requests = {r1, r2}
    body <- OwnBody
    Unserved = {}
    SpuriousWakes = FALSE
    Ok = Ok
    Empty = Empty
    Garbage = Garbage
SPECIFICATION Spec
CHECK_DEADLOCK FALSE
INVARIANT
    OwnResponse
