CONSTANTS
    r1 = r1
    r2 = r2
    r3 = r3
    Requests = {r1}
    body <- OwnBody
    Unserved = {}
    SpuriousWakes = FALSE
    Ok = Ok
    Empty = Empty
    Garbage = Garbage
SPECIFICATION FairSpec
CHECK_DEADLOCK FALSE
PROPERTY
    EveryRequestAnswered
