CONSTANTS
    r1 = r1
    r2 = r2
    r3 = r3
    Requests = {r1, r2, r3}
    body <- OwnBody
    Unserved = {r3}
    SpuriousWakes = FALSE
    Ok = Ok
    Empty = Empty
    Garbage = Garbage
SPECIFICATION FairSpec
CHECK_DEADLOCK FALSE
INVARIANT
    FrontOwnsReply
PROPERTY
    FoundIsAnswered
