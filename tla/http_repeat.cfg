CONSTANTS
    r1 = r1
    r2 = r2
    r3 = r3
    Requests = {r1, r2, r3}
    body <- RepeatedBody
    Unserved = {}
    SpuriousWakes = TRUE
    Ok = Ok
    Empty = Empty
    Garbage = Garbage
SPECIFICATION Spec
CHECK_DEADLOCK FALSE
INVARIANTS
    TypeOK
    OneEntryPerHandler
    EntriesMatchBodies
    ExecutionsBounded
