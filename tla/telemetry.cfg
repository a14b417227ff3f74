CONSTANTS
    Devs = {A, B}
    None = None
    Clients = {c1, c2}
    A = A
    B = B
    Workers = 3
    MaxReadings <- MCMaxReadings
SPECIFICATION FairSpec
CHECK_DEADLOCK FALSE
INVARIANTS
    TypeOK
PROPERTIES
    WrongOnlyAfterEmpty
    OlderOnlyIfOvertaken
    LatestIsShown
