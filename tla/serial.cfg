CONSTANTS
    DevCount = 2
    PointCount = 2
    Capacity = 4
    Wirings <- MCWirings
    Faults = {"error83", "error84", "lose"}
    Noisy = {1}
SPECIFICATION FairSpec
INVARIANTS
    TypeOK
    Attribution
    PublishedComplete
    NoResidue
    ReaderOnlyWhileAsked
PROPERTY
    PollsForever
