CONSTANT
    Kinds = {"TaskHttp", "TaskWebSocket", "TaskSerial"}
SPECIFICATION FairSpec
CHECK_DEADLOCK FALSE
INVARIANTS
    TypeOK
    SleepsOnlyIfMissed
PROPERTIES
    AsTold
    NoWorkAfterDestroy
    WantedWorks
    JoinReturns
