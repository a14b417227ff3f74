CONSTANTS
    minNum = 1
    maxNum = 3
    NUMBER = 2
    Tasks = {t1, t2, t3}
    NoTask = NoTask
SPECIFICATION FairSpec
CHECK_DEADLOCK FALSE
INVARIANTS
    TypeOK
    PoolSize
    CountersMatch
    Ledger
    NoSleepWhileQueued
PROPERTIES
    ImplementsExecutor
    ImplementsExecutorFairly
    TaskEventuallyRuns
    DestructionCompletes
