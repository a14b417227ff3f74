CONSTANTS
    minNum = 1
    maxNum = 2
    NUMBER = 2
    Tasks = {t1, t2, t3, t4}
    NoTask = NoTask
SPECIFICATION Spec
CHECK_DEADLOCK FALSE
PROPERTY
    GrowAddsThread
