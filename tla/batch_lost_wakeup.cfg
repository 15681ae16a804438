\* The notification of the batch can be lost: main then waits for ever.
SPECIFICATION FairSpec
CONSTANTS
    t1 = t1
    t2 = t2
    t3 = t3
    Worker = {w1}
    Task = {t1, t2}
    NoTask = NoTask
    Nobody = Nobody
    Priority <- TwoPriorities
    ByPriority = FALSE
    Spurious = FALSE
PROPERTIES
    WaitReturns
CHECK_DEADLOCK FALSE
