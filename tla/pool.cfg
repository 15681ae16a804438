SPECIFICATION FairSpec
CONSTANTS
    Caller = {run, main}
    Producers = {run}
    Resizers = {main}
    Stoppers = {run}
    Owners = {main}
    Task = {t1, t2, t3}
    NoTask = NoTask
    MaxThreads = 2
    InitThreads = 2
    Sizes = {0, 2}
INVARIANTS
    TypeOK
    NothingLostOrRunTwice
    DestroyedDrained
    OnlyDestructorAborts
PROPERTIES
    ImplementsTaskQueue
    TasksRun
    DestroyReturns
    ResizeCompletes
