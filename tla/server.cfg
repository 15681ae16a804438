SPECIFICATION FairServerSpec
CONSTANTS
    main = main
    run = run
    Caller = {main, run}
    Producers = {run}
    Resizers = {main}
    Stoppers = {run}
    Owners = {main}
    Task = {t1, t2}
    NoTask = NoTask
    MaxThreads = 2
    InitThreads = 2
    Sizes = {0, 2}
    MaxEvents = 2
    Reloads = TRUE
    Incomplete = {t2}
INVARIANTS
    NoAbortInService
    ExitedServed
    CleanupAfterDrain
PROPERTIES
    ShutdownEnds
