SPECIFICATION ServerSpec
CONSTANTS
    main = main
    run = run
    Caller = {main, run}
    Producers = {run}
    Resizers = {main}
    Stoppers = {run}
    Owners = {main}
    Task = {t1}
    NoTask = NoTask
    MaxThreads = 1
    InitThreads = 1
    Sizes = {1}
    MaxEvents = 0
    Reloads = FALSE
    Incomplete = {}
INVARIANTS
    GracefulShutdown
