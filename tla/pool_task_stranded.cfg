SPECIFICATION FairSpec
CONSTANTS
    Caller = {run, main}
    Producers = {run}
    Resizers = {main}
    Stoppers = {}
    Owners = {}
    Task = {t1, t2}
    NoTask = NoTask
    MaxThreads = 1
    InitThreads = 1
    Sizes = {1}
PROPERTIES
    EveryTaskRuns
