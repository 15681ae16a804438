SPECIFICATION PlaySpec
CHECK_DEADLOCK FALSE
CONSTANTS
    t1 = t1
    t2 = t2
    t3 = t3
    Worker = {w1, w2}
    Task = {t1, t2, t3}
    NoTask = NoTask
    Nobody = Nobody
    Priority <- TwoPriorities
    ByPriority = TRUE
    Spurious = TRUE
    Programs = {"rw", "batch", "rocksdb"}
    Deleted = Deleted
    MaxRuns = 3
    gapless = gapless
    aligned = aligned
    short = short
    damaged = damaged
    foreign = foreign
    c1 = c1
    c2 = c2
    Conn = {c1, c2}
    Message = {gapless, aligned, short, damaged, foreign}
    NoConn = NoConn
    Fields <- Messages
    Layout <- Layouts
    Packings = {TRUE, FALSE}
    Thread = {b1, b2}
    Requests = 1
    MaxRetries = 1
INVARIANTS
    Verdict
    BuffersFreed
    ChunksKept
    PrintsFullSum
    ResultOutlivesTasks
    MoveIsAtomic
    MoveKeepsValue
    ResultCounts
    SocketsClosed
PROPERTIES
    EveryoneServed
    TasksComplete
    ProgramsEnd
