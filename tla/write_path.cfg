SPECIFICATION FairSpec
CONSTANTS
    r1 = r1
    r2 = r2
    r3 = r3
    a1 = a1
    a2 = a2
    b1 = b1
    c1 = c1
    bad = bad
    Request = {r1, r2, r3}
    Item = {a1, a2, b1, c1, bad}
    Items <- SmallBatches
    Key <- KeyOf
    Malformed = {bad}
    Incomplete = {bad}
    Pools = {{w1}, {w1, w2}}
    NoRequest = NoRequest
    NoItem = NoItem
INVARIANTS
    AckedStored
    BatchPrefix
    CacheAgrees
    FailuresTold
PROPERTIES
    Answered
