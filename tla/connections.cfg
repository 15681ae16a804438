SPECIFICATION FairSpec
CONSTANTS
    c1 = c1
    c2 = c2
    c3 = c3
    Conn = {c1, c2}
    NoConn = NoConn
    Fd = {1, 2}
    Pools = {{w1}, {w1, w2}}
    Parts <- FirstSplit
    Impatient = {c2}
    Wide = {c1, c2}
    Garbled = {c2}
    MaxQueue = 2
INVARIANTS
    ExecutedOnce
    OwnAnswer
PROPERTIES
    NoneDropped
    ConnectionsEnd
