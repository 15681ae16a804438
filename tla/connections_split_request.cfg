SPECIFICATION Spec
CONSTANTS
    c1 = c1
    c2 = c2
    c3 = c3
    Conn = {c1}
    NoConn = NoConn
    Fd = {1, 2}
    Pools = {{w1}}
    Parts <- FirstSplit
    Impatient = {}
    Wide = {}
    Garbled = {}
    MaxQueue = 2
INVARIANTS
    ReadToTheEnd
