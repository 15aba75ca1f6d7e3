CONSTANTS
    w1 = w1 w2 = w2
    Workers = {w1, w2}
    c1 = c1
    Conns = {c1}
    NoConn = NoConn
    MaxHalves = 4
    MayShutdown = TRUE
    MayFail = TRUE
SPECIFICATION FairSpec
INVARIANT RequestsConserved
PROPERTIES Served Stops
CHECK_DEADLOCK FALSE
