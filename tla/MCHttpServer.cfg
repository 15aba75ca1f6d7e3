CONSTANTS
    w1 = w1 w2 = w2
    Workers = {w1, w2}
    c1 = c1 c2 = c2
    Conns = {c1, c2}
    NoConn = NoConn
    MaxHalves = 2
    MayShutdown = TRUE
    MayFail = TRUE
SPECIFICATION Spec
INVARIANTS OneOwner NoForgottenReturn NoWorkerSleepsOverWork
PROPERTY FollowsLife
CHECK_DEADLOCK FALSE
