CONSTANTS
    t1 = t1  t2 = t2  t3 = t3
    Threads = {t1, t2, t3}
    NoThread = NoThread
    c1 = c1  c2 = c2  c3 = c3
    Conns = {c1, c2, c3}
    NoConn = NoConn
    size = 2
SPECIFICATION FairSpec
INVARIANTS TypeOK ExclusiveUse OpenIsCounted NoLostWakeup
PROPERTY ClosedDrains
