CONSTANTS
    MinThreads = 1
    MaxThreads = 3
    InitialThreads = 2
    HighWater = 0
    LowWater = 2
    Threads = {t1, t2, t3, t4, t5}
    Conns = {c1, c2, c3, c4}
    Durations = {0}
    NoThread = NoThread
    NoConn = NoConn
SPECIFICATION Spec
SYMMETRY Symmetric
INVARIANTS
    TypeOK
    ThreadCountWithinLimits
    WorkersAccountedFor
    NoLostWakeup
    MetricsExact
    EachOpenConnectionHasOneOwner
