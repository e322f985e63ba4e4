CONSTANTS
    MinThreads = 1
    MaxThreads = 2
    InitialThreads = 2
    HighWater = 0
    LowWater = 2
    Threads = {t1, t2, t3}
    Conns = {c1, c2}
    Durations = {0}
    NoThread = NoThread
    NoConn = NoConn
SPECIFICATION Spec
SYMMETRY Symmetric
INVARIANT AllThreadsFinished
