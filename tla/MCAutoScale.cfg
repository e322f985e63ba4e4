\* The limits of config.h; MaxQueued exceeds MaxThreads + HighWater, so that
\* an overload that fills the pool can be queued.
CONSTANTS
    MinThreads = 4
    MaxThreads = 32
    HighWater = 10
    LowWater = 2
    InitialThreads = 8
    MaxQueued = 44
SPECIFICATION FairSpec
INVARIANT WithinLimits
PROPERTIES NoFlapping Settles ReachesItsLimits
CHECK_DEADLOCK FALSE
