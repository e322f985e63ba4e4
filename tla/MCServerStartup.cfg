CONSTANT InitialThreads = 3
SPECIFICATION FairSpec
INVARIANTS TypeOK FailureLeavesNothing SynchronisationOutlivesWorkers
PROPERTY InitReturnsUnlessBroadcastMissed
