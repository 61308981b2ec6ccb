SPECIFICATION MCSpec
CONSTANTS
    N = 3
    MaxWorkers = 1
    QueueCapacity = 1
    MaxChanges = 1
    MaxFaults = 2
INVARIANT SchedulerIsSound
PROPERTIES StopEnds RefreshHappens
CHECK_DEADLOCK FALSE
