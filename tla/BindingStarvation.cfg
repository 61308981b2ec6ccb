SPECIFICATION LiveSpec
CONSTANTS
    N = 3
    MaxWorkers = 1
    QueueCapacity = 1
    MaxChanges = 0
    MaxFaults = 0
PROPERTIES
    NothingStarves
CHECK_DEADLOCK FALSE
