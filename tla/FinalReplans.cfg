SPECIFICATION MCSpec
CONSTANTS
    Turns = {"t1"}
    Stream <- OneWorker
    Revs = {"r1", "r2"}
    Finals = {"r1", "r2"}
    Holds = {}
    Versions = {"v1", "v2"}
    FreeVersions = {"v3"}
    Cuts <- Shrinking
    Connectors = {"c1"}
    Nobody = "nobody"
    MaxAttempts = 1
    MaxParts = 2
    MaxGen = 2
INVARIANT ReplansAreExact
PROPERTIES DeliveredIsShown LiveLeaseIsKept
CHECK_DEADLOCK FALSE
