SPECIFICATION Spec
CONSTANTS
    t1 = t1
    t2 = t2
    Turns = {t1, t2}
    Stream <- OneWorker
    Revs = {"r1"}
    Finals = {"r1"}
    Holds = {}
    Versions = {"v1"}
    FreeVersions = {"v2", "v3"}
    Cuts <- Shrinking
    Connectors = {"c1"}
    Nobody = "nobody"
    MaxAttempts = 1
    MaxParts = 1
    MaxGen = 1
INVARIANTS StreamIsOrdered WaitingIsJustified
CHECK_DEADLOCK FALSE
