SPECIFICATION Spec
CONSTANTS
    t1 = t1
    t2 = t2
    Turns = {t1}
    Stream <- OneWorker
    Revs = {"r1"}
    Finals = {"r1"}
    Holds = {}
    Versions = {"v1"}
    FreeVersions = {}
    Cuts <- Shrinking
    Connectors = {"c1"}
    Nobody = "nobody"
    MaxAttempts = 1
    MaxParts = 2
    MaxGen = 2
INVARIANT DeadLetterIsUnresolved
CHECK_DEADLOCK FALSE
