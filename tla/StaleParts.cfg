SPECIFICATION Spec
CONSTANTS
    t1 = t1
    t2 = t2
    Turns = {t1}
    Stream <- OneWorker
    Revs = {"r1", "r2"}
    Finals = {"r1", "r2"}
    Holds = {}
    Versions = {"v1"}
    FreeVersions = {}
    Cuts <- AnyCut
    Connectors = {"c1"}
    Nobody = "nobody"
    MaxAttempts = 1
    MaxParts = 2
    MaxGen = 2
INVARIANT ShownIsExact
CHECK_DEADLOCK FALSE
