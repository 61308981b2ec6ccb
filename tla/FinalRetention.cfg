SPECIFICATION MCSpec
CONSTANTS
    r1 = r1
    r2 = r2
    Turns = {"t1", "t2"}
    Stream <- OneWorker
    Revs = {r1, r2}
    Finals = {r1, r2}
    Holds = {}
    Versions = {"v1"}
    FreeVersions = {"v2"}
    Cuts <- AnyCut
    Connectors = {"c1"}
    Nobody = "nobody"
    MaxAttempts = 1
    MaxParts = 2
    MaxGen = 1
    KeepFinals = 1
    Batch = 2
INVARIANTS FootprintIsKept QueueIsReadable
PROPERTY NoReplay
SYMMETRY Alike
CHECK_DEADLOCK FALSE
