SPECIFICATION FairSpec
CONSTANTS
    t1 = t1
    t2 = t2
    Turns = {t1}
    Stream <- OneWorker
    Revs = {"r1", "h"}
    Finals = {"r1", "h"}
    Holds = {"h"}
    Versions = {"v1"}
    FreeVersions = {"v2"}
    Cuts <- Shrinking
    Connectors = {"c1"}
    Nobody = "nobody"
    MaxAttempts = 1
    MaxParts = 2
    MaxGen = 2
PROPERTY DeliveryEnds
CHECK_DEADLOCK FALSE
