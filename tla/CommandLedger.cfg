SPECIFICATION LiveSpec
CONSTANTS
    Requests = {r1, r2}
    Tokens = {o1}
    Workers = {w1}
    Texts = {t1}
    Selectors = {s1}
    NoToken = none
    Lease = 1
    LinkWindow = 1
    HardTTL = 2
    AckTimeout = 1
    RetryHorizon = 1
    Retention = 2
    KeepCount = 1
    Batch = 1
    MaxTime = 3
INVARIANTS LedgerTypeOK SendsAreSpaced TablesAgree
PROPERTIES EvidenceIsFinal KeepsPromise SendsAreResolved
CHECK_DEADLOCK FALSE
