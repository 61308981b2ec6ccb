SPECIFICATION Spec
CONSTANTS
    r1 = r1
    w1 = w1
    w2 = w2
    alias = alias
    t1 = t1
    t2 = t2
    Requests = {r1}
    Tokens = {a1, a2}
    Workers = {w1, w2}
    Texts = {t1, t2}
    Selectors = {w1, w2, alias}
    Calls <- Retries
    NoToken = none
    Lease = 1
    LinkWindow = 1
    HardTTL = 2
    AckTimeout = 1
    RetryHorizon = 1
    Retention = 2
    KeepCount = 0
    Batch = 1
    MaxTime = 3
INVARIANTS AnswersAreTrue OwnerIsTheSender
SYMMETRY AttemptSymmetry
CHECK_DEADLOCK FALSE
