SPECIFICATION Spec
CONSTANTS
    DeltaTurns = {t1, t2}
    ListTurns = {t1, t2, t3}
    Workers = {1, 2}
    Limit = 1
    Ceiling = 2
    KeepCount = 1
    BatchSize = 1
    MaxSeq = 4
INVARIANTS DeltaIsSound TraversalIsExact
PROPERTY ClientCatchesUp
CHECK_DEADLOCK FALSE
