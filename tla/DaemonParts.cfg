SPECIFICATION PartsSpec
CONSTANTS
    Conns = {c1, c2}
    Rows = {x1}
    Expired = {e1, e2}
    None = none
    Current = 2
    MaxFiles = 4
    Procs = {p1, p2}
    NoEntry = noEntry
    MaxLinks = 10
    MaxLosses = 2
    Daemons = {d1, d2, d3}
    NoSocket = noSocket
    NoHolder = noHolder
    MaxSockets = 6
    Clients = {q1, q2, q3}
    Workers = {w1, w2}
    MaxInFlight = 2
    Submissions = {s1, s2}
    Turns = {t1, t2}
    NoLink = noLink
    Window = 2
    HardTtl = 3
    AckTimeout = 1
    MaxReadAge = 1
    MaxTime = 3
    Savers = {"s1", "s2"}
    Families = {"f"}
    Contents <- Signals
    Stamps = {1, 2}
    Required = 2
    Grace = 2
    LastTick = 5
    Hosts = {1, 2, 3}
    Budget = 2
    Cadence = 2
    MaxBacklog = 3
    LastTime = 7
INVARIANTS StoreIsSafe IdentityIsKept ListenerIsReachable RetryIsSafe PoolIsSound LinksAreTrue SavesAgree EveryHostIsServiced SweepIsOnTime
PROPERTIES ResolvedWasGone
SYMMETRY Alike
CHECK_DEADLOCK FALSE
