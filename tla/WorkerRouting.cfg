CONSTANTS
    Panes = {p1, p2, p3}
    Terms = {1, 2, 3}
    Sessions = {s1}
    NoSession = none
    MaxWorkers = 2
    MaxQueue = 2
    MaxChanges = 4
SPECIFICATION RoutingSpec
INVARIANTS NoHiddenRoute OneRoutePerTarget
SYMMETRY PaneSymmetry
CHECK_DEADLOCK FALSE
