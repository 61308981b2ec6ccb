CONSTANTS
    Panes = {p1, p2, p3}
    Terms = {1, 2, 3}
    Sessions = {}
    NoSession = none
    MaxWorkers = 3
    MaxQueue = 1
    MaxChanges = 5
SPECIFICATION RoutingSpec
INVARIANT PanesAreDistinctWorkers
SYMMETRY PaneSymmetry
CHECK_DEADLOCK FALSE
