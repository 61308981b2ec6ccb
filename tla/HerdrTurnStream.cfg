CONSTANTS
    Panes = {p1}
    Unrouted = {p1}
    History = 1
    MaxTurn = 2
    MaxEpoch = 2
    MaxFaults = 3
SPECIFICATION StreamSpec
INVARIANT MarksAreTrue
PROPERTY TurnsSettle
CHECK_DEADLOCK FALSE
