-------------------------- MODULE MCTurnIngestion --------------------------
\* Three instances of TurnIngestion for TLC: part says which.
EXTENDS TurnIngestion

VARIABLE part

\* Two bindings, which the queue and the pool can hold, that change and fail
TwoBindings == 3 \notin live'

\* Three bindings, so that a scan drops one, whose versions or number change
ThreeThatChange == faults' = 0

\* Three bindings whose listing or lookup fails once
ThreeThatFail == changes' = 0 /\ faults' <= 1

MCInit ==
    /\ Init
    /\ part \in {"two", "three that change", "three that fail"}
    /\ part = "two" => 3 \notin live
MCNext ==
    /\ Next
    /\ part = "two" => TwoBindings
    /\ part = "three that change" => ThreeThatChange
    /\ part = "three that fail" => ThreeThatFail
    /\ UNCHANGED part

\* No part takes a step away that Fairness asks for: whatever may fail may succeed.
MCSpec == MCInit /\ [][MCNext]_<<vars, part>> /\ Fairness

=============================================================================
