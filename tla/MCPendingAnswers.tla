-------------------------- MODULE MCPendingAnswers --------------------------
\* Four instances of PendingAnswers for TLC, all with two requests: part says which.
EXTENDS PendingAnswers

VARIABLE part

\* Two prompts one after the other, through a binding that may go away, with the
\* scheduler as the only reader.
TwoPrompts == issued' = 1 /\ completions' = 0

\* One prompt, and a binding that is replaced, with the scheduler as the only reader.
TwoBindings ==
    /\ asked' <= 1 /\ screen' \in Nat
    /\ binding' # 0 /\ completions' = 0

\* One prompt, read by the scheduler and by a completed turn's reader beside it.
CompletedTurn ==
    /\ issued' = 1 /\ asked' <= 1 /\ screen' \in Nat
    /\ binding' # 0

\* One prompt and a binding that is replaced: a completed turn has the new one read
\* before the scan that listed the old one prunes.  No read fails, no claim lapses
\* and no call stops half-way.
LateScan ==
    /\ asked' <= 1 /\ screen' \in Nat
    /\ binding' # 0 /\ ~claim'.lapsed
    /\ \A i \in DOMAIN readers' : readers'[i].saw # Failure
    /\ \A r \in Requests : pc[r] \notin {"left", "finish"} => pc'[r] # "left"

MCInit == Init /\ part \in {"two prompts", "two bindings", "completed turn", "late scan"}
MCNext ==
    /\ Next
    /\ part = "two prompts" => TwoPrompts
    /\ part = "two bindings" => TwoBindings
    /\ part = "completed turn" => CompletedTurn
    /\ part = "late scan" => LateScan
    /\ UNCHANGED part
MCSpec == MCInit /\ [][MCNext]_<<vars, part>>

=============================================================================
