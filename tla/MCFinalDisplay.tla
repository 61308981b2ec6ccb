--------------------------- MODULE MCFinalDisplay ---------------------------
\* Two instances of FinalDisplay for TLC, one of many revisions and one of many
\* versions: part says which.
EXTENDS FinalDisplay

VARIABLE part

OneWorker == [t \in Turns |-> "w"]

\* Only the first version of the first revision has several parts.
Shrinking ==
    [k \in Turns \X Revs \X (Versions \cup FreeVersions) |->
        {IF k[2] = "r1" /\ k[3] = "v1" THEN MaxParts ELSE 1}]

\* Two revisions that flip, planned by one version.  (That a row is deferred or its
\* connector stops is in the other instance and in final_stream.)
FlippingRevisions ==
    /\ \A q \in DOMAIN db'.plans : db'.plans[q].ver = "v1"
    /\ \A i \in DOMAIN db'.outbox : db'.outbox[i].status # "deferred"
    /\ \A l \in db'.leases : l.owner # Nobody

\* One revision planned by two versions under its ref and by one without.
CompetingVersions == \A t \in Turns : current'[t] # "r2"

MCInit == DisplayInit /\ part \in {"revisions", "versions"}
MCNext ==
    /\ DisplayNext
    /\ part = "revisions" => FlippingRevisions
    /\ part = "versions" => CompetingVersions
    /\ UNCHANGED part
MCSpec == MCInit /\ [][MCNext]_<<displayVars, part>>

=============================================================================
