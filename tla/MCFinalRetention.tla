-------------------------- MODULE MCFinalRetention --------------------------
\* Two instances of FinalRetention for TLC, one of a turn with two revisions and
\* one of two turns: part says which.
EXTENDS FinalRetention

CONSTANTS r1, r2

VARIABLE part

\* All turns belong to one worker.
OneWorker == [t \in Turns |-> "w"]

\* Any cut of any revision: the revisions are alike.
AnyCut == [k \in Turns \X Revs \X (Versions \cup FreeVersions) |-> 1..MaxParts]
Alike == Permutations(Revs)

\* One turn that is told two texts.  (That a row is deferred or a connector stops is
\* in final_stream.)
OneTurn ==
    /\ told'["t2"] = <<>>
    /\ \A i \in DOMAIN db'.outbox : db'.outbox[i].status # "deferred"
    /\ \A l \in db'.leases : l.owner # Nobody

\* Two turns of one text and one part, delivered at the first attempt, of which the
\* second may be planned again without a ref.
TwoTurns ==
    /\ \A t \in Turns : Len(told'[t]) <= 1
    /\ \A q \in DOMAIN db'.plans :
          db'.plans[q].parts = 1 /\ (db'.plans[q].turn = "t1" => db'.plans[q].sourced)
    /\ \A i \in DOMAIN db'.outbox :
          ~db'.outbox[i].due /\ db'.outbox[i].status \in {"queued", "leased", "awaiting_ack", "delivered"}
    /\ \A l \in db'.leases : ~l.due /\ l.owner # Nobody

MCInit == RetentionInit /\ part \in {"one turn", "two turns"}
MCNext ==
    /\ RetentionNext
    /\ part = "one turn" => OneTurn
    /\ part = "two turns" => TwoTurns
    /\ UNCHANGED part
MCSpec == MCInit /\ [][MCNext]_<<rvars, part>>

=============================================================================
