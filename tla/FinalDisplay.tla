---------------------------- MODULE FinalDisplay ----------------------------
(***************************************************************************)
(* What connectors show of the finals that FinalDelivery delivers, over    *)
(* revisions that flip, versions that are planned again and plans that are *)
(* recovered.  FinalDelivery's behaviours are unchanged: a history         *)
(* variable records on which turns the store has done one of the two       *)
(* things that may leave something wrong on display:                       *)
(*                                                                         *)
(*   overlooked  a plan is materialised although another root of its turn  *)
(*               records more parts than the plan will retire.  The parts  *)
(*               on display are counted in the plans activated since the   *)
(*               last completed one and on the plan's own root (sqlite.py  *)
(*               5654-5734); reactivating a root deletes its plans, and    *)
(*               their count stays on that root alone (3643-3775).         *)
(*   disordered  a plan is carried out, by its commit or by its recovery,  *)
(*               after one created later: what is on display is reckoned   *)
(*               in the order of creation.                                 *)
(*                                                                         *)
(* Both are cases of src/README.md:1208 ("shrinking revisions append       *)
(* retirement jobs for every obsolete ordinal") that the code misses.      *)
(* There is one connector at work at a time: the store cannot keep one     *)
(* whose lease is gone from applying its part late.                        *)
(***************************************************************************)
EXTENDS FinalDelivery

VARIABLE
    doubts      \* history: what may have gone wrong on display, by turn

displayVars == <<vars, doubts>>

-----------------------------------------------------------------------------
\* The jobs of q are made now, not copied from a plan that failed.
Materialised ==
    {q \in DOMAIN db.plans \cap DOMAIN db'.plans :
        db.plans[q].jobs = <<>> /\ db'.plans[q].jobs # <<>> /\ ~db'.plans[q].recovers}

Recovered ==
    {q \in DOMAIN db.plans \cap DOMAIN db'.plans :
        db'.plans[q].recovered /\ ~db.plans[q].recovered}

\* A root has a larger footprint than q will retire, and nothing of its revision
\* was completed since.
Overlooks(st, q) ==
    LET p == st.plans[q] IN
    \E i \in DOMAIN st.outbox :
        /\ st.outbox[i].kind # "part" /\ st.outbox[i].turn = p.turn
        /\ st.outbox[i].foot > Max({p.parts, PriorParts(st, q)})
        /\ \A x \in PlansFor(st, p.turn, st.outbox[i].rev) : ~st.plans[x].completed

\* A plan created after q has been activated before it.
Crosses(st, q) ==
    \E x \in DOMAIN st.plans :
        x > q /\ st.plans[x].turn = st.plans[q].turn /\ st.plans[x].activated

Doubted(t) ==
    doubts[t]
        \cup {"overlooked" : q \in {q \in Materialised : db.plans[q].turn = t /\ Overlooks(db, q)}}
        \cup {"disordered" : q \in {q \in Materialised \cup Recovered : db.plans[q].turn = t /\ Crosses(db, q)}}

DisplayInit == Init /\ doubts = [t \in Turns |-> {}]
DisplayNext == Next /\ doubts' = [t \in Turns |-> Doubted(t)]
DisplaySpec == DisplayInit /\ [][DisplayNext]_displayVars

-----------------------------------------------------------------------------
\* Properties

\* A completed plan shows all of its own parts, whatever was shown before, unless
\* plans were carried out in another order than they were created.
ShownIsWhole ==
    \A q \in DOMAIN db.plans :
        LET p == db.plans[q] IN
        p.state = "completed" /\ "disordered" \notin doubts[p.turn]
            => \A o \in 0..(p.parts - 1) : shown[p.turn][o] = Exact(p)[o]

\* Unless a larger footprint was overlooked it shows nothing else either.
ShownIsAll ==
    \A q \in DOMAIN db.plans :
        LET p == db.plans[q] IN
        p.state = "completed" /\ doubts[p.turn] = {} => shown[p.turn] = Exact(p)

\* What connectors show of a completed plan is whole and exact, however often it
\* was tried, recovered and planned again and however the text went back and
\* forth, but for the two cases above.
ReplansAreExact == TypeOK /\ ShownIsWhole /\ ShownIsAll

\* A root becomes delivered only when the connectors show its whole revision, cut
\* by one version, and nothing else, but for the same two cases.
DeliveredIsShown ==
    [][\A i \in DOMAIN db.outbox \cap DOMAIN db'.outbox :
          LET o == db'.outbox[i]
              cuts == {Exact([rev |-> o.rev, ver |-> v, parts |-> n]) : v \in Versions, n \in 1..MaxParts}
              whole(x) == \A k \in 0..(MaxParts - 1) : x[k] # Blank => shown'[o.turn][k] = x[k]
          IN
          o.kind = "ready" /\ o.status = "delivered" /\ db.outbox[i].status # "delivered"
              => /\ "disordered" \notin doubts'[o.turn] => \E x \in cuts : whole(x)
                 /\ doubts'[o.turn] = {} => shown'[o.turn] \in cuts]_displayVars

=============================================================================
