--------------------------- MODULE FinalRetention ---------------------------
(***************************************************************************)
(* The delivery of finals (FinalDelivery) together with the two sweeps     *)
(* that delete its history (store/sqlite.py):                              *)
(* cleanup_turn_content_retention removes the plans, roots and revisions   *)
(* that something newer has replaced, and                                  *)
(* cleanup_acknowledged_final_retention removes whole turns whose current  *)
(* final was shown, leaving a tombstone against a replay.  Both run as one *)
(* transaction, at any moment between the steps of the connectors.         *)
(*                                                                         *)
(* There is no clock: a stamp is fresh until Tick moves the retention      *)
(* cutoff past everything that has happened so far.  A row has one stamp   *)
(* (updated_at, which its attempts never exceed), a plan one (the last of  *)
(* created_at, activated_at and completed_at).                             *)
(*                                                                         *)
(* The text of a turn only moves forward here: what happens when it        *)
(* returns to an earlier revision is the subject of FinalDelivery.         *)
(***************************************************************************)
EXTENDS FinalDelivery

CONSTANTS
    KeepFinals,     \* acknowledged_final_retention_count
    Batch           \* batch_size of both sweeps

ASSUME RetentionAssumption == KeepFinals \in Nat \ {0} /\ Batch \in Nat \ {0}

VARIABLES
    stored,     \* turn_content_revisions: the <<turn, revision>> pairs kept
    fresh,      \* what was stamped since the retention cutoff
    acked,      \* the <<how, turn, revision>> acknowledged, in that order
    tombs,      \* of these, the delivered attempts without a root
    told,       \* external: told[t], the successive texts of a turn
    forgotten   \* history: the turns whose delivery was deleted as acknowledged

kept == <<stored, fresh, acked, tombs, told, forgotten>>
rvars == <<vars, kept>>

Fresh == [rows : SUBSET Nat, plans : SUBSET Nat, revs : SUBSET (Turns \X Revs)]

-----------------------------------------------------------------------------
\* What a step of the delivery stamps

Restamped(old, new) == {x \in DOMAIN new : x \notin DOMAIN old \/ old[x] # new[x]}
Milestones(plans) == [q \in DOMAIN plans |-> <<plans[q].activated, plans[q].completed>>]
Statuses(rows) == [i \in DOMAIN rows |-> rows[i].status]

Replaced == {<<t, current[t]>> : t \in {t \in Turns : current[t] # NoRev /\ current'[t] # current[t]}}

Stamp ==
    fresh' = [rows  |-> (fresh.rows \cap DOMAIN db'.outbox)
                            \cup Restamped(Statuses(db.outbox), Statuses(db'.outbox)),
              plans |-> (fresh.plans \cap DOMAIN db'.plans)
                            \cup Restamped(Milestones(db.plans), Milestones(db'.plans)),
              revs  |-> (fresh.revs \cap stored') \cup Replaced]

\* A final is acknowledged when its root is delivered, and once more when a plan
\* made without a ref is completed: unless the final has a tombstone, that plan
\* leaves one (_update_presentation_plan_after_outbox_conn).
Delivered(st) ==
    {<<st.outbox[i].turn, st.outbox[i].rev>> :
        i \in {i \in DOMAIN st.outbox : st.outbox[i].kind = "ready" /\ st.outbox[i].status = "delivered"}}

Key(x) == Tail(x)

Completed(plans) == {q \in DOMAIN plans : plans[q].completed}

Acknowledge ==
    LET done  == {q \in Completed(db'.plans) \ Completed(db.plans) : ~db'.plans[q].sourced}
        loose == {x \in {<<"loose", db'.plans[q].turn, db'.plans[q].rev>> : q \in done} :
                     \A y \in tombs : Key(y) # Key(x)}
        new   == loose \cup {<<"root", k[1], k[2]>> : k \in Delivered(db') \ Delivered(db)}
    IN  /\ acked' = SelectSeq(acked, LAMBDA x : x \notin new) \o SetToSeq(new)
        /\ tombs' = tombs \cup loose

-----------------------------------------------------------------------------
\* Which finals are proven to be shown (_ACKNOWLEDGED_FINAL_ELIGIBILITY_CTE)

Sweepable == {"delivered", "superseded"}

\* The plans that lead to q: its own parts and those of the plans it recovers
Lineage(st, q) ==
    {x \in PlansFor(st, st.plans[q].turn, st.plans[q].rev) :
        /\ st.plans[x].ver = st.plans[q].ver /\ st.plans[x].gen <= st.plans[q].gen
        /\ st.plans[x].state \in {"completed", "superseded"}}

\* The parts of a plan that was never committed have no rows.
Uncommitted(p) == p.staged > 0 /\ p.jobs = <<>> /\ ~p.recovered

Proves(st, q) ==
    LET jobs == UNION {Range(st.plans[x].jobs) : x \in Lineage(st, q)} IN
    /\ st.plans[q].sourced /\ st.plans[q].completed
    /\ st.plans[q].state \in {"completed", "superseded"}
    /\ {j.ord : j \in {j \in jobs : j.op = "upsert"}} = 0..(st.plans[q].parts - 1)
    /\ \A j \in jobs : st.outbox[j.row].status = "delivered"
    /\ \A x \in Lineage(st, q) : ~Uncommitted(st.plans[x])

Proven(s) ==
    {i \in DOMAIN s.db.outbox :
        LET o == s.db.outbox[i] IN
        /\ o.kind = "ready" /\ o.status = "delivered"
        /\ <<o.turn, o.rev>> \in s.stored
        /\ \E q \in PlansFor(s.db, o.turn, o.rev) : Proves(s.db, q)}

IsCurrentRoot(s, i) == current[s.db.outbox[i].turn] = s.db.outbox[i].rev

AckedAt(s, i) ==
    CHOOSE n \in DOMAIN acked : acked[n] = <<"root", s.db.outbox[i].turn, s.db.outbox[i].rev>>
Later(s, S, i) == {j \in S : AckedAt(s, j) > AckedAt(s, i)}

\* _delivered_final_rank_conn
Rank(s, i) == Cardinality(Later(s, Proven(s), i)) + 1

-----------------------------------------------------------------------------
\* The first sweep: cleanup_turn_content_retention.  s is the store inside its
\* transaction, [db, stored].

OldRow(i) == i \notin fresh.rows
OldPlan(q) == q \notin fresh.plans

IsLeased(st, i) == \E l \in st.leases : l.row = i
Siblings(st, q) == {x \in DOMAIN st.plans : st.plans[x].turn = st.plans[q].turn}
CompletedAfter(st, q) == \E x \in Siblings(st, q) : x > q /\ st.plans[x].state = "completed"
LatestCompleted(st, q) == Highest({x \in Siblings(st, q) : st.plans[x].completed})
LatestSuperseded(st, q) ==
    Highest({x \in Siblings(st, q) : st.plans[x].state = "superseded" /\ st.plans[x].activated})

\* A live plan that replaces q: it was committed when q was the last one activated.
ReplacesLive(st, q) ==
    \E x \in Siblings(st, q) \ {q} :
        /\ st.plans[x].state \in {"waiting_predecessor", "active"}
        /\ q = Highest({y \in Siblings(st, q) \ {x} : st.plans[y].activated})

\* The source_outbox_id of a plan made with a ref
Source(st, q) == Root(st, st.plans[q].turn, st.plans[q].rev)
SourcedFrom(st, i) ==
    {q \in PlansFor(st, st.outbox[i].turn, st.outbox[i].rev) : st.plans[q].sourced}

RowsSwept(st, q, allowed, young) ==
    \A i \in JobRows(st.plans[q]) :
        /\ st.outbox[i].status \in allowed /\ ~IsLeased(st, i)
        /\ young \/ OldRow(i)

\* Plans without a root: made without a ref, or summaries
LoosePlans(s) ==
    {q \in DOMAIN s.db.plans :
        LET p == s.db.plans[q] IN
        /\ ~p.sourced /\ OldPlan(q)
        /\ p.state \in {"preparing", "completed", "superseded"}
        /\ ~ReplacesLive(s.db, q)
        /\ p.state = "preparing" \/ ~p.activated \/ q < LatestCompleted(s.db, q)
        /\ RowsSwept(s.db, q, IF p.state = "preparing" THEN {} ELSE Sweepable, FALSE)}

\* Plans that were replaced before they were shown
ReplacedPlans(s) ==
    {q \in DOMAIN s.db.plans :
        LET p == s.db.plans[q] IN
        /\ p.sourced /\ p.state = "superseded" /\ OldPlan(q)
        /\ \/ ~p.activated
           \/ q = LatestSuperseded(s.db, q)
           \/ \E x \in Siblings(s.db, q) :
                 /\ x > q /\ s.db.plans[x].state = "superseded"
                 /\ s.db.plans[x].activated /\ ~s.db.plans[x].sourced
           \/ CompletedAfter(s.db, q)
        /\ LET i == Source(s.db, q) IN s.db.outbox[i].status = "superseded" /\ OldRow(i)
        /\ RowsSwept(s.db, q, Sweepable, FALSE)}

\* Plans whose final was shown and has been replaced since
ShownPlans(s) ==
    {q \in DOMAIN s.db.plans :
        LET p == s.db.plans[q] IN
        /\ p.sourced /\ p.completed /\ p.state \in {"completed", "superseded"}
        /\ LET i == Source(s.db, q) IN
           /\ i \in Proven(s) /\ ~IsCurrentRoot(s, i)
           /\ (OldRow(i) /\ OldPlan(q)) \/ Rank(s, i) > KeepFinals
           /\ RowsSwept(s.db, q, {"delivered"}, Rank(s, i) > KeepFinals)
        /\ CompletedAfter(s.db, q)}

StaleRoots(s) ==
    {i \in DOMAIN s.db.outbox :
        /\ s.db.outbox[i].kind = "ready" /\ s.db.outbox[i].status = "superseded"
        /\ OldRow(i) /\ SourcedFrom(s.db, i) = {}}

\* Mutant: the roots and parts of other plans are not asked.
IsPlanned(s, t, r) == PlansFor(s.db, t, r) # {}

\* A revision is needed while a plan, a root or a part names it.
IsNeeded(s, t, r) ==
    \/ PlansFor(s.db, t, r) # {}
    \/ \E i \in DOMAIN s.db.outbox : s.db.outbox[i].turn = t /\ s.db.outbox[i].rev = r

StaleRevisions(s) ==
    {k \in s.stored : current[k[1]] # k[2] /\ k \notin fresh.revs /\ ~IsNeeded(s, k[1], k[2])}

\* _turn_content_retention_candidates_conn
ContentCandidates(s) ==
    {<<"plan", q>> : q \in LoosePlans(s) \cup ReplacedPlans(s) \cup ShownPlans(s)}
        \cup {<<"source", i>> : i \in StaleRoots(s)}
        \cup {<<"revision", k>> : k \in StaleRevisions(s)}

\* _terminal_source_anchor_reference_reason_conn
RootMayGoAway(s, i, status, young) ==
    /\ s.db.outbox[i].status = status /\ (young \/ OldRow(i))
    /\ status = "delivered" => <<s.db.outbox[i].turn, s.db.outbox[i].rev>> \in s.stored /\ ~IsCurrentRoot(s, i)
    /\ ~IsLeased(s.db, i)

WasCompleted(p) == p.state \in {"completed", "superseded"} /\ p.completed

\* Shown finals beyond the count are deleted however young they are.
AllowYoung(s, q) ==
    LET i == Source(s.db, q) IN
    WasCompleted(s.db.plans[q]) /\ s.db.plans[q].sourced /\ i \in Proven(s) /\ Rank(s, i) > KeepFinals

SourceMayGo(s, q) ==
    LET p == s.db.plans[q]
        i == Source(s.db, q)
    IN
    IF WasCompleted(p)
    THEN /\ CompletedAfter(s.db, q) /\ i \in Proven(s) /\ ~IsCurrentRoot(s, i)
         /\ RootMayGoAway(s, i, "delivered", AllowYoung(s, q))
    ELSE p.state = "superseded" /\ RootMayGoAway(s, i, "superseded", FALSE)

\* _terminal_plan_reference_reason_conn: a candidate is examined again when its
\* turn in the batch comes.  A plan with uncommitted parts is always refused.
PlanMayGo(s, q) ==
    LET p == s.db.plans[q] IN
    /\ p.sourced => SourceMayGo(s, q)
    /\ \/ p.state = "preparing" /\ p.jobs = <<>>
       \/ /\ p.state \in {"completed", "superseded"}
          /\ p.sourced \/ (~ReplacesLive(s.db, q) /\ (p.activated => q < LatestCompleted(s.db, q)))
          /\ ~Uncommitted(p)
          /\ RowsSwept(s.db, q, IF WasCompleted(p) THEN {"delivered"} ELSE Sweepable, AllowYoung(s, q))

\* Mutant: a plan that was replaced is deleted outright.
RetainsNothing(s, q) == FALSE

\* _superseded_plan_summary_conn: the last plan that may still be on display is
\* not deleted but kept, without its root and its parts, to remember how many parts
\* that was.
RetainsSummary(s, q) ==
    LET p == s.db.plans[q] IN
    /\ p.sourced /\ p.state = "superseded" /\ p.activated
    /\ ~CompletedAfter(s.db, q) /\ q = LatestSuperseded(s.db, q)

SummaryParts(s, q) ==
    LET baseline == Highest({x \in Siblings(s.db, q) : x < q /\ s.db.plans[x].state = "completed"})
    IN  Max({s.db.plans[x].parts : x \in {x \in Siblings(s.db, q) : s.db.plans[x].activated /\ x >= baseline}})

Collapsed(s, q) ==
    {x \in Siblings(s.db, q) \ {q} :
        LET p == s.db.plans[x] IN
        /\ p.state = "superseded" /\ ~p.sourced /\ p.activated /\ OldPlan(x)
        /\ p.jobs = <<>> /\ ~p.recovers /\ ~p.recovered}

DropPlans(st, Q) == [st EXCEPT !.plans = [x \in DOMAIN @ \ Q |-> @[x]]]

\* The recovery that names q is deleted with it.
ForgetRecovery(st, q) ==
    LET p == st.plans[q]
        same(x, g) == /\ x \in PlansFor(st, p.turn, p.rev)
                      /\ st.plans[x].ver = p.ver /\ st.plans[x].gen = g
    IN  [st EXCEPT !.plans = [x \in DOMAIN @ |->
            CASE p.recovers /\ same(x, p.gen - 1) -> [@[x] EXCEPT !.recovered = FALSE, !.staged = Len(st.plans[x].jobs)]
              [] p.recovered /\ same(x, p.gen + 1) -> [@[x] EXCEPT !.recovers = FALSE]
              [] OTHER -> @[x]]]

Summarized(s, q) ==
    LET summary == [s.db.plans[q] EXCEPT !.sourced = FALSE, !.parts = SummaryParts(s, q), !.staged = 0,
                                         !.jobs = <<>>, !.recovers = FALSE, !.recovered = FALSE]
    IN  [s EXCEPT !.db = DropPlans([@ EXCEPT !.plans[q] = summary], Collapsed(s, q))]

\* _delete_terminal_source_anchor_conn
DropRoot(s, i, status, young) ==
    IF RootMayGoAway(s, i, status, young) /\ SourcedFrom(s.db, i) = {}
    THEN [s EXCEPT !.db = DeleteRows(@, {i})] ELSE s

\* _delete_superseded_revision_conn
DropRevision(s, k, young) ==
    IF k \in s.stored /\ current[k[1]] # k[2] /\ (young \/ k \notin fresh.revs) /\ ~IsNeeded(s, k[1], k[2])
    THEN [s EXCEPT !.stored = @ \ {k}] ELSE s

\* _delete_retained_plan_conn
DeletePlan(s, q) ==
    LET p     == s.db.plans[q]
        young == AllowYoung(s, q)
        i     == Source(s.db, q)
        s1    == [s EXCEPT !.db = DeleteRows(ForgetRecovery(@, q), JobRows(p))]
        s2    == IF RetainsSummary(s, q) THEN Summarized(s1, q)
                 ELSE [s1 EXCEPT !.db = DropPlans(@, {q})]
        s3    == IF p.sourced
                 THEN DropRoot(s2, i, IF WasCompleted(p) THEN "delivered" ELSE "superseded", young)
                 ELSE s2
    IN  DropRevision(s3, <<p.turn, p.rev>>, young)

SweepOne(s, c) ==
    CASE c[1] = "plan" -> IF c[2] \in DOMAIN s.db.plans /\ PlanMayGo(s, c[2]) THEN DeletePlan(s, c[2]) ELSE s
      [] c[1] = "source" -> IF c[2] \in DOMAIN s.db.outbox THEN DropRoot(s, c[2], "superseded", FALSE) ELSE s
      [] c[1] = "revision" -> DropRevision(s, c[2], FALSE)

Store == [db |-> db, stored |-> stored]

\* The candidates come in the order of their stamps, whatever that is.
CleanupContent ==
    \E C \in {ContentCandidates(Store)} : \E order \in SetToSeqs(C) :
        LET s == FoldLeft(SweepOne, Store, SubSeq(order, 1, Min({Batch, Len(order)}))) IN
        /\ C # {}
        /\ db' = s.db /\ stored' = s.stored
        /\ fresh' = [fresh EXCEPT !.rows = @ \cap DOMAIN s.db.outbox,
                                  !.plans = @ \cap DOMAIN s.db.plans, !.revs = @ \cap s.stored]
        /\ UNCHANGED <<current, hand, shown, acked, tombs, told, forgotten>>

-----------------------------------------------------------------------------
\* The second sweep: cleanup_acknowledged_final_retention

\* whole_turn_resolved
Resolved(st, t) ==
    /\ \A i \in DOMAIN st.outbox :
          st.outbox[i].turn = t => st.outbox[i].status \in Sweepable /\ ~IsLeased(st, i)
    /\ \A q \in DOMAIN st.plans :
          st.plans[q].turn = t => st.plans[q].state \in {"completed", "superseded"}

\* _acknowledged_final_retention_candidates_conn
AckCandidates(s) ==
    LET ranked == {i \in Proven(s) : IsCurrentRoot(s, i) /\ Resolved(s.db, s.db.outbox[i].turn)}
    IN  {i \in ranked : OldRow(i) \/ Cardinality(Later(s, ranked, i)) + 1 > KeepFinals}

AckBatch(s) ==
    LET C == AckCandidates(s) IN {i \in C : Cardinality(C \ Later(s, C, i)) <= Batch}

AckedBefore(x, y) == \E m, n \in DOMAIN acked : m < n /\ acked[m] = x /\ acked[n] = y

LastAcked(S) == {x \in S : Cardinality({y \in S : AckedBefore(x, y)}) < KeepFinals}

\* Mutant: the attempts of the turn are deleted with it.
NoTombstones(st, t, old) == old

\* The delivered attempts of the turn's delivered roots stay behind as tombstones;
\* those under the other roots of the turn go.  Of the tombstones of one final the
\* last one is kept, and of all of them the last ones.
Tombstones(st, t, old) ==
    LET shownKeys == {k \in Delivered(st) : k[1] = t}
        otherKeys == {k \in {t} \X Revs : RootsOf(st, t, k[2]) # {}} \ shownKeys
        all == {x \in old : Key(x) \notin otherKeys} \cup {<<"root", k[1], k[2]>> : k \in shownKeys}
    IN  LastAcked({x \in all : \A y \in all : AckedBefore(x, y) => Key(x) # Key(y)})

\* The turns go one after the other, the first acknowledged first.
TombstonesAfter(s) ==
    FoldLeft(LAMBDA old, i : Tombstones(s.db, s.db.outbox[i].turn, old), tombs,
             SetToSortSeq(AckBatch(s), LAMBDA i, j : AckedAt(s, i) < AckedAt(s, j)))

\* _delete_acknowledged_final_turn_conn
ForgetTurns(st, T) ==
    DropPlans(DeleteRows(st, {i \in DOMAIN st.outbox : st.outbox[i].turn \in T}),
              {q \in DOMAIN st.plans : st.plans[q].turn \in T})

CleanupAcknowledged ==
    \E T \in {{db.outbox[i].turn : i \in AckBatch(Store)}} :
        /\ T # {}
        /\ db' = ForgetTurns(db, T)
        /\ stored' = {k \in stored : k[1] \notin T}
        /\ current' = [t \in Turns |-> IF t \in T THEN NoRev ELSE current[t]]
        /\ tombs' = TombstonesAfter(Store)
        /\ forgotten' = forgotten \cup T
        /\ fresh' = [fresh EXCEPT !.rows = @ \cap DOMAIN db'.outbox,
                                  !.plans = @ \cap DOMAIN db'.plans, !.revs = @ \cap stored']
        /\ UNCHANGED <<hand, shown, acked, told>>

-----------------------------------------------------------------------------
\* A turn is observed, its final perhaps for the second time

\* The text of a turn stays the same or is new.
Tells(t, r) ==
    \/ told[t] # <<>> /\ r = Last(told[t]) /\ UNCHANGED told
    \/ r \notin Range(told[t]) /\ told' = [told EXCEPT ![t] = Append(@, r)]

IsReplay(t, r) ==
    r \in Finals /\ RootsOf(db, t, r) = {} /\ \E x \in tombs : Key(x) = <<t, r>>

\* The revision is stored and its root made.
ObserveFinal(t, r) ==
    /\ Tells(t, r) /\ ~IsReplay(t, r)
    /\ Observe(t, r)
    /\ stored' = stored \cup {<<t, r>>}
    /\ Stamp /\ Acknowledge
    /\ UNCHANGED forgotten

\* _discard_acknowledged_final_replay_conn: the turn was just inserted again and
\* is removed at once.  (Nothing of it is in the queue: its text has not changed.)
\* Its other branch, for a final whose plan without a ref is still there, needs a
\* text that comes back without its root, which no text does that only moves on.
DiscardReplay(t, r) ==
    /\ Tells(t, r) /\ IsReplay(t, r)
    /\ UNCHANGED <<vars, stored, fresh, acked, tombs, forgotten>>

Delivery ==
    /\ Planning \/ Delivering \/ Operator \/ Maintenance \/ Time
    /\ UNCHANGED <<stored, told, forgotten>>
    /\ Stamp /\ Acknowledge

\* The retention cutoff passes everything stamped so far.
Tick ==
    /\ fresh' = [rows |-> {}, plans |-> {}, revs |-> {}]
    /\ UNCHANGED <<vars, stored, acked, tombs, told, forgotten>>

-----------------------------------------------------------------------------
RetentionInit ==
    /\ Init
    /\ stored = {} /\ fresh = [rows |-> {}, plans |-> {}, revs |-> {}]
    /\ acked = <<>> /\ tombs = {} /\ forgotten = {}
    /\ told = [t \in Turns |-> <<>>]

RetentionNext ==
    \/ \E t \in Turns, r \in Revs : ObserveFinal(t, r) \/ DiscardReplay(t, r)
    \/ Delivery \/ Tick
    \/ CleanupContent \/ CleanupAcknowledged

RetentionSpec == RetentionInit /\ [][RetentionNext]_rvars

-----------------------------------------------------------------------------
\* Properties

\* What a completed plan leaves on display is exact, whatever the sweeps have
\* deleted of the plans before it: enough is remembered to retire their parts.
FootprintIsKept ==
    \A q \in DOMAIN db.plans :
        db.plans[q].state = "completed" /\ db.plans[q].turn \notin forgotten
            => shown[db.plans[q].turn] = Exact(db.plans[q])

\* Whatever is still in the queue can be read: a row and a plan have the text of
\* their revision, a plan its root and its parts.
QueueIsReadable ==
    /\ \A i \in DOMAIN db.outbox : <<db.outbox[i].turn, db.outbox[i].rev>> \in stored
    /\ \A q \in DOMAIN db.plans :
          LET p == db.plans[q] IN
          /\ <<p.turn, p.rev>> \in stored
          /\ p.sourced => RootsOf(db, p.turn, p.rev) # {}
          /\ JobRows(p) \subseteq DOMAIN db.outbox

\* A final that was shown is not queued again, although nothing of its turn is left
\* in the store, before so many others have been acknowledged since, those shown by
\* plans without a ref among them.
NoReplay ==
    [][\A k \in Turns \X Revs :
          LET x == <<"root", k[1], k[2]>> IN
          /\ RootsOf(db, k[1], k[2]) = {} /\ RootsOf(db', k[1], k[2]) # {}
          /\ x \in Range(acked)
          => Cardinality({Key(y) : y \in {y \in Range(acked) : AckedBefore(x, y)}} \ {k}) >= KeepFinals]_rvars

=============================================================================
