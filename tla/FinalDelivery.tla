---------------------------- MODULE FinalDelivery ----------------------------
(***************************************************************************)
(* Delivery of finished turns to connectors (store/sqlite.py, queue        *)
(* turn-final): the root row of a (turn, revision), the presentation plan  *)
(* a connector makes for it, the part rows of that plan, their leases and  *)
(* deadlines.  Every store function is one BEGIN IMMEDIATE transaction and *)
(* one action; most of them first reclaim what has expired.  db is the     *)
(* store and the operators from db to db are the steps inside a            *)
(* transaction.                                                            *)
(*                                                                         *)
(* There is no clock.  A lease, an acknowledgement deadline or a retry     *)
(* delay has a flag due that time sets at any moment after it was started, *)
(* which includes every choice of durations; renewing a lease is time not  *)
(* setting the flag.  A ref is the connector that holds it: a connector    *)
(* works on one row at a time, and one that stops leaves a lease of        *)
(* Nobody.  connector_deliveries is reduced to the open leases and to the  *)
(* number of attempts in a row; the delivery of a root in awaiting_ack is  *)
(* part of that status.                                                    *)
(*                                                                         *)
(* Left out: other queues, roots without an owner, migration groups, and   *)
(* plans for a revision that has no root.  The deletion of history is in   *)
(* FinalRetention.                                                         *)
(***************************************************************************)
EXTENDS Integers, FiniteSets, Sequences, SequencesExt, FiniteSetsExt

CONSTANTS
    Turns,
    Stream,         \* Stream[t]: the worker whose deliveries are ordered
    Revs,           \* content revisions of a turn
    Finals,         \* the revisions whose final text is complete
    Holds,          \* of these, known incomplete or internal automation
    Versions,       \* presentation versions planned with the root's ref
    FreeVersions,   \* presentation versions planned without a ref
    Cuts,           \* Cuts[t, r, v]: the part counts v may cut revision r of t into
    Connectors,
    Nobody,         \* the holder of a lease whose connector stopped
    MaxAttempts,    \* max_outbox_attempts
    MaxParts,       \* bound of part_count
    MaxGen          \* bound of presentation_generation

ASSUME DeliveryAssumption ==
    /\ Holds \subseteq Finals /\ Finals \subseteq Revs
    /\ Nobody \notin Connectors
    /\ Cuts \in [Turns \X Revs \X (Versions \cup FreeVersions) -> SUBSET (1..MaxParts)]
    /\ MaxAttempts \in Nat \ {0} /\ MaxParts \in Nat \ {0} /\ MaxGen \in Nat \ {0}

VARIABLES
    db,         \* connector_outbox, the open leases, turn_presentation_plans
    current,    \* current[t]: its current revision, or none
    hand,       \* external: hand[c] holds the part c works on, if any
    shown       \* external: shown[t][o], what the connectors display at ordinal o

vars == <<db, current, hand, shown>>

-----------------------------------------------------------------------------
Waiting == {"queued", "deferred", "retry"}
Terminal == {"delivered", "superseded", "dead_letter"}
RowStatus == Waiting \cup Terminal \cup {"leased", "awaiting_ack"}
PlanStates == {"preparing", "waiting_predecessor", "active", "completed", "superseded", "failed"}
NoRev == "none"

\* used is the attempt number less the attempts forgiven after an expired
\* acknowledgement deadline; doomed is terminal_after_lease; gen, foot and after
\* are presentation_generation, presentation_max_part_count and
\* reactivated_after_plan_id of a root.
Rows ==
    [kind : {"ready", "hold", "part"}, turn : Turns, rev : Revs,
     status : RowStatus, due : BOOLEAN, used : Nat, doomed : BOOLEAN,
     gen : Nat, foot : Nat, after : Nat]

Jobs == [op : {"upsert", "retire"}, ord : Nat, row : Nat]

\* sourced: the plan has a source_outbox_id; activated and completed: it has an
\* activated_at, a completed_at; recovers and recovered: it is the recovered, the
\* failed plan of a recovery.
Plans ==
    [turn : Turns, rev : Revs, ver : Versions \cup FreeVersions, gen : Nat,
     parts : 1..MaxParts, staged : Nat, sourced : BOOLEAN, state : PlanStates,
     activated : BOOLEAN, completed : BOOLEAN, recovers : BOOLEAN,
     recovered : BOOLEAN, jobs : Seq(Jobs)]

Leases == [row : Nat, owner : Connectors \cup {Nobody}, due : BOOLEAN]

\* What a connector shows at an ordinal: a part of one cut of one revision.
Content == [rev : Revs, ver : Versions \cup FreeVersions, parts : 1..MaxParts]
Blank == [rev |-> NoRev, ver |-> NoRev, parts |-> 0]

\* The part a connector has in hand: it may apply it late, after its lease is gone.
Tasks == [turn : Turns, ord : 0..(MaxParts - 1), what : Content \cup {Blank}, applied : BOOLEAN]

TypeOK ==
    /\ DOMAIN db = {"outbox", "leases", "plans"}
    /\ DOMAIN db.outbox \subseteq Nat /\ \A i \in DOMAIN db.outbox : db.outbox[i] \in Rows
    /\ db.leases \subseteq Leases
    /\ DOMAIN db.plans \subseteq Nat /\ \A q \in DOMAIN db.plans : db.plans[q] \in Plans
    /\ current \in [Turns -> Revs \cup {NoRev}]
    /\ hand \in [Connectors -> SUBSET Tasks] /\ \A c \in Connectors : Cardinality(hand[c]) <= 1
    /\ shown \in [Turns -> [0..(MaxParts - 1) -> Content \cup {Blank}]]

-----------------------------------------------------------------------------
\* Reading the store

RootsOf(st, t, r) ==
    {i \in DOMAIN st.outbox : /\ st.outbox[i].kind # "part"
                              /\ st.outbox[i].turn = t /\ st.outbox[i].rev = r}
Root(st, t, r) == CHOOSE i \in RootsOf(st, t, r) : TRUE

JobRows(p) == {p.jobs[k].row : k \in DOMAIN p.jobs}
PlansOf(st, i) == {q \in DOMAIN st.plans : i \in JobRows(st.plans[q])}
PlansFor(st, t, r) == {q \in DOMAIN st.plans : st.plans[q].turn = t /\ st.plans[q].rev = r}
StatusOf(st, p, k) == st.outbox[p.jobs[k].row].status

\* Rows are numbered in the order of their insertion; only that order is read.
Highest(S) == IF S = {} THEN 0 ELSE Max(S)

\* The lease of a ref, if it is live (_connector_validate_live_ref_conn)
LiveLeases(st, c) ==
    {l \in st.leases : l.owner = c /\ ~l.due /\ st.outbox[l.row].status = "leased"}

-----------------------------------------------------------------------------
\* Writing the store

SetPlanState(st, Q, s) ==
    [st EXCEPT !.plans = [q \in DOMAIN @ |->
        IF q \in Q THEN [@[q] EXCEPT !.state = s] ELSE @[q]]]

\* The rows leave their leases, if they have any, with this status.
Close(st, I, s) ==
    [st EXCEPT !.leases = {l \in @ : l.row \notin I},
               !.outbox = [i \in DOMAIN @ |->
                   IF i \in I THEN [@[i] EXCEPT !.status = s, !.due = FALSE] ELSE @[i]]]

DeleteRows(st, I) ==
    [st EXCEPT !.leases = {l \in @ : l.row \notin I},
               !.outbox = [i \in DOMAIN @ \ I |-> @[i]]]

\* _activate_waiting_presentation_plans_conn
ActivateWaiting(st) ==
    LET free(q) == \A o \in DOMAIN st.plans \ {q} :
                      st.plans[o].turn = st.plans[q].turn =>
                          \A k \in DOMAIN st.plans[o].jobs :
                              StatusOf(st, st.plans[o], k) # "leased"
    IN  [st EXCEPT !.plans = [q \in DOMAIN @ |->
            IF @[q].state = "waiting_predecessor" /\ free(q)
            THEN [@[q] EXCEPT !.state = "active", !.activated = TRUE] ELSE @[q]]]

\* Mutant: one acknowledged part is taken for all of them.
AnyDelivered(st, p) == \E k \in DOMAIN p.jobs : StatusOf(st, p, k) = "delivered"

AllDelivered(st, p) == \A k \in DOMAIN p.jobs : StatusOf(st, p, k) = "delivered"

\* The last acknowledged part completes its plan and delivers the root; any
\* other one extends the root's deadline.  A plan made without a ref has no root:
\* the tombstone it leaves when it completes is FinalRetention's Acknowledge.
PartDelivered(st, q) ==
    LET p    == st.plans[q]
        src  == {i \in RootsOf(st, p.turn, p.rev) :
                    p.sourced /\ st.outbox[i].status = "awaiting_ack"}
        done == AllDelivered(st, p)
        s1   == [st EXCEPT !.outbox = [i \in DOMAIN @ |->
                    IF i \in src
                    THEN [@[i] EXCEPT !.due = FALSE,
                                      !.status = IF done THEN "delivered" ELSE "awaiting_ack"]
                    ELSE @[i]]]
    IN  IF done
        THEN [s1 EXCEPT !.plans[q] = [@ EXCEPT !.state = "completed", !.completed = TRUE]]
        ELSE s1

\* _update_presentation_plan_after_outbox_conn, for the row i whose status has
\* just become s
AfterOutbox(st, i, s) ==
    IF PlansOf(st, i) = {} THEN st
    ELSE LET q == CHOOSE q \in PlansOf(st, i) : TRUE
             state == st.plans[q].state
         IN  ActivateWaiting(
                 IF s = "dead_letter" /\ state \in {"active", "waiting_predecessor"}
                 THEN SetPlanState(st, {q}, "failed")
                 ELSE IF s = "delivered" /\ state = "active" THEN PartDelivered(st, q)
                 ELSE st)

-----------------------------------------------------------------------------
\* Reclaiming what has expired: every operation on a ref, and the daemon's
\* periodic tick, start with it.

Returned(row) ==
    [row EXCEPT !.status = IF row.doomed THEN "superseded" ELSE "queued", !.due = FALSE]

ExpiredRows(st) == {l.row : l \in {l \in st.leases : l.due}}

\* Mutant: waiting plans are not activated when a lease expires.
ReclaimLeasesOnly(st) ==
    [st EXCEPT !.leases = {l \in @ : ~l.due},
               !.outbox = [i \in DOMAIN @ |->
                   IF i \in ExpiredRows(st) THEN Returned(@[i]) ELSE @[i]]]

\* _connector_reclaim_expired_leases_conn
ReclaimLeases(st) ==
    LET I  == ExpiredRows(st)
        s1 == [st EXCEPT !.leases = {l \in @ : ~l.due},
                         !.outbox = [i \in DOMAIN @ |->
                             IF i \in I THEN Returned(@[i]) ELSE @[i]]]
    IN  IF \E i \in I : PlansOf(s1, i) # {} THEN ActivateWaiting(s1) ELSE s1

\* The last plan made with the root's ref, if there is one
LatestPlan(st, i) ==
    Highest({q \in PlansFor(st, st.outbox[i].turn, st.outbox[i].rev) : st.plans[q].sourced})
LatestState(st, i) == IF LatestPlan(st, i) = 0 THEN "none" ELSE st.plans[LatestPlan(st, i)].state

\* Mutant: nobody is asked whether a part is in hand.
HasNoJobLease(st, q) == FALSE

\* _connector_plan_has_live_job_lease_conn; expired leases are gone by then
HasLiveJobLease(st, q) == \E l \in st.leases : ~l.due /\ l.row \in JobRows(st.plans[q])

OpenRows(st, Q) == {j \in UNION {JobRows(st.plans[q]) : q \in Q} : st.outbox[j].status \notin Terminal}

\* The root is scheduled again, to be planned in the generation after g.
Replanned(row, g) ==
    [row EXCEPT !.status = "retry", !.due = FALSE, !.used = @ - 1, !.gen = Max({@, g + 1})]

\* _connector_reclaim_expired_awaiting_ack_conn: an acknowledgement deadline has
\* passed.  A plan that can be made again fails, with all its open parts, and its
\* root is scheduled again in the next generation, the attempt forgiven.
ReclaimAwaiting(st) ==
    LET expired == {i \in DOMAIN st.outbox : st.outbox[i].status = "awaiting_ack" /\ st.outbox[i].due}
        done    == {i \in expired : LatestState(st, i) = "completed"}
        begun   == {i \in expired : LatestState(st, i) \in {"active", "waiting_predecessor", "failed"}}
        again   == {i \in begun : ~HasLiveJobLease(st, LatestPlan(st, i))}
        lost    == expired \ (done \cup begun)
        failed  == {LatestPlan(st, i) : i \in again}
        s1      == Close(Close(SetPlanState(st, failed, "failed"), done, "delivered"),
                         lost \cup OpenRows(st, failed), "dead_letter")
        s2      == [s1 EXCEPT !.outbox = [i \in DOMAIN @ |->
                       IF i \in again THEN Replanned(@[i], st.plans[LatestPlan(st, i)].gen) ELSE @[i]]]
    IN  IF again \cup lost # {} THEN ActivateWaiting(s2) ELSE s2

Reclaimed(st) == ReclaimAwaiting(ReclaimLeases(st))

Spent(row) == row.used >= MaxAttempts

\* _connector_exhaust_retryable_conn and _mark_exhausted_presentation_plans_conn
Exhausted(st) ==
    LET s1 == Close(st, {i \in DOMAIN st.outbox : st.outbox[i].status \in Waiting /\ Spent(st.outbox[i])},
                    "dead_letter")
    IN  SetPlanState(s1, {q \in DOMAIN s1.plans :
            /\ s1.plans[q].state \in {"active", "waiting_predecessor"}
            /\ \E k \in DOMAIN s1.plans[q].jobs : StatusOf(s1, s1.plans[q], k) = "dead_letter"},
            "failed")

-----------------------------------------------------------------------------
\* poll_connector_outbox (limit 1)

Same(st, i, j) == Stream[st.outbox[i].turn] = Stream[st.outbox[j].turn]

\* A root waits for the earlier roots of its stream to be planned, for the plans
\* of its own revision, and for the earlier plans of its stream.
RootMayGo(st, i) ==
    LET o == st.outbox[i] IN
    /\ \A j \in DOMAIN st.outbox :
          st.outbox[j].kind = "ready" /\ Same(st, i, j) /\ j < i
              => st.outbox[j].status \in Terminal \cup {"awaiting_ack"}
    /\ \A q \in PlansFor(st, o.turn, o.rev) :
          st.plans[q].state = "active"
              => \A j \in JobRows(st.plans[q]) : st.outbox[j].status = "delivered"
    /\ ~ \E q \in DOMAIN st.plans :
          LET p == st.plans[q] IN
          /\ p.state \in {"active", "waiting_predecessor"}
          /\ \E j \in IF p.sourced THEN RootsOf(st, p.turn, p.rev) ELSE JobRows(p) :
                Same(st, i, j) /\ j < i
          /\ OpenRows(st, {q}) # {}

\* Mutant: a part waits for its own plan only.
PartMayGoInPlan(st, i) ==
    \E q \in PlansOf(st, i) :
        LET p == st.plans[q] IN
        /\ p.state = "active"
        /\ \E k \in DOMAIN p.jobs :
              /\ p.jobs[k].row = i
              /\ \A m \in 1..(k - 1) : StatusOf(st, p, m) = "delivered"

\* A part waits for every earlier part of its stream, for its plan to be active
\* and for the jobs before it.
PartMayGo(st, i) ==
    /\ \A j \in DOMAIN st.outbox :
          st.outbox[j].kind = "part" /\ Same(st, i, j) /\ j < i => st.outbox[j].status \in Terminal
    /\ \E q \in PlansOf(st, i) :
          LET p == st.plans[q] IN
          /\ p.state = "active"
          /\ \E k \in DOMAIN p.jobs :
                /\ p.jobs[k].row = i
                /\ \A m \in 1..(k - 1) : StatusOf(st, p, m) = "delivered"

Candidates(st) ==
    {i \in DOMAIN st.outbox :
        LET o == st.outbox[i] IN
        /\ o.status \in Waiting /\ (o.status = "queued" \/ o.due)
        /\ \/ o.kind = "ready" /\ RootMayGo(st, i)
           \/ o.kind = "part" /\ PartMayGo(st, i)}

\* The parts of active plans go before the roots.
First(st) ==
    LET parts == {i \in Candidates(st) : st.outbox[i].kind = "part"}
    IN  Min(IF parts # {} THEN parts ELSE Candidates(st))

\* What the payload of a part tells the connector to do
Task(st, i) ==
    LET p == st.plans[CHOOSE q \in PlansOf(st, i) : TRUE]
        j == p.jobs[CHOOSE k \in DOMAIN p.jobs : p.jobs[k].row = i]
    IN  [turn |-> p.turn, ord |-> j.ord, applied |-> FALSE,
         what |-> IF j.op = "upsert" THEN [rev |-> p.rev, ver |-> p.ver, parts |-> p.parts] ELSE Blank]

Attempted(row) == [row EXCEPT !.status = "leased", !.due = FALSE, !.used = @ + 1]

LeaseRow(st, i, c) ==
    [st EXCEPT !.leases = @ \cup {[row |-> i, owner |-> c, due |-> FALSE]},
               !.outbox[i] = Attempted(@)]

\* A connector works on one row at a time; it polls again when it has given its
\* row back or its lease has expired.
Poll(c) ==
    /\ \A l \in db.leases : l.owner = c => l.due
    /\ LET st == Exhausted(Reclaimed(db)) IN
       IF Candidates(st) = {}
       THEN db' = st /\ hand' = [hand EXCEPT ![c] = {}]
       ELSE /\ db' = LeaseRow(st, First(st), c)
            /\ hand' = [hand EXCEPT ![c] =
                  IF st.outbox[First(st)].kind = "part" THEN {Task(st, First(st))} ELSE {}]
    /\ UNCHANGED <<current, shown>>

-----------------------------------------------------------------------------
\* Planning (prepare_connector_plan_begin, _part, _commit)

NewPlan(t, r, v, g, n, src) ==
    [turn |-> t, rev |-> r, ver |-> v, gen |-> g, parts |-> n, staged |-> 0, sourced |-> src,
     state |-> "preparing", activated |-> FALSE, completed |-> FALSE,
     recovers |-> FALSE, recovered |-> FALSE, jobs |-> <<>>]

WithPlan(st, q, p) == [st EXCEPT !.plans = [x \in DOMAIN @ \cup {q} |-> IF x = q THEN p ELSE @[x]]]
WithRow(st, i, row) == [st EXCEPT !.outbox = [x \in DOMAIN @ \cup {i} |-> IF x = i THEN row ELSE @[x]]]

SamePlan(st, t, r, v, g) == {q \in PlansFor(st, t, r) : st.plans[q].ver = v /\ st.plans[q].gen = g}

\* _current_presentation_revision_conn
IsCurrent(t, r) == current[t] = r /\ r \in Finals \ Holds

\* The root of a plan without a ref must be delivered
\* (_source_less_authoritative_route_conn).
RouteKnown(st, t, r) ==
    \E i \in RootsOf(st, t, r) : st.outbox[i].kind = "ready" /\ st.outbox[i].status = "delivered"

\* With the ref of a leased root.  A plan that already exists with this version,
\* generation and number of parts is returned as it is; with another number of
\* parts, or from a recovery, it is a conflict.  (A plan made without a ref cannot
\* be found here: its revision's root was delivered, and a root that is leased again
\* has lost its plans or has a later generation.)
Begin(c, v, n) ==
    \E l \in LiveLeases(db, c) :
        LET o   == db.outbox[l.row]
            g   == Max({1, o.gen})
            old == SamePlan(db, o.turn, o.rev, v, g)
        IN
        /\ o.kind = "ready" /\ IsCurrent(o.turn, o.rev)
        /\ n \in Cuts[o.turn, o.rev, v] /\ old = {}
        /\ db' = WithPlan(db, Highest(DOMAIN db.plans) + 1, NewPlan(o.turn, o.rev, v, g, n, TRUE))
        /\ UNCHANGED <<current, hand, shown>>

BeginSourceLess(t, v, n) ==
    LET r == current[t] IN
    /\ r # NoRev /\ IsCurrent(t, r) /\ RouteKnown(db, t, r)
    /\ n \in Cuts[t, r, v] /\ SamePlan(db, t, r, v, 1) = {}
    /\ db' = WithPlan(db, Highest(DOMAIN db.plans) + 1, NewPlan(t, r, v, 1, n, FALSE))
    /\ UNCHANGED <<current, hand, shown>>

\* The parts are staged in any order; only their number is kept.
Part(q) ==
    LET p == db.plans[q] IN
    /\ p.state = "preparing" /\ p.staged < p.parts
    /\ IsCurrent(p.turn, p.rev)
    /\ db' = [db EXCEPT !.plans[q].staged = @ + 1]
    /\ UNCHANGED <<current, hand, shown>>

\* How many parts may be on display: of the last plan that was completed and of
\* all plans activated since, and what the root remembers of deleted plans.
PriorParts(st, q) ==
    LET p        == st.plans[q]
        others   == {x \in DOMAIN st.plans \ {q} : st.plans[x].turn = p.turn}
        baseline == Highest({x \in others : st.plans[x].completed})
        parts    == {st.plans[x].parts : x \in {x \in others : st.plans[x].activated /\ x >= baseline}}
    IN  Highest(parts \cup (IF p.sourced THEN {st.outbox[i].foot : i \in RootsOf(st, p.turn, p.rev)} ELSE {}))

\* Mutant: what the new cut does not need stays on display.
UpsertsOnly(n, prior) == [k \in 1..n |-> [op |-> "upsert", ord |-> k - 1]]

\* upsert of every part, then retire of what remains, from the last one
Operations(n, prior) ==
    [k \in 1..n |-> [op |-> "upsert", ord |-> k - 1]]
        \o [k \in 1..(IF prior > n THEN prior - n ELSE 0) |-> [op |-> "retire", ord |-> prior - k]]

\* _materialize_connector_plan_job_conn, for the operations of one plan
Materialize(st, q, ops) ==
    LET base == Highest(DOMAIN st.outbox)
        new  == (base + 1)..(base + Len(ops))
        row  == [kind |-> "part", turn |-> st.plans[q].turn, rev |-> st.plans[q].rev,
                 status |-> "queued", due |-> FALSE, used |-> 0, doomed |-> FALSE,
                 gen |-> 0, foot |-> 0, after |-> 0]
    IN  [st EXCEPT !.outbox = [i \in DOMAIN @ \cup new |-> IF i \in new THEN row ELSE @[i]],
                   !.plans[q].jobs = [k \in DOMAIN ops |->
                       [op |-> ops[k].op, ord |-> ops[k].ord, row |-> base + k]]]

\* _mark_obsolete_presentation_plans_conn
Obsolete(st, q) ==
    {x \in DOMAIN st.plans \ {q} :
        /\ st.plans[x].turn = st.plans[q].turn
        /\ st.plans[x].state \in {"preparing", "waiting_predecessor", "active", "completed"}}
ObsoleteRows(st, q, s) ==
    {i \in UNION {JobRows(st.plans[x]) : x \in Obsolete(st, q)} : st.outbox[i].status \in s}
MarkObsolete(st, q) ==
    LET s1 == Close(SetPlanState(st, Obsolete(st, q), "superseded"), ObsoleteRows(st, q, Waiting), "superseded")
    IN  [s1 EXCEPT !.outbox = [i \in DOMAIN @ |->
            IF i \in ObsoleteRows(st, q, {"leased"}) THEN [@[i] EXCEPT !.doomed = TRUE] ELSE @[i]]]

\* The plan replaces all others of its turn.  It waits while one of their parts
\* is still leased.
Activate(st, q) ==
    LET waits == ObsoleteRows(st, q, {"leased"}) # {}
        s1    == MarkObsolete(Materialize(st, q, Operations(st.plans[q].parts, PriorParts(st, q))), q)
    IN  [s1 EXCEPT !.plans[q] =
            [@ EXCEPT !.state = IF waits THEN "waiting_predecessor" ELSE "active", !.activated = ~waits]]

MayCommit(p) ==
    /\ p.jobs = <<>> /\ p.state = "preparing"
    /\ p.staged = p.parts
    /\ IsCurrent(p.turn, p.rev)

\* The root remembers the generation and the most parts that may be on display.
Committed(row, g, N) == [row EXCEPT !.gen = g, !.foot = Max({@} \cup N)]

Commit(c, q) ==
    LET p == db.plans[q] IN
    /\ p.sourced /\ MayCommit(p)
    /\ \E l \in LiveLeases(db, c) :
          LET i  == l.row
              s1 == Close(Activate(db, q), {i}, "awaiting_ack")
          IN  /\ i \in RootsOf(db, p.turn, p.rev)
              /\ db' = [s1 EXCEPT !.outbox[i] = Committed(@, p.gen, {PriorParts(db, q), p.parts})]
    /\ UNCHANGED <<current, hand, shown>>

CommitSourceLess(q) ==
    LET p == db.plans[q] IN
    /\ ~p.sourced /\ MayCommit(p)
    /\ RouteKnown(db, p.turn, p.rev)
    /\ db' = Activate(db, q)
    /\ UNCHANGED <<current, hand, shown>>

-----------------------------------------------------------------------------
\* Operations on a ref

\* The row of c's lease after the reclaim, if the lease has survived it
HeldRows(st, c) == {l.row : l \in LiveLeases(st, c)}

Finish(st, i, s) == AfterOutbox(Close(st, {i}, s), i, s)

\* ack_connector_delivery: refused for a root (prepare_required)
Ack(c) ==
    LET st == Reclaimed(db) IN
    \E i \in HeldRows(st, c) :
        /\ st.outbox[i].kind = "part"
        /\ \A k \in hand[c] : k.applied
        /\ db' = Finish(st, i, "delivered")
        /\ hand' = [hand EXCEPT ![c] = {}]
        /\ UNCHANGED <<current, shown>>

\* fail, defer and release: the row of an obsolete plan is superseded instead
ResultStatus(row, action) ==
    CASE row.doomed -> "superseded"
      [] ~row.doomed /\ action = "fail" -> IF Spent(row) THEN "dead_letter" ELSE "retry"
      [] ~row.doomed /\ action = "defer" -> "deferred"
      [] ~row.doomed /\ action = "release" -> "queued"

GiveBack(c, action) ==
    LET st == Reclaimed(db) IN
    \E i \in HeldRows(st, c) :
        /\ db' = Finish(st, i, ResultStatus(st.outbox[i], action))
        /\ hand' = [hand EXCEPT ![c] = {}]
        /\ UNCHANGED <<current, shown>>

Fail(c) == GiveBack(c, "fail")
Defer(c) == GiveBack(c, "defer")
Release(c) == GiveBack(c, "release")

\* Mutant: a root whose plan has failed is not due.
ReclaimDueUnfailed(st) ==
    \/ \E l \in st.leases : l.due
    \/ \E i \in DOMAIN st.outbox :
          /\ st.outbox[i].status = "awaiting_ack" /\ st.outbox[i].due
          /\ LatestState(st, i) # "failed"
          /\ LatestState(st, i) \in {"active", "waiting_predecessor"}
                 => ~HasLiveJobLease(st, LatestPlan(st, i))

\* connector_reclaim_due
ReclaimDue(st) ==
    \/ \E l \in st.leases : l.due
    \/ \E i \in DOMAIN st.outbox :
          /\ st.outbox[i].status = "awaiting_ack" /\ st.outbox[i].due
          /\ LatestState(st, i) \in {"active", "waiting_predecessor", "failed"}
                 => ~HasLiveJobLease(st, LatestPlan(st, i))

\* reclaim_expired_connector_leases, the daemon's periodic tick
Reclaim ==
    /\ ReclaimDue(db)
    /\ \E st \in {ReclaimLeases(db)} : \E st2 \in {ReclaimAwaiting(st)} : db' = st2
    /\ UNCHANGED <<current, hand, shown>>

\* exhaust_connector_retries
ExhaustRetries ==
    /\ db' = Exhausted(Reclaimed(db))
    /\ UNCHANGED <<current, hand, shown>>

-----------------------------------------------------------------------------
\* A turn is observed (_merge_turn_content_conn, _ensure_final_ready_anchor_conn)

\* The last activated plan of the turn that a connector has begun to carry out
LatestAttempted(st, t) ==
    Highest({q \in DOMAIN st.plans :
                /\ st.plans[q].turn = t /\ st.plans[q].activated
                /\ \E i \in JobRows(st.plans[q]) : st.outbox[i].used > 0})

\* The revision is shown no longer, although its root is closed.
MustReactivate(st, i) ==
    LET o == st.outbox[i]
        q == LatestAttempted(st, o.turn)
    IN  \/ o.status = "superseded"
        \/ o.status = "delivered" /\ q # 0 /\ st.plans[q].rev # o.rev /\ o.after # q

Opening(r) ==
    IF r \in Holds THEN [kind |-> "hold", status |-> "dead_letter"]
                   ELSE [kind |-> "ready", status |-> "queued"]

\* _reactivate_final_root_conn: the root starts again in a new generation; its old
\* plans are deleted, the number of their parts is kept.
Reactivate(st, i) ==
    LET o   == st.outbox[i]
        Q   == PlansFor(st, o.turn, o.rev)
        q   == LatestAttempted(st, o.turn)
        s1  == DeleteRows(st, UNION {JobRows(st.plans[x]) : x \in Q})
        row == [o EXCEPT !.kind = Opening(o.rev).kind, !.status = Opening(o.rev).status,
                         !.due = FALSE, !.used = 0,
                         !.gen = Max({1, @} \cup {st.plans[x].gen : x \in Q}) + 1,
                         !.foot = Max({@} \cup {st.plans[x].parts : x \in Q}),
                         !.after = IF q = 0 THEN @ ELSE q]
    IN  [s1 EXCEPT !.plans = [x \in DOMAIN @ \ Q |-> @[x]], !.outbox[i] = row]

\* _supersede_stale_final_work_conn: other revisions of the turn
SupersedeStale(st, t, r) ==
    LET Q == {q \in DOMAIN st.plans :
                 /\ st.plans[q].turn = t /\ st.plans[q].rev # r
                 /\ st.plans[q].state \in {"preparing", "waiting_predecessor", "active", "failed"}}
        roots == {i \in DOMAIN st.outbox :
                     /\ st.outbox[i].kind # "part"
                     /\ st.outbox[i].turn = t /\ st.outbox[i].rev # r}
        jobs  == UNION {JobRows(st.plans[q]) : q \in Q}
        I     == {i \in roots \cup jobs : st.outbox[i].status \notin {"delivered", "superseded"}}
    IN  Close(SetPlanState(st, Q, "superseded"), I, "superseded")

NewRoot(t, r) ==
    [kind |-> Opening(r).kind, turn |-> t, rev |-> r, status |-> Opening(r).status,
     due |-> FALSE, used |-> 0, doomed |-> FALSE, gen |-> 1, foot |-> 0, after |-> 0]

EnsureAnchor(st, t, r) ==
    IF RootsOf(st, t, r) = {}
    THEN LET s1 == SupersedeStale(st, t, r)
         IN  WithRow(s1, Highest(DOMAIN s1.outbox) + 1, NewRoot(t, r))
    ELSE LET i == Root(st, t, r)
         IN  SupersedeStale(IF MustReactivate(st, i) THEN Reactivate(st, i) ELSE st, t, r)

\* r becomes, or is again found to be, the content of t.  Only a complete final
\* text has a root; another one leaves the work on earlier revisions alone.
Observe(t, r) ==
    /\ current' = [current EXCEPT ![t] = r]
    /\ db' = IF r \in Finals THEN EnsureAnchor(db, t, r) ELSE db
    /\ \A i \in DOMAIN db'.outbox : db'.outbox[i].gen <= MaxGen
    /\ UNCHANGED <<hand, shown>>

-----------------------------------------------------------------------------
\* The operator

\* prepare_connector_plan_recover: what was not acknowledged is queued again in a
\* plan of the next generation.
Suffix(st, p) == {k \in DOMAIN p.jobs : \E m \in 1..k : StatusOf(st, p, m) # "delivered"}

MayRecover(st, q) ==
    LET p == st.plans[q] IN
    /\ p.state = "failed" /\ ~p.recovered
    /\ IsCurrent(p.turn, p.rev)
    /\ \A x \in PlansFor(st, p.turn, p.rev) : st.plans[x].ver = p.ver => st.plans[x].gen <= p.gen
    /\ \E k \in Suffix(st, p) : StatusOf(st, p, k) = "dead_letter"
    /\ \A k \in Suffix(st, p) : StatusOf(st, p, k) \notin {"delivered", "leased"}
    /\ \E i \in JobRows(p) : st.outbox[i].used > 0

\* _finalize_recovered_plan_materialization_conn: the failed plan is superseded
\* and keeps its acknowledged jobs only, which come before those recovered;
\* superseded plans of the version that no recovery names are deleted.  The table of
\* recoveries keeps the last four of a version, which takes more generations than
\* MaxGen allows: its pruning is left out.
FinalizeRecovery(st, q) ==
    LET p    == st.plans[q]
        done == SubSeq(p.jobs, 1, Min(Suffix(st, p)) - 1)
        gone == JobRows(p) \ {done[k].row : k \in DOMAIN done}
        s1   == [st EXCEPT !.plans[q] =
                    [@ EXCEPT !.state = "superseded", !.recovered = TRUE, !.jobs = done]]
        old  == {x \in PlansFor(s1, p.turn, p.rev) :
                    /\ s1.plans[x].ver = p.ver /\ s1.plans[x].state = "superseded"
                    /\ ~s1.plans[x].recovers /\ ~s1.plans[x].recovered}
    IN  DeleteRows([s1 EXCEPT !.plans = [x \in DOMAIN @ \ old |-> @[x]]], gone)

Recover(q) ==
    LET p   == db.plans[q]
        n   == Highest(DOMAIN db.plans) + 1
        new == [NewPlan(p.turn, p.rev, p.ver, p.gen + 1, p.parts, p.sourced) EXCEPT
                   !.staged = p.parts, !.state = "active", !.activated = TRUE, !.recovers = TRUE]
        first == Min(Suffix(db, p))
    IN
    /\ MayRecover(db, q) /\ p.gen < MaxGen
    /\ db' = FinalizeRecovery(Materialize(WithPlan(db, n, new), n, SubSeq(p.jobs, first, Len(p.jobs))), q)
    /\ UNCHANGED <<current, hand, shown>>

\* retry_final_ready_delivery.  With exactly one failed plan it is Recover.
FailedPlans(st, i) ==
    {q \in PlansFor(st, st.outbox[i].turn, st.outbox[i].rev) :
        /\ st.plans[q].state = "failed" /\ ~st.plans[q].recovered
        /\ st.plans[q].sourced => st.outbox[i].status = "awaiting_ack"}

RetryStale(i) ==
    LET o == db.outbox[i] IN
    /\ o.kind # "part" /\ current[o.turn] # o.rev
    /\ o.status # "delivered"
    /\ db' = Close(db, {i}, "superseded")
    /\ UNCHANGED <<current, hand, shown>>

RetryDeadLetter(i) ==
    LET o == db.outbox[i] IN
    /\ o.kind # "part" /\ IsCurrent(o.turn, o.rev)
    /\ Cardinality(FailedPlans(db, i)) # 1
    /\ o.status = "dead_letter"
    /\ db' = [db EXCEPT !.outbox[i] = [@ EXCEPT !.status = "queued", !.used = 0]]
    /\ UNCHANGED <<current, hand, shown>>

-----------------------------------------------------------------------------
\* External: connectors and time

\* The connector does what the part says, possibly after its lease is gone.
Apply(c) ==
    /\ \E k \in hand[c] :
          /\ ~k.applied
          /\ hand' = [hand EXCEPT ![c] = {[k EXCEPT !.applied = TRUE]}]
          /\ shown' = [shown EXCEPT ![k.turn][k.ord] = k.what]
    /\ UNCHANGED <<db, current>>

\* A connector stops; what it held stays leased until the lease expires.
Stop(c) ==
    /\ \E l \in db.leases : l.owner = c
    /\ db' = [db EXCEPT !.leases = {IF l.owner = c THEN [l EXCEPT !.owner = Nobody] ELSE l : l \in @}]
    /\ hand' = [hand EXCEPT ![c] = {}]
    /\ UNCHANGED <<current, shown>>

LeaseExpires(l) ==
    /\ ~l.due
    /\ db' = [db EXCEPT !.leases = (@ \ {l}) \cup {[l EXCEPT !.due = TRUE]}]
    /\ UNCHANGED <<current, hand, shown>>

\* An acknowledgement deadline passes, or a delay ends.
RowDue(i) ==
    LET o == db.outbox[i] IN
    /\ ~o.due
    /\ \/ o.status \in {"retry", "deferred"}
       \/ o.status = "awaiting_ack" /\ o.gen < MaxGen
    /\ db' = [db EXCEPT !.outbox[i].due = TRUE]
    /\ UNCHANGED <<current, hand, shown>>

-----------------------------------------------------------------------------
Init ==
    /\ db = [outbox |-> <<>>, leases |-> {}, plans |-> <<>>]
    /\ current = [t \in Turns |-> NoRev]
    /\ hand = [c \in Connectors |-> {}]
    /\ shown = [t \in Turns |-> [o \in 0..(MaxParts - 1) |-> Blank]]

Planning ==
    \/ \E c \in Connectors, v \in Versions, n \in 1..MaxParts : Begin(c, v, n)
    \/ \E t \in Turns, v \in FreeVersions, n \in 1..MaxParts : BeginSourceLess(t, v, n)
    \/ \E q \in DOMAIN db.plans :
          \/ Part(q)
          \/ \E c \in Connectors : Commit(c, q)
          \/ CommitSourceLess(q)
Delivering ==
    \E c \in Connectors :
        \/ Poll(c) \/ Ack(c) \/ Fail(c) \/ Defer(c) \/ Release(c)
        \/ Apply(c) \/ Stop(c)
Operator ==
    \/ \E q \in DOMAIN db.plans : Recover(q)
    \/ \E i \in DOMAIN db.outbox : RetryStale(i) \/ RetryDeadLetter(i)
Maintenance == Reclaim \/ ExhaustRetries
Time ==
    \/ \E l \in db.leases : LeaseExpires(l)
    \/ \E i \in DOMAIN db.outbox : RowDue(i)

Next ==
    \/ \E t \in Turns, r \in Revs : Observe(t, r)
    \/ Planning \/ Delivering \/ Operator \/ Maintenance \/ Time

Spec == Init /\ [][Next]_vars

-----------------------------------------------------------------------------
\* Properties

\* A leased row has exactly one lease, and a lease has a leased row: nothing is
\* leased twice, and nothing is leased that no expiry can free.
LeasesAgree ==
    \A i \in DOMAIN db.outbox \cup {l.row : l \in db.leases} :
        IF i \in DOMAIN db.outbox /\ db.outbox[i].status = "leased"
        THEN Cardinality({l \in db.leases : l.row = i}) = 1
        ELSE \A l \in db.leases : l.row # i

\* Of one worker's finals at most one part is in the hands of a connector,
\* whatever was replaced, recovered or reactivated meanwhile.
OnePartInFlight ==
    \A l, m \in db.leases :
        /\ db.outbox[l.row].kind = "part" /\ db.outbox[m.row].kind = "part"
        /\ Same(db, l.row, m.row)
        => l = m

\* What a completed plan should leave on display: its parts, all of one cut of one
\* revision, and nothing of any plan before it.  StaleParts.cfg finds ShownIsExact
\* violated when revisions flip; FinalDisplay says when it holds.
Exact(p) ==
    [o \in 0..(MaxParts - 1) |->
        IF o < p.parts THEN [rev |-> p.rev, ver |-> p.ver, parts |-> p.parts] ELSE Blank]
ShownIsExact ==
    \A q \in DOMAIN db.plans :
        db.plans[q].state = "completed" => shown[db.plans[q].turn] = Exact(db.plans[q])

\* No row is attempted more often than the configuration allows.
AttemptsBounded == \A i \in DOMAIN db.outbox : db.outbox[i].used \in 0..MaxAttempts

\* `dead_letter` means unresolved: a root whose parts have all been acknowledged
\* is not dead.
DeadLetterIsUnresolved ==
    \A i \in DOMAIN db.outbox :
        db.outbox[i].kind # "part" /\ db.outbox[i].status = "dead_letter"
            => LatestState(db, i) # "completed"

\* A live lease on a part ends by the hand of its connector, or because the part
\* is obsolete: no deadline, poll or sweep takes it away.
LiveLeaseIsKept ==
    [][\A l \in db.leases :
          /\ ~l.due /\ db.outbox[l.row].kind = "part"
          /\ l.row \in DOMAIN db'.outbox /\ db'.outbox[l.row].status \notin {"leased", "superseded"}
          => l.owner # Nobody /\ hand'[l.owner] = {}]_vars

\* Time passes, no connector renews a lease for ever, and the daemon's tick runs.
\* Nothing is assumed of what else connectors do.
Fairness ==
    /\ WF_vars(Reclaim)
    /\ WF_vars(\E l \in db.leases : LeaseExpires(l))
    /\ WF_vars(\E i \in DOMAIN db.outbox : RowDue(i))
FairSpec == Spec /\ Fairness

\* A root does not stay committed for ever: it is delivered, tried again or closed.
AwaitingEnds ==
    \A t \in Turns, r \in Revs :
        LET awaiting == \E i \in RootsOf(db, t, r) :
                            db.outbox[i].status = "awaiting_ack" /\ db.outbox[i].gen < MaxGen
        IN  awaiting ~> ~awaiting

\* The open parts of a failed plan made with a root's ref do not block the
\* stream for ever, if it is the last plan of its final: the deadline sweep looks at
\* no other, so that an older plan, of another version made with the same ref, may
\* stay failed with open parts until an operator recovers it.
FailedPartsAreSwept ==
    \A t \in Turns :
        LET blocked == \E q \in DOMAIN db.plans :
                /\ db.plans[q].turn = t /\ db.plans[q].sourced /\ db.plans[q].gen < MaxGen
                /\ \A i \in RootsOf(db, t, db.plans[q].rev) : LatestPlan(db, i) = q
                /\ db.plans[q].state = "failed" /\ OpenRows(db, {q}) # {}
        IN  blocked ~> ~blocked

\* A plan waits only while a part of another plan of its turn is leased, which
\* ends it.  The one exception: a recovery deletes the superseded plans of its
\* version, and if that version was planned with a ref and without one, the leased
\* part that a plan waits for may go with them.
WaitingIsJustified ==
    \A q \in DOMAIN db.plans :
        db.plans[q].state = "waiting_predecessor"
            => \/ \E l \in db.leases, x \in DOMAIN db.plans \ {q} :
                     db.plans[x].turn = db.plans[q].turn /\ l.row \in JobRows(db.plans[x])
               \/ \E x \in DOMAIN db.plans :
                     /\ db.plans[x].turn = db.plans[q].turn /\ db.plans[x].recovered
                     /\ db.plans[x].ver \in Versions \cap FreeVersions

\* Each worker's parts go out one at a time, each under one lease, and no row more
\* often than configured.
StreamIsOrdered == OnePartInFlight /\ LeasesAgree /\ AttemptsBounded

\* Time and the periodic reclaim alone end every committed root and every failed
\* plan.
DeliveryEnds == AwaitingEnds /\ FailedPartsAreSwept

=============================================================================
