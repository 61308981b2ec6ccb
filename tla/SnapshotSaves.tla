---------------------------- MODULE SnapshotSaves ----------------------------
(***************************************************************************)
(* Snapshots of one host that several processes observe and save           *)
(* (store/sqlite.py, save_snapshot): the retained snapshot with its        *)
(* projections, and the lifecycle of attention signals.  Saves commit in   *)
(* any order, whatever the order of the observations.  A snapshot is       *)
(* projected and compared with the retained one before the transaction     *)
(* begins, and compared again inside it.                                   *)
(*                                                                         *)
(* A content fingerprint is an index of Contents, which also gives the     *)
(* order that breaks ties; stamp stands for the timestamps that are not    *)
(* part of the fingerprint (_snapshot_projection_freshness).  The event    *)
(* log, the bindings (WorkerRouting) and the anchors (FinalDelivery) that  *)
(* the transaction also writes are left out.                               *)
(***************************************************************************)
EXTENDS Integers, FiniteSets

CONSTANTS
    Savers,
    Families,       \* a source and a kind of signals
    Contents,       \* Contents[c]: the signals in content c, as [family, id, rank]
    Stamps,
    Required,       \* ATTENTION_MISSING_REQUIRED
    Grace,          \* ATTENTION_MISSING_GRACE_SECONDS
    LastTick        \* bound of the clock

ASSUME SavesAssumption ==
    /\ Required \in Nat \ {0} /\ Grace \in Nat /\ LastTick \in Nat
    /\ \A c \in DOMAIN Contents : \A i \in Contents[c] : i.family \in Families /\ i.rank \in Nat

VARIABLES
    saveClock,
    saving,         \* saving[s]: the snapshot s is about to save
    retained,       \* snapshots: the last row; made is 0 when its time is not known
    projected,      \* spaces, workers, pending_interactions, backend_health
    lifecycle,      \* attention_lifecycles
    openItems,      \* attention_items whose lifecycle_status is open, as <<family, id>>
    attentionJobs,  \* connector_outbox of attention, by transition key
    newest,         \* history: the newest snapshot that was saved, as <<made, content>>
    lastObserved,   \* history: the latest observed_at of a save that had authority
    lastSignal,     \* history: lastSignal[f], the last signal saved in order of observation
    openings        \* history: how often family f appeared in the public list

saveVars == <<saveClock, saving, retained, projected, lifecycle, openItems, attentionJobs,
              newest, lastObserved, lastSignal, openings>>

Fingerprints == DOMAIN Contents
NotSaving == [step |-> "idle"]
NoFamily == [status |-> "none"]
NoSignal == [id |-> "none", rank |-> 0]

\* _refresh_snapshot_projections_conn: the rows of the content replace all others.
Projection(x) == <<x.content, x.stamp>>

SavesInit ==
    /\ saveClock \in 1..LastTick /\ saving = [s \in Savers |-> NotSaving]
    /\ \/ retained = [made |-> 0, content |-> 0, stamp |-> 0]
       \/ \E c \in Fingerprints, t \in Stamps : retained = [made |-> 0, content |-> c, stamp |-> t]
    /\ projected = Projection(retained)
    /\ lifecycle = [f \in Families |-> NoFamily] /\ openItems = {} /\ attentionJobs = {}
    /\ newest = <<0, 0>> /\ lastObserved = 0
    /\ lastSignal = [f \in Families |-> 0] /\ openings = [f \in Families |-> 0]

-----------------------------------------------------------------------------
\* The retained snapshot

\* Mutant: timestamps outside the fingerprint do not count.
RefreshRequiredByContent(row, x) == row.content # x.content \/ row.made = 0

\* _snapshot_projection_refresh_required
RefreshRequired(row, x) ==
    row.content # x.content \/ row.stamp # x.stamp \/ row.made = 0

\* refresh_current
RefreshCurrent(row, x) ==
    \/ row.made = 0
    \/ x.made > row.made
    \/ x.made = row.made /\ x.content > row.content

\* The snapshot gets its updated_at.
Make(s, c, t) ==
    /\ saving[s].step = "idle"
    /\ saving' = [saving EXCEPT ![s] = [step |-> "made", made |-> saveClock, content |-> c, stamp |-> t]]
    /\ UNCHANGED <<saveClock, retained, projected, lifecycle, openItems, attentionJobs,
                   newest, lastObserved, lastSignal, openings>>

\* The preflight; what a projection needs is prepared before the transaction.
Preflight(s) ==
    /\ saving[s].step = "made"
    /\ saving' = [saving EXCEPT ![s].step =
          IF RefreshRequired(retained, saving[s]) THEN "prepared" ELSE "unprepared"]
    /\ UNCHANGED <<saveClock, retained, projected, lifecycle, openItems, attentionJobs,
                   newest, lastObserved, lastSignal, openings>>

\* Another writer changed the retained snapshot: roll back and prepare.
PrepareAgain(s) ==
    /\ saving[s].step = "unprepared" /\ RefreshRequired(retained, saving[s])
    /\ saving' = [saving EXCEPT ![s].step = "prepared"]
    /\ UNCHANGED <<saveClock, retained, projected, lifecycle, openItems, attentionJobs,
                   newest, lastObserved, lastSignal, openings>>

\* The process ends, or the transaction fails and is rolled back.
Abandoned(s) ==
    /\ saving[s].step # "idle"
    /\ saving' = [saving EXCEPT ![s] = NotSaving]
    /\ UNCHANGED <<saveClock, retained, projected, lifecycle, openItems, attentionJobs,
                   newest, lastObserved, lastSignal, openings>>

-----------------------------------------------------------------------------
\* The attention lifecycle

IsOpened(f) == lifecycle[f].status = "open"

\* Of several signals of a family one of the highest severity is taken
\* (candidate_rank; the timestamp and the id break ties).
Selectable(c, f) ==
    LET S == {i \in Contents[c] : i.family = f}
    IN  IF S = {} THEN {NoSignal} ELSE {i \in S : \A j \in S : j.rank <= i.rank}

\* Mutant: a signal does not end the count of observations without it.
SignalledAnyway(lc, at, sig) ==
    [status |-> "open", current |-> sig.id, last |-> at,
     generation |-> CASE lc.status = "none" -> 1
                      [] lc.status = "resolved" -> lc.generation + 1
                      [] lc.status = "open" -> lc.generation,
     firstMissing |-> IF lc.status = "open" THEN lc.firstMissing ELSE 0,
     missing |-> IF lc.status = "open" THEN lc.missing ELSE 0,
     rank |-> IF lc.status = "open" /\ lc.rank > sig.rank THEN lc.rank ELSE sig.rank]

\* _plan_attention_transition with a signal: open, update or escalate
Signalled(lc, at, sig) ==
    [status |-> "open", current |-> sig.id, last |-> at,
     generation |-> CASE lc.status = "none" -> 1
                      [] lc.status = "resolved" -> lc.generation + 1
                      [] lc.status = "open" -> lc.generation,
     firstMissing |-> 0, missing |-> 0,
     rank |-> IF lc.status = "open" /\ lc.rank > sig.rank THEN lc.rank ELSE sig.rank]

\* and without one, from a complete observation
Missed(lc, at) ==
    LET first == IF lc.firstMissing = 0 THEN at ELSE lc.firstMissing
        gone  == lc.missing + 1 >= Required /\ at - first >= Grace
    IN  [lc EXCEPT !.firstMissing = first, !.missing = @ + 1, !.last = at,
                   !.status = IF gone THEN "resolved" ELSE "open",
                   !.current = IF gone THEN "none" ELSE @]

\* An observation that is not newer than the last one the family accepted, or a
\* signal missing from an observation that is not complete, changes nothing.
AfterObservation(lc, at, authority, sig) ==
    IF authority = "none" \/ (lc.status # "none" /\ at <= lc.last) THEN lc
    ELSE IF sig # NoSignal THEN Signalled(lc, at, sig)
    ELSE IF lc.status = "open" /\ authority = "complete" THEN Missed(lc, at)
    ELSE lc

\* Mutant: the item that is no longer the family's current one stays open.
ItemsAfterUnresolved(f, old, new) ==
    (IF new.status = "open" THEN openItems ELSE openItems \ {<<f, old.current>>})
        \cup (IF new.status = "open" THEN {<<f, new.current>>} ELSE {})

\* The superseded or resolved item is closed, the signal's item is opened.
ItemsAfter(f, old, new) ==
    (IF old.status = "open" THEN openItems \ {<<f, old.current>>} ELSE openItems)
        \cup (IF new.status = "open" THEN {<<f, new.current>>} ELSE {})

\* _enqueue_attention_lifecycle_job_conn: a key that is already there is not
\* inserted again.
JobsAfter(f, old, new) ==
    CASE new.status = "open" /\ old.status # "open" ->
            {<<f, new.generation, "attention_created", 0>>}
      [] new.status = "open" /\ old.status = "open" /\ new.rank > old.rank ->
            {<<f, new.generation, "attention_escalated", new.rank>>}
      [] OTHER -> {}

\* save_snapshot.  Its observed_at and its authority matter only here.
Save(s, at, authority) ==
    /\ saving[s].step \in {"prepared", "unprepared"}
    /\ RefreshRequired(retained, saving[s]) => saving[s].step = "prepared"
    /\ at \in 1..saving[s].made
    /\ LET x  == [made |-> saving[s].made, content |-> saving[s].content, stamp |-> saving[s].stamp]
           up == RefreshCurrent(retained, x)
       IN  \* the snapshot and its projections
           /\ retained' = IF up THEN x ELSE retained
           /\ projected' = IF up /\ RefreshRequired(retained, x) THEN Projection(x) ELSE projected
           /\ newest' = IF x.made > newest[1] \/ (x.made = newest[1] /\ x.content > newest[2])
                        THEN <<x.made, x.content>> ELSE newest
           \* _apply_attention_observation_conn, whether or not the snapshot is newer
           /\ \E sig \in [Families -> UNION {Selectable(x.content, f) : f \in Families}] :
                LET next == [f \in Families |-> AfterObservation(lifecycle[f], at, authority, sig[f])] IN
                /\ \A f \in Families : sig[f] \in Selectable(x.content, f)
                /\ lifecycle' = next
                /\ openItems' = UNION {
                       {i \in IF next[f] = lifecycle[f] THEN openItems
                              ELSE ItemsAfter(f, lifecycle[f], next[f]) : i[1] = f} : f \in Families}
                /\ attentionJobs' = attentionJobs \cup UNION {JobsAfter(f, lifecycle[f], next[f]) : f \in Families}
                /\ lastSignal' = [f \in Families |->
                       IF authority # "none" /\ at > lastObserved /\ sig[f] # NoSignal THEN at ELSE lastSignal[f]]
                /\ openings' = [f \in Families |->
                       IF (\E i \in openItems' : i[1] = f) /\ ~\E i \in openItems : i[1] = f
                       THEN openings[f] + 1 ELSE openings[f]]
           /\ lastObserved' = IF authority # "none" /\ at > lastObserved THEN at ELSE lastObserved
    /\ saving' = [saving EXCEPT ![s] = NotSaving]
    /\ UNCHANGED saveClock

SaveTick ==
    /\ saveClock < LastTick /\ saveClock' = saveClock + 1
    /\ UNCHANGED <<saving, retained, projected, lifecycle, openItems, attentionJobs,
                   newest, lastObserved, lastSignal, openings>>

SavesNext ==
    \/ \E s \in Savers :
          \/ \E c \in Fingerprints, t \in Stamps : Make(s, c, t)
          \/ Preflight(s)
          \/ PrepareAgain(s)
          \/ Abandoned(s)
          \/ \E at \in 1..LastTick, a \in {"none", "positive", "complete"} : Save(s, at, a)
    \/ SaveTick

SavesSpec == SavesInit /\ [][SavesNext]_saveVars

-----------------------------------------------------------------------------
\* _attention_rows_conn: the current items of the open families
ListedItems == {<<f, lifecycle[f].current>> : f \in {f \in Families : IsOpened(f)}}

\* attention_payload_from_store: the signals of the retained snapshot when there is
\* no lifecycle at all
AttentionList ==
    IF (\E f \in Families : lifecycle[f] # NoFamily) \/ retained.content = 0 THEN ListedItems
    ELSE {<<i.family, i.id>> : i \in Contents[retained.content]}

\* Whatever the order of the saves, the newest snapshot is retained, and the
\* projections are made from it, timestamps included.
ProjectionIsNewest ==
    retained.made # 0 =>
        /\ newest = <<retained.made, retained.content>>
        /\ projected = Projection(retained)

\* The items that are open are those the list shows, and connectors are told of
\* a family as often as it appears.
AttentionAgrees ==
    \A f \in Families :
        /\ lifecycle[f] # NoFamily => {i \in AttentionList : i[1] = f} = {i \in openItems : i[1] = f}
        /\ Cardinality({j \in attentionJobs : j[1] = f /\ j[3] = "attention_created"}) = openings[f]

\* A family is resolved only when no signal of it was saved in order for longer
\* than the grace period.
ResolvedWasGone ==
    [][\A f \in Families :
          IsOpened(f) /\ lifecycle'[f].status = "resolved"
              => lifecycle'[f].last - lastSignal[f] > Grace]_saveVars

\* Whatever the order of the saves, the store shows the newest snapshot and its
\* attention items agree with each other.
SavesAgree == ProjectionIsNewest /\ AttentionAgrees

=============================================================================
