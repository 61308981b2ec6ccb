---------------------------- MODULE WorkerRouting ----------------------------
(***************************************************************************)
(* Which worker a herdr pane is, and where a command for it is sent.       *)
(*                                                                         *)
(* HerdrEventBackend (backends/herdr_events.py) keeps workers, private     *)
(* bindings and ownership maps in memory, mirrors the bindings in the      *)
(* store, and changes them from two sources: a full reconcile of herdr's   *)
(* lists (backends/herdr_cli.py turns them into workers and bindings), and *)
(* single events, which may be delivered late, after a reconcile has       *)
(* already seen the state that followed them.                              *)
(*                                                                         *)
(* All agents here have the same name, the case in which public ids        *)
(* collide: an id is the sequence of suffixes the code put on that name.   *)
(*                                                                         *)
(* A restart of the daemon is no action: _load_existing_state fills the    *)
(* workers, the bindings and the ownership maps from the latest snapshot   *)
(* and the stored bindings, and the backend reconciles before it goes on.  *)
(***************************************************************************)
EXTENDS Integers, Sequences, FiniteSets, SequencesExt, FiniteSetsExt

CONSTANTS
    Panes,          \* pane ids
    Terms,          \* terminal ids, integers in the order herdr ids sort
    Sessions,       \* agent session ids
    NoSession,      \* a pane whose agent reported no session
    MaxWorkers,     \* the configured worker cap
    MaxQueue,       \* bound: events delivered and not applied yet
    MaxChanges      \* bound: changes herdr makes

ASSUME RoutingAssumption ==
    /\ IsFiniteSet(Panes)
    /\ Terms \subseteq Nat
    /\ NoSession \notin Sessions
    /\ {MaxWorkers, MaxQueue, MaxChanges} \subseteq Nat

VARIABLES
    herdr,          \* external: per pane, its terminal and session, or Closed
    queue,          \* events delivered and not applied yet
    workers,        \* _workers: id -> status and authenticated stable key
    snap,           \* the workers of the latest stored snapshot
    binds,          \* _bindings: private fingerprint -> binding
    stored,         \* the live rows of worker_bindings, by private fingerprint
    owners,         \* _pane_owners, _terminal_owners, _session_owners
    paneTerm,       \* _pane_terminals
    continuity,     \* FALSE: the health outcome is continuity_unavailable
    changes

routingVars == <<herdr, queue, workers, snap, binds, stored, owners, paneTerm, continuity,
                 changes>>

Closed == [term |-> -1, sess |-> NoSession]
NoKey == -1
Term(t) == <<"terminal", t>>
Pane(p) == <<"pane", p>>
Sess(s) == <<"session", s>>
NoTurn == <<"none", NoKey>>
InfoOf(p) == [pane |-> p, term |-> herdr[p].term, sess |-> herdr[p].sess]
OpenPanes == {p \in Panes : herdr[p] # Closed}

Kinds == {"terminal", "pane", "session"}
Empty == [x \in {} |-> NoKey]
OwnersAt(handle) ==
    IF handle[2] \in DOMAIN owners[handle[1]] THEN owners[handle[1]][handle[2]] ELSE {}

RoutingInit ==
    /\ herdr = [p \in Panes |-> Closed]
    /\ queue = <<>>
    /\ workers = Empty /\ snap = Empty /\ binds = Empty /\ stored = Empty
    /\ owners = [k \in Kinds |-> Empty]
    /\ paneTerm = Empty
    /\ continuity = TRUE
    /\ changes = 0

RoutingTypeOK ==
    /\ herdr \in [Panes -> [term : Terms \cup {-1}, sess : Sessions \cup {NoSession}]]
    /\ Len(queue) <= MaxQueue
    /\ \A id \in DOMAIN workers : workers[id].status \in {"active", "closed"}
                               /\ workers[id].key \in Panes \cup {NoKey}
    /\ \A f \in DOMAIN binds : binds[f].sendable => binds[f].reason = "none"
    /\ continuity \in BOOLEAN
    /\ changes \in 0 .. MaxChanges

\* A step that leaves the backend as it is.
Ignored == UNCHANGED <<workers, snap, binds, stored, owners, paneTerm, continuity>>

\* _save_snapshot, and the way an event gets there (_persist_current_state).
SaveSnapshot == snap' = workers'
Persist == SaveSnapshot

-----------------------------------------------------------------------------
(* Herdr.  Each change is announced by one event, with the full PaneInfo or *)
(* with the pane ids alone.                                                *)

Deliver(e) ==
    /\ changes < MaxChanges /\ Len(queue) < MaxQueue
    /\ changes' = changes + 1
    /\ queue' = Append(queue, e)
    /\ Ignored

Event(type, info, old, full) == [type |-> type, info |-> info, old |-> old, full |-> full]

OpenPane(p, t, s) ==
    /\ herdr[p] = Closed
    /\ \A q \in Panes : herdr[q].term # t
    /\ herdr' = [herdr EXCEPT ![p] = [term |-> t, sess |-> s]]
    /\ Deliver(Event("updated", [pane |-> p, term |-> t, sess |-> s], p, TRUE))

\* The agent of a pane starts or resumes another session.
ChangeSession(p, s) ==
    /\ herdr[p] # Closed /\ herdr[p].sess # s
    /\ herdr' = [herdr EXCEPT ![p].sess = s]
    /\ Deliver(Event("updated", [InfoOf(p) EXCEPT !.sess = s], p, TRUE))

ReportStatus(p) ==
    /\ herdr[p] # Closed
    /\ UNCHANGED herdr
    /\ Deliver(Event("status", InfoOf(p), p, FALSE))

ClosePane(p, full) ==
    /\ herdr[p] # Closed
    /\ herdr' = [herdr EXCEPT ![p] = Closed]
    /\ Deliver(Event("closed", InfoOf(p), p, full))

MovePane(p, q, full) ==
    /\ herdr[p] # Closed /\ herdr[q] = Closed
    /\ herdr' = [herdr EXCEPT ![p] = Closed, ![q] = herdr[p]]
    /\ Deliver(Event("moved", [InfoOf(p) EXCEPT !.pane = q], p, full))

-----------------------------------------------------------------------------
(* From an observation to a worker and a binding (herdr_cli.py).           *)

\* _private_identity_from_item: the session when there is one, else the place.
Private(i) == IF i.sess # NoSession THEN Sess(i.sess) ELSE <<"place", <<i.pane, i.term>>>>

\* _turn_target_from_item
TurnTarget(i) == IF i.sess # NoSession THEN Sess(i.sess) ELSE Pane(i.pane)

Binding(id, target, turn, sendable, reason) ==
    [id |-> id, target |-> target, turn |-> turn, sendable |-> sendable, reason |-> reason]

Reusable(b) == b.reason \notin {"ambiguous", "duplicate"}

\* _reuse_worker_ids_from_bindings for one record among the private
\* fingerprints and targets of its batch.
ReusedId(priv, target, privCount, targetCount, known) ==
    LET byPrivate == {f \in DOMAIN known : f = priv /\ Reusable(known[f])}
        byTarget == {f \in DOMAIN known : known[f].target = target /\ Reusable(known[f])}
    IN  CASE privCount = 1 /\ byPrivate # {} -> known[priv].id
          [] ~(privCount = 1 /\ byPrivate # {}) /\ targetCount = 1 /\ Cardinality(byTarget) = 1
               -> known[CHOOSE f \in byTarget : TRUE].id
          [] OTHER -> <<>>

\* _record_ownership_keys
OwnershipKeys(i) ==
    {Pane(i.pane), Term(i.term)} \cup (IF i.sess # NoSession THEN {Sess(i.sess)} ELSE {})

\* _pane_ownership_graph: panes that share a key with another one; every agent
\* row matches its own pane.
Ambiguous(infos) ==
    {i \in infos : \E j \in infos \ {i} : OwnershipKeys(i) \cap OwnershipKeys(j) # {}}

\* An ambiguous row keeps a fingerprint of its own and loses its identity.
AmbiguousRecord(i) ==
    [priv |-> <<"ambiguous", i>>, info |-> i, turn |-> NoTurn, ambiguous |-> TRUE]

MergedRecord(i) ==
    [priv |-> Private(i), info |-> i, turn |-> TurnTarget(i), ambiguous |-> FALSE]

\* _records_from_agent_and_pane_payloads
RecordOf(i, infos) == IF i \in Ambiguous(infos) THEN AmbiguousRecord(i) ELSE MergedRecord(i)

\* _worker_with_stable_key: the authenticated key of the one pane a row is.
StableKey(i, infos) == IF i \in Ambiguous(infos) THEN NoKey ELSE i.pane

\* _deduplicated_worker_records: rows that end up with the same id get a
\* numbered suffix, in the order of their targets.
SuffixedId(i, ids) ==
    LET group == {j \in DOMAIN ids : ids[j] = ids[i]}
    IN  IF Cardinality(group) = 1 THEN ids[i]
        ELSE Append(ids[i], Cardinality({j \in group : j.term <= i.term}))

\* _workers_and_bindings_from_records for a complete pane list.
ObservedIds(infos, known) ==
    LET base == [i \in infos |->
                   LET r == RecordOf(i, infos)
                   IN  ReusedId(r.priv, Term(i.term),
                                Cardinality({j \in infos : RecordOf(j, infos).priv = r.priv}),
                                Cardinality({j \in infos : j.term = i.term}), known)]
    IN  [i \in infos |-> SuffixedId(i, base)]

\* _mark_backend_sendability and _binding_from_worker_record.
ObservedBindings(infos, ids) ==
    LET tokens(i) == {j \in infos \ Ambiguous(infos) : j.term = i.term}
        bind(i) == LET r == RecordOf(i, infos) IN
            CASE r.ambiguous -> Binding(ids[i], Term(i.term), r.turn, FALSE, "ambiguous")
              [] ~r.ambiguous /\ Cardinality(tokens(i)) > 1
                   -> Binding(ids[i], Term(i.term), r.turn, FALSE, "duplicate")
              [] OTHER -> Binding(ids[i], Term(i.term), r.turn, TRUE, "none")
    IN  [f \in {RecordOf(i, infos).priv : i \in infos} |->
            bind(CHOOSE i \in infos : RecordOf(i, infos).priv = f)]

-----------------------------------------------------------------------------
(* Reconcile.                                                              *)

\* _replace_ownership_maps
OwnersFrom(infos, bs) ==
    LET direct(kind, v) ==
            {bs[f].id : f \in {g \in DOMAIN bs :
                \/ kind # "session" /\ bs[g].target = <<kind, v>>
                \/ kind = "session" /\ bs[g].turn[2] = v}}
        observed(kind, v) ==
            {bs[Private(i)].id : i \in {j \in infos \ Ambiguous(infos) :
                \/ kind = "pane" /\ j.pane = v
                \/ kind = "terminal" /\ j.term = v
                \/ kind = "session" /\ j.sess = v /\ v # NoSession}}
        handles == [pane |-> Panes, terminal |-> Terms, session |-> Sessions \cup Panes]
    IN  [k \in Kinds |->
            [v \in {x \in handles[k] : direct(k, x) \cup observed(k, x) # {}} |->
                direct(k, v) \cup observed(k, v)]]

Active(ws) == {id \in DOMAIN ws : ws[id].status # "closed"}

\* _workers_with_closed_missing: a missing worker is kept as closed while a live
\* binding names it, and dropped otherwise.
WithClosedMissing(now, before, bound) ==
    [id \in DOMAIN now \cup (DOMAIN before \cap bound) |->
        IF id \in DOMAIN now THEN now[id] ELSE [before[id] EXCEPT !.status = "closed"]]

\* save_snapshot writes the complete set: rows it does not name expire.
ReplaceBindings(bs) == binds' = bs /\ stored' = bs

\* reconcile_once.  A reconnect has lost what the old connection still held.
Reconcile(lost) ==
    LET infos == {InfoOf(p) : p \in OpenPanes}
        ids == ObservedIds(infos, stored)
        bs == ObservedBindings(infos, ids)
        now == [id \in {ids[i] : i \in infos} |->
                  LET i == CHOOSE j \in infos :
                                /\ ids[j] = id
                                /\ \A k \in infos : ids[k] = id => k.term <= j.term
                  IN  [status |-> "active", key |-> StableKey(i, infos)]]
    IN
    /\ Cardinality(infos) <= MaxWorkers
    /\ workers' = WithClosedMissing(now, snap, {stored[f].id : f \in DOMAIN stored})
    /\ SaveSnapshot
    /\ ReplaceBindings(bs)
    /\ owners' = OwnersFrom(infos, bs)
    /\ paneTerm' = [p \in {i.pane : i \in infos \ Ambiguous(infos)} |-> herdr[p].term]
    /\ continuity' = TRUE
    /\ queue' = IF lost THEN <<>> ELSE queue
    /\ UNCHANGED <<herdr, changes>>

\* Above the cap the latest snapshot replaces the workers and nothing else
\* (_mark_worker_cap_exceeded_locked).
CapExceeded ==
    /\ workers' = snap
    /\ UNCHANGED <<snap, binds, stored, owners, paneTerm, continuity>>

ReconcileOverCap ==
    /\ Cardinality(OpenPanes) > MaxWorkers
    /\ CapExceeded
    /\ UNCHANGED <<herdr, queue, changes>>

\* An agent without a pane, or an unusable installation key: the state is kept
\* and the backend becomes continuity_unavailable (_mark_unhealthy).
ReconcileWithoutContinuity ==
    /\ continuity
    /\ continuity' = FALSE
    /\ snap' = workers
    /\ UNCHANGED <<herdr, queue, workers, binds, stored, owners, paneTerm, changes>>

-----------------------------------------------------------------------------
(* Events.                                                                 *)

\* _matching_bindings and _ownership_worker_ids
Handles(i, full) ==
    {Pane(i.pane)}
    \cup (IF i.pane \in DOMAIN paneTerm THEN {Term(paneTerm[i.pane])} ELSE {})
    \cup (IF full THEN {Term(i.term)} ELSE {})
    \cup (IF full /\ i.sess # NoSession THEN {Sess(i.sess)} ELSE {})

OwnershipIds(i, full) ==
    {binds[f].id : f \in {g \in DOMAIN binds :
        binds[g].target \in Handles(i, full) \/ binds[g].turn \in Handles(i, full)}}
    \cup OwnersAt(Pane(i.pane))
    \cup (IF full THEN OwnersAt(Term(i.term)) ELSE {})
    \cup (IF full /\ i.sess # NoSession THEN OwnersAt(Sess(i.sess)) ELSE {})

\* _match_binding: the bindings an item may be matched to.
Matches(i, full) ==
    LET by(h) == {f \in DOMAIN binds : binds[f].target = h \/ binds[f].turn = h}
        direct == IF full THEN by(Term(i.term)) ELSE {}
        mapped == IF i.pane \in DOMAIN paneTerm THEN by(Term(paneTerm[i.pane])) ELSE {}
    IN  CASE direct # {} -> direct
          [] direct = {} /\ by(Pane(i.pane)) # {} -> by(Pane(i.pane))
          [] OTHER -> mapped

\* _fail_closed_ownership: no continuity and no route for any of these workers,
\* unless continuity is already unavailable. Only the bindings that change are
\* written to the store.
FailClosed(ids) ==
    LET lost(b) == IF b.id \in ids
                   THEN Binding(b.id, b.target, NoTurn, FALSE, "ambiguous") ELSE b
        changed == {f \in DOMAIN binds : lost(binds[f]) # binds[f]}
    IN
    IF continuity
    THEN /\ binds' = [f \in DOMAIN binds |-> lost(binds[f])]
         /\ stored' = [f \in changed \cup DOMAIN stored |->
                         IF f \in changed THEN lost(binds[f]) ELSE stored[f]]
         /\ workers' = [id \in DOMAIN workers |->
                          IF id \in ids THEN [workers[id] EXCEPT !.key = NoKey] ELSE workers[id]]
         /\ UNCHANGED <<owners, paneTerm, continuity>>
    ELSE UNCHANGED <<workers, binds, stored, owners, paneTerm, continuity>>

\* _remove_owner followed by _remember_item_owner for these handles.
Remember(id, handles) ==
    LET before == [k \in Kinds |-> [v \in DOMAIN owners[k] |-> owners[k][v] \ {id}]]
        at(k, v) == (IF v \in DOMAIN before[k] THEN before[k][v] ELSE {})
                    \cup (IF <<k, v>> \in handles THEN {id} ELSE {})
        values(k) == DOMAIN before[k] \cup {h[2] : h \in {g \in handles : g[1] = k}}
    IN  owners' = [k \in Kinds |-> [v \in {x \in values(k) : at(k, x) # {}} |-> at(k, v)]]

\* expire_worker_bindings
Expired(bs, gone) == [f \in DOMAIN bs \ gone |-> bs[f]]

\* Mutant: the rows the new binding replaces are not expired in the store.
RouteUnexpired(priv, b) ==
    LET stale == {f \in DOMAIN binds \ {priv} : binds[f].id = b.id}
        put(bs, gone) ==
            [f \in (DOMAIN bs \ gone) \cup {priv} |-> IF f = priv THEN b ELSE bs[f]]
    IN  binds' = put(binds, stale) /\ stored' = put(stored, {})

\* One binding replaces all others of its worker, in memory and in the store.
Route(priv, b) ==
    LET stale == {f \in DOMAIN binds \ {priv} : binds[f].id = b.id}
        put(bs) == [f \in (DOMAIN bs \ stale) \cup {priv} |-> IF f = priv THEN b ELSE bs[f]]
    IN  binds' = put(binds) /\ stored' = put(stored)

\* A binding is added or replaced without touching the others.
AddRoute(priv, b) ==
    LET put(bs) == [f \in DOMAIN bs \cup {priv} |-> IF f = priv THEN b ELSE bs[f]]
    IN  binds' = put(binds) /\ stored' = put(stored)

PutWorker(id, w) ==
    workers' = [x \in DOMAIN workers \cup {id} |-> IF x = id THEN w ELSE workers[x]]

OverCap(id) ==
    /\ id \in DOMAIN workers => workers[id].status = "closed"
    /\ Cardinality(Active(workers)) + 1 > MaxWorkers

StableOwners(p) == {id \in DOMAIN workers : workers[id].key = p}
IsAmbiguous(id) == \E f \in DOMAIN binds : binds[f].id = id /\ binds[f].reason = "ambiguous"
Only(S) == CHOOSE x \in S : TRUE

\* Mutant: only a second authenticated owner of the pane is a conflict.
ConflictingKeys(i) ==
    IF Cardinality(StableOwners(i.pane)) > 1 THEN StableOwners(i.pane) ELSE {}

\* The conflict test of _upsert_worker_from_item for an authenticated PaneInfo:
\* who must lose its route, and nobody when the observation has one owner.
Conflicting(i) ==
    LET stable == StableOwners(i.pane)
        target == OwnershipIds(i, TRUE)
        id == Only(target)
    IN  CASE Cardinality(stable) > 1 \/ Cardinality(target) > 1 -> stable \cup target
          [] Cardinality(stable) = 1 /\ Cardinality(target) <= 1 ->
               IF target \subseteq stable THEN {} ELSE stable \cup target
          [] stable = {} /\ Cardinality(target) = 1 ->
               IF \/ IsAmbiguous(id)
                  \/ id \in DOMAIN workers /\ workers[id].key \notin {NoKey, i.pane}
               THEN {id} ELSE {}
          [] OTHER -> {}

\* Otherwise the worker it is: its owner, or the id a lone record would reuse.
EventOwner(i) ==
    LET owned == StableOwners(i.pane) \cup OwnershipIds(i, TRUE)
    IN  IF owned # {} THEN Only(owned) ELSE ReusedId(Private(i), Term(i.term), 1, 1, binds)

\* pane.updated, pane.created, pane.agent_detected, or a status with PaneInfo.
ApplyFull(i) ==
    LET id == EventOwner(i)
        owned == StableOwners(i.pane) \cup OwnershipIds(i, TRUE)
        b == Binding(id, Term(i.term), TurnTarget(i), TRUE, "none")
    IN
    \/ /\ Conflicting(i) # {}
       /\ FailClosed(Conflicting(i))
       /\ Persist
    \/ /\ Conflicting(i) = {} /\ OverCap(id)
       /\ CapExceeded
    \/ /\ Conflicting(i) = {} /\ ~OverCap(id)
       /\ PutWorker(id, [status |-> "active", key |-> i.pane])
       /\ IF owned # {} THEN Route(Private(i), b) ELSE AddRoute(Private(i), b)
       /\ Remember(id, OwnershipKeys(i))
       /\ paneTerm' = [p \in DOMAIN paneTerm \cup {i.pane} |->
                         IF p = i.pane THEN i.term ELSE paneTerm[p]]
       /\ continuity' = TRUE
       /\ Persist

\* A scalar status event, without a name for an agent: it may locate the one
\* owner of its pane, and changes neither its identity nor its binding.
ApplyScalar(i) ==
    LET claimed == OwnershipIds(i, FALSE)
    IN
    \/ /\ Matches(i, FALSE) = {}
       /\ Ignored
    \/ \E f \in Matches(i, FALSE) :
       /\ claimed \ {binds[f].id} # {}
       /\ FailClosed(claimed)
       /\ Persist
    \/ \E f \in Matches(i, FALSE) :
       LET id == binds[f].id
           key == IF id \in DOMAIN workers THEN workers[id].key ELSE NoKey IN
       /\ claimed \ {id} = {}
       /\ IF OverCap(id) THEN CapExceeded
          ELSE /\ PutWorker(id, [status |-> "active", key |-> key])
               /\ Persist
               /\ UNCHANGED <<binds, stored, owners, paneTerm, continuity>>

\* _previous_ownership_worker_ids
PreviousOwners(old) ==
    OwnersAt(Pane(old))
    \cup (IF old \in DOMAIN paneTerm THEN OwnersAt(Term(paneTerm[old])) ELSE {})
    \cup {binds[f].id : f \in {g \in DOMAIN binds :
             \/ Pane(old) \in {binds[g].target, binds[g].turn}
             \/ old \in DOMAIN paneTerm
                /\ Term(paneTerm[old]) \in {binds[g].target, binds[g].turn}}}

\* _target_worker_ids for the pane moved to, and with PaneInfo every other claim.
DestinationOwners(i, full) ==
    {binds[f].id : f \in {g \in DOMAIN binds :
        Pane(i.pane) \in {binds[g].target, binds[g].turn}}}
    \cup OwnersAt(Pane(i.pane))
    \cup (IF full THEN OwnershipIds(i, TRUE) \cup StableOwners(i.pane) ELSE {})

\* The binding keeps its private fingerprint; a move that names the panes alone
\* keeps what the old binding says of its session and of its sendability.
MovedBinding(id, old, i, full) ==
    IF full THEN Binding(id, Term(i.term), TurnTarget(i), TRUE, "none")
    ELSE [old EXCEPT !.target = Pane(i.pane),
                     !.turn = IF @[1] = "pane" THEN Pane(i.pane) ELSE @]

\* The end of _apply_pane_moved: the old pane is forgotten, the worker is owner of
\* the new handles alone.
PlaceMoved(id, priv, i, old, full) ==
    LET moved == MovedBinding(id, binds[priv], i, full)
        kept == DOMAIN paneTerm \ {old}
        turn == IF moved.turn = NoTurn THEN {} ELSE {Sess(moved.turn[2])}
    IN
    /\ PutWorker(id, [status |-> "active", key |-> IF full THEN i.pane ELSE workers[id].key])
    /\ AddRoute(priv, moved)
    /\ Remember(id, IF full THEN OwnershipKeys(i) ELSE {moved.target} \cup turn)
    /\ paneTerm' = IF full
                   THEN [p \in kept \cup {i.pane} |-> IF p = i.pane THEN i.term ELSE paneTerm[p]]
                   ELSE [p \in kept |-> paneTerm[p]]
    /\ continuity' = (continuity \/ full)

\* _apply_pane_moved
ApplyMoved(i, old, full) ==
    LET sources == PreviousOwners(old)
        id == Only(sources)
        others == DestinationOwners(i, full) \ sources
        own == {f \in DOMAIN binds : binds[f].id = id}
    IN
    \/ /\ Cardinality(sources) > 1
       /\ FailClosed(sources)
       /\ Persist
    \/ /\ sources = {} \/ (Cardinality(sources) = 1 /\ id \notin DOMAIN workers)
       /\ Ignored
    \/ /\ Cardinality(sources) = 1 /\ id \in DOMAIN workers
       /\ \/ /\ others # {}
             /\ FailClosed(sources \cup others)
             /\ Persist
          \/ /\ others = {} /\ OverCap(id)
             /\ CapExceeded
          \/ /\ others = {} /\ ~OverCap(id) /\ Cardinality(own) # 1
             /\ IF full THEN FailClosed(sources) /\ Persist ELSE Ignored
          \/ /\ others = {} /\ ~OverCap(id) /\ Cardinality(own) = 1
             /\ PlaceMoved(id, Only(own), i, old, full)
             /\ Persist

\* _apply_pane_closed: with PaneInfo the claim must be unambiguous; the matched
\* binding is expired and its worker kept as closed.
ApplyClosed(i, full) ==
    LET claims == StableOwners(i.pane) \cup OwnershipIds(i, TRUE) IN
    \/ /\ full /\ Cardinality(claims) > 1
       /\ Ignored
    \/ /\ ~full \/ Cardinality(claims) <= 1
       /\ \/ \E f \in Matches(i, full) :
             LET id == binds[f].id IN
             /\ PutWorker(id, [status |-> "closed",
                               key |-> IF id \in DOMAIN workers THEN workers[id].key ELSE NoKey])
             /\ binds' = Expired(binds, {f})
             /\ stored' = Expired(stored, {f})
             /\ Persist
             /\ continuity' = (continuity \/ full)
             /\ UNCHANGED <<owners, paneTerm>>
          \/ /\ Matches(i, full) = {}
             /\ IF full
                THEN LET id == ReusedId(Private(i), Term(i.term), 1, 1, binds) IN
                     /\ PutWorker(id, [status |-> "closed", key |-> i.pane])
                     /\ stored' = Expired(stored, {f \in DOMAIN stored : stored[f].id = id})
                     /\ Persist
                     /\ continuity' = TRUE
                     /\ UNCHANGED <<binds, owners, paneTerm>>
                ELSE Ignored

\* flush with one event: _apply_event and _persist_current_state.
ApplyEvent ==
    /\ queue # <<>>
    /\ queue' = Tail(queue)
    /\ UNCHANGED <<herdr, changes>>
    /\ LET e == Head(queue) IN
       \/ e.type = "updated" /\ ApplyFull(e.info)
       \/ e.type = "status" /\ ApplyScalar(e.info)
       \/ e.type = "moved" /\ ApplyMoved(e.info, e.old, e.full)
       \/ e.type = "closed" /\ ApplyClosed(e.info, e.full)

-----------------------------------------------------------------------------

RoutingNext ==
    \/ \E p \in Panes, t \in Terms, s \in Sessions \cup {NoSession} : OpenPane(p, t, s)
    \/ \E p \in Panes, s \in Sessions : ChangeSession(p, s)
    \/ \E p \in Panes : ReportStatus(p)
    \/ \E p \in Panes, full \in BOOLEAN : ClosePane(p, full)
    \/ \E p, q \in Panes, full \in BOOLEAN : MovePane(p, q, full)
    \/ \E lost \in BOOLEAN : Reconcile(lost)
    \/ ReconcileOverCap \/ ReconcileWithoutContinuity \/ ApplyEvent

RoutingSpec == RoutingInit /\ [][RoutingNext]_routingVars

-----------------------------------------------------------------------------
(* Properties.                                                             *)

\* A command token has one route: no two live sendable bindings send to the same
\* terminal or pane, whatever events and reconciles produced them
\* (_mark_backend_sendability, _fail_closed_ownership).
OneRoutePerTarget ==
    \A f, g \in DOMAIN stored :
        stored[f].sendable /\ stored[g].sendable /\ f # g => stored[f].target # stored[g].target

\* No route hides in the store: every live row commands are routed by is a
\* binding the backend holds, unchanged, so that events about it can find it and
\* take it away.
NoHiddenRoute ==
    \A f \in DOMAIN stored : f \in DOMAIN binds /\ binds[f] = stored[f]

\* _deduplicated_worker_records is to "disambiguate duplicate public ids": after
\* a reconcile two panes are two workers.
PanesAreDistinctWorkers ==
    LET infos == {InfoOf(p) : p \in OpenPanes}
        ids == ObservedIds(infos, stored)
    IN  \A i, j \in infos : i # j => ids[i] # ids[j]

=============================================================================
