-------------------------- MODULE RoutingAndFeedProofs --------------------------
(***************************************************************************)
(* Proofs about what clients and commands are given from the store.         *)
(*                                                                         *)
(* WorkerRouting: commands have one route and no route is hidden from the   *)
(* backend, for any finite set of panes and any terminals, sessions, worker *)
(* cap, queue and number of changes.  A conflict of owners is found by      *)
(* counting them, so the invariant says that what is counted is finite,     *)
(* besides what it says of the bindings.                                    *)
(*                                                                         *)
(* TurnFeed: a client of turn.delta misses nothing and a traversal of       *)
(* turn.list is exact, for any turns, workers and page limit, any length of *)
(* the journal, and any retention and batch size of its compaction.         *)
(***************************************************************************)
EXTENDS WorkerRouting, TurnFeed, FiniteSetTheorems, TLAPS

-----------------------------------------------------------------------------
(* The inductive invariant.                                                *)

\* A binding has the fields of one and no others.
IsBinding(b) == b = Binding(b.id, b.target, b.turn, b.sendable, b.reason)

\* No two sendable bindings of bs share a target.
OneTarget(bs) ==
    \A f, g \in DOMAIN bs :
        bs[f].sendable /\ bs[g].sendable /\ f # g => bs[f].target # bs[g].target

\* What holds of the bindings in memory, and of the store beside them.
RoutesFit ==
    /\ IsFiniteSet(DOMAIN binds)
    /\ \A f \in DOMAIN binds : IsBinding(binds[f])
    /\ OneTarget(binds)
    /\ NoHiddenRoute

\* A conflict is found by counting, so what is counted is finite.
WorkersAreFinite == IsFiniteSet(DOMAIN workers) /\ IsFiniteSet(DOMAIN snap)
OwnersAreFinite == \A k \in Kinds : \A v \in DOMAIN owners[k] : IsFiniteSet(owners[k][v])

RoutingInv == RoutesFit /\ WorkersAreFinite /\ OwnersAreFinite

-----------------------------------------------------------------------------
(* Finite sets.                                                            *)

\* The values of a function on a finite set.
LEMMA ImageIsFinite ==
    ASSUME NEW S, IsFiniteSet(S), NEW f
    PROVE  IsFiniteSet({f[x] : x \in S})
<1> DEFINE T == {f[x] : x \in S}
           g == [x \in S |-> f[x]]
<1>1. g \in Surjection(S, T)
  BY DEF Surjection
<1> QED
  BY <1>1, FS_Surjection

\* The ids of some bindings.
LEMMA IdsAreFinite ==
    ASSUME NEW bs, NEW S, IsFiniteSet(S), NEW T \in SUBSET S
    PROVE  IsFiniteSet({bs[f].id : f \in T})
<1> DEFINE e == [f \in T |-> bs[f].id]
<1>1. IsFiniteSet(T)
  BY FS_Subset
<1>2. IsFiniteSet({e[f] : f \in T})
  BY <1>1, ImageIsFinite
<1> QED
  BY <1>2

\* A finite set that does not have two elements.
LEMMA AtMostOne ==
    ASSUME NEW S, IsFiniteSet(S), ~(Cardinality(S) > 1), NEW x \in S, NEW y \in S
    PROVE  x = y
<1>1. Cardinality(S) \in Nat /\ Cardinality(S) # 0
  BY FS_CardinalityType, FS_EmptySet
<1>2. Cardinality(S) = 1
  BY <1>1
<1> QED
  BY <1>2, FS_Singleton

\* The owners of one handle.
LEMMA OwnersAtFinite ==
    ASSUME OwnersAreFinite, NEW v
    PROVE  /\ IsFiniteSet(OwnersAt(Pane(v))) /\ IsFiniteSet(OwnersAt(Term(v)))
           /\ IsFiniteSet(OwnersAt(Sess(v)))
<1>1. ASSUME NEW k \in Kinds PROVE IsFiniteSet(OwnersAt(<<k, v>>))
  <2>1. <<k, v>>[1] = k /\ <<k, v>>[2] = v
    OBVIOUS
  <2> QED
    BY <2>1, FS_EmptySet DEF OwnersAt, OwnersAreFinite
<1>2. "pane" \in Kinds /\ "terminal" \in Kinds /\ "session" \in Kinds
  BY DEF Kinds
<1> QED
  BY <1>1, <1>2 DEF Pane, Term, Sess

\* Every set of ids that is counted.
LEMMA ClaimsAreFinite ==
    ASSUME RoutingInv, NEW i, NEW full, NEW p
    PROVE  /\ IsFiniteSet(OwnershipIds(i, full)) /\ IsFiniteSet(PreviousOwners(p))
           /\ IsFiniteSet(StableOwners(p))
<1> USE DEF RoutingInv
<1>0. \A S, T : IsFiniteSet(S) /\ IsFiniteSet(T) => IsFiniteSet(S \cup T)
  BY FS_Union
<1>1. IsFiniteSet({})
  BY FS_EmptySet
<1>2. IsFiniteSet(StableOwners(p))
  BY FS_Subset DEF StableOwners, WorkersAreFinite
<1>3. IsFiniteSet(OwnershipIds(i, full))
  <2> DEFINE T == {g \in DOMAIN binds :
                     binds[g].target \in Handles(i, full) \/ binds[g].turn \in Handles(i, full)}
             A == {binds[f].id : f \in T}
             B == OwnersAt(Pane(i.pane))
             C == IF full THEN OwnersAt(Term(i.term)) ELSE {}
             D == IF full /\ i.sess # NoSession THEN OwnersAt(Sess(i.sess)) ELSE {}
  <2>1. IsFiniteSet(A)
    BY IdsAreFinite DEF RoutesFit
  <2>2. IsFiniteSet(B) /\ IsFiniteSet(C) /\ IsFiniteSet(D)
    BY <1>1, OwnersAtFinite
  <2>3. OwnershipIds(i, full) = ((A \cup B) \cup C) \cup D
    BY DEF OwnershipIds
  <2> HIDE DEF A, B, C, D
  <2> QED
    BY <1>0, <2>1, <2>2, <2>3
<1>4. IsFiniteSet(PreviousOwners(p))
  <2> DEFINE T == {g \in DOMAIN binds :
                     \/ Pane(p) \in {binds[g].target, binds[g].turn}
                     \/ p \in DOMAIN paneTerm
                        /\ Term(paneTerm[p]) \in {binds[g].target, binds[g].turn}}
             A == OwnersAt(Pane(p))
             B == IF p \in DOMAIN paneTerm THEN OwnersAt(Term(paneTerm[p])) ELSE {}
             C == {binds[f].id : f \in T}
  <2>1. IsFiniteSet(C)
    BY IdsAreFinite DEF RoutesFit
  <2>2. IsFiniteSet(A) /\ IsFiniteSet(B)
    BY <1>1, OwnersAtFinite
  <2>3. PreviousOwners(p) = (A \cup B) \cup C
    BY DEF PreviousOwners
  <2> HIDE DEF A, B, C
  <2> QED
    BY <1>0, <2>1, <2>2, <2>3
<1> QED
  BY <1>2, <1>3, <1>4
-----------------------------------------------------------------------------
(* Changes of the bindings.                                                *)

\* One binding replaces those of its worker and shares its target with no other.
LEMMA RoutedFits ==
    ASSUME RoutesFit, NEW priv, NEW b, IsBinding(b), Route(priv, b),
           \A f \in DOMAIN binds : binds[f].target = b.target => binds[f].id = b.id
    PROVE  RoutesFit'
<1> DEFINE stale == {f \in DOMAIN binds \ {priv} : binds[f].id = b.id}
           put(bs) == [f \in (DOMAIN bs \ stale) \cup {priv} |-> IF f = priv THEN b ELSE bs[f]]
<1>1. binds' = put(binds) /\ stored' = put(stored)
  BY DEF Route
<1>2. IsFiniteSet(DOMAIN binds')
  <2>1. DOMAIN binds' = (DOMAIN binds \ stale) \cup {priv}
    BY <1>1
  <2>2. IsFiniteSet(DOMAIN binds \ stale)
    BY FS_Subset DEF RoutesFit
  <2> QED
    BY <2>1, <2>2, FS_AddElement
<1>3. \A f \in DOMAIN binds' : IsBinding(binds'[f])
  BY <1>1 DEF RoutesFit
<1>4. OneTarget(binds')
  BY <1>1 DEF RoutesFit, OneTarget
<1>5. NoHiddenRoute'
  BY <1>1 DEF RoutesFit, NoHiddenRoute
<1> QED
  BY <1>2, <1>3, <1>4, <1>5 DEF RoutesFit

\* A binding is added, or replaces one, and shares its target with no other.
LEMMA AddedFits ==
    ASSUME RoutesFit, NEW priv, NEW b, IsBinding(b), AddRoute(priv, b),
           \A f \in DOMAIN binds \ {priv} : binds[f].target # b.target
    PROVE  RoutesFit'
<1> DEFINE put(bs) == [f \in DOMAIN bs \cup {priv} |-> IF f = priv THEN b ELSE bs[f]]
<1>1. binds' = put(binds) /\ stored' = put(stored)
  BY DEF AddRoute
<1>2. IsFiniteSet(DOMAIN binds')
  <2>1. DOMAIN binds' = DOMAIN binds \cup {priv}
    BY <1>1
  <2> QED
    BY <2>1, FS_AddElement DEF RoutesFit
<1>3. \A f \in DOMAIN binds' : IsBinding(binds'[f])
  BY <1>1 DEF RoutesFit
<1>4. OneTarget(binds')
  BY <1>1 DEF RoutesFit, OneTarget
<1>5. NoHiddenRoute'
  BY <1>1 DEF RoutesFit, NoHiddenRoute
<1> QED
  BY <1>2, <1>3, <1>4, <1>5 DEF RoutesFit

\* Routes are taken away, in memory and in the store alike.
LEMMA FailClosedFits ==
    ASSUME RoutingInv, NEW ids, FailClosed(ids), Persist
    PROVE  RoutingInv'
<1> DEFINE lost(b) == IF b.id \in ids
                      THEN Binding(b.id, b.target, NoTurn, FALSE, "ambiguous") ELSE b
           changed == {f \in DOMAIN binds : lost(binds[f]) # binds[f]}
<1>1. CASE ~continuity
  BY <1>1 DEF FailClosed, Persist, SaveSnapshot, RoutingInv, RoutesFit, WorkersAreFinite,
              OwnersAreFinite, NoHiddenRoute
<1>2. CASE continuity
  <2>1. /\ binds' = [f \in DOMAIN binds |-> lost(binds[f])]
        /\ stored' = [f \in changed \cup DOMAIN stored |->
                         IF f \in changed THEN lost(binds[f]) ELSE stored[f]]
        /\ DOMAIN workers' = DOMAIN workers /\ owners' = owners /\ snap' = workers'
    BY <1>2 DEF FailClosed, Persist, SaveSnapshot
  <2>2. WorkersAreFinite' /\ OwnersAreFinite'
    BY <2>1 DEF RoutingInv, WorkersAreFinite, OwnersAreFinite
  <2>3. NoHiddenRoute'
    <3>1. SUFFICES ASSUME NEW f \in DOMAIN stored'
                   PROVE  f \in DOMAIN binds' /\ binds'[f] = stored'[f]
      BY DEF NoHiddenRoute
    <3> HIDE DEF lost
    <3>2. CASE f \in changed
      BY <2>1, <3>2
    <3>3. CASE f \notin changed
      <4>1. f \in DOMAIN binds /\ binds[f] = stored[f] /\ stored'[f] = stored[f]
        BY <2>1, <3>1, <3>3 DEF RoutingInv, RoutesFit, NoHiddenRoute
      <4> QED
        BY <2>1, <3>3, <4>1
    <3> QED
      BY <3>2, <3>3
  <2>4. \A f \in DOMAIN binds :
            /\ IsBinding(lost(binds[f])) /\ lost(binds[f]).target = binds[f].target
            /\ lost(binds[f]).sendable => binds[f].sendable
    BY DEF RoutingInv, RoutesFit, IsBinding, Binding
  <2> HIDE DEF lost
  <2>5. OneTarget(binds') /\ \A f \in DOMAIN binds' : IsBinding(binds'[f])
    BY <2>1, <2>4 DEF RoutingInv, RoutesFit, OneTarget
  <2>6. IsFiniteSet(DOMAIN binds')
    BY <2>1 DEF RoutingInv, RoutesFit
  <2> QED
    BY <2>2, <2>3, <2>5, <2>6 DEF RoutingInv, RoutesFit
<1> QED
  BY <1>1, <1>2

\* Bindings expire.
LEMMA ExpiredFits ==
    ASSUME RoutesFit, NEW gone, stored' = Expired(stored, gone),
           binds' = binds \/ binds' = Expired(binds, gone)
    PROVE  RoutesFit'
<1>1. DOMAIN binds' \subseteq DOMAIN binds /\ \A f \in DOMAIN binds' : binds'[f] = binds[f]
  BY DEF Expired
<1>2. IsFiniteSet(DOMAIN binds')
  BY <1>1, FS_Subset DEF RoutesFit
<1>3. OneTarget(binds') /\ \A f \in DOMAIN binds' : IsBinding(binds'[f])
  BY <1>1 DEF RoutesFit, OneTarget
<1>4. NoHiddenRoute'
  BY DEF Expired, RoutesFit, NoHiddenRoute
<1> QED
  BY <1>2, <1>3, <1>4 DEF RoutesFit

-----------------------------------------------------------------------------
(* Events.                                                                 *)

\* A worker is put, and its snapshot is saved.
LEMMA PutFits ==
    ASSUME WorkersAreFinite, NEW id, NEW w, PutWorker(id, w), Persist
    PROVE  WorkersAreFinite'
<1>1. DOMAIN workers' = DOMAIN workers \cup {id} /\ snap' = workers'
  BY DEF PutWorker, Persist, SaveSnapshot
<1> QED
  BY <1>1, FS_AddElement DEF WorkersAreFinite

\* The latest snapshot replaces the workers.
LEMMA CapFits == ASSUME RoutingInv, CapExceeded PROVE RoutingInv'
BY DEF CapExceeded, RoutingInv, RoutesFit, NoHiddenRoute, WorkersAreFinite, OwnersAreFinite

\* A worker is made the owner of some handles.
LEMMA RememberFits ==
    ASSUME OwnersAreFinite, NEW id, NEW handles, Remember(id, handles)
    PROVE  OwnersAreFinite'
<1> DEFINE before == [k \in Kinds |-> [v \in DOMAIN owners[k] |-> owners[k][v] \ {id}]]
           at(k, v) == (IF v \in DOMAIN before[k] THEN before[k][v] ELSE {})
                       \cup (IF <<k, v>> \in handles THEN {id} ELSE {})
           values(k) == DOMAIN before[k] \cup {h[2] : h \in {g \in handles : g[1] = k}}
<1>1. owners' = [k \in Kinds |-> [v \in {x \in values(k) : at(k, x) # {}} |-> at(k, v)]]
  BY DEF Remember
<1>2. ASSUME NEW k \in Kinds, NEW v PROVE IsFiniteSet(at(k, v))
  <2> DEFINE A == IF v \in DOMAIN before[k] THEN before[k][v] ELSE {}
  <2>1. IsFiniteSet(A)
    <3>1. CASE v \in DOMAIN owners[k]
      <4>1. A = owners[k][v] \ {id}
        BY <3>1
      <4> QED
        BY <3>1, <4>1, FS_RemoveElement DEF OwnersAreFinite
    <3>2. CASE v \notin DOMAIN owners[k]
      BY <3>2, FS_EmptySet
    <3> QED
      BY <3>1, <3>2
  <2>2. at(k, v) = A \/ at(k, v) = A \cup {id}
    OBVIOUS
  <2> HIDE DEF A
  <2> QED
    BY <2>1, <2>2, FS_AddElement
<1> HIDE DEF at, values
<1> QED
  BY <1>1, <1>2 DEF OwnersAreFinite

\* Without a conflict the stable owners of the pane and the owners of the handles
\* are one worker.
LEMMA OneOwner ==
    ASSUME RoutingInv, NEW i, Conflicting(i) = {},
           NEW x \in StableOwners(i.pane) \cup OwnershipIds(i, TRUE),
           NEW y \in StableOwners(i.pane) \cup OwnershipIds(i, TRUE)
    PROVE  x = y
<1> DEFINE stable == StableOwners(i.pane)
           target == OwnershipIds(i, TRUE)
<1>1. IsFiniteSet(stable) /\ IsFiniteSet(target)
  BY ClaimsAreFinite
<1> HIDE DEF stable, target
<1>2. /\ Cardinality(stable) \in Nat /\ Cardinality(target) \in Nat
      /\ (Cardinality(stable) = 0 <=> stable = {}) /\ (Cardinality(target) = 0 <=> target = {})
  BY <1>1, FS_CardinalityType, FS_EmptySet
<1>3. ~(Cardinality(stable) > 1) /\ ~(Cardinality(target) > 1)
  <2> SUFFICES ASSUME Cardinality(stable) > 1 \/ Cardinality(target) > 1 PROVE FALSE
    OBVIOUS
  <2>1. Conflicting(i) = stable \cup target
    <3>1. /\ ~(Cardinality(stable) = 1 /\ Cardinality(target) <= 1)
          /\ ~(stable = {} /\ Cardinality(target) = 1)
      BY <1>2
    <3> QED
      BY <3>1 DEF Conflicting, stable, target
  <2> QED
    BY <1>2, <2>1
<1>4. stable # {} => target \subseteq stable
  <2> SUFFICES ASSUME stable # {}, ~(target \subseteq stable) PROVE FALSE
    OBVIOUS
  <2>1. Cardinality(stable) = 1 /\ Cardinality(target) <= 1
    BY <1>2, <1>3
  <2>2. Conflicting(i) = stable \cup target
    BY <1>3, <2>1 DEF Conflicting, stable, target
  <2> QED
    BY <2>2
<1>5. x \in stable \cup target /\ y \in stable \cup target
  BY DEF stable, target
<1> QED
  BY <1>1, <1>3, <1>4, <1>5, AtMostOne

\* An authenticated observation of a pane.
LEMMA FullFits == ASSUME RoutingInv, NEW i, ApplyFull(i) PROVE RoutingInv'
<1> DEFINE id == EventOwner(i)
           owned == StableOwners(i.pane) \cup OwnershipIds(i, TRUE)
           b == Binding(id, Term(i.term), TurnTarget(i), TRUE, "none")
<1>1. CASE FailClosed(Conflicting(i)) /\ Persist
  BY <1>1, FailClosedFits
<1>2. CASE CapExceeded
  BY <1>2, CapFits
<1>3. CASE /\ Conflicting(i) = {}
           /\ PutWorker(id, [status |-> "active", key |-> i.pane])
           /\ IF owned # {} THEN Route(Private(i), b) ELSE AddRoute(Private(i), b)
           /\ Remember(id, OwnershipKeys(i)) /\ Persist
  <2>1. IsBinding(b) /\ b.target = Term(i.term) /\ b.id = id
    BY DEF IsBinding, Binding
  <2>2. \A f \in DOMAIN binds : binds[f].target = b.target => binds[f].id \in owned
    BY <2>1 DEF OwnershipIds, Handles
  <2>3. RoutesFit'
    <3>1. CASE owned # {}
      <4>1. id \in owned
        BY <3>1 DEF EventOwner, Only
      <4>2. \A f \in DOMAIN binds : binds[f].target = b.target => binds[f].id = id
        BY <1>3, <2>2, <4>1, OneOwner
      <4> HIDE DEF id, owned, b
      <4> QED
        BY <1>3, <2>1, <3>1, <4>2, RoutedFits DEF RoutingInv
    <3>2. CASE owned = {}
      <4> HIDE DEF id, owned, b
      <4> QED
        BY <1>3, <2>1, <2>2, <3>2, AddedFits DEF RoutingInv
    <3> QED
      BY <3>1, <3>2
  <2> QED
    BY <1>3, <2>3, PutFits, RememberFits DEF RoutingInv
<1> QED
  BY <1>1, <1>2, <1>3 DEF ApplyFull

\* A status that names a pane alone.
LEMMA ScalarFits == ASSUME RoutingInv, NEW i, ApplyScalar(i) PROVE RoutingInv'
<1>1. CASE Ignored
  BY <1>1 DEF Ignored, RoutingInv, RoutesFit, NoHiddenRoute, WorkersAreFinite, OwnersAreFinite
<1>2. CASE FailClosed(OwnershipIds(i, FALSE)) /\ Persist
  BY <1>2, FailClosedFits
<1>3. CASE CapExceeded
  BY <1>3, CapFits
<1>4. ASSUME NEW id, NEW w, PutWorker(id, w), Persist, UNCHANGED <<binds, stored, owners>>
      PROVE  RoutingInv'
  BY <1>4, PutFits DEF RoutingInv, RoutesFit, NoHiddenRoute, OwnersAreFinite
<1> QED
  BY <1>1, <1>2, <1>3, <1>4 DEF ApplyScalar

\* A pane moves with the one binding its worker has.
LEMMA MovedFits ==
    ASSUME RoutingInv, NEW i, NEW old, NEW full, ApplyMoved(i, old, full)
    PROVE  RoutingInv'
<1> DEFINE sources == PreviousOwners(old)
           id == Only(sources)
           others == DestinationOwners(i, full) \ sources
           own == {f \in DOMAIN binds : binds[f].id = id}
           priv == Only(own)
<1>1. CASE Ignored
  BY <1>1 DEF Ignored, RoutingInv, RoutesFit, NoHiddenRoute, WorkersAreFinite, OwnersAreFinite
<1>2. ASSUME NEW ids, FailClosed(ids), Persist PROVE RoutingInv'
  BY <1>2, FailClosedFits
<1>3. CASE CapExceeded
  BY <1>3, CapFits
<1>4. CASE /\ Cardinality(sources) = 1 /\ others = {} /\ Cardinality(own) = 1
           /\ PlaceMoved(id, priv, i, old, full) /\ Persist
  <2> DEFINE b == MovedBinding(id, binds[priv], i, full)
  <2>1. sources = {id}
    <3>1. IsFiniteSet(sources)
      BY ClaimsAreFinite
    <3>2. \E x : sources = {x}
      BY <1>4, <3>1, FS_Singleton
    <3> QED
      BY <3>2 DEF Only
  <2>2. own = {priv}
    <3>1. IsFiniteSet(own)
      BY FS_Subset DEF RoutingInv, RoutesFit
    <3>2. \E x : own = {x}
      BY <1>4, <3>1, FS_Singleton
    <3> QED
      BY <3>2 DEF Only
  <2>3. priv \in DOMAIN binds /\ binds[priv].id = id /\ IsBinding(binds[priv])
    BY <2>2 DEF RoutingInv, RoutesFit
  <2> HIDE DEF id, priv, sources, own
  <2>4. IsBinding(b) /\ b.target = IF full THEN Term(i.term) ELSE Pane(i.pane)
    BY <2>3 DEF IsBinding, MovedBinding, Binding
  <2>5. \A f \in DOMAIN binds : binds[f].target = b.target =>
            binds[f].id \in DestinationOwners(i, full)
    BY <2>4 DEF DestinationOwners, OwnershipIds, Handles
  <2>6. \A f \in DOMAIN binds \ {priv} : binds[f].target # b.target
    <3> SUFFICES ASSUME NEW f \in DOMAIN binds \ {priv}, binds[f].target = b.target PROVE FALSE
      OBVIOUS
    <3>1. binds[f].id \in sources
      BY <1>4, <2>5
    <3>2. f \in own
      BY <2>1, <3>1 DEF own
    <3> QED
      BY <2>2, <3>2
  <2>7. /\ \E w : PutWorker(id, w)
        /\ AddRoute(priv, b)
        /\ \E handles : Remember(id, handles)
    BY <1>4 DEF PlaceMoved
  <2> HIDE DEF b
  <2>8. RoutesFit'
    BY <2>4, <2>6, <2>7, AddedFits DEF RoutingInv
  <2> QED
    BY <1>4, <2>7, <2>8, PutFits, RememberFits DEF RoutingInv
<1> QED
  BY <1>1, <1>2, <1>3, <1>4 DEF ApplyMoved

\* A pane is closed, and its binding expires.
LEMMA ClosedFits ==
    ASSUME RoutingInv, NEW i, NEW full, ApplyClosed(i, full)
    PROVE  RoutingInv'
<1>1. CASE Ignored
  BY <1>1 DEF Ignored, RoutingInv, RoutesFit, NoHiddenRoute, WorkersAreFinite, OwnersAreFinite
<1>2. ASSUME NEW id, NEW w, NEW gone, PutWorker(id, w), Persist, stored' = Expired(stored, gone),
             binds' = binds \/ binds' = Expired(binds, gone), owners' = owners
      PROVE  RoutingInv'
  BY <1>2, PutFits, ExpiredFits DEF RoutingInv, OwnersAreFinite
<1> QED
  BY <1>1, <1>2 DEF ApplyClosed

-----------------------------------------------------------------------------
(* Reconciles.                                                             *)

\* Two panes that are sent to by the same terminal are not both sendable.
LEMMA ObservedFits ==
    ASSUME NEW infos, IsFiniteSet(infos), NEW ids
    PROVE  LET bs == ObservedBindings(infos, ids)
           IN  /\ IsFiniteSet(DOMAIN bs) /\ OneTarget(bs)
               /\ \A f \in DOMAIN bs : IsBinding(bs[f])
<1> DEFINE rec(i) == RecordOf(i, infos)
           tokens(i) == {j \in infos \ Ambiguous(infos) : j.term = i.term}
           bind(i) ==
               CASE rec(i).ambiguous -> Binding(ids[i], Term(i.term), rec(i).turn, FALSE, "ambiguous")
                 [] ~rec(i).ambiguous /\ Cardinality(tokens(i)) > 1
                      -> Binding(ids[i], Term(i.term), rec(i).turn, FALSE, "duplicate")
                 [] OTHER -> Binding(ids[i], Term(i.term), rec(i).turn, TRUE, "none")
           row(f) == CHOOSE i \in infos : rec(i).priv = f
           bs == ObservedBindings(infos, ids)
<1>1. bs = [f \in {rec(i).priv : i \in infos} |-> bind(row(f))]
  BY DEF ObservedBindings
<1>2. \A i \in infos : rec(i).ambiguous <=> i \in Ambiguous(infos)
  BY DEF RecordOf, AmbiguousRecord, MergedRecord
<1>3. \A f \in DOMAIN bs : row(f) \in infos /\ rec(row(f)).priv = f
  BY <1>1
<1>4. ASSUME NEW i \in infos
      PROVE  /\ IsBinding(bind(i)) /\ bind(i).target = Term(i.term)
             /\ bind(i).sendable => i \in tokens(i) /\ ~(Cardinality(tokens(i)) > 1)
  <2>1. rec(i).ambiguous \in BOOLEAN
    BY DEF RecordOf, AmbiguousRecord, MergedRecord
  <2> HIDE DEF rec
  <2>2. CASE rec(i).ambiguous
    BY <2>2 DEF IsBinding, Binding
  <2>3. CASE ~rec(i).ambiguous
    BY <1>2, <2>3 DEF IsBinding, Binding
  <2> QED
    BY <2>1, <2>2, <2>3
<1>5. ASSUME NEW i \in infos PROVE IsFiniteSet(tokens(i))
  BY FS_Subset
<1>6. IsFiniteSet(DOMAIN bs)
  <2> DEFINE e == [i \in infos |-> rec(i).priv]
  <2>1. IsFiniteSet({e[i] : i \in infos})
    BY ImageIsFinite
  <2>2. DOMAIN bs = {e[i] : i \in infos}
    BY <1>1
  <2> QED
    BY <2>1, <2>2
<1> HIDE DEF bind, row, bs
<1>7. \A f \in DOMAIN bs : bs[f] = bind(row(f))
  BY <1>1
<1>8. ASSUME NEW f \in DOMAIN bs, NEW g \in DOMAIN bs, bs[f].sendable, bs[g].sendable,
             bs[f].target = bs[g].target
      PROVE  f = g
  <2>1. Term(row(f).term) = Term(row(g).term)
    BY <1>3, <1>4, <1>7, <1>8
  <2>2. row(f).term = row(g).term
    BY <2>1 DEF Term
  <2>3. row(f) \in tokens(row(f)) /\ row(g) \in tokens(row(f)) /\ ~(Cardinality(tokens(row(f))) > 1)
    BY <1>3, <1>4, <1>7, <1>8, <2>2
  <2>4. row(f) = row(g)
    <3> HIDE DEF tokens
    <3> QED
      BY <1>3, <1>5, <2>3, AtMostOne
  <2> QED
    BY <1>3, <2>4
<1>9. OneTarget(bs)
  BY <1>8 DEF OneTarget
<1>10. \A f \in DOMAIN bs : IsBinding(bs[f])
  BY <1>3, <1>4, <1>7
<1> QED
  BY <1>6, <1>9, <1>10 DEF bs

\* The owners a reconcile finds.
LEMMA ObservedOwnersFit ==
    ASSUME NEW infos, IsFiniteSet(infos), NEW bs, IsFiniteSet(DOMAIN bs),
           NEW k \in Kinds, NEW v \in DOMAIN OwnersFrom(infos, bs)[k]
    PROVE  IsFiniteSet(OwnersFrom(infos, bs)[k][v])
<1> DEFINE T == {g \in DOMAIN bs : \/ k # "session" /\ bs[g].target = <<k, v>>
                                   \/ k = "session" /\ bs[g].turn[2] = v}
           A == {bs[f].id : f \in T}
           R == {j \in infos \ Ambiguous(infos) : \/ k = "pane" /\ j.pane = v
                                                  \/ k = "terminal" /\ j.term = v
                                                  \/ k = "session" /\ j.sess = v /\ v # NoSession}
           B == {bs[Private(i)].id : i \in R}
           e == [i \in R |-> bs[Private(i)].id]
<1>1. OwnersFrom(infos, bs)[k][v] = A \cup B
  BY DEF OwnersFrom
<1>2. IsFiniteSet(A)
  BY IdsAreFinite
<1>3. IsFiniteSet(R)
  BY FS_Subset
<1>4. IsFiniteSet({e[i] : i \in R})
  BY <1>3, ImageIsFinite
<1>5. B = {e[i] : i \in R}
  OBVIOUS
<1> HIDE DEF A, B
<1>6. IsFiniteSet(B)
  BY <1>4, <1>5, Zenon
<1>7. IsFiniteSet(A \cup B)
  BY <1>2, <1>6, FS_Union
<1> QED
  BY <1>1, <1>7, Zenon

\* The workers of a reconcile, and what it keeps of the latest snapshot.
LEMMA ReconciledFits == ASSUME RoutingInv, NEW lost, Reconcile(lost) PROVE RoutingInv'
<1> DEFINE infos == {InfoOf(p) : p \in OpenPanes}
           ids == ObservedIds(infos, stored)
           bs == ObservedBindings(infos, ids)
           names == {ids[i] : i \in infos}
<1>1. IsFiniteSet(infos)
  <2> DEFINE e == [p \in OpenPanes |-> InfoOf(p)]
  <2>1. IsFiniteSet(OpenPanes)
    BY RoutingAssumption, FS_Subset DEF OpenPanes
  <2>2. IsFiniteSet({e[p] : p \in OpenPanes})
    BY <2>1, ImageIsFinite
  <2>3. infos = {e[p] : p \in OpenPanes}
    OBVIOUS
  <2> QED
    BY <2>2, <2>3
<1>2. /\ binds' = bs /\ stored' = bs /\ owners' = OwnersFrom(infos, bs) /\ snap' = workers'
      /\ DOMAIN workers' \subseteq names \cup DOMAIN snap
  BY DEF Reconcile, ReplaceBindings, SaveSnapshot, WithClosedMissing
<1>3. IsFiniteSet(names)
  <2> HIDE DEF infos, ids
  <2> QED
    BY <1>1, ImageIsFinite
<1> HIDE DEF infos, ids, bs, names
<1>4. IsFiniteSet(DOMAIN bs) /\ OneTarget(bs) /\ \A f \in DOMAIN bs : IsBinding(bs[f])
  BY <1>1, ObservedFits DEF bs
<1>5. RoutesFit'
  BY <1>2, <1>4 DEF RoutesFit, NoHiddenRoute
<1>6. WorkersAreFinite'
  <2>1. IsFiniteSet(names \cup DOMAIN snap)
    BY <1>3, FS_Union DEF RoutingInv, WorkersAreFinite
  <2> QED
    BY <1>2, <2>1, FS_Subset DEF WorkersAreFinite
<1>7. OwnersAreFinite'
  BY <1>1, <1>2, <1>4, ObservedOwnersFit DEF OwnersAreFinite
<1> QED
  BY <1>5, <1>6, <1>7 DEF RoutingInv

-----------------------------------------------------------------------------
(* The theorems.                                                           *)

\* The backend starts with nothing.
LEMMA RoutingStarts == RoutingInit => RoutingInv
BY FS_EmptySet DEF RoutingInit, Empty, Kinds, RoutingInv, RoutesFit, WorkersAreFinite, OwnersAreFinite,
       OneTarget, NoHiddenRoute

\* Every step keeps the invariant.
LEMMA RoutingStep == RoutingInv /\ [RoutingNext]_routingVars => RoutingInv'
<1> SUFFICES ASSUME RoutingInv, [RoutingNext]_routingVars PROVE RoutingInv'
  OBVIOUS
<1>1. CASE UNCHANGED <<workers, binds, stored, owners>> /\ snap' \in {snap, workers}
  BY <1>1 DEF RoutingInv, RoutesFit, WorkersAreFinite, OwnersAreFinite, NoHiddenRoute
<1>2. CASE \/ UNCHANGED routingVars \/ ReconcileWithoutContinuity
           \/ \E p \in Panes, t \in Terms, s \in Sessions \cup {NoSession} : OpenPane(p, t, s)
           \/ \E p \in Panes, s \in Sessions : ChangeSession(p, s)
           \/ \E p \in Panes : ReportStatus(p)
           \/ \E p \in Panes, full \in BOOLEAN : ClosePane(p, full)
           \/ \E p, q \in Panes, full \in BOOLEAN : MovePane(p, q, full)
  BY <1>1, <1>2 DEF routingVars, ReconcileWithoutContinuity, OpenPane, ChangeSession, ReportStatus,
                    ClosePane, MovePane, Deliver, Ignored
<1>3. CASE ReconcileOverCap
  BY <1>3, CapFits DEF ReconcileOverCap
<1>4. ASSUME NEW lost \in BOOLEAN, Reconcile(lost) PROVE RoutingInv'
  BY <1>4, ReconciledFits
<1>5. CASE ApplyEvent
  <2>1. PICK e : \/ ApplyFull(e.info) \/ ApplyScalar(e.info)
                 \/ ApplyMoved(e.info, e.old, e.full) \/ ApplyClosed(e.info, e.full)
    BY <1>5 DEF ApplyEvent
  <2> QED
    BY <2>1, FullFits, ScalarFits, MovedFits, ClosedFits
<1> QED
  BY <1>2, <1>3, <1>4, <1>5 DEF RoutingNext

\* No live row of the store routes by a binding the backend does not hold: wherever
\* events are late and reconciles come between, what is stored is what events can
\* find and take away (upsert and expiry of worker bindings, _fail_closed_ownership).
THEOREM NoRouteHidden == RoutingSpec => []NoHiddenRoute
<1>1. RoutingInv => NoHiddenRoute
  BY DEF RoutingInv, RoutesFit
<1> QED
  BY <1>1, RoutingStarts, RoutingStep, PTL DEF RoutingSpec

\* Two sendable bindings never share a terminal or a pane, so a command has one
\* destination (_mark_backend_sendability, _upsert_worker_from_item,
\* _apply_pane_moved).
THEOREM OneRouteATarget == RoutingSpec => []OneRoutePerTarget
<1>1. RoutingInv => OneRoutePerTarget
  BY DEF RoutingInv, RoutesFit, NoHiddenRoute, OneTarget, OneRoutePerTarget
<1> QED
  BY <1>1, RoutingStarts, RoutingStep, PTL DEF RoutingSpec

-----------------------------------------------------------------------------
(* Numbers.                                                                *)

\* A set of natural numbers has a least element.
LEMMA LeastOf ==
    ASSUME NEW S, S \subseteq Nat, S # {}
    PROVE  \E m \in S : \A y \in S : m <= y
<1>1. PICK m \in S : \A y \in S : ~ (<<y, m>> \in OpToRel(<, Nat))
  BY NatLessThanWellFounded, WFMin
<1>2. \A y \in Nat : y < m => <<y, m>> \in OpToRel(<, Nat)
  BY DEF OpToRel
<1>3. ASSUME NEW y \in S PROVE m <= y
  <2>1. ~(y < m)
    BY <1>1, <1>2
  <2> QED
    BY <2>1
<1> QED
  BY <1>3

\* Max is the greatest element of a bounded set.
LEMMA MaxIsGreatest ==
    ASSUME NEW S, S \subseteq Nat, S # {}, NEW b \in Nat, \A y \in S : y <= b
    PROVE  Max(S) \in S /\ \A y \in S : y <= Max(S)
<1> DEFINE D == {k \in Nat : \E y \in S : y = b - k}
<1>1. PICK y \in S : TRUE
  OBVIOUS
<1>2. b - y \in D
  BY <1>1
<1>3. PICK m \in D : \A k \in D : m <= k
  BY <1>2, LeastOf
<1>4. PICK x \in S : x = b - m
  BY <1>3
<1>5. ASSUME NEW z \in S PROVE x >= z
  <2>1. b - z \in D /\ z \in Nat
    OBVIOUS
  <2>2. m <= b - z /\ m \in Nat
    BY <1>3, <2>1
  <2> QED
    BY <1>4, <2>1, <2>2
<1>6. \E w \in S : \A z \in S : w >= z
  BY <1>5
<1> QED
  BY <1>6 DEF Max

-----------------------------------------------------------------------------
(* The feed: the state is well-formed.                                     *)

Places == [worker : Nat, seq : Nat]
Cursors == [mode : {"none", "bootstrap", "changes"}, accepted : Nat, high : Nat,
            inserted : Nat, at : Places]

StoreIsTyped ==
    /\ turns \in [Turns -> Row \cup {Absent}]
    /\ inserted \in Nat
    /\ \A t \in Stored : turns[t].seq \in 1 .. inserted
    /\ \A t, u \in Stored : t # u => turns[t].seq # turns[u].seq
    /\ lastSeq \in Nat
    /\ journal \subseteq [seq : 1 .. lastSeq, turn : Turns]
    /\ \A j, k \in journal : j.seq = k.seq => j = k
    /\ floor \in 0 .. lastSeq

DeltaIsTyped ==
    /\ client \in {"delta", "list"}
    /\ view \in [Turns -> Workers \cup {Gone}]
    /\ mark \in -1 .. lastSeq
    /\ cursor \in Cursors
    /\ cursor.mode = "none" => cursor = NoCursor

Traversals(n) ==
    [phase : {"idle", "paging", "done"}, since : 0 .. n, high : 0 .. n, same : BOOLEAN,
     floor : Nat, at : Places, got : [Turns -> Nat], shifted : SUBSET Turns]

\* What a client's token says agrees with the batch it is in.
TokensAgree ==
    /\ cursor = NoCursor /\ mark = -1 => view = NoCopy
    /\ cursor.mode = "bootstrap" => mark = -1 /\ cursor.inserted <= inserted
    /\ cursor.mode = "changes" =>
          mark = cursor.accepted /\ mark < cursor.at.seq /\ cursor.at.seq <= cursor.high
    /\ client = "list" => cursor = NoCursor /\ mark = -1

\* The bootstrap c is still to come to this turn.
IsAhead(c, t) == turns[t].seq \in 1 .. c.inserted /\ Ahead(Place(t), c.at)

\* The copy has nothing yet of the turns that a bootstrap is still to come to.
NothingAhead ==
    cursor.mode = "bootstrap" /\ cursor.high >= floor =>
        \A t \in Turns : IsAhead(cursor, t) => view[t] = Gone \/ ChangedAfter(t, cursor.high)

\* The traversal x has the turn t if it is behind its place, and does not if it is ahead.
IsExactAt(x, t) ==
    /\ turns[t] = Absent => x.got[t] = 0
    /\ x.got[t] <= 1
    /\ x.got[t] = 1 => x.since < turns[t].seq
    /\ turns[t].seq \in (x.since + 1) .. x.high =>
          IF Ahead(Place(t), x.at) THEN x.got[t] = 0
          ELSE turns[t].shown => x.got[t] = 1

\* That holds of a traversal that nothing was deleted under and a turn that stayed.
PagesAreExact ==
    list.phase = "paging" /\ list.same =>
        \A t \in Turns \ list.shifted : IsExactAt(list, t)

\* What TraversalIsExact says of one turn
IsExactInTheEnd(x, t) ==
    /\ x.got[t] <= 1
    /\ x.got[t] = 1 => x.since < turns[t].seq \/ turns[t] = Absent
    /\ turns[t].shown /\ turns[t].seq \in (x.since + 1) .. x.high => x.got[t] = 1

DeltaInv ==
    /\ StoreIsTyped /\ DeltaIsTyped /\ TokensAgree
    /\ WatermarkIsKnown /\ DeltaIsComplete /\ NothingAhead

ListInv == list \in Traversals(inserted) /\ PagesAreExact /\ TraversalIsExact

-----------------------------------------------------------------------------
(* Pages.                                                                  *)

\* What is stored of a turn, and the place it has.
LEMMA RowIs ==
    ASSUME StoreIsTyped, NEW t \in Turns
    PROVE  /\ t \in Stored => /\ turns[t] \in Row /\ turns[t].worker \in Nat \ {0}
                              /\ turns[t].seq \in 1 .. inserted /\ turns[t].worker \in Workers
           /\ t \notin Stored => /\ turns[t] = Absent /\ turns[t].seq = 0
                                 /\ ~turns[t].shown
           /\ turns[t].seq \in Nat /\ turns[t].worker \in Nat /\ turns[t].shown \in BOOLEAN
           /\ turns[t].seq # 0 <=> t \in Stored
           /\ Place(t) \in Places
           /\ Place(t).worker = turns[t].worker /\ Place(t).seq = turns[t].seq
           /\ Public(t) = Gone <=> ~turns[t].shown
           /\ turns[t].shown => Public(t) = turns[t].worker /\ Public(t) # Gone
           /\ Public(t) \in Workers \cup {Gone}
<1>1. Absent.seq = 0 /\ Absent.worker = 0 /\ Absent.shown = FALSE
  BY DEF Absent
<1>2. turns[t] \in Row \cup {Absent}
  BY DEF StoreIsTyped
<1>3. Place(t) = [worker |-> turns[t].worker, seq |-> turns[t].seq]
  BY DEF Place
<1> DEFINE r == turns[t]
<1>4. Place(t).worker = r.worker /\ Place(t).seq = r.seq
  BY <1>3
<1>5. ASSUME t \in Stored
      PROVE  /\ r \in Row /\ r.seq \in 1 .. inserted /\ r.worker \in Workers
             /\ r.worker \in Nat \ {0} /\ r.shown \in BOOLEAN /\ r.seq \in Nat /\ r.seq # 0
  <2>1. r \in Row /\ r.seq \in 1 .. inserted /\ inserted \in Nat
    BY <1>2, <1>5 DEF Stored, StoreIsTyped
  <2>2. r.worker \in Workers /\ r.shown \in BOOLEAN
    BY <2>1 DEF Row
  <2>3. r.worker \in Nat \ {0}
    BY <2>2, FeedAssumption
  <2>4. r.seq \in Nat /\ r.seq # 0
    BY <2>1
  <2> QED
    BY <2>1, <2>2, <2>3, <2>4
<1>6. ASSUME t \notin Stored
      PROVE  r = Absent /\ r.seq = 0 /\ r.worker = 0 /\ r.shown = FALSE
  <2>1. r = Absent
    BY <1>6 DEF Stored
  <2> QED
    BY <1>1, <2>1
<1>7. r.seq \in Nat /\ r.worker \in Nat /\ r.shown \in BOOLEAN
  <2>1. r.shown \in BOOLEAN
    <3>1. FALSE \in BOOLEAN
      OBVIOUS
    <3> QED
      BY <1>5, <1>6, <3>1
  <2>2. CASE t \in Stored
    <3>1. r.seq \in Nat /\ r.worker \in Nat
      BY <1>5, <2>2
    <3> QED
      BY <2>1, <3>1
  <2>3. CASE t \notin Stored
    <3>1. r.seq = 0 /\ r.worker = 0
      BY <1>6, <2>3
    <3>2. r.seq \in Nat /\ r.worker \in Nat
      BY <3>1
    <3> QED
      BY <2>1, <3>2
  <2> QED
    BY <2>2, <2>3
<1>8. r.seq # 0 <=> t \in Stored
  BY <1>5, <1>6
<1>9. Place(t) \in Places
  BY <1>3, <1>7 DEF Places
<1>10. ASSUME r.shown
       PROVE  Public(t) = r.worker /\ Public(t) # Gone /\ Public(t) \in Workers
  BY <1>5, <1>6, <1>10 DEF Public, Gone
<1>11. ASSUME ~r.shown
       PROVE  Public(t) = Gone
  BY <1>11 DEF Public
<1>12. Public(t) = Gone <=> ~r.shown
  BY <1>10, <1>11
<1>13. Public(t) \in Workers \cup {Gone}
  BY <1>10, <1>11
<1> QED
  BY <1>4, <1>5, <1>6, <1>7, <1>8, <1>9, <1>10, <1>12, <1>13

\* Places of turns are in a strict order, all of them.
LEMMA AheadIsOrder ==
    /\ \A p, q, r \in Places : Ahead(p, q) /\ Ahead(q, r) => Ahead(p, r)
    /\ \A p \in Places : ~Ahead(p, p)
    /\ \A p, q \in Places : p.seq # q.seq => Ahead(p, q) \/ Ahead(q, p)
    /\ \A p, q \in Places : ~(Ahead(p, q) /\ Ahead(q, p))
    /\ \A p \in Places : p.worker # 0 => Ahead(p, Start)
BY DEF Ahead, Places, Start

\* Turns that are stored are finitely many, and their places differ.
LEMMA StoredIs ==
    ASSUME StoreIsTyped
    PROVE  /\ IsFiniteSet(Stored) /\ Stored \subseteq Turns
           /\ \A t, u \in Stored : t # u => Ahead(Place(t), Place(u)) \/ Ahead(Place(u), Place(t))
<1>1. Stored \subseteq Turns
  BY DEF Stored
<1> DEFINE f == [t \in Stored |-> turns[t].seq]
<1>2. f \in Injection(Stored, 1 .. inserted)
  BY DEF Injection, IsInjective, StoreIsTyped
<1>3. IsFiniteSet(1 .. inserted)
  BY FS_Interval DEF StoreIsTyped
<1>4. IsFiniteSet(Stored)
  BY <1>2, <1>3, FS_Injection
<1>5. ASSUME NEW t \in Stored, NEW u \in Stored, t # u
      PROVE  Ahead(Place(t), Place(u)) \/ Ahead(Place(u), Place(t))
  <2>1. Place(t).seq # Place(u).seq /\ Place(t) \in Places /\ Place(u) \in Places
    BY <1>1, <1>5, RowIs DEF StoreIsTyped
  <2> QED
    BY <2>1, AheadIsOrder
<1> QED
  BY <1>1, <1>4, <1>5

\* A page is the beginning of what is left, and not empty unless nothing is.
LEMMA PageIsPrefix ==
    ASSUME StoreIsTyped, NEW left, left \subseteq Stored, NEW page \in TurnPages(left)
    PROVE  /\ page \subseteq left
           /\ \A t \in page, v \in left \ page : Ahead(Place(v), Place(t))
           /\ page = {} => left = {}
<1> DEFINE before(t) == {u \in left : Ahead(Place(t), Place(u))}
<1>1. PICK n \in 1 .. Limit : page = {t \in left : Cardinality(before(t)) < n}
  BY DEF TurnPages
<1>2. \A t \in left : t \in Turns /\ Place(t) \in Places
  BY RowIs, StoredIs
<1>3. IsFiniteSet(left)
  BY StoredIs, FS_Subset
<1>4. \A t \in left : IsFiniteSet(before(t)) /\ Cardinality(before(t)) \in Nat
  BY <1>3, FS_Subset, FS_CardinalityType
<1>5. ASSUME NEW t \in page, NEW v \in left \ page PROVE Ahead(Place(v), Place(t))
  <2> SUFFICES ASSUME ~Ahead(Place(v), Place(t)) PROVE FALSE
    OBVIOUS
  <2>1. t # v /\ t \in left
    BY <1>1
  <2>2. Ahead(Place(t), Place(v))
    BY <2>1, StoredIs
  <2>3. before(v) \subseteq before(t)
    BY <1>2, <2>1, <2>2, AheadIsOrder
  <2>4. Cardinality(before(v)) <= Cardinality(before(t))
    BY <1>4, <2>1, <2>3, FS_Subset
  <2>5. Cardinality(before(t)) < n /\ ~(Cardinality(before(v)) < n)
    BY <1>1
  <2> HIDE DEF before
  <2> QED
    BY <1>4, <2>1, <2>4, <2>5, FeedAssumption
<1>6. ASSUME left # {} PROVE page # {}
  <2> DEFINE Sizes == {Cardinality(before(t)) : t \in left}
  <2>1. Sizes \subseteq Nat /\ Sizes # {}
    BY <1>4, <1>6
  <2>2. PICK m \in Sizes : \A y \in Sizes : m <= y
    BY <2>1, LeastOf
  <2>3. PICK t \in left : Cardinality(before(t)) = m
    OBVIOUS
  <2>4. before(t) = {}
    <3> SUFFICES ASSUME NEW u \in before(t) PROVE FALSE
      OBVIOUS
    <3>1. before(u) \subseteq before(t) \ {u}
      BY <1>2, AheadIsOrder
    <3>2. Cardinality(before(u)) <= Cardinality(before(t) \ {u})
      BY <1>4, <3>1, FS_RemoveElement, FS_Subset
    <3>3. Cardinality(before(t) \ {u}) = Cardinality(before(t)) - 1
      BY <1>4, FS_RemoveElement
    <3>4. Cardinality(before(u)) \in Sizes
      OBVIOUS
    <3>5. m <= Cardinality(before(u)) /\ m \in Nat /\ Cardinality(before(u)) \in Nat
      BY <1>4, <2>1, <2>2, <3>4
    <3> QED
      BY <2>3, <3>2, <3>3, <3>5
  <2>5. Cardinality(before(t)) < n
    BY <2>4, FS_EmptySet, FeedAssumption
  <2> QED
    BY <1>1, <2>5
<1> QED
  BY <1>1, <1>5, <1>6

\* The last place of a page is that of one of its turns, and ahead of the others.
LEMMA LastPlaceIs ==
    ASSUME StoreIsTyped, NEW page, page \subseteq Stored, page # {}
    PROVE  \E t \in page : /\ LastPlace(page) = Place(t)
                           /\ \A u \in page \ {t} : Ahead(Place(t), Place(u))
<1> DEFINE later(t) == {u \in page : Ahead(Place(u), Place(t))}
           Sizes == {Cardinality(later(t)) : t \in page}
<1>1. \A t \in page : t \in Turns /\ Place(t) \in Places
  BY RowIs, StoredIs
<1>2. IsFiniteSet(page)
  BY StoredIs, FS_Subset
<1>3. \A t \in page : IsFiniteSet(later(t)) /\ Cardinality(later(t)) \in Nat
  BY <1>2, FS_Subset, FS_CardinalityType
<1>4. Sizes \subseteq Nat /\ Sizes # {}
  BY <1>3
<1>5. PICK m \in Sizes : \A y \in Sizes : m <= y
  BY <1>4, LeastOf
<1>6. PICK t \in page : Cardinality(later(t)) = m
  OBVIOUS
<1>7. later(t) = {}
  <2> SUFFICES ASSUME NEW u \in later(t) PROVE FALSE
    OBVIOUS
  <2>1. later(u) \subseteq later(t) \ {u}
    BY <1>1, AheadIsOrder
  <2>2. Cardinality(later(u)) <= Cardinality(later(t) \ {u})
    BY <1>3, <2>1, FS_RemoveElement, FS_Subset
  <2>3. Cardinality(later(t) \ {u}) = Cardinality(later(t)) - 1
    BY <1>3, FS_RemoveElement
  <2>4. Cardinality(later(u)) \in Sizes
    OBVIOUS
  <2>5. m <= Cardinality(later(u)) /\ m \in Nat /\ Cardinality(later(u)) \in Nat
    BY <1>3, <1>4, <1>5, <2>4
  <2> QED
    BY <1>6, <2>2, <2>3, <2>5
<1>8. \A u \in page \ {t} : Ahead(Place(t), Place(u))
  BY <1>7, StoredIs
<1> DEFINE last == CHOOSE x \in page : \A u \in page \ {x} : Ahead(Place(x), Place(u))
<1>9. last \in page /\ \A u \in page \ {last} : Ahead(Place(last), Place(u))
  BY <1>8
<1>10. LastPlace(page) = Place(last)
  BY DEF LastPlace
<1> QED
  BY <1>9, <1>10

\* The greatest sequence of some rows is 0 when there are none, and one of theirs else.
LEMMA HighOf ==
    ASSUME NEW J, NEW L \in Nat, \A j \in J : j.seq \in 1 .. L,
           NEW h, h = Max({0} \cup {j.seq : j \in J})
    PROVE  /\ h \in 0 .. L
           /\ \A j \in J : j.seq <= h
           /\ h = 0 \/ \E j \in J : j.seq = h
<1> DEFINE S == {0} \cup {j.seq : j \in J}
<1>1. S \subseteq Nat /\ S # {} /\ \A y \in S : y <= L
  OBVIOUS
<1>2. h \in S /\ \A y \in S : y <= h
  BY <1>1, MaxIsGreatest
<1>3. \A j \in J : j.seq \in S
  OBVIOUS
<1>4. h = 0 \/ \E j \in J : j.seq = h
  BY <1>2
<1>5. h \in 0 .. L
  BY <1>1, <1>2
<1> HIDE DEF S
<1> QED
  BY <1>2, <1>3, <1>4, <1>5

\* The checkpoint of a batch lies between the watermark and the end of the journal.
LEMMA LesserOf ==
    ASSUME NEW a \in Nat, NEW b \in Nat
    PROVE  Min({a, b}) \in {a, b} /\ Min({a, b}) <= a /\ Min({a, b}) <= b
<1>1. \E x \in {a, b} : \A y \in {a, b} : x <= y
  <2>1. CASE a <= b
    BY <2>1
  <2>2. CASE b <= a
    BY <2>2
  <2> QED
    BY <2>1, <2>2
<1> DEFINE m == Min({a, b})
<1>2. m \in {a, b} /\ \A y \in {a, b} : m <= y
  BY <1>1 DEF Min
<1>3. a \in {a, b} /\ b \in {a, b}
  OBVIOUS
<1>4. m <= a /\ m <= b
  BY <1>2, <1>3
<1> QED
  BY <1>2, <1>4

\* The end of the journal, which is finite.
LEMMA JournalIs ==
    ASSUME StoreIsTyped
    PROVE  /\ IsFiniteSet(journal)
           /\ JournalHigh \in 0 .. lastSeq
           /\ \A j \in journal : j.seq <= JournalHigh /\ j.seq \in 1 .. lastSeq /\ j.turn \in Turns
           /\ JournalHigh = 0 \/ \E j \in journal : j.seq = JournalHigh
<1>1. \A j \in journal : j.seq \in 1 .. lastSeq /\ j.turn \in Turns
  BY DEF StoreIsTyped
<1>2. lastSeq \in Nat
  BY DEF StoreIsTyped
<1> DEFINE f == [j \in journal |-> j.seq]
<1>3. f \in Injection(journal, 1 .. lastSeq)
  BY <1>1 DEF Injection, IsInjective, StoreIsTyped
<1>4. IsFiniteSet(journal)
  BY <1>2, <1>3, FS_Interval, FS_Injection
<1> QED
  BY <1>1, <1>2, <1>4, HighOf DEF JournalHigh

\* A page of changes is the beginning of what is left, and not empty unless nothing is.
LEMMA ChangesArePrefix ==
    ASSUME StoreIsTyped, NEW left, left \subseteq journal, NEW page \in ChangePages(left)
    PROVE  /\ page \subseteq left
           /\ \A j \in page, k \in left \ page : j.seq < k.seq
           /\ page = {} => left = {}
<1> DEFINE before(j) == {k \in left : k.seq < j.seq}
<1>1. PICK n \in 1 .. Limit : page = {j \in left : Cardinality(before(j)) < n}
  BY DEF ChangePages
<1>2. /\ \A j \in left : j.seq \in Nat
      /\ \A j, k \in left : j.seq = k.seq => j = k
  BY JournalIs DEF StoreIsTyped
<1>3. \A j \in left : IsFiniteSet(before(j)) /\ Cardinality(before(j)) \in Nat
  BY JournalIs, FS_Subset, FS_CardinalityType
<1>4. ASSUME NEW j \in page, NEW k \in left \ page PROVE j.seq < k.seq
  <2> SUFFICES ASSUME ~(j.seq < k.seq) PROVE FALSE
    OBVIOUS
  <2>1. j \in left
    BY <1>1
  <2>2. before(k) \subseteq before(j)
    BY <1>2, <2>1
  <2>3. Cardinality(before(k)) <= Cardinality(before(j))
    BY <1>3, <2>1, <2>2, FS_Subset
  <2>4. Cardinality(before(j)) < n /\ ~(Cardinality(before(k)) < n)
    BY <1>1
  <2> HIDE DEF before
  <2> QED
    BY <1>3, <2>1, <2>3, <2>4, FeedAssumption
<1>5. ASSUME left # {} PROVE page # {}
  <2> DEFINE Seqs == {j.seq : j \in left}
  <2>0. Seqs \subseteq Nat /\ Seqs # {}
    BY <1>2, <1>5
  <2>1. PICK m \in Seqs : \A y \in Seqs : m <= y
    BY <2>0, LeastOf
  <2>2. PICK j \in left : j.seq = m
    OBVIOUS
  <2>3. before(j) = {}
    BY <1>2, <2>1, <2>2
  <2>4. Cardinality(before(j)) = 0
    BY <2>3, FS_EmptySet
  <2>5. Cardinality(before(j)) < n
    BY <2>4, FeedAssumption
  <2> QED
    BY <1>1, <2>5
<1> QED
  BY <1>1, <1>4, <1>5

\* Of the rows of a turn up to a checkpoint there is a last one.
LEMMA LastRowIs ==
    ASSUME StoreIsTyped, NEW j \in journal, NEW high \in Nat, j.seq <= high
    PROVE  \E k \in journal : /\ k.turn = j.turn /\ k.seq <= high /\ j.seq <= k.seq
                              /\ \A i \in journal : i.turn = j.turn /\ i.seq <= high
                                                        => i.seq <= k.seq
<1> DEFINE R == {k \in journal : k.turn = j.turn /\ k.seq <= high}
           S == {k.seq : k \in R}
<1>1. S \subseteq Nat /\ j \in R /\ \A y \in S : y <= high
  BY JournalIs
<1>2. Max(S) \in S /\ \A y \in S : y <= Max(S)
  BY <1>1, MaxIsGreatest
<1>3. PICK k \in R : k.seq = Max(S)
  BY <1>2
<1> QED
  BY <1>1, <1>2, <1>3

-----------------------------------------------------------------------------
(* Writers.                                                                *)

\* What a write can do to a turn: nothing, something that the journal has a row of
\* after all others, or the removal of a turn that no projection shows.
Told(t) ==
    \/ turns'[t] = turns[t]
    \/ lastSeq' = lastSeq + 1 /\ [seq |-> lastSeq + 1, turn |-> t] \in journal'
    \/ turns'[t] = Absent /\ ~turns[t].shown

\* What the delta client relies on: the writers tell of every change, only rows below
\* the floor leave the journal, and its last row stays.
WritesAreTold ==
    /\ client = "delta" => \A t \in Turns : Told(t)
    /\ \A j \in journal : j \in journal' \/ j.seq <= floor'
    /\ floor <= floor'
    /\ lastSeq <= lastSeq' /\ inserted <= inserted'
    /\ JournalHigh <= JournalHigh'

\* A row that is added to the journal.
LEMMA JournaledIs ==
    ASSUME StoreIsTyped, NEW t \in Turns, Journaled(t), floor' = floor
    PROVE  /\ lastSeq' = lastSeq + 1 /\ lastSeq' \in Nat
           /\ journal \subseteq journal'
           /\ journal' \subseteq [seq : 1 .. lastSeq', turn : Turns]
           /\ \A j, k \in journal' : j.seq = k.seq => j = k
           /\ floor' \in 0 .. lastSeq'
           /\ JournalHigh <= JournalHigh'
           /\ client = "delta" => [seq |-> lastSeq + 1, turn |-> t] \in journal'
<1> DEFINE new == [seq |-> lastSeq + 1, turn |-> t]
<1>1. lastSeq' = lastSeq + 1 /\ lastSeq \in Nat /\ floor \in 0 .. lastSeq
  BY DEF Journaled, StoreIsTyped
<1>2. journal' = journal \/ journal' = journal \cup {new}
  BY DEF Journaled
<1>3. client = "delta" => new \in journal'
  BY DEF Journaled
<1>4. \A j \in journal : j \in [seq : 1 .. lastSeq', turn : Turns] /\ j.seq \in 1 .. lastSeq
  BY <1>1 DEF StoreIsTyped
<1>5. new \in [seq : 1 .. lastSeq', turn : Turns] /\ new.seq = lastSeq + 1
  BY <1>1
<1>6. journal' \subseteq [seq : 1 .. lastSeq', turn : Turns]
  BY <1>2, <1>4, <1>5
<1>7. ASSUME NEW j \in journal', NEW k \in journal', j.seq = k.seq PROVE j = k
  <2>1. j \in journal \/ j = new
    BY <1>2
  <2>2. k \in journal \/ k = new
    BY <1>2
  <2>3. ASSUME j \in journal, k \in journal PROVE j = k
    BY <1>7, <2>3 DEF StoreIsTyped
  <2>4. ASSUME j \in journal PROVE j.seq # new.seq
    BY <1>1, <1>4, <1>5, <2>4
  <2>5. ASSUME k \in journal PROVE k.seq # new.seq
    BY <1>1, <1>4, <1>5, <2>5
  <2> HIDE DEF new
  <2> QED
    BY <1>7, <2>1, <2>2, <2>3, <2>4, <2>5
<1>8. JournalHigh <= JournalHigh'
  <2>1. JournalHigh' = Max({0} \cup {j.seq : j \in journal'})
    BY DEF JournalHigh
  <2>2. lastSeq' \in Nat /\ \A j \in journal' : j.seq \in 1 .. lastSeq'
    BY <1>1, <1>6
  <2>3. JournalHigh' \in 0 .. lastSeq' /\ \A j \in journal' : j.seq <= JournalHigh'
    BY <2>1, <2>2, HighOf
  <2>4. JournalHigh = 0 \/ \E j \in journal : j.seq = JournalHigh
    BY JournalIs
  <2> QED
    BY <1>2, <2>3, <2>4
<1> QED
  BY <1>1, <1>2, <1>3, <1>6, <1>7, <1>8

\* Compaction keeps the last row.
LEMMA CompactIs ==
    ASSUME StoreIsTyped, Compact
    PROVE  StoreIsTyped' /\ WritesAreTold
<1>1. PICK n \in 1 .. BatchSize :
          LET old == journal \ Protected
              batch == {j \in old : Cardinality({k \in old : k.seq < j.seq}) < n}
          IN  /\ journal' = journal \ batch
              /\ floor' = Max({floor} \cup {j.seq : j \in batch})
              /\ UNCHANGED <<turns, inserted, lastSeq, client, delta, list>>
  BY DEF Compact
<1> DEFINE old == journal \ Protected
           batch == {j \in old : Cardinality({k \in old : k.seq < j.seq}) < n}
<1>2. /\ journal' = journal \ batch /\ batch \subseteq old
      /\ floor' = Max({floor} \cup {j.seq : j \in batch})
      /\ turns' = turns /\ inserted' = inserted /\ lastSeq' = lastSeq
  BY <1>1
<1> HIDE DEF batch
<1>3. lastSeq \in Nat /\ inserted \in Nat /\ floor \in 0 .. lastSeq
  BY DEF StoreIsTyped
<1>4. floor' \in 0 .. lastSeq /\ floor <= floor' /\ \A j \in batch : j.seq <= floor'
  <2> DEFINE S == {floor} \cup {j.seq : j \in batch}
  <2>1. \A j \in batch : j.seq \in 1 .. lastSeq
    BY <1>2, JournalIs
  <2>2. S \subseteq Nat /\ S # {} /\ \A y \in S : y <= lastSeq
    BY <1>3, <2>1
  <2>3. floor' \in S /\ \A y \in S : y <= floor'
    BY <1>2, <1>3, <2>2, MaxIsGreatest
  <2>4. floor \in S /\ \A j \in batch : j.seq \in S
    OBVIOUS
  <2>5. floor' \in Nat /\ floor' <= lastSeq
    BY <2>2, <2>3
  <2>6. \A j \in batch : j.seq <= floor'
    BY <2>3, <2>4
  <2>7. floor <= floor'
    BY <2>3, <2>4
  <2>8. floor' \in 0 .. lastSeq
    BY <1>3, <2>5
  <2> QED
    BY <2>6, <2>7, <2>8
<1>5. JournalHigh <= JournalHigh'
  <2>1. JournalHigh' = Max({0} \cup {j.seq : j \in journal'})
    BY DEF JournalHigh
  <2>2. \A j \in journal' : j.seq \in 1 .. lastSeq
    BY <1>2, JournalIs
  <2>3. JournalHigh' \in 0 .. lastSeq /\ \A j \in journal' : j.seq <= JournalHigh'
    BY <1>3, <2>1, <2>2, HighOf
  <2>4. ASSUME NEW j \in journal, j.seq = JournalHigh PROVE j \in journal'
    <3>1. {k \in journal : k.seq > j.seq} = {}
      BY <2>4, JournalIs
    <3>2. Cardinality({k \in journal : k.seq > j.seq}) = 0
      BY <3>1, FS_EmptySet
    <3>3. Cardinality({k \in journal : k.seq > j.seq}) < KeepCount
      BY <3>2, FeedAssumption
    <3>4. j \in Protected
      BY <3>3 DEF Protected
    <3> QED
      BY <1>2, <3>4
  <2>5. JournalHigh = 0 \/ \E j \in journal : j.seq = JournalHigh
    BY JournalIs
  <2> QED
    BY <2>3, <2>4, <2>5
<1>6. StoreIsTyped'
  BY <1>2, <1>4 DEF StoreIsTyped, Stored
<1>7. \A t \in Turns : Told(t)
  BY <1>2 DEF Told
<1>8. \A j \in journal : j \in journal' \/ j.seq <= floor'
  BY <1>2, <1>4
<1> QED
  BY <1>2, <1>3, <1>4, <1>5, <1>6, <1>7, <1>8 DEF WritesAreTold

\* Only one turn's row changes, and the rows stay well-formed.
LEMMA RowsStayTyped ==
    ASSUME StoreIsTyped, NEW t \in Turns, NEW r \in Row \cup {Absent},
           turns' = [turns EXCEPT ![t] = r],
           inserted' \in Nat, inserted <= inserted',
           \/ r = Absent
           \/ r.seq = turns[t].seq /\ t \in Stored
           \/ r.seq = inserted + 1 /\ inserted' = inserted + 1
    PROVE  /\ turns' \in [Turns -> Row \cup {Absent}]
           /\ \A u \in Stored' : turns'[u].seq \in 1 .. inserted'
           /\ \A u, v \in Stored' : u # v => turns'[u].seq # turns'[v].seq
           /\ \A u \in Turns \ {t} : turns'[u] = turns[u]
           /\ turns'[t] = r
<1>1. turns \in [Turns -> Row \cup {Absent}] /\ inserted \in Nat
  BY DEF StoreIsTyped
<1>2. turns'[t] = r /\ \A u \in Turns \ {t} : turns'[u] = turns[u]
  BY <1>1
<1>3. turns' \in [Turns -> Row \cup {Absent}]
  BY <1>1
<1>4. \A u \in Stored' : u \in Turns /\ turns'[u] # Absent
  BY DEF Stored
<1>5. \A u \in Stored' \ {t} : u \in Stored /\ turns'[u] = turns[u]
  BY <1>2, <1>4 DEF Stored
<1>6. \A u \in Stored : turns[u].seq \in 1 .. inserted
  BY DEF StoreIsTyped
<1>7. t \in Stored' => turns'[t].seq \in 1 .. inserted'
  BY <1>1, <1>2, <1>4, <1>6
<1>8. \A u \in Stored' : turns'[u].seq \in 1 .. inserted'
  BY <1>1, <1>5, <1>6, <1>7
<1>9. ASSUME NEW u \in Stored', u # t, t \in Stored' PROVE turns'[u].seq # turns'[t].seq
  <2>1. u \in Stored /\ turns'[u] = turns[u]
    BY <1>5, <1>9
  <2>2. CASE r.seq = turns[t].seq /\ t \in Stored
    BY <1>2, <1>9, <2>1, <2>2 DEF StoreIsTyped
  <2>3. CASE r.seq = inserted + 1
    BY <1>1, <1>2, <1>6, <2>1, <2>3
  <2> QED
    BY <1>2, <1>4, <1>9, <2>2, <2>3
<1>10. ASSUME NEW u \in Stored', NEW v \in Stored', u # v
       PROVE  turns'[u].seq # turns'[v].seq
  <2>1. CASE u = t
    BY <1>9, <1>10, <2>1
  <2>2. CASE v = t
    BY <1>9, <1>10, <2>2
  <2>3. CASE u # t /\ v # t
    <3>1. u \in Stored /\ v \in Stored /\ turns'[u] = turns[u] /\ turns'[v] = turns[v]
      BY <1>5, <2>3
    <3> QED
      BY <1>10, <3>1 DEF StoreIsTyped
  <2> QED
    BY <2>1, <2>2, <2>3
<1> QED
  BY <1>2, <1>3, <1>8, <1>10

\* An insertion.
LEMMA InsertIs ==
    ASSUME StoreIsTyped, NEW t \in Turns, Insert(t)
    PROVE  /\ StoreIsTyped' /\ WritesAreTold
           /\ turns[t] = Absent /\ turns'[t].seq = inserted + 1
           /\ \A u \in Turns \ {t} : turns'[u] = turns[u]
<1>1. PICK w \in Workers, shown \in BOOLEAN :
          turns' = [turns EXCEPT ![t] = [seq |-> inserted + 1, worker |-> w,
                                         shown |-> shown]]
  BY DEF Insert, NextSequence
<1> DEFINE r == [seq |-> inserted + 1, worker |-> w, shown |-> shown]
<1>2. turns[t] = Absent /\ inserted' = inserted + 1 /\ Journaled(t) /\ floor' = floor
  BY DEF Insert
<1>3. inserted \in Nat /\ inserted' \in Nat /\ inserted <= inserted' /\ lastSeq \in Nat
  BY <1>2 DEF StoreIsTyped
<1>4. r \in Row /\ r.seq = inserted + 1
  BY <1>3 DEF Row
<1>5. turns' = [turns EXCEPT ![t] = r]
  BY <1>1
<1> HIDE DEF r
<1>6. /\ turns' \in [Turns -> Row \cup {Absent}]
      /\ \A u \in Stored' : turns'[u].seq \in 1 .. inserted'
      /\ \A u, v \in Stored' : u # v => turns'[u].seq # turns'[v].seq
      /\ \A u \in Turns \ {t} : turns'[u] = turns[u]
      /\ turns'[t] = r
  BY <1>2, <1>3, <1>4, <1>5, RowsStayTyped
<1>7. /\ lastSeq' = lastSeq + 1 /\ lastSeq' \in Nat
      /\ journal \subseteq journal'
      /\ journal' \subseteq [seq : 1 .. lastSeq', turn : Turns]
      /\ \A j, k \in journal' : j.seq = k.seq => j = k
      /\ floor' \in 0 .. lastSeq'
      /\ JournalHigh <= JournalHigh'
      /\ client = "delta" => [seq |-> lastSeq + 1, turn |-> t] \in journal'
  BY <1>2, JournaledIs
<1>8. StoreIsTyped'
  BY <1>3, <1>6, <1>7 DEF StoreIsTyped
<1>9. client = "delta" => \A u \in Turns : Told(u)
  BY <1>6, <1>7 DEF Told
<1>10. floor <= floor' /\ lastSeq <= lastSeq'
  BY <1>2, <1>3, <1>7 DEF StoreIsTyped
<1>11. WritesAreTold
  BY <1>3, <1>7, <1>9, <1>10 DEF WritesAreTold
<1> QED
  BY <1>2, <1>4, <1>6, <1>8, <1>11

\* An update in place.
LEMMA UpdateIs ==
    ASSUME StoreIsTyped, NEW t \in Turns, Update(t)
    PROVE  /\ StoreIsTyped' /\ WritesAreTold
           /\ \A u \in Turns \ {t} : turns'[u] = turns[u]
           /\ turns' \in [Turns -> Row \cup {Absent}]
<1>1. PICK w \in Workers, shown \in BOOLEAN :
          turns' = [turns EXCEPT ![t].worker = w, ![t].shown = shown]
  BY DEF Update
<1> DEFINE r == [turns[t] EXCEPT !.worker = w, !.shown = shown]
<1>2. t \in Stored /\ inserted' = inserted /\ Journaled(t) /\ floor' = floor
  BY DEF Update
<1>3. inserted \in Nat /\ inserted' \in Nat /\ inserted <= inserted' /\ lastSeq \in Nat
  BY <1>2 DEF StoreIsTyped
<1>4. turns \in [Turns -> Row \cup {Absent}] /\ turns[t] \in Row
  BY <1>2, RowIs DEF StoreIsTyped
<1>5. r \in Row /\ r \in Row \cup {Absent} /\ r.seq = turns[t].seq
  BY <1>4 DEF Row
<1>6. turns' = [turns EXCEPT ![t] = r]
  BY <1>1, <1>4
<1> HIDE DEF r
<1>7. /\ turns' \in [Turns -> Row \cup {Absent}]
      /\ \A u \in Stored' : turns'[u].seq \in 1 .. inserted'
      /\ \A u, v \in Stored' : u # v => turns'[u].seq # turns'[v].seq
      /\ \A u \in Turns \ {t} : turns'[u] = turns[u]
      /\ turns'[t] = r
  BY <1>2, <1>3, <1>5, <1>6, RowsStayTyped
<1>8. /\ lastSeq' = lastSeq + 1 /\ lastSeq' \in Nat
      /\ journal \subseteq journal'
      /\ journal' \subseteq [seq : 1 .. lastSeq', turn : Turns]
      /\ \A j, k \in journal' : j.seq = k.seq => j = k
      /\ floor' \in 0 .. lastSeq'
      /\ JournalHigh <= JournalHigh'
      /\ client = "delta" => [seq |-> lastSeq + 1, turn |-> t] \in journal'
  BY <1>2, JournaledIs
<1>9. StoreIsTyped'
  BY <1>3, <1>7, <1>8 DEF StoreIsTyped
<1>10. client = "delta" => \A u \in Turns : Told(u)
  BY <1>7, <1>8 DEF Told
<1>11. floor <= floor' /\ lastSeq <= lastSeq'
  BY <1>2, <1>3, <1>8 DEF StoreIsTyped
<1>12. WritesAreTold
  BY <1>3, <1>8, <1>10, <1>11 DEF WritesAreTold
<1> QED
  BY <1>7, <1>9, <1>12

\* A removal.
LEMMA DeleteIs ==
    ASSUME StoreIsTyped, NEW t \in Turns, Delete(t)
    PROVE  /\ StoreIsTyped' /\ WritesAreTold
           /\ turns'[t] = Absent
           /\ \A u \in Turns \ {t} : turns'[u] = turns[u]
<1>1. /\ turns' = [turns EXCEPT ![t] = Absent]
      /\ inserted' = inserted /\ floor' = floor /\ Removal(t)
  BY DEF Delete
<1>2. inserted \in Nat /\ inserted' \in Nat /\ inserted <= inserted' /\ lastSeq \in Nat
  BY <1>1 DEF StoreIsTyped
<1>3. /\ turns' \in [Turns -> Row \cup {Absent}]
      /\ \A u \in Stored' : turns'[u].seq \in 1 .. inserted'
      /\ \A u, v \in Stored' : u # v => turns'[u].seq # turns'[v].seq
      /\ \A u \in Turns \ {t} : turns'[u] = turns[u]
      /\ turns'[t] = Absent
  <2>1. Absent \in Row \cup {Absent}
    OBVIOUS
  <2> QED
    BY <1>1, <1>2, <2>1, RowsStayTyped
<1>4. ASSUME Journaled(t) PROVE StoreIsTyped' /\ WritesAreTold
  <2>1. /\ lastSeq' = lastSeq + 1 /\ lastSeq' \in Nat
        /\ journal \subseteq journal'
        /\ journal' \subseteq [seq : 1 .. lastSeq', turn : Turns]
        /\ \A j, k \in journal' : j.seq = k.seq => j = k
        /\ floor' \in 0 .. lastSeq'
        /\ JournalHigh <= JournalHigh'
        /\ client = "delta" => [seq |-> lastSeq + 1, turn |-> t] \in journal'
    BY <1>1, <1>4, JournaledIs
  <2>2. StoreIsTyped'
    BY <1>2, <1>3, <2>1 DEF StoreIsTyped
  <2>3. client = "delta" => \A u \in Turns : Told(u)
    BY <1>3, <2>1 DEF Told
  <2>4. floor <= floor' /\ lastSeq <= lastSeq'
    BY <1>1, <1>2, <2>1 DEF StoreIsTyped
  <2> QED
    BY <1>2, <2>1, <2>2, <2>3, <2>4 DEF WritesAreTold
<1>5. ASSUME ~turns[t].shown, journal' = journal, lastSeq' = lastSeq
      PROVE  StoreIsTyped' /\ WritesAreTold
  <2>1. StoreIsTyped'
    BY <1>1, <1>2, <1>3, <1>5 DEF StoreIsTyped
  <2>2. \A u \in Turns : Told(u)
    BY <1>3, <1>5 DEF Told
  <2>3. JournalHigh' = JournalHigh /\ JournalHigh \in Nat
    BY <1>5, JournalIs DEF JournalHigh
  <2>4. JournalHigh <= JournalHigh' /\ lastSeq <= lastSeq' /\ floor <= floor'
    BY <1>1, <1>2, <1>5, <2>3 DEF StoreIsTyped
  <2> QED
    BY <1>2, <1>5, <2>1, <2>2, <2>4 DEF WritesAreTold
<1> QED
  BY <1>1, <1>3, <1>4, <1>5 DEF Removal

\* A write of another host.
LEMMA OtherHostIs ==
    ASSUME StoreIsTyped, OtherHost
    PROVE  StoreIsTyped' /\ WritesAreTold
<1>1. lastSeq' = lastSeq + 1 /\ UNCHANGED <<turns, inserted, journal, floor>>
  BY DEF OtherHost
<1>2. lastSeq \in Nat /\ inserted \in Nat /\ floor \in 0 .. lastSeq
  BY DEF StoreIsTyped
<1>3. journal \subseteq [seq : 1 .. lastSeq, turn : Turns]
  BY DEF StoreIsTyped
<1>4. journal' \subseteq [seq : 1 .. lastSeq', turn : Turns]
  BY <1>1, <1>2, <1>3
<1>5. lastSeq' \in Nat /\ floor' \in 0 .. lastSeq' /\ lastSeq <= lastSeq' /\ floor <= floor'
      /\ inserted <= inserted'
  BY <1>1, <1>2
<1>6. StoreIsTyped'
  BY <1>1, <1>4, <1>5 DEF StoreIsTyped, Stored
<1>7. JournalHigh' = JournalHigh /\ JournalHigh \in Nat
  BY <1>1, JournalIs DEF JournalHigh
<1>8. \A t \in Turns : Told(t)
  BY <1>1 DEF Told
<1> QED
  BY <1>1, <1>5, <1>6, <1>7, <1>8 DEF WritesAreTold

\* Whatever is written, the delta client is told.
LEMMA WriteIs ==
    ASSUME StoreIsTyped, Write
    PROVE  StoreIsTyped' /\ WritesAreTold /\ UNCHANGED <<client, delta>>
<1>1. ASSUME NEW t \in Turns, Insert(t)
      PROVE  StoreIsTyped' /\ WritesAreTold /\ UNCHANGED <<client, delta>>
  BY <1>1, InsertIs DEF Insert
<1>2. ASSUME NEW t \in Turns, Update(t)
      PROVE  StoreIsTyped' /\ WritesAreTold /\ UNCHANGED <<client, delta>>
  BY <1>2, UpdateIs DEF Update
<1>3. ASSUME NEW t \in Turns, Delete(t)
      PROVE  StoreIsTyped' /\ WritesAreTold /\ UNCHANGED <<client, delta>>
  BY <1>3, DeleteIs DEF Delete
<1>4. ASSUME OtherHost PROVE StoreIsTyped' /\ WritesAreTold /\ UNCHANGED <<client, delta>>
  BY <1>4, OtherHostIs DEF OtherHost
<1>5. ASSUME Compact PROVE StoreIsTyped' /\ WritesAreTold /\ UNCHANGED <<client, delta>>
  BY <1>5, CompactIs DEF Compact
<1> QED
  BY <1>1, <1>2, <1>3, <1>4, <1>5 DEF Write, Turns

\* A row that is still to be reached stays, unless the token has expired.
LEMMA RowsRemain ==
    ASSUME StoreIsTyped, StoreIsTyped', WritesAreTold,
           NEW t \in Turns, NEW s \in Int, NEW m \in Int,
           m <= s, m >= floor', ChangedAfter(t, s)
    PROVE  ChangedAfter(t, s)'
<1>1. PICK j \in journal : j.turn = t /\ j.seq > s
  BY DEF ChangedAfter
<1>2. j.seq \in Nat /\ floor' \in Int
  BY JournalIs DEF StoreIsTyped
<1>3. j \in journal' \/ j.seq <= floor'
  BY DEF WritesAreTold
<1>4. j \in journal'
  BY <1>1, <1>2, <1>3
<1> QED
  BY <1>1, <1>4 DEF ChangedAfter

\* What a write does to one turn of the copy: it is as right as before, or there is a
\* row beyond s for it.
LEMMA WriteTellsOf ==
    ASSUME StoreIsTyped, StoreIsTyped', WritesAreTold, client = "delta",
           NEW t \in Turns, NEW s \in Int, s <= lastSeq
    PROVE  \/ turns'[t] = turns[t] /\ Public(t)' = Public(t) /\ Place(t)' = Place(t)
           \/ ChangedAfter(t, s)'
           \/ turns'[t].seq = 0 /\ Public(t) = Gone /\ Public(t)' = Gone
<1>1. Told(t)
  BY DEF WritesAreTold
<1>2. CASE turns'[t] = turns[t]
  BY <1>2 DEF Public, Place
<1>3. CASE lastSeq' = lastSeq + 1 /\ [seq |-> lastSeq + 1, turn |-> t] \in journal'
  <2> DEFINE j == [seq |-> lastSeq + 1, turn |-> t]
  <2>1. j \in journal' /\ j.turn = t /\ j.seq = lastSeq + 1 /\ lastSeq \in Nat
    BY <1>3 DEF StoreIsTyped
  <2>2. j.seq > s
    BY <2>1
  <2> HIDE DEF j
  <2> QED
    BY <2>1, <2>2 DEF ChangedAfter
<1>4. CASE turns'[t] = Absent /\ ~turns[t].shown
  <2>1. Absent.seq = 0 /\ Absent.shown = FALSE
    BY DEF Absent
  <2> QED
    BY <1>4, <2>1 DEF Public
<1> QED
  BY <1>1, <1>2, <1>3, <1>4 DEF Told

\* A write keeps what the delta client relies on.
LEMMA WriteKeepsDelta ==
    ASSUME DeltaInv, StoreIsTyped', WritesAreTold, UNCHANGED <<client, delta>>
    PROVE  DeltaInv'
<1>1. StoreIsTyped /\ DeltaIsTyped /\ TokensAgree /\ WatermarkIsKnown
      /\ DeltaIsComplete /\ NothingAhead
  BY DEF DeltaInv
<1>2. view' = view /\ mark' = mark /\ cursor' = cursor /\ client' = client
  BY DEF delta
<1>3. /\ lastSeq \in Nat /\ lastSeq' \in Nat /\ lastSeq <= lastSeq'
      /\ floor \in Nat /\ floor' \in Nat /\ floor <= floor'
      /\ inserted \in Nat /\ inserted' \in Nat /\ inserted <= inserted'
  BY <1>1 DEF StoreIsTyped, WritesAreTold
<1>4. /\ mark \in Int /\ mark <= lastSeq /\ cursor.high \in Nat /\ cursor.high <= lastSeq
      /\ cursor.at.seq \in Nat /\ cursor.accepted \in Nat /\ cursor.inserted \in Nat
  <2>1. cursor.high <= JournalHigh /\ JournalHigh \in Nat /\ JournalHigh <= lastSeq
    BY <1>1, JournalIs DEF WatermarkIsKnown
  <2>2. cursor.high \in Nat /\ cursor.at.seq \in Nat /\ cursor.accepted \in Nat
        /\ cursor.inserted \in Nat /\ mark \in Int /\ mark <= lastSeq
    BY <1>1, <1>3 DEF DeltaIsTyped, Places, Cursors
  <2> QED
    BY <1>3, <2>1, <2>2
<1>5. DeltaIsTyped'
  BY <1>1, <1>2, <1>3 DEF DeltaIsTyped
<1>6. TokensAgree'
  BY <1>1, <1>2, <1>3, <1>4 DEF TokensAgree
<1>7. WatermarkIsKnown'
  <2>1. mark <= JournalHigh /\ cursor.high <= JournalHigh /\ JournalHigh \in Nat
    BY <1>1, JournalIs DEF WatermarkIsKnown
  <2>2. JournalHigh' \in Nat /\ JournalHigh <= JournalHigh'
    <3>1. \A j \in journal' : j.seq \in 1 .. lastSeq'
      BY DEF StoreIsTyped
    <3>2. JournalHigh' = Max({0} \cup {j.seq : j \in journal'})
      BY DEF JournalHigh
    <3>3. JournalHigh' \in 0 .. lastSeq'
      BY <1>3, <3>1, <3>2, HighOf
    <3> QED
      BY <1>3, <3>3 DEF WritesAreTold
  <2>3. mark <= JournalHigh' /\ cursor.high <= JournalHigh'
    BY <1>4, <2>1, <2>2
  <2> QED
    BY <1>2, <2>3 DEF WatermarkIsKnown
<1>8. client = "list" => cursor = NoCursor /\ mark = -1
  BY <1>1 DEF TokensAgree
<1>9. client \in {"delta", "list"}
  BY <1>1 DEF DeltaIsTyped
<1>10. ASSUME cursor = NoCursor, mark >= floor', NEW t \in Turns
       PROVE  view[t] = Public(t)' \/ ChangedAfter(t, mark)'
  <2>1. client = "delta"
    BY <1>3, <1>8, <1>9, <1>10
  <2>2. view[t] = Public(t) \/ ChangedAfter(t, mark)
    BY <1>1, <1>3, <1>4, <1>10 DEF DeltaIsComplete
  <2>3. ASSUME ChangedAfter(t, mark) PROVE ChangedAfter(t, mark)'
    BY <1>1, <1>2, <1>4, <1>10, <2>3, RowsRemain
  <2>4. Public(t)' = Public(t) \/ ChangedAfter(t, mark)'
    BY <1>1, <1>2, <1>4, <2>1, WriteTellsOf
  <2> QED
    BY <2>2, <2>3, <2>4
<1>11. ASSUME cursor.mode = "changes", cursor.accepted >= floor', NEW t \in Turns
       PROVE  view[t] = Public(t)' \/ ChangedAfter(t, cursor.at.seq)'
  <2>1. client = "delta"
    BY <1>8, <1>9, <1>11 DEF NoCursor
  <2>2. mark = cursor.accepted /\ mark < cursor.at.seq /\ cursor.at.seq <= cursor.high
    BY <1>1, <1>11 DEF TokensAgree
  <2>3. view[t] = Public(t) \/ ChangedAfter(t, cursor.at.seq)
    BY <1>1, <1>3, <1>4, <1>11 DEF DeltaIsComplete
  <2>4. cursor.at.seq \in Int /\ cursor.at.seq <= lastSeq /\ cursor.accepted <= cursor.at.seq
    BY <1>3, <1>4, <2>2
  <2>5. ASSUME ChangedAfter(t, cursor.at.seq) PROVE ChangedAfter(t, cursor.at.seq)'
    BY <1>1, <1>2, <1>4, <1>11, <2>4, <2>5, RowsRemain
  <2>6. Public(t)' = Public(t) \/ ChangedAfter(t, cursor.at.seq)'
    BY <1>1, <1>2, <2>1, <2>4, WriteTellsOf
  <2> QED
    BY <2>3, <2>5, <2>6
<1>12. ASSUME cursor.mode = "bootstrap", cursor.high >= floor', NEW t \in Turns
       PROVE  /\ view[t] = Public(t)' \/ ChangedAfter(t, cursor.high)' \/ IsAhead(cursor, t)'
              /\ IsAhead(cursor, t)' => view[t] = Gone \/ ChangedAfter(t, cursor.high)'
  <2>1. client = "delta"
    BY <1>8, <1>9, <1>12 DEF NoCursor
  <2>2. view[t] = Public(t) \/ ChangedAfter(t, cursor.high) \/ IsAhead(cursor, t)
    BY <1>1, <1>3, <1>4, <1>12 DEF DeltaIsComplete, IsAhead
  <2>3. IsAhead(cursor, t) => view[t] = Gone \/ ChangedAfter(t, cursor.high)
    BY <1>1, <1>3, <1>4, <1>12 DEF NothingAhead
  <2>4. ASSUME ChangedAfter(t, cursor.high) PROVE ChangedAfter(t, cursor.high)'
    BY <1>1, <1>2, <1>4, <1>12, <2>4, RowsRemain
  <2>5. \/ turns'[t] = turns[t] /\ Public(t)' = Public(t) /\ Place(t)' = Place(t)
        \/ ChangedAfter(t, cursor.high)'
        \/ turns'[t].seq = 0 /\ Public(t) = Gone /\ Public(t)' = Gone
    BY <1>1, <1>2, <1>4, <2>1, WriteTellsOf
  <2>6. CASE turns'[t] = turns[t] /\ Public(t)' = Public(t) /\ Place(t)' = Place(t)
    <3>1. IsAhead(cursor, t)' <=> IsAhead(cursor, t)
      BY <1>2, <2>6 DEF IsAhead, Ahead
    <3> QED
      BY <2>2, <2>3, <2>4, <2>6, <3>1
  <2>7. CASE turns'[t].seq = 0 /\ Public(t) = Gone /\ Public(t)' = Gone
    <3>1. ~IsAhead(cursor, t)'
      BY <2>7 DEF IsAhead
    <3> QED
      BY <2>2, <2>3, <2>4, <2>7, <3>1
  <2> QED
    BY <2>5, <2>6, <2>7
<1>13. DeltaIsComplete'
  BY <1>2, <1>10, <1>11, <1>12 DEF DeltaIsComplete, IsAhead
<1>14. NothingAhead'
  BY <1>2, <1>12 DEF NothingAhead
<1> QED
  BY <1>5, <1>6, <1>7, <1>13, <1>14 DEF DeltaInv

-----------------------------------------------------------------------------
(* The delta client.                                                       *)

LEMMA TokensAreTyped ==
    /\ Start \in Places /\ Start.worker = 0 /\ Start.seq = 0
    /\ NoCursor \in Cursors /\ NoCursor.mode = "none" /\ NoCursor.high = 0
    /\ NoCursor.accepted = 0 /\ NoCursor.inserted = 0 /\ NoCursor.at = Start
    /\ NoCopy \in [Turns -> Workers \cup {Gone}] /\ \A t \in Turns : NoCopy[t] = Gone
<1>1. Start \in Places /\ Start.worker = 0 /\ Start.seq = 0
  BY DEF Start, Places
<1>2. NoCursor \in Cursors /\ NoCursor.mode = "none" /\ NoCursor.high = 0
      /\ NoCursor.accepted = 0 /\ NoCursor.inserted = 0 /\ NoCursor.at = Start
  BY <1>1 DEF NoCursor, Cursors
<1>3. NoCopy \in [Turns -> Workers \cup {Gone}] /\ \A t \in Turns : NoCopy[t] = Gone
  BY DEF NoCopy, Gone
<1> QED
  BY <1>1, <1>2, <1>3

\* Reading changes nothing of what is stored.
LEMMA ReadingChangesNothing ==
    ASSUME StoreIsTyped, UNCHANGED <<store, client>>
    PROVE  /\ StoreIsTyped' /\ JournalHigh' = JournalHigh /\ floor' = floor /\ lastSeq' = lastSeq
           /\ inserted' = inserted /\ client' = client /\ turns' = turns /\ journal' = journal
           /\ \A t \in Turns : Public(t)' = Public(t) /\ Place(t)' = Place(t)
           /\ \A t \in Turns : \A s \in Int : ChangedAfter(t, s)' <=> ChangedAfter(t, s)
<1>1. UNCHANGED <<turns, inserted, journal, lastSeq, floor, client>>
  BY DEF store
<1>2. StoreIsTyped'
  BY <1>1 DEF StoreIsTyped, Stored
<1>3. JournalHigh' = JournalHigh
  BY <1>1 DEF JournalHigh
<1>4. \A t \in Turns : Public(t)' = Public(t) /\ Place(t)' = Place(t)
  BY <1>1 DEF Public, Place
<1>5. \A t \in Turns : \A s \in Int : ChangedAfter(t, s)' <=> ChangedAfter(t, s)
  BY <1>1 DEF ChangedAfter
<1> QED
  BY <1>1, <1>2, <1>3, <1>4, <1>5

\* What the copy lacks before a page of the bootstrap c.
CopyBefore(c) ==
    c.high >= floor =>
        \A t \in Turns :
            /\ view[t] = Public(t) \/ ChangedAfter(t, c.high) \/ IsAhead(c, t)
            /\ IsAhead(c, t) => view[t] = Gone \/ ChangedAfter(t, c.high)

\* A page of the bootstrap.
LEMMA BootstrapKeepsDelta ==
    ASSUME StoreIsTyped, DeltaIsTyped, UNCHANGED <<store, client>>, client = "delta", mark = -1,
           NEW c \in Cursors, c.mode = "bootstrap", c.high <= JournalHigh,
           c.inserted <= inserted, CopyBefore(c), BootstrapPage(c)
    PROVE  DeltaInv'
<1> DEFINE left == {t \in Stored : turns[t].seq <= c.inserted /\ Ahead(Place(t), c.at)}
<1>1. PICK page \in TurnPages(left) :
          /\ view' = [t \in Turns |-> IF t \in page /\ Public(t) # Gone THEN Public(t)
                                      ELSE view[t]]
          /\ IF page = left
             THEN cursor' = NoCursor /\ mark' = Frozen(c)
             ELSE cursor' = [c EXCEPT !.at = LastPlace(page)] /\ UNCHANGED mark
  BY DEF BootstrapPage
<1>2. /\ StoreIsTyped' /\ JournalHigh' = JournalHigh /\ floor' = floor /\ lastSeq' = lastSeq
      /\ inserted' = inserted /\ client' = client /\ turns' = turns /\ journal' = journal
      /\ \A t \in Turns : Public(t)' = Public(t) /\ Place(t)' = Place(t)
      /\ \A t \in Turns : \A s \in Int : ChangedAfter(t, s)' <=> ChangedAfter(t, s)
  BY ReadingChangesNothing
<1>3. /\ c.high \in Nat /\ c.inserted \in Nat /\ c.at \in Places /\ c.accepted \in Nat
      /\ JournalHigh \in Nat /\ JournalHigh <= lastSeq /\ lastSeq \in Nat /\ inserted \in Nat
      /\ floor \in Nat
  <2>1. JournalHigh \in 0 .. lastSeq /\ lastSeq \in Nat /\ inserted \in Nat /\ floor \in 0 .. lastSeq
    BY JournalIs DEF StoreIsTyped
  <2>2. c.high \in Nat /\ c.inserted \in Nat /\ c.at \in Places /\ c.accepted \in Nat
    BY DEF Cursors
  <2> QED
    BY <2>1, <2>2
<1>4. \A t \in Turns : t \in left <=> IsAhead(c, t)
  <2> SUFFICES ASSUME NEW t \in Turns PROVE t \in left <=> IsAhead(c, t)
    OBVIOUS
  <2>1. t \in Stored <=> turns[t].seq # 0
    BY RowIs
  <2>2. turns[t].seq \in Nat
    BY RowIs
  <2> QED
    BY <1>3, <2>1, <2>2 DEF IsAhead
<1>5. left \subseteq Stored
  OBVIOUS
<1> HIDE DEF left
<1>6. /\ page \subseteq left
      /\ \A t \in page, v \in left \ page : Ahead(Place(v), Place(t))
      /\ page = {} => left = {}
  BY <1>1, <1>5, PageIsPrefix
<1>7. view' \in [Turns -> Workers \cup {Gone}]
  <2>1. \A t \in Turns : Public(t) \in Workers \cup {Gone}
    BY RowIs
  <2>2. view \in [Turns -> Workers \cup {Gone}]
    BY DEF DeltaIsTyped
  <2> QED
    BY <1>1, <2>1, <2>2
\* On the page the copy is right, or there is nothing to be shown; off it, as before.
<1>8. ASSUME c.high >= floor, NEW t \in Turns
      PROVE  \/ view'[t] = Public(t)
             \/ ChangedAfter(t, c.high)
             \/ t \in left \ page /\ view'[t] = view[t]
  <2>1. view'[t] = IF t \in page /\ Public(t) # Gone THEN Public(t) ELSE view[t]
    BY <1>1
  <2>2. CASE t \in page
    <3>1. view[t] = Gone \/ ChangedAfter(t, c.high)
      BY <1>4, <1>6, <1>8, <2>2 DEF CopyBefore
    <3> QED
      BY <2>1, <2>2, <3>1
  <2>3. CASE t \notin page
    <3>1. view'[t] = view[t]
      BY <2>1, <2>3
    <3>2. view[t] = Public(t) \/ ChangedAfter(t, c.high) \/ t \in left
      BY <1>4, <1>8 DEF CopyBefore
    <3> QED
      BY <2>3, <3>1, <3>2
  <2> QED
    BY <2>2, <2>3
<1>9. ASSUME page = left PROVE DeltaInv'
  <2>1. cursor' = NoCursor /\ mark' = c.high
    BY <1>1, <1>9 DEF Frozen
  <2>2. DeltaIsTyped'
    BY <1>2, <1>3, <1>7, <2>1, TokensAreTyped DEF DeltaIsTyped
  <2>3. TokensAgree'
    BY <1>2, <1>3, <2>1, TokensAreTyped DEF TokensAgree
  <2>4. WatermarkIsKnown'
    BY <1>2, <1>3, <2>1, TokensAreTyped DEF WatermarkIsKnown
  <2>5. ASSUME c.high >= floor, NEW t \in Turns
        PROVE  view'[t] = Public(t) \/ ChangedAfter(t, c.high)
    BY <1>8, <1>9, <2>5
  <2>6. DeltaIsComplete'
    <3>1. ASSUME NEW t \in Turns, c.high >= floor
          PROVE  view'[t] = Public(t)' \/ ChangedAfter(t, mark)'
      <4>1. Public(t)' = Public(t)
        BY <1>2
      <4>2. ChangedAfter(t, c.high) => ChangedAfter(t, mark)'
        BY <1>2, <2>1 DEF ChangedAfter
      <4> QED
        BY <2>5, <3>1, <4>1, <4>2
    <3> QED
      BY <1>2, <2>1, <3>1, TokensAreTyped DEF DeltaIsComplete
  <2>7. NothingAhead'
    BY <2>1, TokensAreTyped DEF NothingAhead
  <2> QED
    BY <1>2, <2>2, <2>3, <2>4, <2>6, <2>7 DEF DeltaInv
<1>10. ASSUME page # left PROVE DeltaInv'
  <2>1. cursor' = [c EXCEPT !.at = LastPlace(page)] /\ mark' = -1
    BY <1>1, <1>10
  <2>2. page # {} /\ page \subseteq Stored
    BY <1>5, <1>6, <1>10
  <2>3. PICK x \in page : /\ LastPlace(page) = Place(x)
                          /\ \A u \in page \ {x} : Ahead(Place(x), Place(u))
    BY <2>2, LastPlaceIs
  <2>4. x \in left /\ x \in Turns /\ Place(x) \in Places /\ IsAhead(c, x)
    BY <1>4, <1>6, <2>2, RowIs, StoredIs
  <2>5. /\ cursor' \in Cursors /\ cursor'.mode = "bootstrap" /\ cursor'.high = c.high
        /\ cursor'.inserted = c.inserted /\ cursor'.at = Place(x)
        /\ cursor'.accepted = c.accepted
    BY <2>1, <2>3, <2>4 DEF Cursors
  <2>6. ASSUME NEW t \in Turns
        PROVE  IsAhead(cursor, t)' <=> t \in left \ page
    <3>1. turns'[t] = turns[t] /\ Place(t)' = Place(t) /\ Place(t) \in Places
      BY <1>2, RowIs
    <3>2. IsAhead(cursor, t)' <=> turns[t].seq \in 1 .. c.inserted /\ Ahead(Place(t), Place(x))
      BY <2>5, <3>1 DEF IsAhead, Ahead
    <3>3. ASSUME t \in left \ page PROVE IsAhead(cursor, t)'
      BY <1>4, <1>6, <3>2, <3>3 DEF IsAhead
    <3>4. ASSUME turns[t].seq \in 1 .. c.inserted, Ahead(Place(t), Place(x))
          PROVE  t \in left \ page
      <4>1. Ahead(Place(x), c.at)
        BY <2>4 DEF IsAhead
      <4>2. Ahead(Place(t), c.at)
        BY <1>3, <2>4, <3>1, <3>4, <4>1, AheadIsOrder
      <4>3. t \in left
        BY <1>4, <3>4, <4>2 DEF IsAhead
      <4>4. t # x /\ ~Ahead(Place(x), Place(t))
        BY <2>4, <3>1, <3>4, AheadIsOrder
      <4>5. t \notin page
        BY <2>3, <4>4
      <4> QED
        BY <4>3, <4>5
    <3> QED
      BY <3>2, <3>3, <3>4
  <2>7. DeltaIsTyped'
    BY <1>2, <1>3, <1>7, <2>1, <2>5, TokensAreTyped DEF DeltaIsTyped
  <2>8. TokensAgree'
    BY <1>2, <1>3, <2>1, <2>5, TokensAreTyped DEF TokensAgree
  <2>9. WatermarkIsKnown'
    BY <1>2, <1>3, <2>1, <2>5 DEF WatermarkIsKnown
  <2>10. ASSUME c.high >= floor, NEW t \in Turns
         PROVE  /\ view'[t] = Public(t)' \/ ChangedAfter(t, cursor.high)' \/ IsAhead(cursor, t)'
                /\ IsAhead(cursor, t)' => view'[t] = Gone \/ ChangedAfter(t, cursor.high)'
    <3>1. Public(t)' = Public(t)
      BY <1>2
    <3>2. ChangedAfter(t, c.high) => ChangedAfter(t, cursor.high)'
      BY <1>2, <2>5 DEF ChangedAfter
    <3>3. view'[t] = Public(t)' \/ ChangedAfter(t, cursor.high)' \/ IsAhead(cursor, t)'
      BY <1>8, <2>6, <2>10, <3>1, <3>2
    <3>4. ASSUME IsAhead(cursor, t)'
          PROVE  view'[t] = Gone \/ ChangedAfter(t, cursor.high)'
      <4>1. t \in left /\ t \notin page
        BY <2>6, <3>4
      <4>2. view[t] = Gone \/ ChangedAfter(t, c.high)
        BY <1>4, <2>10, <4>1 DEF CopyBefore
      <4>3. view'[t] = view[t]
        BY <1>1, <4>1
      <4> QED
        BY <3>2, <4>2, <4>3
    <3> QED
      BY <3>3, <3>4
  <2>11. DeltaIsComplete'
    BY <1>2, <2>5, <2>10, TokensAreTyped DEF DeltaIsComplete, IsAhead
  <2>12. NothingAhead'
    BY <1>2, <2>5, <2>10 DEF NothingAhead
  <2> QED
    BY <1>2, <2>7, <2>8, <2>9, <2>11, <2>12 DEF DeltaInv
<1> QED
  BY <1>9, <1>10

\* Where the batch c has come to: rows up to there have been sent.
Reached(c) == IF c.at.seq = 0 THEN c.accepted ELSE c.at.seq

\* A page of changes.
LEMMA ChangesKeepDelta ==
    ASSUME StoreIsTyped, DeltaIsTyped, UNCHANGED <<store, client>>, client = "delta",
           NEW c \in Cursors, c.mode = "changes", mark = c.accepted, c.high <= JournalHigh,
           c.accepted <= Reached(c), Reached(c) <= c.high, c.accepted >= floor,
           \A t \in Turns : view[t] = Public(t) \/ ChangedAfter(t, Reached(c)),
           ChangesPage(c)
    PROVE  DeltaInv'
<1>1. PICK page \in ChangePages(Collapsed(c)) :
          /\ view' = [t \in Turns |-> IF \E j \in page : j.turn = t THEN Public(t)
                                      ELSE view[t]]
          /\ IF page = Collapsed(c)
             THEN cursor' = NoCursor /\ mark' = Checkpoint(c, {j.seq : j \in page})
             ELSE /\ cursor' = [c EXCEPT !.at.seq = Max({j.seq : j \in page})]
                  /\ UNCHANGED mark
  BY DEF ChangesPage
<1> DEFINE left == Collapsed(c)
<1>2. /\ StoreIsTyped' /\ JournalHigh' = JournalHigh /\ floor' = floor /\ lastSeq' = lastSeq
      /\ inserted' = inserted /\ client' = client /\ turns' = turns /\ journal' = journal
      /\ \A t \in Turns : Public(t)' = Public(t) /\ Place(t)' = Place(t)
      /\ \A t \in Turns : \A s \in Int : ChangedAfter(t, s)' <=> ChangedAfter(t, s)
  BY ReadingChangesNothing
<1>3. /\ c.high \in Nat /\ c.at \in Places /\ c.accepted \in Nat /\ c.at.seq \in Nat
      /\ JournalHigh \in Nat /\ JournalHigh <= lastSeq /\ lastSeq \in Nat
      /\ floor \in Nat /\ Reached(c) \in Nat /\ c.at.seq <= Reached(c)
  <2>1. JournalHigh \in 0 .. lastSeq /\ lastSeq \in Nat /\ floor \in 0 .. lastSeq
    BY JournalIs DEF StoreIsTyped
  <2>2. c.high \in Nat /\ c.at \in Places /\ c.accepted \in Nat /\ c.at.seq \in Nat
    BY DEF Cursors, Places
  <2>3. Reached(c) \in Nat /\ c.at.seq <= Reached(c)
    BY <2>2 DEF Reached
  <2> QED
    BY <2>1, <2>2, <2>3
<1>4. /\ left \subseteq journal
      /\ \A j \in left : j.seq \in Nat /\ c.accepted < j.seq /\ j.seq <= c.high
  BY JournalIs DEF Collapsed
<1>5. /\ page \subseteq left
      /\ \A j \in page, k \in left \ page : j.seq < k.seq
      /\ page = {} => left = {}
  BY <1>1, <1>4, ChangesArePrefix
<1>6. view' \in [Turns -> Workers \cup {Gone}]
  <2>1. \A t \in Turns : Public(t) \in Workers \cup {Gone}
    BY RowIs
  <2>2. view \in [Turns -> Workers \cup {Gone}]
    BY DEF DeltaIsTyped
  <2> QED
    BY <1>1, <2>1, <2>2
\* What the copy still has wrong has its last row in a later page or beyond the batch.
<1>7. ASSUME NEW t \in Turns
      PROVE  \/ view'[t] = Public(t)
             \/ ChangedAfter(t, c.high)
             \/ \E k \in left \ page : k.turn = t
  <2>1. view'[t] = IF \E j \in page : j.turn = t THEN Public(t) ELSE view[t]
    BY <1>1
  <2>2. CASE \E j \in page : j.turn = t
    BY <2>1, <2>2
  <2>3. CASE ~(\E j \in page : j.turn = t)
    <3> SUFFICES ASSUME ChangedAfter(t, Reached(c)), ~ChangedAfter(t, c.high)
                 PROVE  \E k \in left \ page : k.turn = t
      BY <2>1, <2>3
    <3>1. PICK j \in journal : j.turn = t /\ j.seq > Reached(c)
      BY DEF ChangedAfter
    <3>2. ~(j.seq > c.high) /\ j.seq \in Nat
      BY <3>1, JournalIs DEF ChangedAfter
    <3>3. PICK k \in journal : /\ k.turn = j.turn /\ k.seq <= c.high /\ j.seq <= k.seq
                               /\ \A i \in journal : i.turn = j.turn /\ i.seq <= c.high
                                                         => i.seq <= k.seq
      BY <1>3, <3>2, LastRowIs
    <3>4. k.seq \in Nat
      BY JournalIs
    <3>5. c.accepted < k.seq /\ c.at.seq < k.seq
      BY <1>3, <3>1, <3>2, <3>3, <3>4
    <3>6. k \in left
      BY <3>1, <3>3, <3>5 DEF Collapsed
    <3> QED
      BY <2>3, <3>1, <3>3, <3>6
  <2> QED
    BY <2>2, <2>3
<1>8. ASSUME page = left PROVE DeltaInv'
  <2>1. cursor' = NoCursor /\ mark' = c.high
    BY <1>1, <1>8 DEF Checkpoint
  <2>2. DeltaIsTyped'
    BY <1>2, <1>3, <1>6, <2>1, TokensAreTyped DEF DeltaIsTyped
  <2>3. TokensAgree'
    BY <1>2, <1>3, <2>1, TokensAreTyped DEF TokensAgree
  <2>4. WatermarkIsKnown'
    BY <1>2, <1>3, <2>1, TokensAreTyped DEF WatermarkIsKnown
  <2>5. DeltaIsComplete'
    <3>1. ASSUME NEW t \in Turns
          PROVE  view'[t] = Public(t)' \/ ChangedAfter(t, mark)'
      <4>1. Public(t)' = Public(t)
        BY <1>2
      <4>2. ChangedAfter(t, c.high) => ChangedAfter(t, mark)'
        BY <1>2, <2>1 DEF ChangedAfter
      <4> QED
        BY <1>7, <1>8, <4>1, <4>2
    <3> QED
      BY <2>1, <3>1, TokensAreTyped DEF DeltaIsComplete
  <2>6. NothingAhead'
    BY <2>1, TokensAreTyped DEF NothingAhead
  <2> QED
    BY <1>2, <2>2, <2>3, <2>4, <2>5, <2>6 DEF DeltaInv
<1>9. ASSUME page # left PROVE DeltaInv'
  <2> DEFINE m == Max({j.seq : j \in page})
  <2>1. cursor' = [c EXCEPT !.at.seq = m] /\ mark' = mark
    BY <1>1, <1>9
  <2>2. \E j \in page : j.seq = m
    <3> DEFINE S == {j.seq : j \in page}
    <3>1. S \subseteq Nat /\ S # {} /\ \A y \in S : y <= c.high
      BY <1>4, <1>5, <1>9
    <3>2. m \in S
      BY <1>3, <3>1, MaxIsGreatest
    <3> QED
      BY <3>2
  <2> HIDE DEF m
  <2>3. m \in Nat /\ c.accepted < m /\ m <= c.high /\ \A k \in left \ page : m < k.seq
    BY <1>4, <1>5, <2>2
  <2>4. /\ cursor' \in Cursors /\ cursor'.mode = "changes" /\ cursor'.high = c.high
        /\ cursor'.accepted = c.accepted /\ cursor'.at.seq = m
    BY <1>3, <2>1, <2>3 DEF Cursors, Places
  <2>5. DeltaIsTyped'
    BY <1>2, <1>3, <1>6, <2>1, <2>4, TokensAreTyped DEF DeltaIsTyped
  <2>6. TokensAgree'
    BY <1>2, <1>3, <2>1, <2>3, <2>4, TokensAreTyped DEF TokensAgree
  <2>7. mark <= JournalHigh
    BY <1>3
  <2>8. WatermarkIsKnown'
    BY <1>2, <2>1, <2>4, <2>7 DEF WatermarkIsKnown
  <2>9. DeltaIsComplete'
    <3>1. ASSUME NEW t \in Turns
          PROVE  view'[t] = Public(t)' \/ ChangedAfter(t, cursor.at.seq)'
      <4>1. Public(t)' = Public(t)
        BY <1>2
      <4>2. ASSUME NEW k \in journal, k.turn = t, m < k.seq
            PROVE  ChangedAfter(t, cursor.at.seq)'
        BY <1>2, <2>4, <4>2 DEF ChangedAfter
      <4>3. ChangedAfter(t, c.high) => ChangedAfter(t, cursor.at.seq)'
        <5> SUFFICES ASSUME NEW k \in journal, k.turn = t, k.seq > c.high
                     PROVE  ChangedAfter(t, cursor.at.seq)'
          BY DEF ChangedAfter
        <5>1. k.seq \in Nat
          BY JournalIs
        <5>2. m < k.seq
          BY <1>3, <2>3, <5>1
        <5> QED
          BY <4>2, <5>2
      <4>4. (\E k \in left \ page : k.turn = t) => ChangedAfter(t, cursor.at.seq)'
        BY <1>4, <2>3, <4>2
      <4> QED
        BY <1>7, <4>1, <4>3, <4>4
    <3> QED
      BY <2>4, <3>1, TokensAreTyped DEF DeltaIsComplete
  <2>10. NothingAhead'
    BY <2>4 DEF NothingAhead
  <2> QED
    BY <1>2, <2>5, <2>6, <2>8, <2>9, <2>10 DEF DeltaInv
<1> QED
  BY <1>8, <1>9


\* A step that reads, and leaves client and copy alone.
LEMMA OthersKeepDelta ==
    ASSUME DeltaInv, UNCHANGED <<store, client, delta>>
    PROVE  DeltaInv'
<1>1. StoreIsTyped /\ StoreIsTyped'
  BY ReadingChangesNothing DEF DeltaInv
<1>2. UNCHANGED <<turns, inserted, journal, lastSeq, floor, client, view, mark, cursor>>
  BY DEF store, delta
<1> QED
  BY <1>1, <1>2
     DEF DeltaInv, DeltaIsTyped, TokensAgree, WatermarkIsKnown, DeltaIsComplete,
         NothingAhead, JournalHigh, Public, ChangedAfter, Place, IsAhead

\* At the start there is nothing to be copied.
LEMMA DeltaStarts == ASSUME Init PROVE DeltaInv
<1>1. StoreIsTyped
  BY DEF Init, StoreIsTyped, Stored
<1>2. DeltaIsTyped
  BY <1>1, TokensAreTyped DEF Init, DeltaIsTyped
<1>3. JournalHigh \in Nat
  BY <1>1, JournalIs
<1>4. mark = -1 /\ cursor = NoCursor /\ floor = 0 /\ view = NoCopy
  BY DEF Init
<1>5. TokensAgree
  BY <1>4, TokensAreTyped DEF TokensAgree
<1>6. WatermarkIsKnown
  BY <1>3, <1>4, TokensAreTyped DEF WatermarkIsKnown
<1>7. DeltaIsComplete /\ NothingAhead
  BY <1>4, TokensAreTyped DEF DeltaIsComplete, NothingAhead
<1> QED
  BY <1>1, <1>2, <1>5, <1>6, <1>7 DEF DeltaInv

\* The first page of a bootstrap.
LEMMA StartBootstrapKeepsDelta == ASSUME DeltaInv, StartBootstrap PROVE DeltaInv'
<1> DEFINE c == [NoCursor EXCEPT !.mode = "bootstrap", !.high = JournalHigh,
                                 !.inserted = inserted]
<1>1. /\ StoreIsTyped /\ DeltaIsTyped /\ client = "delta" /\ UNCHANGED <<store, client>>
      /\ cursor = NoCursor /\ mark = -1 /\ view = NoCopy
  BY DEF DeltaInv, StartBootstrap, TokensAgree
<1>2. BootstrapPage(c)
  BY DEF StartBootstrap
<1>3. JournalHigh \in Nat /\ inserted \in Nat
  BY <1>1, JournalIs DEF StoreIsTyped
<1>4. /\ c \in Cursors /\ c.mode = "bootstrap" /\ c.high = JournalHigh
      /\ c.inserted = inserted /\ c.at = Start
  BY <1>3, TokensAreTyped DEF NoCursor, Cursors
<1> HIDE DEF c
<1>5. ASSUME NEW t \in Turns
      PROVE  view[t] = Gone /\ (view[t] = Public(t) \/ IsAhead(c, t))
  <2>1. view[t] = Gone
    BY <1>1, TokensAreTyped
  <2>2. CASE t \in Stored
    <3>1. turns[t].seq \in 1 .. c.inserted
      BY <1>1, <1>4, <2>2, RowIs
    <3>2. Place(t) \in Places /\ Place(t).worker # 0
      BY <1>1, <2>2, RowIs
    <3>3. Ahead(Place(t), c.at)
      BY <1>4, <3>2, AheadIsOrder
    <3> QED
      BY <2>1, <3>1, <3>3 DEF IsAhead
  <2>3. CASE t \notin Stored
    <3>1. Public(t) = Gone
      BY <1>1, <2>3, RowIs
    <3> QED
      BY <2>1, <3>1
  <2> QED
    BY <2>2, <2>3
<1>6. CopyBefore(c)
  BY <1>5 DEF CopyBefore
<1>7. c.high <= JournalHigh /\ c.inserted <= inserted
  BY <1>3, <1>4
<1> QED
  BY <1>1, <1>2, <1>4, <1>6, <1>7, BootstrapKeepsDelta

\* A further page of a bootstrap.
LEMMA ContinueBootstrapKeepsDelta == ASSUME DeltaInv, ContinueBootstrap PROVE DeltaInv'
<1>1. /\ StoreIsTyped /\ DeltaIsTyped /\ UNCHANGED <<store, client>>
      /\ cursor \in Cursors /\ cursor.mode = "bootstrap" /\ BootstrapPage(cursor)
  BY DEF DeltaInv, ContinueBootstrap, DeltaIsTyped
<1>2. client = "delta" /\ mark = -1 /\ cursor.inserted <= inserted
  BY <1>1, TokensAreTyped DEF DeltaInv, TokensAgree, DeltaIsTyped
<1>3. cursor.high <= JournalHigh
  BY DEF DeltaInv, WatermarkIsKnown
<1>4. CopyBefore(cursor)
  BY <1>1 DEF DeltaInv, DeltaIsComplete, NothingAhead, CopyBefore, IsAhead
<1> QED
  BY <1>1, <1>2, <1>3, <1>4, BootstrapKeepsDelta

\* The first page of a batch of changes.
LEMMA StartChangesKeepsDelta == ASSUME DeltaInv, StartChanges PROVE DeltaInv'
<1>1. /\ StoreIsTyped /\ DeltaIsTyped /\ UNCHANGED <<store, client>>
      /\ cursor = NoCursor /\ mark # -1 /\ mark <= JournalHigh
  BY DEF DeltaInv, StartChanges, WatermarkIsKnown
<1>2. client = "delta"
  BY <1>1 DEF DeltaInv, TokensAgree, DeltaIsTyped
<1>3. /\ JournalHigh \in Nat /\ JournalHigh <= lastSeq /\ lastSeq \in Nat /\ floor \in Nat
      /\ mark \in Nat
  BY <1>1, JournalIs DEF StoreIsTyped, DeltaIsTyped
<1>4. ASSUME mark > JournalHigh \/ mark < floor PROVE DeltaInv'
  <2>1. mark' = -1 /\ view' = NoCopy /\ cursor' = NoCursor
    BY <1>1, <1>4 DEF StartChanges
  <2>2. /\ StoreIsTyped' /\ JournalHigh' = JournalHigh /\ floor' = floor
        /\ lastSeq' = lastSeq /\ client' = client
    BY <1>1, ReadingChangesNothing
  <2>3. DeltaIsTyped'
    BY <1>1, <1>2, <1>3, <2>1, <2>2, TokensAreTyped DEF DeltaIsTyped
  <2>4. TokensAgree' /\ WatermarkIsKnown'
    BY <1>2, <1>3, <2>1, <2>2, TokensAreTyped DEF TokensAgree, WatermarkIsKnown
  <2>5. DeltaIsComplete' /\ NothingAhead'
    BY <1>3, <2>1, <2>2, TokensAreTyped DEF DeltaIsComplete, NothingAhead
  <2> QED
    BY <2>2, <2>3, <2>4, <2>5 DEF DeltaInv
<1>5. ASSUME ~(mark > JournalHigh \/ mark < floor) PROVE DeltaInv'
  <2> DEFINE high == Min({JournalHigh, mark + Ceiling})
             c == [NoCursor EXCEPT !.mode = "changes", !.accepted = mark, !.high = high]
  <2>1. ChangesPage(c)
    BY <1>5 DEF StartChanges
  <2>2. mark + Ceiling \in Nat /\ mark <= mark + Ceiling
    BY <1>3, FeedAssumption
  <2>3. high \in {JournalHigh, mark + Ceiling} /\ high <= JournalHigh
    BY <1>3, <2>2, LesserOf
  <2>4. high \in Nat /\ mark <= high
    BY <1>1, <1>3, <2>2, <2>3
  <2> HIDE DEF high
  <2>5. /\ c \in Cursors /\ c.mode = "changes" /\ c.accepted = mark /\ c.high = high
        /\ c.at = Start
    BY <1>3, <2>4, TokensAreTyped DEF NoCursor, Cursors
  <2> HIDE DEF c
  <2>6. Reached(c) = mark
    BY <2>5, TokensAreTyped DEF Reached
  <2>7. mark >= floor
    BY <1>3, <1>5
  <2>8. \A t \in Turns : view[t] = Public(t) \/ ChangedAfter(t, Reached(c))
    BY <1>1, <2>6, <2>7 DEF DeltaInv, DeltaIsComplete
  <2> QED
    BY <1>1, <1>2, <1>3, <2>1, <2>3, <2>4, <2>5, <2>6, <2>7, <2>8, ChangesKeepDelta
<1> QED
  BY <1>4, <1>5

\* A further page of a batch of changes, or its cursor has expired.
LEMMA ContinueChangesKeepsDelta == ASSUME DeltaInv, ContinueChanges PROVE DeltaInv'
<1>1. /\ StoreIsTyped /\ DeltaIsTyped /\ UNCHANGED <<store, client>>
      /\ cursor \in Cursors /\ cursor.mode = "changes" /\ cursor.high <= JournalHigh
  BY DEF DeltaInv, ContinueChanges, DeltaIsTyped, WatermarkIsKnown
<1>2. /\ client = "delta" /\ mark = cursor.accepted /\ mark < cursor.at.seq
      /\ cursor.at.seq <= cursor.high
  BY <1>1, TokensAreTyped DEF DeltaInv, TokensAgree, DeltaIsTyped
<1>3. /\ JournalHigh \in Nat /\ JournalHigh <= lastSeq /\ lastSeq \in Nat /\ floor \in Nat
      /\ cursor.accepted \in Nat /\ cursor.at.seq \in Nat /\ mark <= JournalHigh
  BY <1>1, JournalIs DEF StoreIsTyped, DeltaInv, WatermarkIsKnown, Cursors, Places
<1>4. ASSUME cursor.accepted < floor PROVE DeltaInv'
  <2>1. cursor' = NoCursor /\ view' = view /\ mark' = mark
    BY <1>4 DEF ContinueChanges
  <2>2. /\ StoreIsTyped' /\ JournalHigh' = JournalHigh /\ floor' = floor
        /\ lastSeq' = lastSeq /\ client' = client
    BY <1>1, ReadingChangesNothing
  <2>3. DeltaIsTyped'
    BY <1>1, <2>1, <2>2, TokensAreTyped DEF DeltaIsTyped
  <2>4. TokensAgree' /\ WatermarkIsKnown'
    BY <1>2, <1>3, <2>1, <2>2, TokensAreTyped DEF TokensAgree, WatermarkIsKnown
  <2>5. DeltaIsComplete' /\ NothingAhead'
    BY <1>2, <1>3, <1>4, <2>1, <2>2, TokensAreTyped DEF DeltaIsComplete, NothingAhead
  <2> QED
    BY <2>2, <2>3, <2>4, <2>5 DEF DeltaInv
<1>5. ASSUME ~(cursor.accepted < floor) PROVE DeltaInv'
  <2>1. ChangesPage(cursor)
    BY <1>5 DEF ContinueChanges
  <2>2. Reached(cursor) = cursor.at.seq
    BY <1>2, <1>3 DEF Reached
  <2>3. cursor.accepted >= floor
    BY <1>3, <1>5
  <2>4. \A t \in Turns : view[t] = Public(t) \/ ChangedAfter(t, Reached(cursor))
    BY <1>1, <2>2, <2>3 DEF DeltaInv, DeltaIsComplete
  <2>5. cursor.accepted <= Reached(cursor) /\ Reached(cursor) <= cursor.high
    BY <1>2, <1>3, <2>2
  <2> QED
    BY <1>1, <1>2, <2>1, <2>3, <2>4, <2>5, ChangesKeepDelta
<1> QED
  BY <1>4, <1>5

\* A client that loses its cursor begins again from its watermark.
LEMMA LoseCursorKeepsDelta == ASSUME DeltaInv, LoseCursor PROVE DeltaInv'
<1>1. /\ StoreIsTyped /\ DeltaIsTyped /\ UNCHANGED <<store, client>>
      /\ cursor # NoCursor /\ cursor' = NoCursor /\ mark' = mark
      /\ view' = IF mark = -1 THEN NoCopy ELSE view
  BY DEF DeltaInv, LoseCursor
<1>2. /\ StoreIsTyped' /\ JournalHigh' = JournalHigh /\ floor' = floor /\ turns' = turns
      /\ lastSeq' = lastSeq /\ client' = client /\ journal' = journal
      /\ \A t \in Turns : Public(t)' = Public(t)
  BY <1>1, ReadingChangesNothing
<1>3. client = "delta"
  BY <1>1 DEF DeltaInv, TokensAgree, DeltaIsTyped
<1>4. JournalHigh \in Nat /\ mark <= JournalHigh /\ floor \in Nat
  BY <1>1, JournalIs DEF StoreIsTyped, DeltaInv, WatermarkIsKnown
<1>5. DeltaIsTyped'
  BY <1>1, <1>2, TokensAreTyped DEF DeltaIsTyped
<1>6. TokensAgree' /\ WatermarkIsKnown'
  BY <1>1, <1>2, <1>3, <1>4, TokensAreTyped DEF TokensAgree, WatermarkIsKnown
<1>7. ASSUME mark >= floor, NEW t \in Turns
      PROVE  view[t] = Public(t) \/ ChangedAfter(t, mark)
  <2>1. mark # -1
    BY <1>4, <1>7
  <2>2. cursor.mode = "changes" /\ mark = cursor.accepted /\ mark < cursor.at.seq
    BY <1>1, <2>1 DEF DeltaInv, DeltaIsTyped, TokensAgree, Cursors
  <2>3. view[t] = Public(t) \/ ChangedAfter(t, cursor.at.seq)
    BY <1>7, <2>2 DEF DeltaInv, DeltaIsComplete
  <2>4. cursor.at.seq \in Nat /\ mark \in Nat /\ \A j \in journal : j.seq \in Nat
    BY <1>1, <1>4, <1>7, JournalIs DEF DeltaIsTyped, Cursors, Places
  <2>5. ChangedAfter(t, cursor.at.seq) => ChangedAfter(t, mark)
    BY <2>2, <2>4 DEF ChangedAfter
  <2> QED
    BY <2>3, <2>5
<1>8. DeltaIsComplete'
  <2>1. ASSUME mark >= floor, NEW t \in Turns
        PROVE  view'[t] = Public(t)' \/ ChangedAfter(t, mark)'
    <3>1. view' = view
      BY <1>1, <1>4, <2>1
    <3>2. ChangedAfter(t, mark) => ChangedAfter(t, mark)'
      BY <1>1, <1>2 DEF ChangedAfter
    <3> QED
      BY <1>2, <1>7, <2>1, <3>1, <3>2
  <2> QED
    BY <1>1, <1>2, <2>1, TokensAreTyped DEF DeltaIsComplete
<1>9. NothingAhead'
  BY <1>1, TokensAreTyped DEF NothingAhead
<1> QED
  BY <1>2, <1>5, <1>6, <1>8, <1>9 DEF DeltaInv

\* No step breaks what the delta client relies on.
LEMMA DeltaIsKept == DeltaInv /\ [Next]_vars => DeltaInv'
<1> SUFFICES ASSUME DeltaInv, [Next]_vars PROVE DeltaInv'
  OBVIOUS
<1>1. ASSUME Write PROVE DeltaInv'
  <2>1. StoreIsTyped' /\ WritesAreTold /\ UNCHANGED <<client, delta>>
    BY <1>1, WriteIs DEF DeltaInv
  <2> QED
    BY <2>1, WriteKeepsDelta
<1>2. ASSUME Poll PROVE DeltaInv'
  BY <1>2, StartBootstrapKeepsDelta, ContinueBootstrapKeepsDelta, StartChangesKeepsDelta,
     ContinueChangesKeepsDelta DEF Poll
<1>3. ASSUME LoseCursor PROVE DeltaInv'
  BY <1>3, LoseCursorKeepsDelta
<1>4. ASSUME StartList \/ ContinueList PROVE DeltaInv'
  BY <1>4, OthersKeepDelta DEF StartList, ContinueList
<1>5. ASSUME UNCHANGED vars PROVE DeltaInv'
  BY <1>5, OthersKeepDelta DEF vars
<1> QED
  BY <1>1, <1>2, <1>3, <1>4, <1>5 DEF Next

\* What the run checks of the types follows from the sharper statement.
LEMMA DeltaInvSuffices ==
    ASSUME DeltaInv, list.phase \in {"idle", "paging", "done"}
    PROVE  DeltaIsSound
<1>1. StoreIsTyped /\ DeltaIsTyped /\ WatermarkIsKnown /\ DeltaIsComplete
  BY DEF DeltaInv
<1>2. \A t \in Turns : turns[t] \in Row \cup {Absent} /\ view[t] \in Workers \cup {Gone}
  BY <1>1 DEF StoreIsTyped, DeltaIsTyped
<1>3. TypeOK
  BY <1>1, <1>2, JournalIs DEF TypeOK, StoreIsTyped, DeltaIsTyped, Cursors
<1> QED
  BY <1>1, <1>3 DEF DeltaIsSound

-----------------------------------------------------------------------------
(* The list client.                                                        *)

LEMMA NoTraversalIs ==
    ASSUME NEW n \in Nat
    PROVE  /\ NoTraversal \in Traversals(n) /\ NoTraversal.phase = "idle"
           /\ NoTraversal.same = TRUE /\ NoTraversal.at = Start
           /\ NoTraversal.shifted = {} /\ \A t \in Turns : NoTraversal.got[t] = 0
BY TokensAreTyped DEF NoTraversal, Traversals


\* A write that leaves the traversal alone, and all rows but those that got longer.
LEMMA InsertKeepsList ==
    ASSUME StoreIsTyped, ListInv, NEW t \in Turns, Insert(t)
    PROVE  ListInv'
<1>1. /\ turns[t] = Absent /\ turns'[t].seq = inserted + 1 /\ inserted' = inserted + 1
      /\ \A u \in Turns \ {t} : turns'[u] = turns[u]
      /\ list' = list /\ inserted \in Nat
  BY InsertIs DEF Insert, StoreIsTyped
<1>2. list \in Traversals(inserted) /\ PagesAreExact /\ TraversalIsExact
  BY DEF ListInv
<1>3. /\ list.since \in 0 .. inserted /\ list.high \in 0 .. inserted
      /\ list.got \in [Turns -> Nat]
  BY <1>2 DEF Traversals
<1>4. list' \in Traversals(inserted')
  BY <1>1, <1>2 DEF Traversals
<1>5. turns'[t].seq > list.since /\ ~(turns'[t].seq \in (list.since + 1) .. list.high)
      /\ turns'[t] # Absent
  <2>1. Absent.seq = 0
    BY DEF Absent
  <2> QED
    BY <1>1, <1>3, <2>1
<1>6. \A u \in Turns \ {t} : Place(u)' = Place(u)
  BY <1>1 DEF Place
<1>7. ASSUME list.phase = "paging", list.same, NEW u \in Turns \ list.shifted
      PROVE  IsExactAt(list, u)'
  <2>1. IsExactAt(list, u)
    BY <1>2, <1>7 DEF PagesAreExact
  <2>2. CASE u = t
    BY <1>1, <1>3, <1>5, <2>1, <2>2 DEF IsExactAt
  <2>3. CASE u # t
    BY <1>1, <1>6, <2>1, <2>3 DEF IsExactAt, Ahead
  <2> QED
    BY <2>2, <2>3
<1>8. ASSUME list.phase = "done", NEW u \in Turns \ list.shifted
      PROVE  IsExactInTheEnd(list, u)'
  <2>1. IsExactInTheEnd(list, u)
    BY <1>2, <1>8 DEF TraversalIsExact, IsExactInTheEnd
  <2>2. CASE u = t
    BY <1>1, <1>3, <1>5, <2>1, <2>2 DEF IsExactInTheEnd
  <2>3. CASE u # t
    BY <1>1, <2>1, <2>3 DEF IsExactInTheEnd
  <2> QED
    BY <2>2, <2>3
<1>9. PagesAreExact'
  BY <1>1, <1>7 DEF PagesAreExact
<1>10. TraversalIsExact'
  BY <1>1, <1>8 DEF TraversalIsExact, IsExactInTheEnd
<1> QED
  BY <1>4, <1>9, <1>10 DEF ListInv

\* Nothing of what the list reads changes, nor the traversal.
LEMMA OthersKeepList ==
    ASSUME ListInv, turns' = turns, inserted' = inserted, list' = list
    PROVE  ListInv'
BY DEF ListInv, Traversals, PagesAreExact, TraversalIsExact, IsExactAt, Place

\* A turn that is updated in place counts as shifted.
LEMMA UpdateKeepsList ==
    ASSUME StoreIsTyped, ListInv, NEW t \in Turns, Update(t)
    PROVE  ListInv'
<1>1. /\ \A u \in Turns \ {t} : turns'[u] = turns[u]
      /\ inserted' = inserted /\ inserted \in Nat
      /\ list' = IF turns' = turns \/ list.phase = "idle" THEN list
                 ELSE [list EXCEPT !.shifted = @ \cup {t}]
  BY UpdateIs DEF Update, StoreIsTyped
<1>2. list \in Traversals(inserted) /\ PagesAreExact /\ TraversalIsExact
  BY DEF ListInv
<1>3. ASSUME turns' = turns PROVE ListInv'
  BY <1>1, <1>3, OthersKeepList
<1>4. ASSUME list.phase = "idle" PROVE ListInv'
  <2>1. list' = list
    BY <1>1, <1>4
  <2> QED
    BY <1>1, <1>2, <1>4, <2>1 DEF ListInv, PagesAreExact, TraversalIsExact, Traversals
<1>5. ASSUME ~(turns' = turns \/ list.phase = "idle") PROVE ListInv'
  <2>1. list' = [list EXCEPT !.shifted = list.shifted \cup {t}]
    BY <1>1, <1>5
  <2>2. /\ list' \in Traversals(inserted') /\ list'.phase = list.phase
        /\ list'.since = list.since /\ list'.high = list.high /\ list'.at = list.at
        /\ list'.got = list.got /\ list'.shifted = list.shifted \cup {t}
    BY <1>1, <1>2, <2>1 DEF Traversals
  <2>3. list'.same = list.same
    BY <1>2, <2>1 DEF Traversals
  <2>4. ASSUME list.phase = "paging", list.same, NEW u \in Turns \ list'.shifted
        PROVE  IsExactAt(list, u)'
    <3>1. IsExactAt(list, u) /\ turns'[u] = turns[u] /\ Place(u)' = Place(u)
      BY <1>1, <1>2, <2>2, <2>4 DEF PagesAreExact, Place
    <3> QED
      BY <2>2, <3>1 DEF IsExactAt, Ahead
  <2>5. ASSUME list.phase = "done", NEW u \in Turns \ list'.shifted
        PROVE  IsExactInTheEnd(list, u)'
    <3>1. IsExactInTheEnd(list, u) /\ turns'[u] = turns[u]
      BY <1>1, <1>2, <2>2, <2>5 DEF TraversalIsExact, IsExactInTheEnd
    <3> QED
      BY <2>2, <3>1 DEF IsExactInTheEnd
  <2>6. PagesAreExact'
    BY <2>2, <2>3, <2>4 DEF PagesAreExact
  <2>7. TraversalIsExact'
    BY <2>2, <2>5 DEF TraversalIsExact, IsExactInTheEnd
  <2> QED
    BY <2>2, <2>6, <2>7 DEF ListInv
<1> QED
  BY <1>3, <1>4, <1>5

\* A traversal that a turn is deleted under goes on no more.
LEMMA DeleteKeepsList ==
    ASSUME StoreIsTyped, ListInv, NEW t \in Turns, Delete(t)
    PROVE  ListInv'
<1>1. /\ turns'[t] = Absent
      /\ \A u \in Turns \ {t} : turns'[u] = turns[u]
      /\ inserted' = inserted /\ inserted \in Nat
      /\ list' = [list EXCEPT !.same = list.phase = "idle"]
  BY DeleteIs DEF Delete, StoreIsTyped
<1>2. list \in Traversals(inserted) /\ PagesAreExact /\ TraversalIsExact
  BY DEF ListInv
<1>3. (list.phase = "idle") \in BOOLEAN
  OBVIOUS
<1>4. /\ list' \in Traversals(inserted') /\ list'.phase = list.phase
      /\ list'.since = list.since /\ list'.high = list.high
      /\ list'.got = list.got /\ list'.shifted = list.shifted
  BY <1>1, <1>2, <1>3 DEF Traversals
<1>5. list'.same <=> list.phase = "idle"
  BY <1>1, <1>2 DEF Traversals
<1>6. PagesAreExact'
  BY <1>4, <1>5 DEF PagesAreExact
<1>7. ASSUME list.phase = "done", NEW u \in Turns \ list.shifted
      PROVE  IsExactInTheEnd(list, u)'
  <2>1. IsExactInTheEnd(list, u)
    BY <1>2, <1>7 DEF TraversalIsExact, IsExactInTheEnd
  <2>2. CASE u = t
    <3>1. Absent.shown = FALSE
      BY DEF Absent
    <3> QED
      BY <1>1, <1>4, <2>1, <2>2, <3>1 DEF IsExactInTheEnd
  <2>3. CASE u # t
    BY <1>1, <1>4, <2>1, <2>3 DEF IsExactInTheEnd
  <2> QED
    BY <2>2, <2>3
<1>8. TraversalIsExact'
  BY <1>4, <1>7 DEF TraversalIsExact, IsExactInTheEnd
<1> QED
  BY <1>4, <1>6, <1>8 DEF ListInv

\* The list floor is 0 or a sequence.
LEMMA ListFloorIs == ASSUME StoreIsTyped PROVE ListFloor \in Nat
<1> DEFINE S == {turns[t].seq : t \in Stored}
<1>1. CASE Stored = {}
  BY <1>1 DEF ListFloor
<1>2. CASE Stored # {}
  <2>1. S \subseteq Nat /\ S # {}
    BY <1>2, StoredIs, RowIs
  <2>2. \E m \in S : \A y \in S : m <= y
    BY <2>1, LeastOf
  <2>3. Min(S) \in S
    BY <2>2 DEF Min
  <2> QED
    BY <1>2, <2>1, <2>3 DEF ListFloor
<1> QED
  BY <1>1, <1>2

\* A page of the traversal x.
LEMMA ListPageKeepsList ==
    ASSUME StoreIsTyped, UNCHANGED store, NEW x \in Traversals(inserted),
           \A t \in Turns \ x.shifted : IsExactAt(x, t), ListPage(x)
    PROVE  ListInv'
<1> DEFINE left == {t \in Stored : /\ x.since < turns[t].seq /\ turns[t].seq <= x.high
                                   /\ Ahead(Place(t), x.at)}
           gotten(page) == [t \in Turns |-> IF t \in page /\ Public(t) # Gone
                                            THEN x.got[t] + 1 ELSE x.got[t]]
<1>1. PICK page \in TurnPages(left) :
          list' = [x EXCEPT !.phase = IF page = left THEN "done" ELSE "paging",
                            !.high = x.high,
                            !.at = IF page = left THEN @ ELSE LastPlace(page),
                            !.got = [t \in Turns |-> IF t \in page /\ Public(t) # Gone
                                                     THEN @[t] + 1 ELSE @[t]]]
  BY DEF ListPage, ListHigh
<1>2. turns' = turns /\ inserted' = inserted /\ inserted \in Nat
      /\ \A t \in Turns : Place(t)' = Place(t)
  BY DEF store, StoreIsTyped, Place
<1>3. /\ x.since \in 0 .. inserted /\ x.high \in 0 .. inserted /\ x.at \in Places
      /\ x.got \in [Turns -> Nat] /\ x.shifted \subseteq Turns
  BY DEF Traversals
<1>4. left \subseteq Stored
  OBVIOUS
<1>5. \A t \in Turns : t \in left <=> /\ turns[t].seq \in (x.since + 1) .. x.high
                                      /\ Ahead(Place(t), x.at)
  <2> SUFFICES ASSUME NEW t \in Turns
               PROVE  t \in left <=> /\ turns[t].seq \in (x.since + 1) .. x.high
                                     /\ Ahead(Place(t), x.at)
    OBVIOUS
  <2>1. (t \in Stored <=> turns[t].seq # 0) /\ turns[t].seq \in Nat
    BY RowIs
  <2> QED
    BY <1>2, <1>3, <2>1
<1> HIDE DEF left
<1>6. /\ page \subseteq left
      /\ \A t \in page, v \in left \ page : Ahead(Place(v), Place(t))
      /\ page = {} => left = {}
  BY <1>1, <1>4, PageIsPrefix
<1>7. gotten(page) \in [Turns -> Nat]
  BY <1>3
<1>8. \A t \in Turns : gotten(page)[t] = IF t \in page /\ turns[t].shown THEN x.got[t] + 1
                                         ELSE x.got[t]
  BY RowIs
<1> DEFINE phase == IF page = left THEN "done" ELSE "paging"
           at == IF page = left THEN x.at ELSE LastPlace(page)
<1>9. at \in Places
  <2>1. CASE page = left
    BY <1>3, <2>1
  <2>2. CASE page # left
    <3>1. page # {} /\ page \subseteq Stored
      BY <1>4, <1>6, <2>2
    <3>2. \E w \in page : LastPlace(page) = Place(w)
      BY <3>1, LastPlaceIs
    <3> QED
      BY <2>2, <3>1, <3>2, RowIs, StoredIs
  <2> QED
    BY <2>1, <2>2
<1>10. list' = [x EXCEPT !.phase = phase, !.high = x.high, !.at = at, !.got = gotten(page)]
  BY <1>1 DEF Traversals
<1> HIDE DEF phase, at, gotten
<1>11. phase \in {"done", "paging"}
  BY DEF phase
<1>12. /\ list' \in Traversals(inserted') /\ list'.phase = phase /\ list'.since = x.since
       /\ list'.high = x.high /\ list'.at = at /\ list'.got = gotten(page)
       /\ list'.shifted = x.shifted
  BY <1>2, <1>3, <1>7, <1>9, <1>10, <1>11 DEF Traversals
\* What the page makes of one turn.
<1>13. ASSUME NEW t \in Turns \ x.shifted
       PROVE  /\ gotten(page)[t] <= 1
              /\ turns[t] = Absent => gotten(page)[t] = 0
              /\ gotten(page)[t] = 1 => x.since < turns[t].seq
              /\ t \in page => x.got[t] = 0 /\ (turns[t].shown => gotten(page)[t] = 1)
              /\ t \notin page => gotten(page)[t] = x.got[t]
  <2>1. IsExactAt(x, t) /\ x.got[t] \in Nat /\ turns[t].seq \in Nat
    BY <1>3, <1>13, RowIs
  <2>2. gotten(page)[t] = IF t \in page /\ turns[t].shown THEN x.got[t] + 1 ELSE x.got[t]
    BY <1>8
  <2>3. CASE t \in page
    <3>1. turns[t].seq \in (x.since + 1) .. x.high /\ Ahead(Place(t), x.at) /\ t \in Stored
      BY <1>4, <1>5, <1>6, <2>3
    <3>2. x.got[t] = 0 /\ turns[t] # Absent /\ x.since < turns[t].seq
      BY <1>3, <2>1, <3>1 DEF IsExactAt, Stored
    <3>3. turns[t].shown => gotten(page)[t] = 1
      BY <2>2, <2>3, <3>2
    <3>4. gotten(page)[t] <= 1
      BY <2>2, <3>2
    <3> QED
      BY <2>3, <3>2, <3>3, <3>4
  <2>4. CASE t \notin page
    <3>1. gotten(page)[t] = x.got[t]
      BY <2>2, <2>4
    <3> QED
      BY <2>1, <2>4, <3>1 DEF IsExactAt
  <2> QED
    BY <2>3, <2>4
<1>14. ASSUME page = left PROVE ListInv'
  <2>1. ASSUME NEW t \in Turns \ x.shifted PROVE IsExactInTheEnd(list, t)'
    <3>1. ASSUME turns[t].shown, turns[t].seq \in (x.since + 1) .. x.high
          PROVE  gotten(page)[t] = 1
      <4>1. CASE Ahead(Place(t), x.at)
        BY <1>5, <1>13, <1>14, <3>1, <4>1
      <4>2. CASE ~Ahead(Place(t), x.at)
        BY <1>5, <1>13, <1>14, <3>1, <4>2 DEF IsExactAt
      <4> QED
        BY <4>1, <4>2
    <3> QED
      BY <1>2, <1>12, <1>13, <3>1 DEF IsExactInTheEnd
  <2>2. list'.phase = "done"
    BY <1>12, <1>14 DEF phase
  <2>3. PagesAreExact'
    BY <2>2 DEF PagesAreExact
  <2>4. TraversalIsExact'
    BY <1>12, <2>1 DEF TraversalIsExact, IsExactInTheEnd
  <2> QED
    BY <1>12, <2>3, <2>4 DEF ListInv
<1>15. ASSUME page # left PROVE ListInv'
  <2>1. page # {} /\ page \subseteq Stored
    BY <1>4, <1>6, <1>15
  <2>2. PICK w \in page : /\ LastPlace(page) = Place(w)
                          /\ \A u \in page \ {w} : Ahead(Place(w), Place(u))
    BY <2>1, LastPlaceIs
  <2>3. at = Place(w) /\ w \in Turns /\ Place(w) \in Places /\ Ahead(Place(w), x.at)
    BY <1>5, <1>6, <1>15, <2>1, <2>2, RowIs, StoredIs DEF at
  <2>4. ASSUME NEW t \in Turns \ x.shifted PROVE IsExactAt(list, t)'
    <3>1. Place(t) \in Places
      BY RowIs
    <3>2. ASSUME turns[t].seq \in (x.since + 1) .. x.high, Ahead(Place(t), at)
          PROVE  gotten(page)[t] = 0
      <4>1. Ahead(Place(t), x.at)
        BY <1>3, <2>3, <3>1, <3>2, AheadIsOrder
      <4>2. t # w /\ ~Ahead(Place(w), Place(t))
        BY <2>3, <3>1, <3>2, AheadIsOrder
      <4>3. t \notin page
        BY <2>2, <4>2
      <4> QED
        BY <1>13, <3>2, <4>1, <4>3 DEF IsExactAt
    <3>3. ASSUME turns[t].seq \in (x.since + 1) .. x.high, ~Ahead(Place(t), at),
                 turns[t].shown
          PROVE  gotten(page)[t] = 1
      <4>1. CASE t \in left
        <5>1. t \in page
          BY <1>6, <2>2, <2>3, <3>3, <4>1
        <5> QED
          BY <1>13, <3>3, <5>1
      <4>2. CASE t \notin left
        <5>1. ~Ahead(Place(t), x.at) /\ t \notin page
          BY <1>5, <1>6, <3>3, <4>2
        <5> QED
          BY <1>13, <3>3, <5>1 DEF IsExactAt
      <4> QED
        BY <4>1, <4>2
    <3>4. Ahead(Place(t), list.at)' <=> Ahead(Place(t), at)
      BY <1>2, <1>12 DEF Ahead
    <3> QED
      BY <1>2, <1>12, <1>13, <3>2, <3>3, <3>4 DEF IsExactAt
  <2>5. list'.phase = "paging"
    BY <1>12, <1>15 DEF phase
  <2>6. PagesAreExact'
    BY <1>12, <2>4 DEF PagesAreExact
  <2>7. TraversalIsExact'
    BY <2>5 DEF TraversalIsExact
  <2> QED
    BY <1>12, <2>6, <2>7 DEF ListInv
<1> QED
  BY <1>14, <1>15

\* At the start there is no traversal.
LEMMA ListStarts == ASSUME Init PROVE ListInv
<1>1. list = NoTraversal /\ inserted \in Nat
  BY DEF Init
<1> QED
  BY <1>1, NoTraversalIs DEF ListInv, PagesAreExact, TraversalIsExact

\* The first page of a traversal: it has no turn yet, and all are ahead.
LEMMA StartListKeepsList ==
    ASSUME StoreIsTyped, ListInv, StartList
    PROVE  ListInv'
<1>1. PICK since \in {0, list.high} :
          ListPage([NoTraversal EXCEPT !.since = since, !.high = inserted,
                                       !.floor = ListFloor])
  BY DEF StartList
<1> DEFINE x == [NoTraversal EXCEPT !.since = since, !.high = inserted,
                                    !.floor = ListFloor]
<1>2. inserted \in Nat /\ ListFloor \in Nat /\ UNCHANGED store
  BY ListFloorIs DEF StoreIsTyped, StartList
<1>3. since \in 0 .. inserted
  BY <1>2 DEF ListInv, Traversals
<1>4. NoTraversal \in Traversals(inserted)
  BY <1>2, NoTraversalIs
<1>5. /\ x \in Traversals(inserted) /\ x.since = since /\ x.at = NoTraversal.at
      /\ x.got = NoTraversal.got /\ x.high = inserted /\ x.shifted = NoTraversal.shifted
  <2>1. inserted \in 0 .. inserted
    BY <1>2
  <2>2. x \in Traversals(inserted)
    BY <1>2, <1>3, <1>4, <2>1 DEF Traversals
  <2>3. x.since = since /\ x.high = inserted
    BY <1>4 DEF Traversals
  <2>4. x.at = NoTraversal.at /\ x.got = NoTraversal.got
        /\ x.shifted = NoTraversal.shifted
    BY <1>4 DEF Traversals
  <2> QED
    BY <2>2, <2>3, <2>4
<1>6. ListPage(x)
  BY <1>1
<1> HIDE DEF x
<1>7. ASSUME NEW t \in Turns PROVE IsExactAt(x, t)
  <2>1. x.got[t] = 0 /\ x.at = Start
    BY <1>2, <1>5, NoTraversalIs
  <2>2. CASE t \in Stored
    <3>1. Place(t) \in Places /\ Place(t).worker # 0
      BY <2>2, RowIs
    <3>2. Ahead(Place(t), x.at)
      BY <2>1, <3>1, AheadIsOrder
    <3> QED
      BY <2>1, <3>2 DEF IsExactAt
  <2>3. CASE t \notin Stored
    <3>1. ~turns[t].shown
      BY <2>3, RowIs
    <3>2. turns[t].seq = 0
      BY <2>3, RowIs
    <3>3. ~(turns[t].seq \in (x.since + 1) .. x.high)
      BY <1>2, <1>3, <1>5, <3>2
    <3> QED
      BY <2>1, <3>3 DEF IsExactAt
  <2> QED
    BY <2>2, <2>3
<1> QED
  BY <1>2, <1>5, <1>6, <1>7, ListPageKeepsList

\* A further page, or the cursor has expired.
LEMMA ContinueListKeepsList ==
    ASSUME StoreIsTyped, ListInv, ContinueList
    PROVE  ListInv'
<1>1. /\ UNCHANGED store /\ list.phase = "paging" /\ list \in Traversals(inserted)
      /\ inserted' = inserted /\ inserted \in Nat
  BY DEF ContinueList, ListInv, StoreIsTyped, store
<1>2. ASSUME ListCursorValid, ListPage(list) PROVE ListInv'
  <2>1. \A t \in Turns \ list.shifted : IsExactAt(list, t)
    BY <1>1, <1>2 DEF ListInv, PagesAreExact, ListCursorValid
  <2> QED
    BY <1>1, <1>2, <2>1, ListPageKeepsList
<1>3. ASSUME list' = [NoTraversal EXCEPT !.high = list.high] PROVE ListInv'
  <2>1. list.high \in 0 .. inserted /\ NoTraversal \in Traversals(inserted)
        /\ NoTraversal.phase = "idle"
    BY <1>1, NoTraversalIs DEF Traversals
  <2>2. list' \in Traversals(inserted') /\ list'.phase = "idle"
    BY <1>1, <1>3, <2>1 DEF Traversals
  <2> QED
    BY <2>2 DEF ListInv, PagesAreExact, TraversalIsExact
<1> QED
  BY <1>2, <1>3 DEF ContinueList

\* No step breaks what the list client relies on.
LEMMA ListIsKept == StoreIsTyped /\ ListInv /\ [Next]_vars => ListInv'
<1> SUFFICES ASSUME StoreIsTyped, ListInv, [Next]_vars PROVE ListInv'
  OBVIOUS
<1>1. ASSUME NEW t \in Turns, Insert(t) \/ Update(t) \/ Delete(t) PROVE ListInv'
  BY <1>1, InsertKeepsList, UpdateKeepsList, DeleteKeepsList
<1>2. ASSUME OtherHost \/ Compact PROVE ListInv'
  BY <1>2, OthersKeepList DEF OtherHost, Compact
<1>3. ASSUME Write PROVE ListInv'
  BY <1>1, <1>2, <1>3 DEF Write, Turns
<1>4. ASSUME Poll \/ LoseCursor PROVE ListInv'
  BY <1>4, OthersKeepList
     DEF Poll, StartBootstrap, ContinueBootstrap, StartChanges, ContinueChanges, LoseCursor,
         store
<1>5. ASSUME StartList \/ ContinueList PROVE ListInv'
  BY <1>5, StartListKeepsList, ContinueListKeepsList
<1>6. ASSUME UNCHANGED vars PROVE ListInv'
  BY <1>6, OthersKeepList DEF vars, store
<1> QED
  BY <1>3, <1>4, <1>5, <1>6 DEF Next

-----------------------------------------------------------------------------

\* What a client of turn.delta has wrong it will be told of, whatever is written, however
\* the journal is compacted and wherever its pages end; and no token that the daemon has
\* given out is ever beyond the journal.
THEOREM DeltaSound == Spec => []DeltaIsSound
<1>1. Init => DeltaInv /\ ListInv
  BY DeltaStarts, ListStarts
<1>2. DeltaInv /\ ListInv /\ [Next]_vars => (DeltaInv /\ ListInv)'
  BY DeltaIsKept, ListIsKept DEF DeltaInv
<1>3. DeltaInv /\ ListInv => DeltaIsSound
  BY DeltaInvSuffices DEF ListInv, Traversals
<1> QED
  BY <1>1, <1>2, <1>3, PTL DEF Spec

\* A traversal of turn.list that ends has every turn of its range exactly once, but for
\* those that changed their place or were shown or hidden meanwhile.
THEOREM TraversalExact == Spec => []TraversalIsExact
<1>1. Init => DeltaInv /\ ListInv
  BY DeltaStarts, ListStarts
<1>2. DeltaInv /\ ListInv /\ [Next]_vars => (DeltaInv /\ ListInv)'
  BY DeltaIsKept, ListIsKept DEF DeltaInv
<1>3. DeltaInv /\ ListInv => TraversalIsExact
  BY DEF ListInv
<1> QED
  BY <1>1, <1>2, <1>3, PTL DEF Spec
=============================================================================
