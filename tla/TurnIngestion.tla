---------------------------- MODULE TurnIngestion ----------------------------
(***************************************************************************)
(* TurnIngestionScheduler (backends/herdr_turns.py): one coordinator thread *)
(* scans the worker bindings, a bounded queue feeds a fixed pool of reader *)
(* threads, stop() runs on a third thread.  Everything the code does under *)
(* one hold of self._condition is one action; the listing of the bindings, *)
(* the binding lookup and the adapter read happen outside it.  work is the *)
(* state the condition protects, and the operators from work to work are   *)
(* the _locked methods.                                                    *)
(*                                                                         *)
(* A binding is a number, in the order list_worker_bindings returns them,  *)
(* with a version that every change of its worker or of its turn target    *)
(* raises.  Time only says that a delay is over: scanDue is                *)
(* "now >= _next_scan", so the earlier time that one failed listing sets   *)
(* is one of the moments at which scanDue may rise; a binding retry has a  *)
(* flag due.  _queued is the set of the queue's keys.  Counters, health    *)
(* and the pruning of caches and pending rows after a scan are left out.   *)
(***************************************************************************)
EXTENDS Integers, FiniteSets, Sequences, SequencesExt

CONSTANTS
    N,              \* number of eligible bindings
    MaxWorkers,
    QueueCapacity,
    MaxChanges,     \* bound: changes of the bindings in the store
    MaxFaults       \* bound: store reads that fail

ASSUME TurnIngestionAssumption ==
    /\ N \in Nat /\ MaxWorkers \in Nat \ {0} /\ QueueCapacity \in Nat \ {0}
    /\ MaxChanges \in Nat /\ MaxFaults \in Nat

Keys == 1..N
MaxVersion == MaxChanges + 1

VARIABLES
    live,       \* the bindings in the store
    version,    \* their versions
    work,       \* what the condition protects
    phase,      \* "new", "accepting", "stopped"
    forceExit,  \* _force_exit
    rescan,     \* _rescan_requested
    scanDue,    \* now >= _next_scan
    cursor,     \* _scan_cursor
    coord,      \* where the coordinator thread is
    listing,    \* the items of a listing not yet applied
    stopper,    \* where stop() is
    clean,      \* coordinator_clean
    attempted,  \* attempted[k]: the last version whose read has begun
    faults, changes

vars == <<live, version, work, phase, forceExit, rescan, scanDue, cursor, coord,
          listing, stopper, clean, attempted, faults, changes>>

store == <<live, version, changes>>
stopping == <<phase, forceExit, stopper, clean>>
scanning == <<rescan, scanDue, cursor, listing>>

Item == [key : Keys, ver : 1..MaxVersion]
Results == {"none", "read", "stale", "lookup_failed", "cancelled"}
Reader == [key : Keys, ver : 1..MaxVersion,
           at : {"submitted", "reading", "done"}, result : Results]
Retry == [key : Keys, ver : 1..MaxVersion, due : BOOLEAN]

Idle == [queue |-> <<>>, running |-> <<>>, dirty |-> {}, latest |-> <<>>,
         deferred |-> <<>>, retryDue |-> <<>>, retried |-> {}]

Accepting == phase = "accepting"
KeysOf(s) == {s[i].key : i \in DOMAIN s}
Without(s, k) == RemoveFirstMatch(s, LAMBDA x : x.key = k)
Replaced(s, item) ==
    [i \in DOMAIN s |-> IF s[i].key = item.key THEN [s[i] EXCEPT !.ver = item.ver] ELSE s[i]]
Latest(w, r) == IF r.key \in DOMAIN w.latest THEN w.latest[r.key] ELSE r.ver
Forget(w, k) == [x \in DOMAIN w.latest \ {k} |-> w.latest[x]]
Current(r) == r.key \in live /\ version[r.key] = r.ver

\* Mutant: the notify is forgotten.
Unwoken == coord

\* The coordinator wakes if it is in wait().
Woken == IF coord = "waiting" THEN "top" ELSE coord

-----------------------------------------------------------------------------

\* Mutant: a binding that is being read is queued again.
EnqueueRunning(w, item) ==
    IF item.key \in KeysOf(w.queue) \/ Len(w.queue) >= QueueCapacity THEN w
    ELSE [w EXCEPT !.queue = Append(@, item)]

EnqueueLocked(w, item) ==
    LET k == item.key
        seen == [w EXCEPT !.latest =
                    [x \in DOMAIN w.latest \cup {k} |-> IF x = k THEN item.ver ELSE w.latest[x]]]
    IN  CASE k \in KeysOf(w.running) -> [seen EXCEPT !.dirty = @ \cup {k}]
          [] k \in KeysOf(w.retryDue) \ KeysOf(w.running) ->
                [seen EXCEPT !.retryDue = Replaced(@, item)]
          [] k \in KeysOf(w.deferred) \ (KeysOf(w.running) \cup KeysOf(w.retryDue)) ->
                [seen EXCEPT !.deferred = Replaced(@, item)]
          [] OTHER ->
                IF k \in KeysOf(w.queue) THEN seen
                ELSE IF Len(w.queue) >= QueueCapacity
                     THEN [w EXCEPT !.latest = Forget(w, k)]
                     ELSE [seen EXCEPT !.queue = Append(@, item)]

\* Mutant: deferred reruns are left where they are.
PromoteNothing(w) == w

PromoteDeferredLocked(w) ==
    LET room == QueueCapacity - Len(w.queue)
        n == IF Accepting /\ room > 0
             THEN IF room < Len(w.deferred) THEN room ELSE Len(w.deferred)
             ELSE 0
    IN  [w EXCEPT !.queue = @ \o SubSeq(w.deferred, 1, n),
                  !.deferred = SubSeq(@, n + 1, Len(@))]

PromoteBindingRetriesLocked(w) ==
    FoldLeft(LAMBDA x, r : IF r.due
                           THEN EnqueueLocked([x EXCEPT !.retryDue = Without(@, r.key)],
                                              [key |-> r.key, ver |-> r.ver])
                           ELSE x,
             w, w.retryDue)

\* Mutant: the slot a dispatch empties is not offered to a deferred rerun.
DispatchOneOnly(w) ==
    IF Accepting /\ w.queue # <<>> /\ Len(w.running) < MaxWorkers
    THEN [w EXCEPT !.queue = Tail(@),
                   !.running = Append(@, [key |-> Head(w.queue).key, ver |-> Head(w.queue).ver,
                                          at |-> "submitted", result |-> "none"])]
    ELSE w

\* One turn of the dispatch loop
DispatchOne(w) ==
    IF Accepting /\ w.queue # <<>> /\ Len(w.running) < MaxWorkers
    THEN LET item == Head(w.queue)
             taken == [w EXCEPT !.queue = Tail(@), !.retryDue = Without(@, item.key)]
         IN  [PromoteDeferredLocked(taken) EXCEPT !.running =
                 Append(@, [key |-> item.key, ver |-> item.ver,
                            at |-> "submitted", result |-> "none"])]
    ELSE w

DispatchLocked(w) ==
    LET ready == PromoteBindingRetriesLocked(PromoteDeferredLocked(w))
        after[n \in 0..MaxWorkers] == IF n = 0 THEN ready ELSE DispatchOne(after[n - 1])
    IN  after[MaxWorkers]

\* Mutant: a reader is collected without its request for a rerun.
CollectReaderOnly(w, r) ==
    [w EXCEPT !.running = Without(@, r.key), !.latest = Forget(w, r.key)]

\* What becomes of a reader that has ended
CollectOne(w, r) ==
    LET k == r.key
        ver == Latest(w, r)
        gone == [w EXCEPT !.running = Without(@, k), !.dirty = @ \ {k}]
        settled == IF r.result \in {"read", "stale"}
                   THEN [gone EXCEPT !.retried = @ \ {k}, !.retryDue = Without(@, k)]
                   ELSE gone
        rerun == [key |-> k, ver |-> ver]
        forgotten == [settled EXCEPT !.latest = Forget(w, k)]
    IN  CASE r.result = "lookup_failed" ->
                IF Accepting /\ k \notin w.retried
                THEN [forgotten EXCEPT !.retried = @ \cup {k},
                         !.retryDue = Append(@, [key |-> k, ver |-> ver, due |-> FALSE])]
                ELSE forgotten
          [] r.result # "lookup_failed" ->
                IF k \notin w.dirty \/ ~Accepting THEN forgotten
                ELSE IF Len(w.queue) < QueueCapacity
                     THEN [settled EXCEPT !.queue = Append(@, rerun)]
                     ELSE [settled EXCEPT !.deferred = Append(@, rerun)]

CollectFinishedLocked(w) ==
    FoldLeft(LAMBDA x, r : IF r.at = "done" THEN CollectOne(x, r) ELSE x, w, w.running)

-----------------------------------------------------------------------------

Init ==
    /\ live \in SUBSET Keys
    /\ version = [k \in Keys |-> 1]
    /\ work = Idle
    /\ phase = "new"
    /\ forceExit = FALSE
    /\ rescan = FALSE
    /\ scanDue = FALSE
    /\ cursor = 0
    /\ coord = "none"
    /\ listing = <<>>
    /\ stopper = "idle"
    /\ clean = TRUE
    /\ attempted = [k \in Keys |-> 0]
    /\ faults = 0
    /\ changes = 0

Start ==
    /\ phase = "new"
    /\ phase' = "accepting"
    /\ rescan' = TRUE
    /\ scanDue' = TRUE
    /\ coord' = "top"
    /\ UNCHANGED <<store, work, forceExit, cursor, listing, stopper, clean, attempted,
                   faults>>

RequestRefresh ==
    /\ Accepting
    /\ rescan' = TRUE
    /\ coord' = Woken
    /\ UNCHANGED <<store, work, stopping, scanDue, cursor, listing, attempted, faults>>

\* A reader whose whole run fits between executor.submit and add_done_callback
\* ends while the coordinator still holds the condition, so that its notify
\* wakes nobody.  early are these readers, broken those of them whose lookup failed.
Ended(r, broken) ==
    [r EXCEPT !.at = "done",
              !.result = IF r.key \in broken THEN "lookup_failed"
                         ELSE IF Current(r) THEN "read" ELSE "stale"]

Submitted(w) ==
    \E early \in SUBSET (KeysOf(w.running) \ KeysOf(work.running)) :
      \E broken \in SUBSET early :
        /\ faults + Cardinality(broken) <= MaxFaults
        /\ faults' = faults + Cardinality(broken)
        /\ work' = [w EXCEPT !.running =
                       [i \in DOMAIN @ |-> IF @[i].key \in early
                                           THEN Ended(@[i], broken) ELSE @[i]]]
        /\ attempted' = [k \in Keys |->
                            IF k \in early \ broken /\ k \in live
                               /\ \E i \in DOMAIN w.running :
                                     w.running[i].key = k /\ Current(w.running[i])
                            THEN version[k] ELSE attempted[k]]

\* One pass of the coordinator's loop.  It ends in a scan, in a wait or in the
\* end of the thread.
Coordinate ==
    LET collected == CollectFinishedLocked(work)
        exit == forceExit \/ (~Accepting /\ collected.running = <<>>)
        scan == Accepting /\ (rescan \/ scanDue)
    IN  /\ coord = "top"
        /\ \/ /\ exit
              /\ coord' = "exited"
              /\ work' = collected
              /\ UNCHANGED <<rescan, scanDue, faults, attempted>>
           \/ /\ ~exit
              /\ Submitted(DispatchLocked(PromoteBindingRetriesLocked(collected)))
              /\ coord' = IF scan THEN "listing" ELSE "waiting"
              /\ rescan' = (rescan /\ ~scan)
              /\ scanDue' = (scanDue /\ ~scan)
        /\ UNCHANGED <<store, stopping, cursor, listing>>

\* The timeout of wait(), which it has only while accepting
WaitTimesOut ==
    /\ coord = "waiting"
    /\ Accepting
    /\ scanDue \/ \E i \in DOMAIN work.retryDue : work.retryDue[i].due
    /\ coord' = "top"
    /\ UNCHANGED <<store, work, stopping, scanning, attempted, faults>>

ScanFails ==
    /\ coord = "listing"
    /\ faults < MaxFaults
    /\ faults' = faults + 1
    /\ coord' = "top"
    /\ UNCHANGED <<store, work, stopping, scanning, attempted>>

ListBindings ==
    /\ coord = "listing"
    /\ coord' = "listed"
    /\ listing' = [i \in 1..Cardinality(live) |->
                      LET k == CHOOSE k \in live : Cardinality({j \in live : j <= k}) = i
                      IN  [key |-> k, ver |-> version[k]]]
    /\ UNCHANGED <<store, work, stopping, rescan, scanDue, cursor, attempted, faults>>

Rotated(s, n) == SubSeq(s, n + 1, Len(s)) \o SubSeq(s, 1, n)

\* Mutant: every scan begins with the same binding.
FixedCursor(offset, n) == offset

NextCursor(offset, n) == (offset + QueueCapacity) % n

\* Mutant: the retry of a binding that is gone stays.
PruneBudgets(w, dead) == [w EXCEPT !.retried = @ \ dead]

Pruned(w, dead) ==
    FoldSet(LAMBDA k, x : [x EXCEPT !.retried = @ \ {k}, !.retryDue = Without(@, k)],
            w, dead)

\* Mutant: what was listed before stop() is queued after it.
ApplyAnyListing ==
    /\ coord = "listed"
    /\ Submitted(DispatchLocked(FoldLeft(EnqueueLocked, work, listing)))
    /\ coord' = "top"
    /\ listing' = <<>>
    /\ UNCHANGED <<store, stopping, rescan, scanDue, cursor>>

ApplyListing ==
    LET pruned == Pruned(work, work.retried \ KeysOf(listing))
        n == Len(listing)
        offset == IF n = 0 THEN 0 ELSE cursor % n
    IN  /\ coord = "listed"
        /\ IF Accepting
           THEN /\ cursor' = IF n = 0 THEN cursor ELSE NextCursor(offset, n)
                /\ Submitted(DispatchLocked(
                       FoldLeft(EnqueueLocked, pruned, Rotated(listing, offset))))
           ELSE /\ work' = pruned
                /\ UNCHANGED <<cursor, faults, attempted>>
        /\ coord' = "top"
        /\ listing' = <<>>
        /\ UNCHANGED <<store, stopping, rescan, scanDue>>

-----------------------------------------------------------------------------
(* The reader threads *)

\* _run_item looks the binding up; what it then does ends in _future_finished.
LookupBinding(i) ==
    LET r == work.running[i]
    IN  /\ r.at = "submitted"
        /\ \/ /\ Current(r)
              /\ work' = [work EXCEPT !.running[i].at = "reading"]
              /\ attempted' = [attempted EXCEPT ![r.key] = r.ver]
              /\ UNCHANGED <<coord, faults>>
           \/ /\ ~Current(r)
              /\ work' = [work EXCEPT !.running[i] = Ended(r, {})]
              /\ coord' = Woken
              /\ UNCHANGED <<attempted, faults>>
           \/ /\ faults < MaxFaults
              /\ faults' = faults + 1
              /\ work' = [work EXCEPT !.running[i] = Ended(r, {r.key})]
              /\ coord' = Woken
              /\ UNCHANGED attempted
        /\ UNCHANGED <<store, stopping, scanning>>

\* The adapter answers, fails or runs into its timeout: the binding was valid.
ReadEnds(i) ==
    /\ work.running[i].at = "reading"
    /\ work' = [work EXCEPT !.running[i].at = "done", !.running[i].result = "read"]
    /\ coord' = Woken
    /\ UNCHANGED <<store, stopping, scanning, attempted, faults>>

-----------------------------------------------------------------------------
(* stop() *)

Stop ==
    /\ phase # "stopped"
    /\ phase' = "stopped"
    /\ rescan' = FALSE
    /\ work' = [Idle EXCEPT !.running = work.running]
    /\ stopper' = IF phase = "new" THEN "done" ELSE "joining"
    /\ coord' = Woken
    /\ UNCHANGED <<store, forceExit, clean, scanDue, cursor, listing, attempted, faults>>

\* coordinator.join(timeout)
Join ==
    /\ stopper = "joining"
    /\ \/ /\ coord = "exited"
          /\ stopper' = "closing"
          /\ UNCHANGED <<forceExit, coord>>
       \/ /\ coord # "exited"
          /\ forceExit' = TRUE
          /\ coord' = Woken
          /\ stopper' = "rejoining"
    /\ UNCHANGED <<store, work, phase, clean, scanning, attempted, faults>>

\* coordinator.join(0.25) returns because the thread ended or because time is up.
Rejoin ==
    /\ stopper = "rejoining"
    /\ clean' = (coord = "exited")
    /\ stopper' = "closing"
    /\ UNCHANGED <<store, work, phase, forceExit, coord, scanning, attempted, faults>>

\* executor.shutdown(wait=coordinator_clean, cancel_futures=True): futures that no
\* thread has picked up yet are cancelled, and their callback notifies.
Shutdown ==
    /\ stopper = "closing"
    /\ stopper' = "draining"
    /\ \E unstarted \in SUBSET {i \in DOMAIN work.running : work.running[i].at = "submitted"} :
          /\ work' = [work EXCEPT !.running =
                        [i \in DOMAIN @ |-> IF i \in unstarted
                                            THEN [@[i] EXCEPT !.at = "done",
                                                              !.result = "cancelled"]
                                            ELSE @[i]]]
          /\ coord' = IF unstarted = {} THEN coord ELSE Woken
    /\ UNCHANGED <<store, phase, forceExit, clean, scanning, attempted, faults>>

Busy == {i \in DOMAIN work.running : work.running[i].at # "done"}

StopReturns ==
    /\ stopper = "draining"
    /\ clean => Busy = {}
    /\ stopper' = "done"
    /\ UNCHANGED <<store, work, phase, forceExit, clean, coord, scanning, attempted,
                   faults>>

-----------------------------------------------------------------------------
(* The store and time *)

Bind(k) ==
    /\ k \notin live
    /\ changes < MaxChanges
    /\ changes' = changes + 1
    /\ live' = live \cup {k}
    /\ version' = [version EXCEPT ![k] = @ + 1]
    /\ UNCHANGED <<work, stopping, scanning, coord, attempted, faults>>

Rebind(k) ==
    /\ k \in live
    /\ changes < MaxChanges
    /\ changes' = changes + 1
    /\ version' = [version EXCEPT ![k] = @ + 1]
    /\ UNCHANGED <<live, work, stopping, scanning, coord, attempted, faults>>

Unbind(k) ==
    /\ k \in live
    /\ changes < MaxChanges
    /\ changes' = changes + 1
    /\ live' = live \ {k}
    /\ UNCHANGED <<version, work, stopping, scanning, coord, attempted, faults>>

\* (nothing reads the clock for the next scan once stop() has run)
ScanFallsDue ==
    /\ Accepting
    /\ ~scanDue
    /\ scanDue' = TRUE
    /\ UNCHANGED <<store, work, stopping, rescan, cursor, listing, coord, attempted,
                   faults>>

\* All retries have one delay, so they fall due in the order they were made.
RetryFallsDue ==
    /\ \E i \in DOMAIN work.retryDue :
          /\ ~work.retryDue[i].due
          /\ \A j \in 1..(i - 1) : work.retryDue[j].due
          /\ work' = [work EXCEPT !.retryDue[i].due = TRUE]
    /\ UNCHANGED <<store, stopping, scanning, coord, attempted, faults>>

Threads ==
    \/ Coordinate \/ WaitTimesOut \/ ScanFails \/ ListBindings \/ ApplyListing
    \/ \E i \in DOMAIN work.running : LookupBinding(i) \/ ReadEnds(i)

Next ==
    \/ Start \/ RequestRefresh
    \/ Threads
    \/ Stop \/ Join \/ Rejoin \/ Shutdown \/ StopReturns
    \/ \E k \in Keys : Bind(k) \/ Rebind(k) \/ Unbind(k)
    \/ ScanFallsDue \/ RetryFallsDue

Spec == Init /\ [][Next]_vars

CoordinatorPlaces == {"none", "top", "waiting", "listing", "listed", "exited"}

\* Every thread runs, every delay ends, an adapter call ends (it has a timeout).
\* Coordinate, ListBindings or ScanFails, and ApplyListing are always enabled
\* where the coordinator comes to them, and are its only steps from there.
Fairness ==
    /\ WF_coord(coord \in {"top", "listing", "listed"} /\ coord' \in CoordinatorPlaces \ {coord})
    /\ WF_vars(WaitTimesOut)
    /\ \A i \in 1..MaxWorkers :
          WF_vars(i \in DOMAIN work.running /\ (LookupBinding(i) \/ ReadEnds(i)))
    /\ WF_vars(ScanFallsDue) /\ WF_vars(RetryFallsDue)
    /\ WF_vars(Join \/ Rejoin \/ Shutdown \/ StopReturns)

LiveSpec == Spec /\ Fairness
-----------------------------------------------------------------------------
(* Properties *)

TypeOK ==
    /\ live \subseteq Keys
    /\ version \in [Keys -> 1..MaxVersion]
    /\ work.queue \in Seq(Item) /\ work.running \in Seq(Reader)
    /\ work.deferred \in Seq(Item) /\ work.retryDue \in Seq(Retry)
    /\ work.dirty \subseteq Keys /\ work.retried \subseteq Keys
    /\ DOMAIN work.latest \subseteq Keys
    /\ \A k \in DOMAIN work.latest : work.latest[k] \in 1..MaxVersion
    /\ phase \in {"new", "accepting", "stopped"}
    /\ coord \in CoordinatorPlaces
    /\ stopper \in {"idle", "joining", "rejoining", "closing", "draining", "done"}
    /\ {forceExit, rescan, scanDue, clean} \subseteq BOOLEAN
    /\ cursor \in 0..N /\ (N > 0 => cursor < N)
    /\ listing \in Seq(Item)
    /\ attempted \in [Keys -> 0..MaxVersion]
    /\ faults \in 0..MaxFaults /\ changes \in 0..MaxChanges

\* A binding has one place: it is queued, read, deferred or waits for its retry,
\* and is there once.  So it is never read concurrently with itself.
EachBindingOnce ==
    LET places == <<work.queue, work.running, work.deferred, work.retryDue>>
    IN  /\ \A p \in DOMAIN places :
              Cardinality(KeysOf(places[p])) = Len(places[p])
        /\ \A p, q \in DOMAIN places :
              p # q => KeysOf(places[p]) \cap KeysOf(places[q]) = {}

\* Whenever the condition is free, the queue and the pool keep their bounds, no
\* worker is idle while a binding is queued, and no rerun is still deferred: a
\* rerun that found the queue full has taken the slot the same pass emptied.
NoIdleWorker ==
    /\ Len(work.queue) <= QueueCapacity
    /\ Len(work.running) <= MaxWorkers
    /\ work.queue # <<>> => Len(work.running) = MaxWorkers
    /\ work.deferred = <<>>

\* A rerun that was asked for is owed by a reader in flight and knows which
\* binding to read: the newest one listed, never older than the reader's.
RerunIsOwed ==
    \A k \in work.dirty :
        /\ k \in DOMAIN work.latest
        /\ \E i \in DOMAIN work.running :
              work.running[i].key = k /\ work.running[i].ver <= work.latest[k]

\* A binding that waits for a retry of its lookup has used its only retry up, so
\* that a scan which no longer lists it removes both.
RetryHasBudget == KeysOf(work.retryDue) \subseteq work.retried

\* stop() leaves no work behind that a thread still running could pick up, and
\* when it ended the coordinator in time it returns after the last reader.
StopIsClean ==
    /\ phase = "stopped" => work = [Idle EXCEPT !.running = work.running]
    /\ (stopper = "done" /\ clean) => (coord \in {"none", "exited"} /\ Busy = {})

\* stop() returns, the coordinator thread ends and the readers end, also when a
\* join timed out while a scan or a read was under way.
StopEnds ==
    phase = "stopped" ~> (stopper = "done" /\ coord \in {"none", "exited"} /\ Busy = {})

\* From some time on no listing finds a binding in the queue (the readers are faster
\* than the scans), or the bindings fit into the queue and the pool.
QueueKeepsUp ==
    \/ <>[](coord = "listed" => work.queue = <<>>)
    \/ <>[](Cardinality(live) <= QueueCapacity + MaxWorkers)

EachIsRead ==
    \A k \in Keys :
        (Accepting /\ k \in live)
            ~> (attempted[k] = version[k] \/ ~Accepting \/ k \notin live)

\* A binding is eventually read at the version it then has, whatever else is
\* queued, rebound or fails (MaxChanges ends the changes of its version): also one
\* that is dropped because each scan finds room for few, when the queue keeps up.
RefreshHappens == QueueKeepsUp => EachIsRead

\* Without the premise, as the comment on the rotation of the scans has it
\* (herdr_turns.py:4534, "instead of starving"), the code does not keep it
\* (BindingStarvation.cfg): a binding may be dropped by every scan that lists it
\* first, because just then the queue is full.
NothingStarves == EachIsRead

\* The coordinator's queue, its workers, what they owe to requests and retries, and
\* what remains of them after stop() fit together.
SchedulerIsSound ==
    TypeOK /\ EachBindingOnce /\ NoIdleWorker /\ RerunIsOwed /\ RetryHasBudget /\ StopIsClean

=============================================================================
