--------------------------- MODULE HerdrTurnStream ---------------------------
(***************************************************************************)
(* The completed-turn stream of backends/herdr_events.py and the durable   *)
(* replay watermarks of store/sqlite.py.                                   *)
(*                                                                         *)
(* Herdr numbers the turns each pane completes, per server epoch, keeps    *)
(* the newest History of them for replay (pane.turns) and announces new    *)
(* ones on a subscription that delivers no backlog.  The backend thread    *)
(* reconciles, replays every known pane from its watermark, subscribes,    *)
(* replays again to close the window before the subscription, and then     *)
(* reads events, queueing and flushing them in batches.  stop() flushes    *)
(* from its own thread, so two threads may process completion records at   *)
(* once, each reading a watermark in one transaction and writing in        *)
(* another.  A connection, a batch or the whole process may fail at any    *)
(* step.                                                                   *)
(***************************************************************************)
EXTENDS Integers, Sequences, FiniteSets, SequencesExt

CONSTANTS
    Panes,          \* pane identifiers
    Unrouted,       \* panes whose binding routes by terminal and session, not by pane id
    History,        \* completed turns herdr keeps per pane for replay
    MaxTurn,        \* bound: turns a pane completes in one epoch
    MaxEpoch,       \* bound: herdr server epochs
    MaxFaults       \* bound: disconnects, failed batches, pane errors, crashes and stops

ASSUME StreamAssumption ==
    /\ Unrouted \subseteq Panes
    /\ {History, MaxTurn, MaxEpoch} \subseteq Nat \ {0}
    /\ MaxFaults \in Nat

VARIABLES
    herdr,          \* external: per pane, its turn counter and whether it is open
    epoch,          \* external: the server's turn epoch
    api,            \* external: whether the server has pane.turns
    mark,           \* herdr_turn_watermarks
    done,           \* herdr_turn_completions, as pane, epoch and turn
    base,           \* per pane and epoch, the turn up to which a baseline or a
                    \* counted break accounts for what was not recorded
    pc,             \* where run_forever is
    known,          \* _subscription_pane_ids
    supported,      \* _turn_api_supported
    seen,           \* the watermarks the current replay round read first
    left,           \* panes the current replay round has still to visit
    skipped,        \* panes the last round skipped with a diagnostic
    subs,           \* panes with a live pane.turn_completed subscription
    wire,           \* records sent on the subscription and not read yet
    pending,        \* _pending_events
    todo,           \* per thread, completion records being processed
    read,           \* per thread, the watermark read for the first of them
    leftover,       \* history: a queued event outlived the connection it came from
    halt,           \* stop_event, and whether stop() has done its flush
    faults

streamVars == <<herdr, epoch, api, mark, done, base, pc, known, supported, seen,
                left, skipped, subs, wire, pending, todo, read, leftover, halt, faults>>

Threads == {"backend", "stopper"}
NoMark == [epoch |-> -1, last |-> -1]
Unread == [epoch |-> -2, last |-> -2]
Marks == {NoMark} \cup [epoch : 1 .. MaxEpoch, last : 0 .. MaxTurn]
Record == [pane : Panes, epoch : 1 .. MaxEpoch, turn : 1 .. MaxTurn]
Larger(m, n) == IF m > n THEN m ELSE n
Newest(records) == IF records = <<>> THEN 0 ELSE Last(records).turn

StreamTypeOK ==
    /\ herdr \in [Panes -> [turn : 0 .. MaxTurn, open : BOOLEAN]]
    /\ epoch \in 1 .. MaxEpoch
    /\ api \in BOOLEAN
    /\ mark \in [Panes -> Marks]
    /\ done \subseteq Record
    /\ base \in [Panes -> [1 .. MaxEpoch -> 0 .. MaxTurn]]
    /\ pc \in {"start", "probe", "first", "subscribe", "second", "read", "drain",
              "stopped"}
    /\ {known, left, skipped, subs} \subseteq SUBSET Panes
    /\ supported \in BOOLEAN
    /\ seen \in [Panes -> Marks]
    /\ wire \in Seq(Record)
    /\ pending \in Seq(Record)
    /\ todo \in [Threads -> Seq(Record)]
    /\ read \in [Threads -> Marks \cup {Unread}]
    /\ leftover \in BOOLEAN
    /\ halt \in {"no", "set", "flushed"}
    /\ faults \in 0 .. MaxFaults

StreamInit ==
    /\ herdr \in [Panes -> [turn : {0, 1}, open : BOOLEAN]]
    /\ epoch = 1
    /\ api \in BOOLEAN
    /\ mark = [p \in Panes |-> NoMark]
    /\ done = {}
    /\ base = [p \in Panes |-> [e \in 1 .. MaxEpoch |-> 0]]
    /\ pc = "start"
    /\ known = {} /\ left = {} /\ skipped = {} /\ subs = {}
    /\ supported = FALSE
    /\ seen = [p \in Panes |-> NoMark]
    /\ wire = <<>> /\ pending = <<>>
    /\ todo = [t \in Threads |-> <<>>]
    /\ read = [t \in Threads |-> Unread]
    /\ leftover = FALSE
    /\ halt = "no"
    /\ faults = 0

thread == <<pc, known, supported, seen, left, skipped, subs>>
queues == <<wire, pending, todo, read, leftover>>
store == <<mark, done, base>>
server == <<herdr, epoch, api>>

-----------------------------------------------------------------------------
(* The herdr server.                                                       *)

OpenPane(p) ==
    /\ ~herdr[p].open
    /\ herdr' = [herdr EXCEPT ![p].open = TRUE]
    /\ UNCHANGED <<epoch, api, store, thread, queues, halt, faults>>

TurnCompletes(p) ==
    /\ herdr[p].open /\ herdr[p].turn < MaxTurn
    /\ herdr' = [herdr EXCEPT ![p].turn = @ + 1]
    /\ wire' = IF p \in subs
               THEN Append(wire, [pane |-> p, epoch |-> epoch, turn |-> herdr[p].turn + 1])
               ELSE wire
    /\ UNCHANGED <<epoch, api, store, thread, pending, todo, read, leftover, halt, faults>>

\* The server restarts under a new epoch; its connections die with it, so what
\* was subscribed is no longer delivered.
HerdrRestarts ==
    /\ epoch < MaxEpoch
    /\ epoch' = epoch + 1
    /\ herdr' = [p \in Panes |-> [herdr[p] EXCEPT !.turn = 0]]
    /\ subs' = {}
    /\ UNCHANGED <<api, store, pc, known, supported, seen, left, skipped, queues,
                   halt, faults>>

\* pane.turns: the retained turns after `since`, and whether some of those were
\* already evicted.
Retained(p, since) ==
    LET first == IF herdr[p].turn > since + History THEN herdr[p].turn - History ELSE since
    IN  [k \in 1 .. herdr[p].turn - first |->
            [pane |-> p, epoch |-> epoch, turn |-> first + k]]
Truncated(p, since) == herdr[p].turn > since + History

-----------------------------------------------------------------------------
(* Watermarks.                                                             *)

\* set_herdr_turn_watermark and record_herdr_turn_completeness_break: both put
\* the pane on a new epoch and turn; the second also counts a break.
Rebaseline(p, e, n) ==
    /\ mark' = [mark EXCEPT ![p] = [epoch |-> e, last |-> n]]
    /\ base' = [base EXCEPT ![p][e] = Larger(@, n)]
    /\ UNCHANGED done

\* record_herdr_turn_completion: refused when the stored epoch is another one,
\* otherwise provenance and watermark move together and never back.  `done' has
\* every completion ever recorded: that retention deletes old rows
\* (cleanup_herdr_turn_retention) is left out, no step here reads them.
EpochChanged(r) == mark[r.pane] # NoMark /\ mark[r.pane].epoch # r.epoch

RecordCompletion(r) ==
    /\ done' = done \cup {r}
    /\ mark' = [mark EXCEPT ![r.pane] =
                  [epoch |-> r.epoch, last |-> Larger(@.last, r.turn)]]
    /\ base' = IF mark[r.pane] = NoMark
               THEN [base EXCEPT ![r.pane][r.epoch] = Larger(@, r.turn - 1)] ELSE base

\* cleanup_herdr_turn_retention: an old watermark goes unless a live binding
\* names its pane.  Old means untouched for at least a day, so nothing is in
\* flight.
InFlight == wire # <<>> \/ pending # <<>> \/ \E t \in Threads : todo[t] # <<>>

ExpireWatermark(p) ==
    /\ mark[p] # NoMark
    /\ pc \in {"start", "read", "stopped"} /\ ~InFlight
    /\ p \in Unrouted \/ ~herdr[p].open
    /\ mark' = [mark EXCEPT ![p] = NoMark]
    /\ UNCHANGED <<server, done, base, thread, queues, halt, faults>>

-----------------------------------------------------------------------------
(* Processing one record, in either thread.                                *)

FirstRecord(t) == Head(todo[t])

ReadMark(t) ==
    /\ todo[t] # <<>> /\ read[t] = Unread
    /\ read' = [read EXCEPT ![t] = mark[FirstRecord(t).pane]]
    /\ UNCHANGED <<server, store, thread, wire, pending, todo, leftover, halt, faults>>

\* What _process_turn_record decides from the watermark it read.
BreaksOnEpochOnly(r, w) == w = NoMark \/ w.epoch # r.epoch
Breaks(r, w) == w = NoMark \/ w.epoch # r.epoch \/ r.turn > w.last + 1
Duplicate(r, w) == w # NoMark /\ w.epoch = r.epoch /\ r.turn <= w.last

NextRecord(t) ==
    /\ todo' = [todo EXCEPT ![t] = Tail(@)]
    /\ read' = [read EXCEPT ![t] = Unread]

ApplyRecord(t) ==
    /\ todo[t] # <<>> /\ read[t] # Unread
    /\ LET r == FirstRecord(t) IN
       \/ /\ Duplicate(r, read[t])
          /\ UNCHANGED store
          /\ NextRecord(t)
       \/ /\ Breaks(r, read[t])
          /\ Rebaseline(r.pane, r.epoch, r.turn)
          /\ NextRecord(t)
       \/ /\ ~Duplicate(r, read[t]) /\ ~Breaks(r, read[t]) /\ ~EpochChanged(r)
          /\ RecordCompletion(r)
          /\ NextRecord(t)
    /\ UNCHANGED <<server, thread, wire, pending, leftover, halt, faults>>

-----------------------------------------------------------------------------
(* The backend thread: run_forever.                                        *)

Quiet == todo["backend"] = <<>>

\* reconcile_once lists the panes; on a continuity error or above the worker
\* cap it returns without adopting the list.
Reconcile ==
    /\ pc = "start" /\ halt = "no"
    /\ known' \in {known, {p \in Panes : herdr[p].open}}
    /\ supported' = FALSE
    /\ skipped' = {}
    /\ pc' = "probe"
    /\ UNCHANGED <<server, store, seen, left, subs, queues, halt, faults>>

\* _run_periodic_reconcile_if_due while reading: the pane list is replaced and
\* the subscription is left as it is.
PeriodicReconcile ==
    /\ pc = "read" /\ Quiet
    /\ known # {p \in Panes : herdr[p].open}
    /\ known' = {p \in Panes : herdr[p].open}
    /\ UNCHANGED <<server, store, pc, supported, seen, left, skipped, subs, queues,
                   halt, faults>>

\* The head of _replay_turns_after_reconcile: all watermarks are read first.
BeginReplay ==
    /\ pc = "probe"
    /\ supported' = (api /\ known # {})
    /\ pc' = IF supported' THEN "first" ELSE "subscribe"
    /\ left' = IF supported' THEN known ELSE {}
    /\ seen' = mark
    /\ UNCHANGED <<server, store, known, skipped, subs, queues, halt, faults>>

\* _consume_pane_replay: the answer to pane.turns since the watermark decides.
PaneReplay(p) ==
    LET w == seen[p]
        since == IF w = NoMark THEN 0 ELSE w.last
        broken == w # NoMark /\ (w.epoch # epoch \/ since > herdr[p].turn)
    IN
    /\ pc \in {"first", "second"} /\ p \in left /\ Quiet
    /\ pc = "second" => subs # {}
    /\ left' = left \ {p}
    /\ skipped' = skipped \ {p}
    /\ \/ /\ w = NoMark
          /\ Rebaseline(p, epoch, Newest(Retained(p, 0)))
          /\ UNCHANGED todo
       \/ /\ broken
          /\ Rebaseline(p, epoch, Newest(Retained(p, 0)))
          /\ UNCHANGED todo
       \/ /\ w # NoMark /\ ~broken /\ Truncated(p, since)
          /\ Rebaseline(p, epoch, Newest(Retained(p, since)))
          /\ UNCHANGED todo
       \/ /\ w # NoMark /\ ~broken /\ ~Truncated(p, since)
          /\ todo' = [todo EXCEPT !["backend"] = Retained(p, since)]
          /\ UNCHANGED store
    /\ UNCHANGED <<server, pc, known, supported, seen, subs, wire, pending, read,
                   leftover, halt, faults>>

\* A pane-scoped error: the pane is skipped with a diagnostic.
SkipPane(p) ==
    /\ pc \in {"first", "second"} /\ p \in left /\ Quiet
    /\ faults < MaxFaults
    /\ faults' = faults + 1
    /\ left' = left \ {p}
    /\ skipped' = skipped \cup {p}
    /\ UNCHANGED <<server, store, pc, known, supported, seen, subs, queues, halt>>

EndReplay ==
    /\ pc \in {"first", "second"} /\ left = {} /\ Quiet
    /\ pc' = IF pc = "first" THEN "subscribe" ELSE "read"
    /\ UNCHANGED <<server, store, known, supported, seen, left, skipped, subs, queues,
                   halt, faults>>

\* Completed turns are subscribed to only when the probe found pane.turns; the
\* second replay starts by reading every watermark again.
SubscribeAfterOneReplay ==
    /\ pc = "subscribe" /\ halt = "no"
    /\ subs' = IF supported THEN known ELSE {}
    /\ pc' = "read"
    /\ UNCHANGED <<server, store, known, supported, seen, left, skipped, queues, halt, faults>>

Subscribe ==
    /\ pc = "subscribe" /\ halt = "no"
    /\ subs' = IF supported THEN known ELSE {}
    /\ left' = IF supported THEN known ELSE {}
    /\ pc' = IF supported THEN "second" ELSE "read"
    /\ seen' = mark
    /\ UNCHANGED <<server, store, known, supported, skipped, queues, halt, faults>>

\* _read_event_stream: one blocking read starts a batch, which grows until the
\* debounce window ends or the backend is stopped (queue_event_envelope).
ReadEvent ==
    /\ wire # <<>> /\ Quiet
    /\ pc = "read" \/ (pc = "drain" /\ halt = "no")
    /\ pc' = "drain"
    /\ pending' = Append(pending, Head(wire))
    /\ wire' = Tail(wire)
    /\ UNCHANGED <<server, store, known, supported, seen, left, skipped, subs, todo, read,
                   leftover, halt, faults>>

\* stop() flushes once, in its own thread; the backend after each batch it read.
FlushFullBatch(t) ==
    IF t = "stopper" THEN halt = "set" ELSE pc = "drain" /\ Len(pending) > 1

MayFlush(t) ==
    IF t = "stopper" THEN halt = "set" ELSE pc = "drain"

AfterFlush(t) ==
    /\ halt' = IF t = "stopper" THEN "flushed" ELSE halt
    /\ pending' = <<>>

\* flush: under the lock the batch is drained, applied and persisted; its
\* completion records are processed after the lock is released.
Flush(t) ==
    /\ MayFlush(t)
    /\ AfterFlush(t)
    /\ todo' = [todo EXCEPT ![t] = pending]
    /\ pc' = IF t = "backend" THEN "read" ELSE pc
    /\ UNCHANGED <<server, store, known, supported, seen, left, skipped, subs, wire, read,
                   leftover, faults>>

\* An exception unwinds the thread: run_forever closes the client and starts
\* over; records not processed yet are dropped, queued events are kept.
Unwind(t) ==
    /\ todo' = [todo EXCEPT ![t] = <<>>]
    /\ read' = [read EXCEPT ![t] = Unread]
    /\ IF t = "backend"
       THEN pc' = "start" /\ subs' = {} /\ left' = {} /\ wire' = <<>>
       ELSE UNCHANGED <<pc, subs, left, wire>>
    /\ leftover' = (leftover \/ (t = "backend" /\ pending' # <<>>))
    /\ UNCHANGED <<server, known, supported, seen, skipped>>

\* The transaction finds another epoch and raises.
RecordRefused(t) ==
    /\ todo[t] # <<>> /\ read[t] # Unread
    /\ LET r == FirstRecord(t) IN
       ~Duplicate(r, read[t]) /\ ~Breaks(r, read[t]) /\ EpochChanged(r)
    /\ UNCHANGED pending
    /\ Unwind(t)
    /\ UNCHANGED <<store, halt, faults>>

\* The connection ends: certainly once herdr restarted, and then only after the
\* batch collected so far was flushed; or a malformed line, a timeout or a store
\* error ends it at any point, the batch left in the queue.
Disconnect ==
    /\ pc \notin {"start", "stopped"}
    /\ \/ /\ subs = {} /\ supported /\ pc \in {"second", "read"}
          /\ wire = <<>> /\ Quiet
          /\ UNCHANGED faults
       \/ /\ faults < MaxFaults
          /\ faults' = faults + 1
    /\ UNCHANGED pending
    /\ Unwind("backend")
    /\ UNCHANGED <<store, halt>>

\* Persisting the batch fails after it was drained.
FlushFails(t) ==
    /\ MayFlush(t) /\ pending # <<>>
    /\ AfterFlush(t)
    /\ faults < MaxFaults
    /\ faults' = faults + 1
    /\ Unwind(t)
    /\ UNCHANGED store

\* stop(): the event is set at once and the flush runs in the caller's thread.
Stop ==
    /\ halt = "no" /\ faults < MaxFaults
    /\ halt' = "set"
    /\ faults' = faults + 1
    /\ UNCHANGED <<server, store, thread, queues>>

Stopped ==
    /\ halt # "no" /\ Quiet /\ pc # "stopped"
    /\ pc \in {"start", "subscribe", "read"}
    /\ pc' = "stopped"
    /\ subs' = {} /\ wire' = <<>>
    /\ UNCHANGED <<server, store, known, supported, seen, left, skipped, pending, todo,
                   read, leftover, halt, faults>>

\* The process dies or ends and is started again: only the store survives.
StartAgain ==
    /\ pc' = "start"
    /\ known' = {} /\ left' = {} /\ skipped' = {} /\ subs' = {}
    /\ supported' = FALSE
    /\ wire' = <<>> /\ pending' = <<>>
    /\ todo' = [t \in Threads |-> <<>>]
    /\ read' = [t \in Threads |-> Unread]
    /\ leftover' = FALSE
    /\ halt' = "no"
    /\ UNCHANGED <<server, store, seen>>

Crash ==
    /\ faults < MaxFaults
    /\ faults' = faults + 1
    /\ StartAgain

Restart ==
    /\ pc = "stopped" /\ halt = "flushed" /\ todo["stopper"] = <<>>
    /\ StartAgain
    /\ UNCHANGED faults

-----------------------------------------------------------------------------

ThreadNext ==
    \/ Reconcile \/ BeginReplay \/ EndReplay \/ Subscribe \/ ReadEvent \/ Stopped
    \/ \E p \in Panes : PaneReplay(p)
    \/ \E t \in Threads : ReadMark(t) \/ ApplyRecord(t) \/ RecordRefused(t) \/ Flush(t)

StreamNext ==
    \/ ThreadNext
    \/ \E p \in Panes : OpenPane(p) \/ TurnCompletes(p) \/ SkipPane(p) \/ ExpireWatermark(p)
    \/ \E t \in Threads : FlushFails(t)
    \/ HerdrRestarts \/ PeriodicReconcile \/ Disconnect \/ Stop \/ Crash \/ Restart

\* The daemon keeps its threads running: a step of run_forever, of a flush or
\* of the reconnect that stays possible is taken.
StreamSpec ==
    /\ StreamInit /\ [][StreamNext]_streamVars
    /\ WF_streamVars(ThreadNext) /\ WF_streamVars(Disconnect) /\ WF_streamVars(Restart)

-----------------------------------------------------------------------------
(* Properties.                                                             *)

\* A watermark vouches for every turn since its last baseline or counted break:
\* each has its completion row, whichever threads, replays, disconnects,
\* refused transactions and epochs came between
\* (_process_turn_record, _consume_replay, record_herdr_turn_completion).
MarkIsBacked ==
    \A p \in Panes : mark[p] # NoMark =>
        \A n \in base[p][mark[p].epoch] + 1 .. mark[p].last :
            [pane |-> p, epoch |-> mark[p].epoch, turn |-> n] \in done

\* Once the stream is being read, no turn of a subscribed pane is out of reach:
\* what lies past the watermark is on the wire, in the batch or being processed.
\* That is what the second replay after the subscription is for.
InReach(p, n) ==
    \E r \in Range(wire) \cup Range(pending) \cup UNION {Range(todo[t]) : t \in Threads} :
        r.pane = p /\ r.epoch = epoch /\ r.turn = n

NothingSlipsPast ==
    pc \in {"read", "drain"} /\ halt = "no" /\ ~leftover =>
        \A p \in subs \ skipped :
            mark[p] # NoMark /\ mark[p].epoch = epoch =>
                \A n \in mark[p].last + 1 .. herdr[p].turn : InReach(p, n)

\* Every completed turn is eventually settled, recorded or covered by a counted
\* break, as long as the pane is subscribed and the stream is read.
TurnsSettle ==
    <>[](pc \in {"read", "drain"} /\ ~leftover => \A p \in subs \ skipped :
            mark[p] # NoMark => mark[p].epoch = epoch /\ mark[p].last >= herdr[p].turn)

\* The watermark of a pane stands for turns that were delivered, and no turn slips
\* past it.
MarksAreTrue == StreamTypeOK /\ MarkIsBacked /\ NothingSlipsPast

=============================================================================
