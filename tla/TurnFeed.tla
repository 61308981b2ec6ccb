------------------------------ MODULE TurnFeed ------------------------------
(***************************************************************************)
(* The turns of one host as clients read them: turn.delta, which bootstraps *)
(* a copy and then reports changes from a journal, and turn.list, which     *)
(* pages through the turns.                                                 *)
(*                                                                          *)
(* A page is one read transaction.  The daemon keeps nothing between pages: *)
(* cursor, watermark and since tokens carry everything, so what a client    *)
(* holds is its token.  A reader changes nothing that another one sees, so  *)
(* a behaviour has one of the two clients, chosen at the start.             *)
(*                                                                          *)
(* Of a turn's row: its immutable list sequence, its worker, and whether    *)
(* projections show it; they leave out internal automation, and tombstones  *)
(* that migrations made.  What a projection shows is the worker: a change   *)
(* of anything else in place is like hiding the turn or showing it.         *)
(***************************************************************************)
EXTENDS Integers, FiniteSets, FiniteSetsExt

CONSTANTS
    DeltaTurns,    \* the turns of a behaviour with the delta client
    ListTurns,     \* the turns of a behaviour with the list client
    Workers,       \* worker ids; their order is that of the listing
    Limit,         \* rows on a page
    Ceiling,       \* TURN_DELTA_MAX_BATCH_SEQUENCES
    KeepCount,     \* TURN_CHANGE_RETENTION_COUNT
    BatchSize,     \* TURN_CHANGE_COMPACTION_BATCH_SIZE
    MaxSeq         \* bound on the sequence of the journal

ASSUME FeedAssumption ==
    /\ Workers \subseteq Nat \ {0}
    /\ {Limit, Ceiling, KeepCount, BatchSize, MaxSeq} \subseteq Nat \ {0}

VARIABLES
    turns,    \* the table turns, with the current revision of each
    inserted, \* turn_list_hosts: the last list sequence given out
    journal,  \* turn_change_journal: the rows of this host
    lastSeq,  \* the AUTOINCREMENT of the journal, which all hosts share
    floor,    \* turn_change_floor
    client,   \* external: "delta" or "list", who is reading
    view,     \* external: the delta client's copy of the turns
    mark,     \* external: the watermark it has accepted, -1 for none
    cursor,   \* external: the cursor of the batch it is in
    list      \* external: the traversal of the list client

Turns == DeltaTurns \cup ListTurns

store == <<turns, inserted, journal, lastSeq, floor>>
delta == <<view, mark, cursor>>
vars == <<store, client, delta, list>>

Absent == [seq |-> 0, worker |-> 0, shown |-> FALSE]
Gone == 0
Start == [worker |-> 0, seq |-> 0]
NoCursor == [mode |-> "none", accepted |-> 0, high |-> 0, inserted |-> 0, at |-> Start]
NoTraversal == [phase |-> "idle", since |-> 0, high |-> 0, same |-> TRUE, floor |-> 0,
                at |-> Start, got |-> [t \in Turns |-> 0], shifted |-> {}]

NoCopy == [t \in Turns |-> Gone]

Init ==
    /\ turns = [t \in Turns |-> Absent]
    /\ inserted = 0
    /\ journal = {} /\ lastSeq = 0 /\ floor = 0
    /\ client \in {"delta", "list"}
    /\ view = NoCopy
    /\ mark = -1
    /\ cursor = NoCursor
    /\ list = NoTraversal

Stored == {t \in Turns : turns[t] # Absent}
Place(t) == [worker |-> turns[t].worker, seq |-> turns[t].seq]

\* What a projection shows of a turn
Public(t) == IF turns[t].shown THEN turns[t].worker ELSE Gone

-----------------------------------------------------------------------------
(* Writers *)

\* The triggers put a row in the journal for every material change of a turn and for
\* every revision that becomes current.  (The list does not read the journal: it is
\* kept for the delta client only.)
Journaled(t) ==
    /\ lastSeq < MaxSeq
    /\ lastSeq' = lastSeq + 1
    /\ journal' = IF client = "list" THEN journal
                  ELSE journal \cup {[seq |-> lastSeq + 1, turn |-> t]}

\* Mutant: the last sequence is given out again.
NextSequenceRepeated == Max({1, inserted})

\* _turn_list_sequence_conn: a sequence is never given out twice.
NextSequence == inserted + 1

\* An observation or a snapshot inserts a turn.
Insert(t) ==
    /\ turns[t] = Absent
    /\ inserted' = inserted + 1
    /\ \E w \in Workers, shown \in BOOLEAN :
          turns' = [turns EXCEPT ![t] = [seq |-> NextSequence, worker |-> w,
                                         shown |-> shown]]
    /\ Journaled(t)
    /\ UNCHANGED <<floor, client, delta, list>>

\* A later observation changes the row or its current revision.  Its owner may have
\* another worker id by then.  A transaction that does both has two rows in the
\* journal: an update and one that changes nothing.
Update(t) ==
    /\ t \in Stored
    /\ \E w \in Workers, shown \in BOOLEAN :
          turns' = [turns EXCEPT ![t].worker = w, ![t].shown = shown]
    /\ list' = IF turns' = turns \/ list.phase = "idle" THEN list
               ELSE [list EXCEPT !.shifted = @ \cup {t}]
    /\ Journaled(t)
    /\ UNCHANGED <<inserted, floor, client, delta>>

\* The trigger is silent about tombstones, whose removal was journaled before.
Removal(t) ==
    \/ Journaled(t)
    \/ ~turns[t].shown /\ UNCHANGED <<journal, lastSeq>>

\* Pruning, retention of acknowledged finals, a replay that is discarded.  The
\* traversal_generation is incremented: it is not the one of an open cursor then.
Delete(t) ==
    /\ t \in Stored
    /\ turns' = [turns EXCEPT ![t] = Absent]
    /\ Removal(t)
    /\ list' = [list EXCEPT !.same = list.phase = "idle"]
    /\ UNCHANGED <<inserted, floor, client, delta>>

OtherHost ==
    /\ client = "delta"
    /\ lastSeq < MaxSeq
    /\ lastSeq' = lastSeq + 1
    /\ UNCHANGED <<turns, inserted, journal, floor, client, delta, list>>

\* Mutant: rows are judged by their age alone.
ProtectedNone == {}

\* The newest rows are kept whatever their age.
Protected ==
    {j \in journal : Cardinality({k \in journal : k.seq > j.seq}) < KeepCount}

\* compact_turn_change_journal.  The oldest rows pass the retention period first; how
\* many have passed it is left open.
Compact ==
    \E n \in 1..BatchSize :
        LET old == journal \ Protected
            batch == {j \in old : Cardinality({k \in old : k.seq < j.seq}) < n}
        IN  /\ batch # {}
            /\ journal' = journal \ batch
            /\ floor' = Max({floor} \cup {j.seq : j \in batch})
            /\ UNCHANGED <<turns, inserted, lastSeq, client, delta, list>>

-----------------------------------------------------------------------------
(* turn.delta.  A page ends early when it would become too large, but never *)
(* without a change on it.                                                   *)

JournalHigh == Max({0} \cup {j.seq : j \in journal})

\* p comes after q in the listing: by worker, then the newest first.
Ahead(p, q) == p.worker > q.worker \/ (p.worker = q.worker /\ p.seq < q.seq)

\* A page of turns is the beginning of what is left.
TurnPages(left) ==
    {page \in {{t \in left : Cardinality({u \in left : Ahead(Place(t), Place(u))}) < n} :
                  n \in 1..Limit} :
        \/ page = left
        \/ Cardinality(page) = Limit
        \/ \E t \in page : turns[t].shown}

LastPlace(page) ==
    Place(CHOOSE t \in page : \A u \in page \ {t} : Ahead(Place(t), Place(u)))

\* Mutant: the checkpoint of a bootstrap is taken when it ends.
FrozenLate(c) == JournalHigh

\* The checkpoint is the end of the journal when the bootstrap began.
Frozen(c) == c.high

\* The next page of the bootstrap c
BootstrapPage(c) ==
    LET left == {t \in Stored : turns[t].seq <= c.inserted /\ Ahead(Place(t), c.at)}
    IN  \E page \in TurnPages(left) :
           /\ view' = [t \in Turns |-> IF t \in page /\ Public(t) # Gone THEN Public(t)
                                       ELSE view[t]]
           /\ IF page = left
              THEN cursor' = NoCursor /\ mark' = Frozen(c)
              ELSE cursor' = [c EXCEPT !.at = LastPlace(page)] /\ UNCHANGED mark

\* (With too many turns the request is refused, which changes nothing.)
StartBootstrap ==
    /\ UNCHANGED <<store, client, list>>
    /\ client = "delta"
    /\ cursor = NoCursor /\ mark = -1
    /\ BootstrapPage([NoCursor EXCEPT !.mode = "bootstrap", !.high = JournalHigh,
                                      !.inserted = inserted])

ContinueBootstrap ==
    /\ UNCHANGED <<store, client, list>>
    /\ cursor.mode = "bootstrap"
    /\ BootstrapPage(cursor)

\* Mutant: the checkpoint is the last row that was seen.
CheckpointOfRows(c, rows) == Max({c.accepted} \cup rows)

Checkpoint(c, rows) == c.high

\* The last row of each turn in the batch, of those not sent yet
Collapsed(c) ==
    {j \in journal :
        /\ c.accepted < j.seq /\ j.seq <= c.high
        /\ c.at.seq < j.seq
        /\ \A k \in journal : k.turn = j.turn /\ k.seq <= c.high => k.seq <= j.seq}

ChangePages(left) ==
    {{j \in left : Cardinality({k \in left : k.seq < j.seq}) < n} : n \in 1..Limit}

\* The next page of the batch c, with what the turns are now.  (Here and below there are
\* one-element sets instead of LET, which TLC evaluates at each use in ENABLED.)
ChangesPage(c) ==
    \E left \in {Collapsed(c)} :
        \E page \in ChangePages(left) :
           /\ view' = [t \in Turns |-> IF \E j \in page : j.turn = t THEN Public(t)
                                       ELSE view[t]]
           /\ IF page = left
              THEN cursor' = NoCursor /\ mark' = Checkpoint(c, {j.seq : j \in page})
              ELSE /\ cursor' = [c EXCEPT !.at.seq = Max({j.seq : j \in page})]
                   /\ UNCHANGED mark

\* A request with the watermark.  When it is invalid or has expired the client
\* starts from nothing.
StartChanges ==
    /\ UNCHANGED <<store, client, list>>
    /\ cursor = NoCursor /\ mark # -1
    /\ IF mark > JournalHigh \/ mark < floor
       THEN mark' = -1 /\ view' = NoCopy /\ UNCHANGED cursor
       ELSE \E high \in {Min({JournalHigh, mark + Ceiling})} :
                ChangesPage([NoCursor EXCEPT !.mode = "changes", !.accepted = mark,
                                             !.high = high])

ContinueChanges ==
    /\ UNCHANGED <<store, client, list>>
    /\ cursor.mode = "changes"
    /\ IF cursor.accepted < floor
       THEN cursor' = NoCursor /\ UNCHANGED <<view, mark>>
       ELSE ChangesPage(cursor)

\* The cursor's 300 seconds pass, or the client restarts from its watermark.
LoseCursor ==
    /\ cursor # NoCursor
    /\ cursor' = NoCursor
    /\ view' = IF mark = -1 THEN NoCopy ELSE view
    /\ UNCHANGED <<store, client, mark, list>>

-----------------------------------------------------------------------------
(* turn.list *)

ListFloor == IF Stored = {} THEN 0 ELSE Min({turns[t].seq : t \in Stored})

\* Mutant: every page lists up to the newest turn.
ListHighNow(x) == inserted

\* What was inserted after the first page stays out of the traversal.
ListHigh(x) == x.high

ListPage(x) ==
    LET high == ListHigh(x)
        left == {t \in Stored : /\ x.since < turns[t].seq /\ turns[t].seq <= high
                                /\ Ahead(Place(t), x.at)}
    IN  \E page \in TurnPages(left) :
           /\ list' = [x EXCEPT !.phase = IF page = left THEN "done" ELSE "paging",
                                !.high = high,
                                !.at = IF page = left THEN @ ELSE LastPlace(page),
                                !.got = [t \in Turns |-> IF t \in page /\ Public(t) # Gone
                                                         THEN @[t] + 1 ELSE @[t]]]

\* A new traversal, of all turns or of those after the last one's since token
StartList ==
    /\ client = "list"
    /\ list.phase # "paging"
    /\ \E since \in {0, list.high} :
          ListPage([NoTraversal EXCEPT !.since = since, !.high = inserted,
                                       !.floor = ListFloor])
    /\ UNCHANGED <<store, client, delta>>

\* The cursor has expired when its 300 seconds have passed, when a turn was deleted,
\* the oldest turn is a newer one, or the turn it ended with is not in its place.
ListCursorValid ==
    /\ list.same
    /\ list.floor # 0 => ListFloor <= list.floor
    /\ \E t \in Stored : Place(t) = list.at

ContinueList ==
    /\ list.phase = "paging"
    /\ \/ ListCursorValid /\ ListPage(list)
       \/ list' = [NoTraversal EXCEPT !.high = list.high]
    /\ UNCHANGED <<store, client, delta>>

-----------------------------------------------------------------------------

Write ==
    \/ \E t \in IF client = "delta" THEN DeltaTurns ELSE ListTurns :
          Insert(t) \/ Update(t) \/ Delete(t)
    \/ OtherHost \/ Compact

Poll == StartBootstrap \/ ContinueBootstrap \/ StartChanges \/ ContinueChanges

Next == Write \/ Poll \/ LoseCursor \/ StartList \/ ContinueList

\* The delta client keeps polling.
Spec == Init /\ [][Next]_vars /\ WF_vars(Poll)

-----------------------------------------------------------------------------
(* Properties *)

Row == [seq : Nat, worker : Workers, shown : BOOLEAN]

\* Types, and that the list sequences of stored turns are distinct and given out.
TypeOK ==
    /\ \A t \in Turns : turns[t] \in Row \cup {Absent}
    /\ \A t \in Stored : turns[t].seq \in 1..inserted
    /\ \A t, u \in Stored : t # u => turns[t].seq # turns[u].seq
    /\ \A j \in journal : j.seq \in 1..lastSeq /\ j.turn \in Turns
    /\ floor \in 0..lastSeq
    /\ \A t \in Turns : view[t] \in Workers \cup {Gone}
    /\ mark \in -1..lastSeq
    /\ cursor.mode \in {"none", "bootstrap", "changes"}
    /\ list.phase \in {"idle", "paging", "done"}

\* The journal has a row for t after s.
ChangedAfter(t, s) == \E j \in journal : j.turn = t /\ j.seq > s

\* Whatever a client's copy has wrong, it will be told: the turn is still to come in
\* the bootstrap, or the journal has a row for it that the client has not reached.
\* Only a client whose watermark or cursor the daemon will refuse may miss more.
DeltaIsComplete ==
    /\ cursor = NoCursor /\ mark >= floor =>
          \A t \in Turns : view[t] = Public(t) \/ ChangedAfter(t, mark)
    /\ cursor.mode = "changes" /\ cursor.accepted >= floor =>
          \A t \in Turns : view[t] = Public(t) \/ ChangedAfter(t, cursor.at.seq)
    /\ cursor.mode = "bootstrap" /\ cursor.high >= floor =>
          \A t \in Turns :
              \/ view[t] = Public(t)
              \/ ChangedAfter(t, cursor.high)
              \/ turns[t].seq \in 1..cursor.inserted /\ Ahead(Place(t), cursor.at)

\* A watermark that the daemon has issued is never beyond its journal, however much
\* of the journal is compacted: it can expire but not become invalid.
WatermarkIsKnown == mark <= JournalHigh /\ cursor.high <= JournalHigh

\* A traversal of the list that ends has every turn of its range once, except those
\* that moved to another worker, were shown or were hidden since it began.
TraversalIsExact ==
    list.phase = "done" =>
        \A t \in Turns \ list.shifted :
            /\ list.got[t] <= 1
            /\ list.got[t] = 1 => list.since < turns[t].seq \/ turns[t] = Absent
            /\ turns[t].shown /\ turns[t].seq \in (list.since + 1)..list.high
                  => list.got[t] = 1

CopyIsCurrent == \A t \in Turns : view[t] = Public(t)

\* A client that keeps polling ends up with the turns as they are once they stop
\* changing, unless it loses its cursor for ever.
ClientCatchesUp ==
    \/ <>[](client = "list" \/ CopyIsCurrent)
    \/ []<><<LoseCursor>>_vars

\* A client of turn.delta misses nothing, and is not told that a good token is bad.
DeltaIsSound == TypeOK /\ DeltaIsComplete /\ WatermarkIsKnown

=============================================================================
