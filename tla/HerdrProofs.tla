----------------------------- MODULE HerdrProofs -----------------------------
(***************************************************************************)
(* Proof that the replay watermarks of the Herdr turn stream are true, for *)
(* every set of panes, history length, turn and epoch bound and number of  *)
(* faults.                                                                 *)
(*                                                                         *)
(* A watermark vouches for completion rows (MarkIsBacked), and so does the *)
(* copy of it a thread has read and not used yet (ReadsAreBacked): rows    *)
(* are never removed and baselines only grow, so a stale copy stays true.  *)
(* That nothing slips past a watermark rests on the backend's queue, the   *)
(* records it processes followed by the batch and the wire: with no stop   *)
(* and no leftover, after each record of a subscribed pane come records of *)
(* all its later turns (QueueFits), and nobody but the backend thread      *)
(* moves a watermark between its read and its use (ReadsAreFresh).         *)
(***************************************************************************)
EXTENDS HerdrTurnStream, SequenceTheorems, TLAPS

\* Every turn of pane p that watermark m vouches for, since base b, has its
\* completion row in d.
Backed(p, m, b, d) ==
    m # NoMark => \A n \in b[p][m.epoch] + 1 .. m.last :
        [pane |-> p, epoch |-> m.epoch, turn |-> n] \in d

\* A thread that has read a watermark is at a record, and what it read stays true.
ReadsAreBacked ==
    \A t \in Threads : read[t] # Unread =>
        todo[t] # <<>> /\ Backed(FirstRecord(t).pane, read[t], base, done)

\* What each place of run_forever implies about the connection and its queues.
PlacesFit ==
    /\ pc \in {"start", "probe", "first", "subscribe", "stopped"} => subs = {} /\ wire = <<>>
    /\ pc \in {"start", "probe", "subscribe", "drain", "stopped"} => Quiet
    /\ pending # <<>> => pc = "drain" \/ leftover
    /\ halt # "flushed" => todo["stopper"] = <<>>

\* What the backend thread has still to process, in order.
Queued == todo["backend"] \o pending \o wire

\* After a record of p in q come records of all later turns.
TailIsThere(q, p) ==
    \A i \in DOMAIN q : q[i].pane = p =>
        \A n \in q[i].turn + 1 .. herdr[p].turn :
            \E j \in DOMAIN q : j > i /\ q[j] = [pane |-> p, epoch |-> epoch, turn |-> n]

Waits(q, p, n) == \E j \in DOMAIN q : q[j] = [pane |-> p, epoch |-> epoch, turn |-> n]

\* What lies past the watermark of p is in q.
Reached(q, p) ==
    mark[p] # NoMark /\ mark[p].epoch = epoch =>
        \A n \in mark[p].last + 1 .. herdr[p].turn : Waits(q, p, n)

Steady == halt = "no" /\ ~leftover /\ subs # {}

QueueFits ==
    Steady =>
        /\ \A i \in DOMAIN Queued : Queued[i].epoch = epoch
        /\ \A p \in subs : TailIsThere(Queued, p)
        /\ \A p \in subs \ skipped : (pc = "second" /\ p \in left) \/ Reached(Queued, p)

\* While only the backend thread runs, nobody else moves the watermarks it has read.
ReadsAreFresh ==
    halt = "no" =>
        /\ read["backend"] # Unread => read["backend"] = mark[FirstRecord("backend").pane]
        /\ pc = "second" =>
              /\ \A p \in left : seen[p] = mark[p]
              /\ \A i \in DOMAIN todo["backend"] : todo["backend"][i].pane \notin left

StreamInv ==
    StreamTypeOK /\ MarkIsBacked /\ ReadsAreBacked /\ PlacesFit /\ QueueFits /\ ReadsAreFresh
-----------------------------------------------------------------------------
(* The turns that are replayed.                                            *)

\* What pane.turns answers: the turns after `since` that are retained, in order.
LEMMA RetainedAre ==
    ASSUME StreamTypeOK, NEW p \in Panes, NEW since \in 0 .. herdr[p].turn
    PROVE  LET first == IF herdr[p].turn > since + History THEN herdr[p].turn - History ELSE since
               q == Retained(p, since)
           IN  /\ first \in since .. herdr[p].turn /\ (~Truncated(p, since) => first = since)
               /\ (Truncated(p, since) => first < herdr[p].turn)
               /\ q \in Seq(Record) /\ Len(q) = herdr[p].turn - first
               /\ DOMAIN q = 1 .. herdr[p].turn - first
               /\ \A k \in DOMAIN q : q[k] = [pane |-> p, epoch |-> epoch, turn |-> first + k]
               /\ Newest(q) \in 0 .. MaxTurn
               /\ (since = 0 \/ Truncated(p, since)) => Newest(q) = herdr[p].turn
<1> DEFINE top == herdr[p].turn
           first == IF top > since + History THEN top - History ELSE since
           q == Retained(p, since)
           e(k) == [pane |-> p, epoch |-> epoch, turn |-> first + k]
<1>1. /\ top \in 0 .. MaxTurn /\ epoch \in 1 .. MaxEpoch /\ since \in Nat
      /\ History \in Nat \ {0} /\ MaxTurn \in Nat /\ MaxEpoch \in Nat
  BY StreamAssumption DEF StreamTypeOK
<1>2. first \in since .. top /\ top - first \in Nat /\ first \in Nat
  BY <1>1
<1>3. q = [k \in 1 .. top - first |-> e(k)]
  BY DEF Retained
<1>4. \A k \in 1 .. top - first : e(k) \in Record
  BY <1>1, <1>2 DEF Record
<1> HIDE DEF first, q
<1>5. q \in Seq(Record) /\ Len(q) = top - first
  BY <1>2, <1>3, <1>4
<1>6. (~Truncated(p, since) => first = since) /\ (Truncated(p, since) => first < top)
  BY <1>1 DEF Truncated, first
<1>7. ASSUME since = 0 \/ Truncated(p, since) PROVE Newest(q) = top
  <2>1. CASE q = <<>>
    <3>1. Len(q) = 0
      BY <2>1, EmptySeq, Zenon
    <3>2. top = first
      BY <1>1, <1>2, <1>5, <3>1
    <3>3. top = 0
      BY <1>1, <1>2, <1>6, <1>7, <3>2
    <3> QED
      BY <1>1, <2>1, <3>3 DEF Newest
  <2>2. CASE q # <<>>
    <3>1. Len(q) \in 1 .. top - first /\ Last(q) = q[Len(q)]
      BY <1>2, <1>5, <2>2, EmptySeq DEF Last
    <3>2. Last(q) = e(top - first)
      BY <1>3, <1>5, <3>1
    <3> QED
      BY <1>1, <1>2, <2>2, <3>2 DEF Newest
  <2> QED
    BY <2>1, <2>2
<1>8. Newest(q) \in 0 .. MaxTurn
  <2>1. CASE q = <<>>
    BY <1>1, <2>1 DEF Newest
  <2>2. CASE q # <<>>
    <3>1. Last(q) \in Record
      BY <1>5, <2>2, EmptySeq, ElementOfSeq DEF Last
    <3> QED
      BY <2>2, <3>1, <1>1 DEF Newest, Record
  <2> QED
    BY <2>1, <2>2
<1> QED
  BY <1>2, <1>3, <1>5, <1>6, <1>7, <1>8 DEF first, q
-----------------------------------------------------------------------------
(* Types.                                                                  *)

\* A pane may be put on any epoch and turn.
LEMMA RebaselineIsTyped ==
    ASSUME StreamTypeOK, NEW p \in Panes, NEW e \in 1 .. MaxEpoch, NEW n \in 0 .. MaxTurn,
           Rebaseline(p, e, n)
    PROVE  /\ mark' \in [Panes -> Marks] /\ done' \subseteq Record
           /\ base' \in [Panes -> [1 .. MaxEpoch -> 0 .. MaxTurn]]
<1>1. [epoch |-> e, last |-> n] \in Marks
  BY DEF Marks
<1>2. Larger(base[p][e], n) \in 0 .. MaxTurn
  BY DEF StreamTypeOK, Larger
<1> QED
  BY <1>1, <1>2 DEF StreamTypeOK, Rebaseline

\* The first record of a thread, and what follows it.
LEMMA HeadAndTail ==
    ASSUME NEW q \in Seq(Record), q # <<>>
    PROVE  /\ Head(q) \in Record /\ Tail(q) \in Seq(Record)
           /\ Head(q).pane \in Panes /\ Head(q).epoch \in 1 .. MaxEpoch
           /\ Head(q).turn \in 1 .. MaxTurn
<1>1. Head(q) \in Record /\ Tail(q) \in Seq(Record)
  OBVIOUS
<1> QED
  BY <1>1 DEF Record

\* Four sets of panes.
LEMMA PaneSets ==
    ASSUME NEW a, NEW b, NEW c, NEW d
    PROVE  {a, b, c, d} \subseteq SUBSET Panes
               <=> a \subseteq Panes /\ b \subseteq Panes /\ c \subseteq Panes /\ d \subseteq Panes
OBVIOUS

\* Starting over keeps the types.
LEMMA UnwindIsTyped ==
    ASSUME StreamTypeOK, NEW t \in Threads, Unwind(t)
    PROVE  /\ todo' \in [Threads -> Seq(Record)] /\ read' \in [Threads -> Marks \cup {Unread}]
           /\ wire' \in Seq(Record) /\ leftover' \in BOOLEAN
           /\ {known', left', skipped', subs'} \subseteq SUBSET Panes
           /\ supported' \in BOOLEAN /\ seen' \in [Panes -> Marks]
           /\ pc' \in {"start", "probe", "first", "subscribe", "second", "read", "drain", "stopped"}
           /\ herdr' \in [Panes -> [turn : 0 .. MaxTurn, open : BOOLEAN]]
           /\ epoch' \in 1 .. MaxEpoch /\ api' \in BOOLEAN
<1>1. <<>> \in Seq(Record)
  OBVIOUS
<1>2. known \subseteq Panes /\ left \subseteq Panes /\ skipped \subseteq Panes /\ subs \subseteq Panes
  BY PaneSets DEF StreamTypeOK
<1>3. {known', left', skipped', subs'} \subseteq SUBSET Panes
  BY <1>2, PaneSets DEF Unwind, server
<1>4. todo' \in [Threads -> Seq(Record)] /\ read' \in [Threads -> Marks \cup {Unread}]
  BY <1>1 DEF StreamTypeOK, Unwind
<1>5. wire' \in Seq(Record) /\ leftover' \in BOOLEAN
  BY <1>1 DEF StreamTypeOK, Unwind
<1> QED
  BY <1>3, <1>4, <1>5 DEF StreamTypeOK, Unwind, server

\* Every step keeps the types.
LEMMA StreamTypes == StreamTypeOK /\ [StreamNext]_streamVars => StreamTypeOK'
<1> SUFFICES ASSUME StreamTypeOK, [StreamNext]_streamVars PROVE StreamTypeOK'
  OBVIOUS
<1> USE StreamAssumption
<1>0. <<>> \in Seq(Record) /\ Unread \in Marks \cup {Unread} /\ NoMark \in Marks
  BY DEF Marks
<1>1. CASE UNCHANGED streamVars
  BY <1>1 DEF StreamTypeOK, streamVars
<1>s. known \subseteq Panes /\ left \subseteq Panes /\ skipped \subseteq Panes /\ subs \subseteq Panes
  BY PaneSets DEF StreamTypeOK
<1>2. CASE Reconcile \/ PeriodicReconcile
  <2>1. {known', left', skipped', subs'} \subseteq SUBSET Panes
    BY <1>2, <1>s, PaneSets DEF Reconcile, PeriodicReconcile
  <2> QED
    BY <1>2, <2>1 DEF StreamTypeOK, Reconcile, PeriodicReconcile, server, store, queues
<1>3. CASE BeginReplay \/ EndReplay \/ Subscribe
  <2>1. {known', left', skipped', subs'} \subseteq SUBSET Panes
    BY <1>3, <1>s, PaneSets DEF BeginReplay, EndReplay, Subscribe
  <2>2. seen' \in [Panes -> Marks] /\ supported' \in BOOLEAN
    BY <1>3 DEF BeginReplay, EndReplay, Subscribe, StreamTypeOK
  <2>3. pc' \in {"first", "subscribe", "second", "read"}
    BY <1>3 DEF BeginReplay, EndReplay, Subscribe
  <2> QED
    BY <1>3, <2>1, <2>2, <2>3
       DEF StreamTypeOK, BeginReplay, EndReplay, Subscribe, server, store, queues
<1>4. CASE ReadEvent
  <2>1. Head(wire) \in Record /\ Tail(wire) \in Seq(Record)
    BY <1>4, HeadAndTail DEF ReadEvent, StreamTypeOK
  <2>2. pending' \in Seq(Record) /\ wire' \in Seq(Record)
    BY <1>4, <2>1 DEF ReadEvent, StreamTypeOK
  <2> QED
    BY <1>4, <2>2 DEF ReadEvent, StreamTypeOK, server, store
<1>5. CASE Stopped \/ Stop
  <2>1. {known', left', skipped', subs'} \subseteq SUBSET Panes
    BY <1>5, <1>s, PaneSets DEF Stopped, Stop, thread
  <2>2. faults' \in 0 .. MaxFaults
    BY <1>5 DEF Stopped, Stop, StreamTypeOK
  <2> QED
    BY <1>5, <1>0, <2>1, <2>2 DEF Stopped, Stop, StreamTypeOK, server, store, thread, queues
<1>6. ASSUME NEW p \in Panes, PaneReplay(p) PROVE StreamTypeOK'
  <2>1. epoch \in 1 .. MaxEpoch /\ herdr[p].turn \in 0 .. MaxTurn
    BY DEF StreamTypeOK
  <2> DEFINE since == IF seen[p] = NoMark THEN 0 ELSE seen[p].last
  <2>2. since \in 0 .. MaxTurn
    BY DEF StreamTypeOK, Marks
  <2>3. Newest(Retained(p, 0)) \in 0 .. MaxTurn
    BY <2>1, RetainedAre
  <2>4. since <= herdr[p].turn =>
           Newest(Retained(p, since)) \in 0 .. MaxTurn /\ Retained(p, since) \in Seq(Record)
    BY <2>1, <2>2, RetainedAre
  <2>5. /\ mark' \in [Panes -> Marks] /\ done' \subseteq Record
        /\ base' \in [Panes -> [1 .. MaxEpoch -> 0 .. MaxTurn]]
        /\ todo' \in [Threads -> Seq(Record)]
    <3>1. CASE UNCHANGED todo /\ Rebaseline(p, epoch, Newest(Retained(p, 0)))
      BY <2>1, <2>3, <3>1, RebaselineIsTyped DEF StreamTypeOK
    <3>2. CASE UNCHANGED todo /\ since <= herdr[p].turn
               /\ Rebaseline(p, epoch, Newest(Retained(p, since)))
      BY <2>1, <2>4, <3>2, RebaselineIsTyped DEF StreamTypeOK
    <3>3. CASE UNCHANGED store /\ since <= herdr[p].turn
               /\ todo' = [todo EXCEPT !["backend"] = Retained(p, since)]
      BY <2>4, <3>3 DEF StreamTypeOK, store
    <3> QED
      BY <1>6, <2>1, <2>2, <3>1, <3>2, <3>3 DEF PaneReplay
  <2>6. left' \subseteq Panes /\ skipped' \subseteq Panes
    BY <1>6 DEF PaneReplay, StreamTypeOK
  <2> QED
    BY <1>6, <2>5, <2>6 DEF PaneReplay, StreamTypeOK, server
<1>7. ASSUME NEW t \in Threads, ReadMark(t) PROVE StreamTypeOK'
  <2>1. FirstRecord(t).pane \in Panes
    BY <1>7, HeadAndTail DEF ReadMark, StreamTypeOK, FirstRecord
  <2> QED
    BY <1>7, <2>1 DEF ReadMark, StreamTypeOK, server, store, thread
<1>8. ASSUME NEW t \in Threads, ApplyRecord(t) PROVE StreamTypeOK'
  <2> DEFINE r == FirstRecord(t)
  <2>1. /\ r \in Record /\ Tail(todo[t]) \in Seq(Record) /\ r.pane \in Panes
        /\ r.epoch \in 1 .. MaxEpoch /\ r.turn \in 1 .. MaxTurn
    BY <1>8, HeadAndTail DEF ApplyRecord, StreamTypeOK, FirstRecord
  <2> HIDE DEF r
  <2>2. todo' \in [Threads -> Seq(Record)] /\ read' \in [Threads -> Marks \cup {Unread}]
    BY <1>8, <1>0, <2>1 DEF ApplyRecord, NextRecord, StreamTypeOK
  <2>3. /\ mark' \in [Panes -> Marks] /\ done' \subseteq Record
        /\ base' \in [Panes -> [1 .. MaxEpoch -> 0 .. MaxTurn]]
    <3>1. CASE UNCHANGED store
      BY <3>1 DEF StreamTypeOK, store
    <3>2. CASE Rebaseline(r.pane, r.epoch, r.turn)
      BY <2>1, <3>2, RebaselineIsTyped
    <3>3. CASE RecordCompletion(r)
      <4>1. Larger(mark[r.pane].last, r.turn) \in 0 .. MaxTurn
        BY <2>1 DEF StreamTypeOK, Marks, NoMark, Larger
      <4>2. mark' \in [Panes -> Marks]
        BY <2>1, <3>3, <4>1 DEF RecordCompletion, StreamTypeOK, Marks
      <4>3. Larger(base[r.pane][r.epoch], r.turn - 1) \in 0 .. MaxTurn
        <5>1. base[r.pane][r.epoch] \in 0 .. MaxTurn
          BY <2>1 DEF StreamTypeOK
        <5> QED
          BY <2>1, <5>1 DEF Larger
      <4> QED
        BY <2>1, <3>3, <4>2, <4>3 DEF RecordCompletion, StreamTypeOK
    <3> QED
      BY <1>8, <3>1, <3>2, <3>3 DEF ApplyRecord, r
  <2> QED
    BY <1>8, <2>2, <2>3 DEF ApplyRecord, StreamTypeOK, server, thread
<1>9. ASSUME NEW t \in Threads, RecordRefused(t) PROVE StreamTypeOK'
  BY <1>9, UnwindIsTyped DEF RecordRefused, StreamTypeOK, store
<1>10. ASSUME NEW t \in Threads, Flush(t) PROVE StreamTypeOK'
  BY <1>0, <1>10 DEF Flush, AfterFlush, StreamTypeOK, server, store
<1>11. ASSUME NEW t \in Threads, FlushFails(t) PROVE StreamTypeOK'
  BY <1>0, <1>11, UnwindIsTyped DEF FlushFails, AfterFlush, StreamTypeOK, store
<1>12. CASE Disconnect
  <2>1. Unwind("backend") /\ UNCHANGED <<store, halt, pending>> /\ faults' \in 0 .. MaxFaults
    BY <1>12 DEF Disconnect, StreamTypeOK
  <2> QED
    BY <2>1, UnwindIsTyped DEF StreamTypeOK, store, Threads
<1>13. CASE Crash \/ Restart
  <2>1. StartAgain /\ faults' \in 0 .. MaxFaults
    BY <1>13 DEF Crash, Restart, StreamTypeOK
  <2> QED
    BY <1>0, <2>1 DEF StartAgain, StreamTypeOK, server, store
<1>14. CASE HerdrRestarts
  <2>1. epoch' \in 1 .. MaxEpoch /\ herdr' \in [Panes -> [turn : 0 .. MaxTurn, open : BOOLEAN]]
    <3>1. epoch' \in 1 .. MaxEpoch
      BY <1>14 DEF HerdrRestarts, StreamTypeOK
    <3>2. herdr' \in [Panes -> [turn : 0 .. MaxTurn, open : BOOLEAN]]
      <4>1. ASSUME NEW p \in Panes
            PROVE  [herdr[p] EXCEPT !.turn = 0] \in [turn : 0 .. MaxTurn, open : BOOLEAN]
        <5>1. herdr[p] \in [turn : 0 .. MaxTurn, open : BOOLEAN] /\ MaxTurn \in Nat
          BY DEF StreamTypeOK
        <5>2. 0 \in 0 .. MaxTurn
          BY <5>1
        <5> QED
          BY <5>1, <5>2, Zenon
      <4> QED
        BY <1>14, <4>1 DEF HerdrRestarts
    <3> QED
      BY <3>1, <3>2
  <2>2. {known', left', skipped', subs'} \subseteq SUBSET Panes
    BY <1>14, <1>s, PaneSets DEF HerdrRestarts
  <2> QED
    BY <1>14, <2>1, <2>2 DEF HerdrRestarts, StreamTypeOK, store, queues
<1>15. ASSUME NEW p \in Panes, OpenPane(p) \/ SkipPane(p) PROVE StreamTypeOK'
  <2>1. {known', left', skipped', subs'} \subseteq SUBSET Panes
    BY <1>15, <1>s, PaneSets DEF OpenPane, SkipPane, thread
  <2>2. faults' \in 0 .. MaxFaults
    BY <1>15 DEF OpenPane, SkipPane, StreamTypeOK
  <2>3. herdr' \in [Panes -> [turn : 0 .. MaxTurn, open : BOOLEAN]]
    BY <1>15 DEF OpenPane, SkipPane, StreamTypeOK, server
  <2> QED
    BY <1>15, <2>1, <2>2, <2>3
       DEF OpenPane, SkipPane, StreamTypeOK, server, store, thread, queues
<1>16. ASSUME NEW p \in Panes, TurnCompletes(p) PROVE StreamTypeOK'
  <2> DEFINE r == [pane |-> p, epoch |-> epoch, turn |-> herdr[p].turn + 1]
  <2>1. r \in Record /\ herdr[p].turn + 1 \in 0 .. MaxTurn
    BY <1>16 DEF TurnCompletes, StreamTypeOK, Record
  <2>2. herdr' \in [Panes -> [turn : 0 .. MaxTurn, open : BOOLEAN]]
    BY <1>16, <2>1 DEF TurnCompletes, StreamTypeOK
  <2>3. wire' \in Seq(Record)
    BY <1>16, <2>1 DEF TurnCompletes, StreamTypeOK
  <2> QED
    BY <1>16, <2>2, <2>3 DEF TurnCompletes, StreamTypeOK, store, thread
<1>17. ASSUME NEW p \in Panes, ExpireWatermark(p) PROVE StreamTypeOK'
  BY <1>0, <1>17 DEF ExpireWatermark, StreamTypeOK, server, thread, queues
<1> QED
  BY <1>1, <1>2, <1>3, <1>4, <1>5, <1>6, <1>7, <1>8, <1>9, <1>10, <1>11, <1>12, <1>13, <1>14,
     <1>15, <1>16, <1>17 DEF StreamNext, ThreadNext
-----------------------------------------------------------------------------
(* What watermarks vouch for.                                              *)

Bases == [Panes -> [1 .. MaxEpoch -> 0 .. MaxTurn]]

\* Bases only rise and completion rows stay.
Grown(b, d, newB, newD) ==
    /\ d \subseteq newD
    /\ \A p \in Panes, e \in 1 .. MaxEpoch : b[p][e] <= newB[p][e]

\* What is vouched for stays so.
LEMMA StaysBacked ==
    ASSUME NEW b \in Bases, NEW d, NEW newB \in Bases, NEW newD, Grown(b, d, newB, newD),
           NEW p \in Panes, NEW m \in Marks, Backed(p, m, b, d)
    PROVE  Backed(p, m, newB, newD)
<1> SUFFICES ASSUME m # NoMark, NEW n \in newB[p][m.epoch] + 1 .. m.last
             PROVE  [pane |-> p, epoch |-> m.epoch, turn |-> n] \in newD
  BY DEF Backed
<1>1. m.epoch \in 1 .. MaxEpoch /\ m.last \in 0 .. MaxTurn
  BY DEF Marks
<1>2. b[p][m.epoch] \in 0 .. MaxTurn /\ newB[p][m.epoch] \in 0 .. MaxTurn
  BY <1>1 DEF Bases
<1>3. n \in b[p][m.epoch] + 1 .. m.last
  BY <1>1, <1>2, StreamAssumption DEF Grown
<1> QED
  BY <1>3 DEF Backed, Grown

\* A thread records the completion it is at, from the watermark it has read.
Records(t) ==
    LET r == FirstRecord(t) IN
    /\ todo[t] # <<>> /\ read[t] # Unread
    /\ ~Duplicate(r, read[t]) /\ ~Breaks(r, read[t]) /\ ~EpochChanged(r)
    /\ RecordCompletion(r)

\* What a step does to the store.
LEMMA StoreMoves ==
    ASSUME StreamTypeOK, [StreamNext]_streamVars
    PROVE  \/ UNCHANGED <<mark, done, base>>
           \/ \E p \in Panes, e \in 1 .. MaxEpoch, n \in 0 .. MaxTurn : Rebaseline(p, e, n)
           \/ \E t \in Threads : Records(t)
           \/ \E p \in Panes : mark' = [mark EXCEPT ![p] = NoMark] /\ UNCHANGED <<done, base>>
<1>1. ASSUME NEW p \in Panes, PaneReplay(p), ~UNCHANGED store
      PROVE  \E n \in 0 .. MaxTurn : Rebaseline(p, epoch, n) /\ epoch \in 1 .. MaxEpoch
  <2> DEFINE since == IF seen[p] = NoMark THEN 0 ELSE seen[p].last
  <2>1. /\ epoch \in 1 .. MaxEpoch /\ herdr[p].turn \in 0 .. MaxTurn /\ since \in 0 .. MaxTurn
        /\ MaxTurn \in Nat
    BY StreamAssumption DEF StreamTypeOK, Marks
  <2>2. Newest(Retained(p, 0)) \in 0 .. MaxTurn
    BY <2>1, RetainedAre
  <2>3. since <= herdr[p].turn => Newest(Retained(p, since)) \in 0 .. MaxTurn
    BY <2>1, RetainedAre
  <2> QED
    BY <1>1, <2>1, <2>2, <2>3 DEF PaneReplay
<1>2. ASSUME NEW t \in Threads, ApplyRecord(t), ~UNCHANGED store
      PROVE  \/ Records(t)
             \/ \E p \in Panes, e \in 1 .. MaxEpoch, n \in 0 .. MaxTurn : Rebaseline(p, e, n)
  <2>1. /\ FirstRecord(t).pane \in Panes /\ FirstRecord(t).epoch \in 1 .. MaxEpoch
        /\ FirstRecord(t).turn \in 0 .. MaxTurn
    BY <1>2, HeadAndTail, StreamAssumption DEF ApplyRecord, StreamTypeOK, FirstRecord
  <2> QED
    BY <1>2, <2>1 DEF ApplyRecord, Records
<1>3. CASE UNCHANGED streamVars
  BY <1>3 DEF streamVars
<1>4. ASSUME NEW p \in Panes, OpenPane(p) \/ TurnCompletes(p) \/ SkipPane(p) \/ ExpireWatermark(p)
      PROVE  \/ UNCHANGED store
             \/ mark' = [mark EXCEPT ![p] = NoMark] /\ UNCHANGED <<done, base>>
  BY <1>4, Zenon DEF OpenPane, TurnCompletes, SkipPane, ExpireWatermark
<1>5. ASSUME NEW t \in Threads, ReadMark(t) \/ RecordRefused(t) \/ Flush(t) \/ FlushFails(t)
      PROVE  UNCHANGED store
  BY <1>5 DEF ReadMark, RecordRefused, Flush, FlushFails
<1>6. CASE \/ Reconcile \/ BeginReplay \/ EndReplay \/ Subscribe \/ ReadEvent \/ Stopped
           \/ HerdrRestarts \/ PeriodicReconcile \/ Disconnect \/ Stop \/ Crash \/ Restart
  <2>1. UNCHANGED store
    BY <1>6 DEF Reconcile, BeginReplay, EndReplay, Subscribe, ReadEvent, Stopped, HerdrRestarts,
                PeriodicReconcile, Disconnect, Stop, Crash, Restart, StartAgain
  <2> QED
    BY <2>1 DEF store
<1> QED
  BY <1>1, <1>2, <1>3, <1>4, <1>5, <1>6 DEF StreamNext, ThreadNext, store

\* Bases rise and completion rows stay.
LEMMA StoreGrows ==
    ASSUME StreamTypeOK, [StreamNext]_streamVars
    PROVE  Grown(base, done, base', done')
<1>1. base \in Bases
  BY DEF StreamTypeOK, Bases
<1>2. CASE UNCHANGED <<done, base>>
  BY <1>1, <1>2, StreamAssumption DEF Grown, Bases
<1>3. ASSUME NEW p \in Panes, NEW e \in 1 .. MaxEpoch, NEW n \in 0 .. MaxTurn, Rebaseline(p, e, n)
      PROVE  Grown(base, done, base', done')
  BY <1>1, <1>3, StreamAssumption DEF Rebaseline, Grown, Bases, Larger
<1>4. ASSUME NEW t \in Threads, Records(t)
      PROVE  Grown(base, done, base', done')
  <2>1. /\ FirstRecord(t).pane \in Panes /\ FirstRecord(t).epoch \in 1 .. MaxEpoch
        /\ FirstRecord(t).turn \in 1 .. MaxTurn
    BY <1>4, HeadAndTail DEF Records, StreamTypeOK, FirstRecord
  <2> DEFINE r == FirstRecord(t)
  <2>2. done \subseteq done'
    BY <1>4 DEF Records, RecordCompletion
  <2>3. CASE base' = base
    BY <1>1, <2>2, <2>3, StreamAssumption DEF Grown, Bases
  <2>4. CASE base' = [base EXCEPT ![r.pane][r.epoch] = Larger(base[r.pane][r.epoch], r.turn - 1)]
    <3>1. r.pane \in Panes /\ r.epoch \in 1 .. MaxEpoch /\ r.turn \in Nat
      BY <2>1, StreamAssumption
    <3> HIDE DEF r
    <3>2. ASSUME NEW q \in Panes, NEW e \in 1 .. MaxEpoch PROVE base[q][e] <= base'[q][e]
      <4>1. base[q][e] \in Int /\ base[q][e] <= base[q][e]
        BY <1>1, StreamAssumption DEF Bases
      <4>2. base'[q][e] = IF q = r.pane /\ e = r.epoch
                          THEN Larger(base[r.pane][r.epoch], r.turn - 1) ELSE base[q][e]
        BY <1>1, <2>4, <3>1 DEF Bases
      <4> QED
        BY <3>1, <4>1, <4>2 DEF Larger
    <3> QED
      BY <2>2, <3>2 DEF Grown
  <2> QED
    BY <1>4, <2>3, <2>4 DEF Records, RecordCompletion
<1> QED
  BY <1>2, <1>3, <1>4, StoreMoves

\* Watermarks are backed, whoever writes them.
LEMMA MarksStayBacked ==
    ASSUME StreamTypeOK, MarkIsBacked, ReadsAreBacked, [StreamNext]_streamVars
    PROVE  MarkIsBacked'
<1>1. StreamTypeOK' /\ Grown(base, done, base', done')
  BY StreamTypes, StoreGrows
<1>2. base \in Bases /\ base' \in Bases /\ mark \in [Panes -> Marks] /\ mark' \in [Panes -> Marks]
  BY <1>1 DEF StreamTypeOK, Bases
<1>3. \A p \in Panes : Backed(p, mark[p], base, done)
  BY DEF MarkIsBacked, Backed
<1>4. SUFFICES ASSUME NEW p \in Panes PROVE Backed(p, mark'[p], base', done')
  BY DEF MarkIsBacked, Backed
<1>5. CASE mark'[p] = mark[p]
  BY <1>1, <1>2, <1>3, <1>5, StaysBacked
<1>6. CASE mark'[p] = NoMark
  BY <1>6 DEF Backed
<1>7. ASSUME NEW q \in Panes, NEW e \in 1 .. MaxEpoch, NEW n \in 0 .. MaxTurn,
             Rebaseline(q, e, n), mark'[p] # mark[p]
      PROVE  Backed(p, mark'[p], base', done')
  <2>1. p = q /\ mark'[p] = [epoch |-> e, last |-> n]
    BY <1>2, <1>7 DEF Rebaseline
  <2>2. base'[p][e] = Larger(base[p][e], n) /\ base[p][e] \in 0 .. MaxTurn
    BY <1>2, <1>7, <2>1 DEF Rebaseline, Bases
  <2> QED
    BY <2>1, <2>2, StreamAssumption DEF Backed, Larger
<1>8. ASSUME NEW t \in Threads, Records(t), mark'[p] # mark[p]
      PROVE  Backed(p, mark'[p], base', done')
  <2> DEFINE r == FirstRecord(t)
             w == read[t]
             m == mark[p]
  <2>1. /\ r \in Record /\ r.pane \in Panes /\ r.epoch \in 1 .. MaxEpoch /\ r.turn \in 1 .. MaxTurn
    BY <1>8, HeadAndTail DEF Records, StreamTypeOK, FirstRecord
  <2>2. w \in Marks /\ w # NoMark /\ w.epoch = r.epoch /\ w.last \in 0 .. MaxTurn
        /\ r.turn <= w.last + 1 /\ (m # NoMark => m.epoch = r.epoch /\ m.last \in 0 .. MaxTurn)
        /\ p = r.pane
    <3>1. w \in Marks \cup {Unread} /\ w # Unread
      BY <1>8 DEF Records, StreamTypeOK
    <3>2. w \in Marks /\ w # NoMark /\ w.epoch = r.epoch /\ ~(r.turn > w.last + 1)
      BY <1>8, <3>1 DEF Records, Breaks
    <3>3. w.last \in 0 .. MaxTurn
      BY <3>2 DEF Marks
    <3>4. p = r.pane
      BY <1>2, <1>8, <2>1 DEF Records, RecordCompletion
    <3>5. m # NoMark => m.epoch = r.epoch /\ m.last \in 0 .. MaxTurn
      BY <1>2, <1>8, <3>4 DEF Records, EpochChanged, Marks
    <3> QED
      BY <2>1, <3>2, <3>3, <3>4, <3>5, StreamAssumption
  <2>3. mark'[p] = [epoch |-> r.epoch, last |-> Larger(m.last, r.turn)] /\ r \in done'
    BY <1>2, <1>8, <2>2 DEF Records, RecordCompletion
  <2>4. r = [pane |-> p, epoch |-> r.epoch, turn |-> r.turn]
    BY <2>1, <2>2 DEF Record
  <2> HIDE DEF r, w, m
  <2>5. SUFFICES ASSUME NEW n \in base'[p][r.epoch] + 1 .. Larger(m.last, r.turn)
                 PROVE  [pane |-> p, epoch |-> r.epoch, turn |-> n] \in done'
    BY <2>3 DEF Backed
  <2>6. n \in Nat /\ base'[p][r.epoch] \in 0 .. MaxTurn /\ n > base'[p][r.epoch]
    BY <1>2, <2>1, <2>5, StreamAssumption DEF Bases
  <2>7. CASE n = r.turn
    BY <2>3, <2>4, <2>7
  <2>8. CASE n < r.turn
    <3>1. Backed(p, w, base', done')
      <4>1. Backed(p, w, base, done)
        BY <1>8, <2>2 DEF Records, ReadsAreBacked, r, w
      <4> QED
        BY <1>1, <1>2, <2>2, <4>1, StaysBacked
    <3>2. n \in base'[p][w.epoch] + 1 .. w.last
      BY <2>1, <2>2, <2>6, <2>8
    <3> QED
      BY <2>2, <3>1, <3>2 DEF Backed
  <2>9. CASE n > r.turn
    <3>1. m # NoMark /\ n <= m.last
      BY <2>1, <2>5, <2>6, <2>9 DEF Larger, NoMark
    <3>2. Backed(p, m, base', done')
      BY <1>1, <1>2, <1>3, StaysBacked DEF m
    <3> QED
      BY <2>2, <2>6, <3>1, <3>2 DEF Backed
  <2> QED
    BY <2>1, <2>6, <2>7, <2>8, <2>9
<1>9. \/ mark'[p] \in {mark[p], NoMark} \/ \E t \in Threads : Records(t)
      \/ \E q \in Panes, e \in 1 .. MaxEpoch, n \in 0 .. MaxTurn : Rebaseline(q, e, n)
  BY <1>2, StoreMoves
<1> QED
  BY <1>5, <1>6, <1>7, <1>8, <1>9
\* What a thread may do to the record it is at and the watermark it has read.
LEMMA ReadsMove ==
    ASSUME StreamTypeOK, ReadsAreBacked, PlacesFit, [StreamNext]_streamVars, NEW t \in Threads
    PROVE  \/ read'[t] = Unread
           \/ read'[t] = read[t] /\ todo'[t] = todo[t]
           \/ /\ read'[t] = mark[FirstRecord(t).pane] /\ todo[t] # <<>>
              /\ UNCHANGED <<todo, mark, done, base>>
<1>0. read \in [Threads -> Marks \cup {Unread}] /\ todo \in [Threads -> Seq(Record)]
      /\ "backend" \in Threads /\ "stopper" \in Threads
  BY DEF StreamTypeOK, Threads
<1>1. \A u \in Threads : todo[u] = <<>> => read[u] = Unread
  BY DEF ReadsAreBacked
<1>2. CASE UNCHANGED <<todo, read>>
  BY <1>2
<1>3. ASSUME NEW p \in Panes, PaneReplay(p)
      PROVE  read'[t] = Unread \/ (read'[t] = read[t] /\ todo'[t] = todo[t])
  <2>1. read' = read /\ read["backend"] = Unread
    BY <1>0, <1>1, <1>3 DEF PaneReplay, Quiet
  <2>2. t # "backend" => todo'[t] = todo[t]
    BY <1>0, <1>3 DEF PaneReplay
  <2> QED
    BY <2>1, <2>2
<1>4. ASSUME NEW u \in Threads, ReadMark(u)
      PROVE  \/ read'[t] = read[t] /\ todo'[t] = todo[t]
             \/ /\ read'[t] = mark[FirstRecord(t).pane] /\ todo[t] # <<>>
                /\ UNCHANGED <<todo, mark, done, base>>
  BY <1>0, <1>4 DEF ReadMark, store
<1>5. ASSUME NEW u \in Threads, ApplyRecord(u)
      PROVE  read'[t] = Unread \/ (read'[t] = read[t] /\ todo'[t] = todo[t])
  <2>1. NextRecord(u)
    BY <1>5 DEF ApplyRecord
  <2> QED
    BY <1>0, <2>1 DEF NextRecord
<1>6. ASSUME NEW u \in Threads, Unwind(u)
      PROVE  read'[t] = Unread \/ (read'[t] = read[t] /\ todo'[t] = todo[t])
  BY <1>0, <1>6 DEF Unwind
<1>7. ASSUME NEW u \in Threads, Flush(u)
      PROVE  read'[t] = Unread \/ (read'[t] = read[t] /\ todo'[t] = todo[t])
  <2>1. todo[u] = <<>>
    BY <1>7 DEF Flush, MayFlush, PlacesFit, Quiet, Threads
  <2>2. read' = read /\ todo' = [todo EXCEPT ![u] = pending]
    BY <1>7 DEF Flush
  <2> QED
    BY <1>0, <1>1, <2>1, <2>2
<1>8. CASE StartAgain
  BY <1>8 DEF StartAgain
<1>9. CASE \/ UNCHANGED streamVars
           \/ Reconcile \/ BeginReplay \/ EndReplay \/ Subscribe \/ ReadEvent \/ Stopped
           \/ HerdrRestarts \/ PeriodicReconcile \/ Stop
           \/ \E p \in Panes : OpenPane(p) \/ TurnCompletes(p) \/ SkipPane(p) \/ ExpireWatermark(p)
  <2>1. UNCHANGED <<todo, read>>
    BY <1>9 DEF streamVars, Reconcile, BeginReplay, EndReplay, Subscribe, ReadEvent, Stopped,
                HerdrRestarts, PeriodicReconcile, Stop, OpenPane, TurnCompletes, SkipPane,
                ExpireWatermark, queues
  <2> QED
    BY <2>1
<1> QED
  BY <1>3, <1>4, <1>5, <1>6, <1>7, <1>8, <1>9
     DEF StreamNext, ThreadNext, RecordRefused, FlushFails, Disconnect, Crash, Restart, Threads

\* What a thread has read stays true until it is used.
LEMMA ReadsStayBacked ==
    ASSUME StreamTypeOK, MarkIsBacked, ReadsAreBacked, PlacesFit, [StreamNext]_streamVars
    PROVE  ReadsAreBacked'
<1>1. StreamTypeOK' /\ Grown(base, done, base', done')
  BY StreamTypes, StoreGrows
<1>2. SUFFICES ASSUME NEW t \in Threads, read'[t] # Unread
               PROVE  /\ todo'[t] # <<>>
                      /\ Backed(Head(todo'[t]).pane, read'[t], base', done')
  BY DEF ReadsAreBacked, FirstRecord
<1>3. base \in Bases /\ base' \in Bases /\ read[t] \in Marks \cup {Unread}
  BY <1>1 DEF StreamTypeOK, Bases
<1>4. CASE read'[t] = read[t] /\ todo'[t] = todo[t]
  <2>1. todo[t] # <<>> /\ Backed(FirstRecord(t).pane, read[t], base, done) /\ read[t] \in Marks
    BY <1>2, <1>3, <1>4 DEF ReadsAreBacked
  <2>2. FirstRecord(t).pane \in Panes
    BY <2>1, HeadAndTail DEF StreamTypeOK, FirstRecord
  <2>3. Backed(FirstRecord(t).pane, read[t], base', done')
    BY <1>1, <1>3, <2>1, <2>2, StaysBacked
  <2> QED
    BY <1>4, <2>1, <2>3 DEF FirstRecord
<1>5. CASE /\ read'[t] = mark[FirstRecord(t).pane] /\ todo[t] # <<>>
           /\ UNCHANGED <<todo, mark, done, base>>
  <2>1. FirstRecord(t).pane \in Panes
    BY <1>5, HeadAndTail DEF StreamTypeOK, FirstRecord
  <2>2. Backed(FirstRecord(t).pane, mark[FirstRecord(t).pane], base, done)
    BY <2>1 DEF MarkIsBacked, Backed
  <2> QED
    BY <1>5, <2>2 DEF FirstRecord
<1> QED
  BY <1>2, <1>4, <1>5, ReadsMove
-----------------------------------------------------------------------------
(* The places of the backend thread.                                       *)

\* A step keeps what the places of run_forever imply.
LEMMA PlacesStep ==
    ASSUME StreamTypeOK, ReadsAreBacked, PlacesFit, [StreamNext]_streamVars
    PROVE  PlacesFit'
<1> USE DEF PlacesFit, Quiet
<1>0. "backend" \in Threads /\ "stopper" \in Threads /\ todo \in [Threads -> Seq(Record)]
      /\ (\A t \in Threads : t = "backend" \/ t = "stopper")
      /\ halt \in {"no", "set", "flushed"}
  BY DEF StreamTypeOK, Threads
<1>1. CASE \/ UNCHANGED streamVars
           \/ Reconcile \/ BeginReplay \/ EndReplay \/ Subscribe \/ HerdrRestarts
           \/ PeriodicReconcile
           \/ \E p \in Panes : OpenPane(p) \/ SkipPane(p) \/ ExpireWatermark(p)
           \/ \E t \in Threads : ReadMark(t)
  BY <1>1 DEF streamVars, Reconcile, BeginReplay, EndReplay, Subscribe, HerdrRestarts,
              PeriodicReconcile, OpenPane, SkipPane, ExpireWatermark, ReadMark, thread, queues
<1>2. CASE ReadEvent
  BY <1>2 DEF ReadEvent
<1>3. CASE Stop \/ Stopped
  BY <1>3 DEF Stop, Stopped, thread, queues
<1>4. ASSUME NEW p \in Panes, TurnCompletes(p) PROVE PlacesFit'
  BY <1>4 DEF TurnCompletes, thread
<1>5. ASSUME NEW p \in Panes, PaneReplay(p) PROVE PlacesFit'
  BY <1>0, <1>5 DEF PaneReplay
<1>6. ASSUME NEW t \in Threads, ApplyRecord(t) PROVE PlacesFit'
  <2>1. todo[t] # <<>> /\ todo' = [todo EXCEPT ![t] = Tail(todo[t])]
    BY <1>6 DEF ApplyRecord, NextRecord
  <2>2. t = "stopper" => halt = "flushed"
    BY <2>1
  <2>3. t = "backend" => pc \notin {"start", "probe", "subscribe", "drain", "stopped"}
    BY <2>1
  <2> QED
    BY <1>0, <1>6, <2>1, <2>2, <2>3 DEF ApplyRecord, thread
<1>7. ASSUME NEW t \in Threads, Unwind(t),
             \/ UNCHANGED <<halt, pending>>
             \/ pending' = <<>> /\ halt' = IF t = "stopper" THEN "flushed" ELSE halt
      PROVE  PlacesFit'
  <2>1. todo' = [todo EXCEPT ![t] = <<>>]
    BY <1>7 DEF Unwind
  <2>2. CASE t = "backend"
    <3>1. todo'["backend"] = <<>> /\ todo'["stopper"] = todo["stopper"]
      BY <1>0, <2>1, <2>2
    <3>2. pc' = "start" /\ subs' = {} /\ wire' = <<>> /\ halt' = halt
          /\ leftover' = (leftover \/ pending' # <<>>)
      BY <1>7, <2>2 DEF Unwind
    <3> QED
      BY <3>1, <3>2
  <2>3. CASE t = "stopper"
    <3>1. todo'["stopper"] = <<>> /\ todo'["backend"] = todo["backend"]
      BY <1>0, <2>1, <2>3
    <3>2. UNCHANGED <<pc, subs, wire>> /\ (leftover => leftover')
      BY <1>7, <2>3, Zenon DEF Unwind
    <3>3. pending' # <<>> => pending # <<>>
      BY <1>7
    <3> QED
      BY <3>1, <3>2, <3>3
  <2> QED
    BY <1>0, <2>2, <2>3
<1>8. ASSUME NEW t \in Threads, Flush(t) PROVE PlacesFit'
  <2>1. CASE t = "backend"
    BY <1>0, <1>8, <2>1 DEF Flush, MayFlush, AfterFlush
  <2>2. CASE t = "stopper"
    BY <1>0, <1>8, <2>2 DEF Flush, MayFlush, AfterFlush
  <2> QED
    BY <1>0, <2>1, <2>2
<1>9. CASE StartAgain
  BY <1>0, <1>9 DEF StartAgain
<1>10. ASSUME NEW t \in Threads, RecordRefused(t) \/ FlushFails(t) PROVE PlacesFit'
  BY <1>7, <1>10 DEF RecordRefused, FlushFails, AfterFlush
<1>11. CASE Disconnect
  BY <1>0, <1>7, <1>11 DEF Disconnect
<1> QED
  BY <1>1, <1>2, <1>3, <1>4, <1>5, <1>6, <1>8, <1>9, <1>10, <1>11
     DEF StreamNext, ThreadNext, Crash, Restart

-----------------------------------------------------------------------------
(* The queue of the backend thread.                                        *)

\* Moving an element between the parts of a queue.
LEMMA QueueParts ==
    ASSUME NEW a \in Seq(Record), NEW b \in Seq(Record), NEW c \in Seq(Record)
    PROVE  /\ (a \o b) \o c \in Seq(Record)
           /\ c # <<>> => (a \o Append(b, Head(c))) \o Tail(c) = (a \o b) \o c
           /\ (b \o <<>>) \o c = (<<>> \o b) \o c
           /\ (a \o b) \o c = a \o ((<<>> \o b) \o c)
<1>1. (a \o b) \o c \in Seq(Record)
  OBVIOUS
<1>2. ASSUME c # <<>> PROVE (a \o Append(b, Head(c))) \o Tail(c) = (a \o b) \o c
  <2> DEFINE h == Head(c)
             d == Tail(c)
             hs == <<Head(c)>>
  <2>1. h \in Record /\ d \in Seq(Record)
    BY <1>2
  <2>2. hs \in Seq(Record) /\ Len(hs) = 1 /\ hs[1] = h
    BY <2>1
  <2>3. c = hs \o d
    <3>1. hs \o d \in Seq(Record) /\ Len(hs \o d) = Len(c)
      BY <1>2, <2>1, <2>2
    <3>2. \A i \in 1 .. Len(c) : (hs \o d)[i] = c[i]
      BY <1>2, <2>1, <2>2
    <3> QED
      BY <3>1, <3>2, SeqEqual
  <2>4. Append(b, h) = b \o hs
    BY <2>1, AppendIsConcat
  <2> HIDE DEF h, d, hs
  <2>5. (a \o (b \o hs)) \o d = (a \o b) \o (hs \o d)
    <3>1. \A s, u, v \in Seq(Record) : (s \o u) \o v = s \o (u \o v)
      BY ConcatAssociative
    <3>2. a \o b \in Seq(Record)
      OBVIOUS
    <3>3. a \o (b \o hs) = (a \o b) \o hs
      BY <2>2, <3>1, Zenon
    <3>4. ((a \o b) \o hs) \o d = (a \o b) \o (hs \o d)
      BY <2>1, <2>2, <3>1, <3>2, Zenon
    <3> QED
      BY <3>3, <3>4, Zenon
  <2>6. (a \o Append(b, h)) \o d = (a \o b) \o c
    BY <2>3, <2>4, <2>5, Zenon
  <2> QED
    BY <2>6 DEF h, d
<1>3. (b \o <<>>) \o c = (<<>> \o b) \o c
  BY ConcatEmptySeq
<1>4. (a \o b) \o c = a \o ((<<>> \o b) \o c)
  BY ConcatEmptySeq, ConcatAssociative
<1> QED
  BY <1>1, <1>2, <1>3, <1>4

\* What is in a queue in three parts.
LEMMA QueueRange ==
    ASSUME NEW a \in Seq(Record), NEW b \in Seq(Record), NEW c \in Seq(Record)
    PROVE  Range((a \o b) \o c) = Range(a) \cup Range(b) \cup Range(c)
<1>1. a \o b \in Seq(Record)
  OBVIOUS
<1>2. Range((a \o b) \o c) = Range(a \o b) \cup Range(c)
  BY <1>1, RangeConcatenation
<1>3. Range(a \o b) = Range(a) \cup Range(b)
  BY RangeConcatenation
<1> QED
  BY <1>2, <1>3

\* What the backend thread has to process are records.
LEMMA QueuedAreRecords ==
    ASSUME StreamTypeOK
    PROVE  /\ todo["backend"] \in Seq(Record) /\ pending \in Seq(Record) /\ wire \in Seq(Record)
           /\ Queued \in Seq(Record) /\ DOMAIN Queued = 1 .. Len(Queued) /\ Len(Queued) \in Nat
           /\ \A i \in DOMAIN Queued : /\ Queued[i] \in Record /\ Queued[i].pane \in Panes
                                       /\ Queued[i].turn \in 1 .. MaxTurn
<1>1. todo["backend"] \in Seq(Record) /\ pending \in Seq(Record) /\ wire \in Seq(Record)
  BY DEF StreamTypeOK, Threads
<1>2. Queued \in Seq(Record)
  BY <1>1, QueueParts DEF Queued
<1>3. DOMAIN Queued = 1 .. Len(Queued) /\ Len(Queued) \in Nat
      /\ \A i \in DOMAIN Queued : Queued[i] \in Record
  BY <1>2, LenProperties, ElementOfSeq
<1> QED
  BY <1>1, <1>2, <1>3 DEF Record

\* A step that leaves the queue alone and moves no watermark keeps what it knows.
LEMMA QueueKept ==
    ASSUME StreamTypeOK, QueueFits, Steady, Queued' = Queued, epoch' = epoch, subs' = subs,
           \A p \in subs : herdr'[p].turn = herdr[p].turn /\ mark'[p] \in {mark[p], NoMark},
           \A p \in subs \ skipped' :
               p \notin skipped /\ (pc = "second" /\ p \in left => pc' = "second" /\ p \in left')
    PROVE  QueueFits'
<1>1. subs \subseteq Panes
  BY PaneSets DEF StreamTypeOK
<1>2. \A i \in DOMAIN Queued' : Queued'[i].epoch = epoch'
  BY DEF QueueFits
<1>3. ASSUME NEW p \in subs PROVE TailIsThere(Queued, p)'
  BY <1>3 DEF QueueFits, TailIsThere
<1>4. ASSUME NEW p \in subs \ skipped', ~(pc' = "second" /\ p \in left')
      PROVE  Reached(Queued, p)'
  BY <1>4 DEF QueueFits, Reached, Waits
<1> QED
  BY <1>2, <1>3, <1>4 DEF QueueFits

\* The first record of the queue is taken and its watermark has passed it.
LEMMA QueueTaken ==
    ASSUME StreamTypeOK, QueueFits, Steady, Queued # <<>>, Queued' = Tail(Queued),
           UNCHANGED <<herdr, epoch, subs, skipped, pc, left>>,
           mark'[Head(Queued).pane].last >= Head(Queued).turn,
           mark'[Head(Queued).pane] \in Marks,
           \A p \in Panes \ {Head(Queued).pane} : mark'[p] = mark[p]
    PROVE  QueueFits'
<1> DEFINE q == Queued
           r == Head(Queued)
<1>1. /\ q \in Seq(Record) /\ DOMAIN q = 1 .. Len(q) /\ Len(q) \in Nat \ {0}
      /\ \A i \in DOMAIN q : /\ q[i] \in Record /\ q[i].pane \in Panes /\ q[i].turn \in 1 .. MaxTurn
  BY QueuedAreRecords, EmptySeq
<1>2. /\ DOMAIN Tail(q) = 1 .. Len(q) - 1
      /\ \A i \in 1 .. Len(q) - 1 : Tail(q)[i] = q[i + 1]
      /\ r = q[1]
  BY <1>1
<1>3. /\ \A i \in DOMAIN q : q[i].epoch = epoch
      /\ \A p \in subs : TailIsThere(q, p)
      /\ \A p \in subs \ skipped : (pc = "second" /\ p \in left) \/ Reached(q, p)
      /\ subs \subseteq Panes
  BY PaneSets DEF QueueFits, StreamTypeOK
<1>4. \A p \in subs : herdr[p].turn \in 0 .. MaxTurn /\ MaxTurn \in Nat
  BY <1>3, StreamAssumption DEF StreamTypeOK
<1>5. Queued' = Tail(q)
  OBVIOUS
<1> HIDE DEF q, r
<1>6. \A i \in DOMAIN Queued' : Queued'[i].epoch = epoch'
  BY <1>1, <1>2, <1>3, <1>5
<1>7. ASSUME NEW p \in subs PROVE TailIsThere(Queued, p)'
  <2>1. ASSUME NEW i \in DOMAIN Tail(q), Tail(q)[i].pane = p,
               NEW n \in Tail(q)[i].turn + 1 .. herdr[p].turn
        PROVE  \E j \in DOMAIN Tail(q) :
                   j > i /\ Tail(q)[j] = [pane |-> p, epoch |-> epoch, turn |-> n]
    <3>1. i + 1 \in DOMAIN q /\ q[i + 1].pane = p /\ n \in q[i + 1].turn + 1 .. herdr[p].turn
      BY <1>1, <1>2, <2>1
    <3>2. PICK j \in DOMAIN q : j > i + 1 /\ q[j] = [pane |-> p, epoch |-> epoch, turn |-> n]
      BY <1>3, <1>7, <3>1 DEF TailIsThere
    <3>3. j - 1 \in DOMAIN Tail(q) /\ j - 1 > i /\ Tail(q)[j - 1] = q[j]
      BY <1>1, <1>2, <3>1, <3>2
    <3> QED
      BY <3>2, <3>3
  <2> DEFINE There(s) == \A i \in DOMAIN s : s[i].pane = p =>
                             \A n \in s[i].turn + 1 .. herdr[p].turn :
                                 \E j \in DOMAIN s :
                                     j > i /\ s[j] = [pane |-> p, epoch |-> epoch, turn |-> n]
  <2>2. There(Tail(q))
    BY <2>1, Zenon
  <2>3. TailIsThere(Queued, p)' <=> There(Queued')
    <3>1. herdr' = herdr /\ epoch' = epoch
      OBVIOUS
    <3> QED
      BY <3>1 DEF TailIsThere
  <2> HIDE DEF There
  <2> QED
    BY <1>5, <2>2, <2>3
<1>8. ASSUME NEW p \in subs \ skipped, ~(pc = "second" /\ p \in left)
      PROVE  Reached(Queued, p)'
  <2> SUFFICES ASSUME mark'[p] # NoMark, mark'[p].epoch = epoch,
                      NEW n \in mark'[p].last + 1 .. herdr[p].turn
               PROVE  \E j \in DOMAIN Tail(q) :
                          Tail(q)[j] = [pane |-> p, epoch |-> epoch, turn |-> n]
    BY <1>5 DEF Reached, Waits
  <2>1. \E j \in DOMAIN q : j > 1 /\ q[j] = [pane |-> p, epoch |-> epoch, turn |-> n]
    <3>1. CASE p = r.pane
      <4>1. mark'[p].last \in Int /\ mark'[p].last >= r.turn
        BY <3>1 DEF r, Marks, NoMark
      <4>2. 1 \in DOMAIN q /\ q[1].pane = p /\ q[1].turn \in Nat
        BY <1>1, <1>2, <1>4, <1>8, <3>1
      <4>3. n \in q[1].turn + 1 .. herdr[p].turn
        BY <1>2, <1>4, <1>8, <4>1, <4>2
      <4> QED
        BY <1>3, <1>8, <4>2, <4>3 DEF TailIsThere
    <3>2. CASE p # r.pane
      <4>1. mark'[p] = mark[p] /\ Reached(q, p)
        BY <1>3, <1>8, <3>2 DEF r
      <4>2. PICK j \in DOMAIN q : q[j] = [pane |-> p, epoch |-> epoch, turn |-> n]
        BY <4>1 DEF Reached, Waits
      <4>3. j # 1
        BY <1>2, <3>2, <4>2
      <4> QED
        BY <1>1, <4>2, <4>3
    <3> QED
      BY <3>1, <3>2
  <2>2. PICK j \in DOMAIN q : j > 1 /\ q[j] = [pane |-> p, epoch |-> epoch, turn |-> n]
    BY <2>1
  <2>3. j - 1 \in 1 .. Len(q) - 1 /\ (j - 1) + 1 = j
    BY <1>1, <2>2
  <2>4. Tail(q)[j - 1] = q[j] /\ j - 1 \in DOMAIN Tail(q)
    BY <1>2, <2>3
  <2> QED
    BY <2>2, <2>4
<1> QED
  BY <1>6, <1>7, <1>8 DEF QueueFits

\* The first of a queue in three parts, and one added to the last.
LEMMA QueueEnds ==
    ASSUME NEW a \in Seq(Record), NEW b \in Seq(Record), NEW c \in Seq(Record), NEW r \in Record
    PROVE  /\ a # <<>> => /\ (a \o b) \o c # <<>> /\ Head((a \o b) \o c) = Head(a)
                          /\ (Tail(a) \o b) \o c = Tail((a \o b) \o c)
           /\ (a \o b) \o Append(c, r) = Append((a \o b) \o c, r)
<1>1. (a \o b) \o Append(c, r) = Append((a \o b) \o c, r)
  OBVIOUS
<1>2. ASSUME a # <<>>
      PROVE  /\ (a \o b) \o c # <<>> /\ Head((a \o b) \o c) = Head(a)
             /\ (Tail(a) \o b) \o c = Tail((a \o b) \o c)
  BY <1>2
<1> QED
  BY <1>1, <1>2

\* While nobody else runs, the backend thread applies the first record of its
\* queue to the watermark it has read, which then has passed the record.
LEMMA AppliesFirst ==
    ASSUME StreamTypeOK, ReadsAreFresh, QueueFits, Steady, ApplyRecord("backend")
    PROVE  QueueFits'
<1> DEFINE q == todo["backend"]
           r == Head(todo["backend"])
<1>1. /\ q \in Seq(Record) /\ q # <<>> /\ pending \in Seq(Record) /\ wire \in Seq(Record)
      /\ r \in Record /\ r.pane \in Panes /\ r.epoch \in 1 .. MaxEpoch /\ r.turn \in 1 .. MaxTurn
  BY QueuedAreRecords, HeadAndTail DEF ApplyRecord
<1>2. /\ r = FirstRecord("backend")
      /\ read["backend"] = mark[r.pane]
      /\ mark \in [Panes -> Marks] /\ MaxTurn \in Nat /\ MaxEpoch \in Nat
  BY StreamAssumption DEF ApplyRecord, ReadsAreFresh, Steady, FirstRecord, StreamTypeOK
<1>3. todo' = [todo EXCEPT !["backend"] = Tail(q)]
  BY DEF ApplyRecord, NextRecord
<1>4. UNCHANGED <<herdr, epoch, subs, skipped, pc, left, pending, wire>>
  BY DEF ApplyRecord, server, thread
<1>5. todo'["backend"] = Tail(q)
  BY <1>3 DEF StreamTypeOK, Threads
<1>6. Queued # <<>> /\ Head(Queued) = r /\ Queued' = Tail(Queued)
  <2>1. Queued' = (Tail(q) \o pending) \o wire
    BY <1>4, <1>5 DEF Queued
  <2>2. Queued = (q \o pending) \o wire
    BY DEF Queued
  <2> HIDE DEF q
  <2>3. /\ (q \o pending) \o wire # <<>> /\ Head((q \o pending) \o wire) = Head(q)
        /\ (Tail(q) \o pending) \o wire = Tail((q \o pending) \o wire)
    BY <1>1, QueueEnds, Zenon
  <2> QED
    BY <2>1, <2>2, <2>3, Zenon DEF q, r
<1> HIDE DEF q, r
<1>7. /\ mark'[r.pane].last >= r.turn /\ mark'[r.pane] \in Marks
      /\ \A p \in Panes \ {r.pane} : mark'[p] = mark[p]
  <2>1. CASE Duplicate(r, read["backend"]) /\ UNCHANGED store
    <3>1. mark' = mark /\ mark[r.pane] # NoMark /\ r.turn <= mark[r.pane].last
      BY <1>2, <2>1 DEF Duplicate, store
    <3>2. mark[r.pane].last \in 0 .. MaxTurn
      BY <1>1, <1>2, <3>1 DEF Marks, NoMark
    <3> QED
      BY <1>1, <1>2, <3>1, <3>2
  <2>2. CASE Rebaseline(r.pane, r.epoch, r.turn)
    <3>1. mark' = [mark EXCEPT ![r.pane] = [epoch |-> r.epoch, last |-> r.turn]]
      BY <2>2 DEF Rebaseline
    <3>2. [epoch |-> r.epoch, last |-> r.turn] \in Marks
      BY <1>1, <1>2 DEF Marks
    <3> QED
      BY <1>1, <1>2, <3>1, <3>2
  <2>3. CASE RecordCompletion(r)
    <3>1. mark' = [mark EXCEPT ![r.pane] =
                     [epoch |-> r.epoch, last |-> Larger(mark[r.pane].last, r.turn)]]
      BY <2>3 DEF RecordCompletion
    <3>2. mark[r.pane].last \in -1 .. MaxTurn
      BY <1>1, <1>2 DEF Marks, NoMark
    <3>3. /\ Larger(mark[r.pane].last, r.turn) >= r.turn
          /\ Larger(mark[r.pane].last, r.turn) \in 0 .. MaxTurn
      BY <1>1, <1>2, <3>2 DEF Larger
    <3>4. [epoch |-> r.epoch, last |-> Larger(mark[r.pane].last, r.turn)] \in Marks
      BY <1>1, <3>3 DEF Marks
    <3> QED
      BY <1>1, <1>2, <3>1, <3>3, <3>4
  <2> QED
    BY <1>2, <2>1, <2>2, <2>3 DEF ApplyRecord
<1> QED
  BY <1>4, <1>6, <1>7, QueueTaken

\* A turn that completes is announced on the subscription, behind everything else.
LEMMA CompletedIsQueued ==
    ASSUME StreamTypeOK, PlacesFit, QueueFits, Steady, NEW p \in Panes, TurnCompletes(p)
    PROVE  QueueFits'
<1> DEFINE r == [pane |-> p, epoch |-> epoch, turn |-> herdr[p].turn + 1]
<1>1. /\ UNCHANGED <<epoch, mark, subs, skipped, pc, left, pending, todo>>
      /\ herdr' = [herdr EXCEPT ![p] = [herdr[p] EXCEPT !.turn = herdr[p].turn + 1]]
      /\ wire' = IF p \in subs THEN Append(wire, r) ELSE wire
      /\ herdr[p].turn < MaxTurn
  BY DEF TurnCompletes, store, thread
<1>2. /\ MaxTurn \in Nat /\ epoch \in 1 .. MaxEpoch
      /\ \A s \in Panes : herdr[s].turn \in 0 .. MaxTurn
      /\ herdr'[p].turn = herdr[p].turn + 1
      /\ \A s \in Panes \ {p} : herdr'[s].turn = herdr[s].turn
      /\ r \in Record
      /\ \A s \in Panes : mark[s] # NoMark => mark[s].last \in Nat
      /\ subs \subseteq Panes
  BY <1>1, StreamAssumption, PaneSets DEF StreamTypeOK, Record, Marks
<1>3. CASE p \notin subs
  <2>1. Queued' = Queued
    BY <1>1, <1>3 DEF Queued
  <2> QED
    BY <1>1, <1>2, <1>3, <2>1, QueueKept
<1>4. CASE p \in subs
  <2> DEFINE q == Queued
             s == Append(Queued, r)
  <2>1. Queued' = s
    <3>1. Queued' = todo["backend"] \o pending \o Append(wire, r)
      BY <1>1, <1>4 DEF Queued
    <3>2. (todo["backend"] \o pending) \o Append(wire, r)
             = Append((todo["backend"] \o pending) \o wire, r)
      BY <1>2, QueuedAreRecords, QueueEnds, Zenon
    <3> QED
      BY <3>1, <3>2, Zenon DEF Queued
  <2>2. /\ DOMAIN s = DOMAIN q \cup {Len(q) + 1} /\ s[Len(q) + 1] = r
        /\ \A i \in DOMAIN q : s[i] = q[i] /\ i < Len(q) + 1
        /\ \A i \in DOMAIN q : q[i].turn \in 1 .. MaxTurn
    BY <1>2, QueuedAreRecords
  <2>3. /\ \A i \in DOMAIN q : q[i].epoch = epoch
        /\ \A u \in subs : TailIsThere(q, u)
        /\ \A u \in subs \ skipped : (pc = "second" /\ u \in left) \/ Reached(q, u)
    BY DEF QueueFits
  <2> HIDE DEF q, s
  <2>4. \A i \in DOMAIN s : s[i].epoch = epoch
    BY <2>2, <2>3
  <2> DEFINE e(u, n) == [pane |-> u, epoch |-> epoch, turn |-> n]
  <2>5. \A u \in subs : \A n \in Nat :
            n <= herdr'[u].turn /\ n > herdr[u].turn => e(u, n) = r
    BY <1>2
  <2> HIDE DEF r
  <2>6. ASSUME NEW u \in subs, NEW i \in DOMAIN s, s[i].pane = u,
               NEW n \in s[i].turn + 1 .. herdr'[u].turn
        PROVE  \E j \in DOMAIN s : j > i /\ s[j] = e(u, n)
    <3>1. CASE i = Len(q) + 1
      <4>1. s[i].turn = herdr'[u].turn /\ s[i].turn \in Nat
        BY <1>2, <2>2, <2>6, <3>1 DEF r
      <4> QED
        BY <1>2, <2>6, <4>1
    <3>2. CASE i \in DOMAIN q
      <4>1. s[i] = q[i] /\ q[i].turn \in Nat /\ n \in Nat /\ n <= herdr'[u].turn
            /\ herdr[u].turn \in Nat
        BY <1>2, <2>2, <2>6, <3>2
      <4>2. CASE n <= herdr[u].turn
        <5>1. n \in q[i].turn + 1 .. herdr[u].turn
          BY <2>6, <4>1, <4>2
        <5>2. PICK j \in DOMAIN q : j > i /\ q[j] = e(u, n)
          BY <2>3, <2>6, <3>2, <4>1, <5>1 DEF TailIsThere
        <5> QED
          BY <2>2, <5>2
      <4>3. CASE n > herdr[u].turn
        <5>1. e(u, n) = r
          BY <2>5, <4>1, <4>3
        <5> QED
          BY <2>2, <3>2, <5>1
      <4> QED
        BY <4>1, <4>2, <4>3
    <3> QED
      BY <2>2, <3>1, <3>2
  <2>7. ASSUME NEW u \in subs, Reached(q, u), mark[u] # NoMark, mark[u].epoch = epoch,
               NEW n \in mark[u].last + 1 .. herdr'[u].turn
        PROVE  \E j \in DOMAIN s : s[j] = e(u, n)
    <3>1. mark[u].last \in Nat /\ n \in Nat /\ herdr[u].turn \in Nat /\ n <= herdr'[u].turn
          /\ n >= mark[u].last + 1
      BY <1>2, <2>7
    <3>2. CASE n <= herdr[u].turn
      <4>1. n \in mark[u].last + 1 .. herdr[u].turn
        BY <3>1, <3>2
      <4>2. PICK j \in DOMAIN q : q[j] = e(u, n)
        BY <2>7, <4>1 DEF Reached, Waits
      <4> QED
        BY <2>2, <4>2
    <3>3. CASE n > herdr[u].turn
      <4>1. e(u, n) = r
        BY <2>5, <3>1, <3>3
      <4> QED
        BY <2>2, <4>1
    <3> QED
      BY <3>1, <3>2, <3>3
  <2>8. \A i \in DOMAIN Queued' : Queued'[i].epoch = epoch'
    BY <1>1, <2>1, <2>4
  <2> DEFINE There(w, u) == \A i \in DOMAIN w : w[i].pane = u =>
                                \A n \in w[i].turn + 1 .. herdr'[u].turn :
                                    \E j \in DOMAIN w : j > i /\ w[j] = e(u, n)
             Near(w, u) == mark[u] # NoMark /\ mark[u].epoch = epoch =>
                               \A n \in mark[u].last + 1 .. herdr'[u].turn :
                                   \E j \in DOMAIN w : w[j] = e(u, n)
  <2>9. ASSUME NEW u \in subs PROVE There(s, u) /\ (Reached(q, u) => Near(s, u))
    <3>1. There(s, u)
      BY <2>6
    <3>2. ASSUME Reached(q, u) PROVE Near(s, u)
      BY <2>7, <3>2
    <3> QED
      BY <3>1, <3>2
  <2>10. ASSUME NEW u \in subs
         PROVE  /\ TailIsThere(Queued, u)' <=> There(Queued', u)
                /\ Reached(Queued, u)' <=> Near(Queued', u)
    BY <1>1 DEF TailIsThere, Reached, Waits
  <2> HIDE DEF There, Near
  <2>11. ASSUME NEW u \in subs
         PROVE  TailIsThere(Queued, u)' /\ (Reached(q, u) => Reached(Queued, u)')
    BY <2>1, <2>9, <2>10
  <2> QED
    BY <1>1, <2>3, <2>8, <2>11 DEF QueueFits
<1> QED
  BY <1>3, <1>4

\* Where the elements of two sequences are in their concatenation.
LEMMA ConcatIndex ==
    ASSUME NEW a \in Seq(Record), NEW b \in Seq(Record)
    PROVE  /\ DOMAIN (a \o b) = 1 .. Len(a) + Len(b)
           /\ \A i \in 1 .. Len(a) : (a \o b)[i] = a[i]
           /\ \A i \in 1 .. Len(b) : (a \o b)[i + Len(a)] = b[i]
<1>1. a \o b \in Seq(Record) /\ Len(a \o b) = Len(a) + Len(b)
  OBVIOUS
<1>2. \A i \in 1 .. Len(a) : (a \o b)[i] = a[i]
  OBVIOUS
<1>3. \A i \in 1 .. Len(b) : (a \o b)[i + Len(a)] = b[i]
  OBVIOUS
<1> QED
  BY <1>1, <1>2, <1>3

\* A replay either puts the watermark on the newest turn or queues every turn past
\* it in front of what the subscription announced.
LEMMA ReplayFits ==
    ASSUME StreamTypeOK, PlacesFit, QueueFits, ReadsAreFresh, Steady, NEW p \in Panes, PaneReplay(p)
    PROVE  QueueFits'
<1> DEFINE w == seen[p]
           since == IF w = NoMark THEN 0 ELSE w.last
           top == herdr[p].turn
           broken == w # NoMark /\ (w.epoch # epoch \/ since > top)
           q == Queued
<1>1. /\ UNCHANGED <<herdr, epoch, subs, pending, wire, pc>>
      /\ left' = left \ {p} /\ skipped' = skipped \ {p}
      /\ p \in left /\ pc \in {"first", "second"} /\ todo["backend"] = <<>>
  BY DEF PaneReplay, server, Quiet
<1>2. pc = "second" /\ pending = <<>> /\ w = mark[p] /\ pc' = "second"
  <2>1. pc = "second"
    BY <1>1 DEF PlacesFit, Steady
  <2> QED
    BY <1>1, <2>1 DEF PlacesFit, Steady, ReadsAreFresh
<1>3. /\ MaxTurn \in Nat /\ History \in Nat \ {0} /\ epoch \in 1 .. MaxEpoch /\ top \in 0 .. MaxTurn
      /\ w \in Marks /\ since \in 0 .. MaxTurn /\ (w # NoMark => w.last = since)
      /\ mark \in [Panes -> Marks] /\ subs \subseteq Panes /\ since \in Nat /\ top \in Nat
      /\ \A u \in Panes : herdr[u].turn \in Nat
  BY StreamAssumption, PaneSets DEF StreamTypeOK, Marks, NoMark
<1>4. /\ \A i \in DOMAIN q : q[i].epoch = epoch
      /\ \A u \in subs : TailIsThere(q, u)
      /\ \A u \in (subs \ skipped') \ {p} : (pc = "second" /\ u \in left') \/ Reached(q, u)
  BY <1>1 DEF QueueFits
<1>5. q = wire /\ wire \in Seq(Record)
  BY <1>1, <1>2, QueuedAreRecords, ConcatEmptySeq DEF Queued
<1>6. ASSUME mark'[p] = [epoch |-> epoch, last |-> top], UNCHANGED todo,
             \A u \in Panes \ {p} : mark'[u] = mark[u]
      PROVE  QueueFits'
  <2>1. Queued' = q
    BY <1>1, <1>6 DEF Queued
  <2> HIDE DEF w, since, q
  <2>2. \A i \in DOMAIN Queued' : Queued'[i].epoch = epoch'
    BY <1>1, <1>4, <2>1
  <2>3. ASSUME NEW u \in subs PROVE TailIsThere(Queued, u)'
    BY <1>1, <1>4, <2>1, <2>3 DEF TailIsThere
  <2>4. ASSUME NEW u \in (subs \ skipped') \ {p}, ~(pc' = "second" /\ u \in left')
        PROVE  Reached(Queued, u)'
    BY <1>1, <1>3, <1>4, <1>6, <2>1, <2>4 DEF Reached, Waits
  <2>5. Reached(Queued, p)'
    BY <1>1, <1>3, <1>6 DEF Reached
  <2> QED
    BY <1>1, <2>2, <2>3, <2>4, <2>5 DEF QueueFits
<1>7. ASSUME Rebaseline(p, epoch, top), UNCHANGED todo PROVE QueueFits'
  <2>1. mark' = [mark EXCEPT ![p] = [epoch |-> epoch, last |-> top]]
    BY <1>7 DEF Rebaseline
  <2> QED
    BY <1>3, <1>6, <1>7, <2>1
<1>8. CASE w = NoMark \/ broken
  <2>1. 0 \in 0 .. top
    BY <1>3
  <2>2. Newest(Retained(p, 0)) = top
    BY <2>1, RetainedAre
  <2>3. Rebaseline(p, epoch, Newest(Retained(p, 0))) /\ UNCHANGED todo
    BY <1>8 DEF PaneReplay
  <2> QED
    BY <1>7, <2>2, <2>3
<1>9. CASE w # NoMark /\ ~broken /\ Truncated(p, since)
  <2>1. since \in 0 .. top
    BY <1>3, <1>9
  <2>2. Newest(Retained(p, since)) = top
    BY <1>9, <2>1, RetainedAre
  <2>3. Rebaseline(p, epoch, Newest(Retained(p, since))) /\ UNCHANGED todo
    BY <1>9 DEF PaneReplay
  <2> QED
    BY <1>7, <2>2, <2>3
<1>10. CASE w # NoMark /\ ~broken /\ ~Truncated(p, since)
  <2> DEFINE a == Retained(p, since)
             e(u, n) == [pane |-> u, epoch |-> epoch, turn |-> n]
             s == a \o q
             size == top - since
  <2>1. since \in 0 .. top /\ w.epoch = epoch
    BY <1>3, <1>10
  <2>2. /\ a \in Seq(Record) /\ Len(a) = size /\ DOMAIN a = 1 .. size /\ size \in Nat
        /\ \A k \in DOMAIN a : a[k] = e(p, since + k)
    <3> HIDE DEF w, since
    <3> DEFINE first == IF top > since + History THEN top - History ELSE since
    <3>1. first = since /\ size \in Nat
      BY <1>3, <1>10, <2>1 DEF Truncated
    <3>2. /\ a \in Seq(Record) /\ Len(a) = top - first /\ DOMAIN a = 1 .. top - first
          /\ \A k \in DOMAIN a : a[k] = e(p, first + k)
      BY <2>1, RetainedAre
    <3> QED
      BY <3>1, <3>2
  <2>3. todo'["backend"] = a /\ mark' = mark
    BY <1>10 DEF PaneReplay, store, StreamTypeOK, Threads
  <2> HIDE DEF a, size, w, since
  <2>4. Queued' = s
    <3>1. Queued' = (a \o pending) \o wire
      BY <1>1, <2>3 DEF Queued
    <3>2. a \o pending = a
      BY <1>2, <2>2, ConcatEmptySeq
    <3> QED
      BY <1>5, <3>1, <3>2
  <2>5. /\ DOMAIN q = 1 .. Len(q) /\ Len(q) \in Nat
        /\ \A i \in DOMAIN q : q[i].pane \in Panes /\ q[i].turn \in 1 .. MaxTurn
    BY QueuedAreRecords
  <2> HIDE DEF q
  <2>6. /\ DOMAIN s = 1 .. size + Len(q)
        /\ \A i \in 1 .. size : s[i] = e(p, since + i)
        /\ \A i \in DOMAIN q : s[i + size] = q[i]
    <3>1. q \in Seq(Record)
      BY <1>5
    <3>2. /\ DOMAIN s = 1 .. Len(a) + Len(q)
          /\ \A i \in 1 .. Len(a) : s[i] = a[i]
          /\ \A i \in 1 .. Len(q) : s[i + Len(a)] = q[i]
      BY <2>2, <3>1, ConcatIndex
    <3> HIDE DEF s
    <3>3. size = Len(a) /\ \A i \in 1 .. size : a[i] = e(p, since + i)
      BY <2>2
    <3> QED
      BY <2>5, <3>2, <3>3
  <2> HIDE DEF s
  <2>7. ASSUME NEW i \in DOMAIN s PROVE i \in 1 .. size \/ i - size \in DOMAIN q
    BY <2>2, <2>5, <2>6
  <2>8. ASSUME NEW j \in DOMAIN q PROVE j + size \in DOMAIN s /\ s[j + size] = q[j]
    BY <2>2, <2>5, <2>6
  <2>9. ASSUME NEW i \in DOMAIN s PROVE s[i].epoch = epoch
    <3>1. CASE i \in 1 .. size
      <4>1. s[i] = e(p, since + i)
        BY <2>6, <3>1
      <4> QED
        BY <4>1
    <3>2. CASE i - size \in DOMAIN q
      <4>1. s[i] = q[i - size]
        BY <2>2, <2>5, <2>6, <3>2
      <4> QED
        BY <1>4, <3>2, <4>1
    <3> QED
      BY <2>7, <3>1, <3>2
  <2>10. ASSUME NEW n \in since + 1 .. top
         PROVE  n - since \in DOMAIN s /\ s[n - since] = e(p, n)
    <3>1. n - since \in 1 .. size /\ since + (n - since) = n
      BY <1>3, <2>10 DEF size
    <3> QED
      BY <2>2, <2>5, <2>6, <3>1
  <2>11. ASSUME NEW u \in subs, NEW i \in DOMAIN s, s[i].pane = u,
                NEW n \in s[i].turn + 1 .. herdr[u].turn
         PROVE  \E j \in DOMAIN s : j > i /\ s[j] = e(u, n)
    <3>1. CASE i \in 1 .. size
      <4>1. u = p /\ s[i].turn = since + i
        <5>1. s[i] = e(p, since + i)
          BY <2>6, <3>1
        <5> QED
          BY <2>11, <5>1
      <4>2. n \in since + 1 .. top /\ n - since > i
        BY <1>3, <2>11, <3>1, <4>1
      <4> QED
        BY <2>10, <4>1, <4>2
    <3>2. CASE i - size \in DOMAIN q
      <4>1. s[i] = q[i - size]
        BY <2>2, <2>5, <2>6, <3>2
      <4>2. PICK j \in DOMAIN q : j > i - size /\ q[j] = e(u, n)
        BY <1>4, <2>11, <3>2, <4>1 DEF TailIsThere
      <4>3. j + size > i
        BY <2>2, <2>5, <2>6, <4>2
      <4> QED
        BY <2>8, <4>2, <4>3
    <3> QED
      BY <2>7, <3>1, <3>2
  <2>12. ASSUME NEW u \in subs, Reached(q, u), mark[u] # NoMark, mark[u].epoch = epoch,
                NEW n \in mark[u].last + 1 .. herdr[u].turn
         PROVE  \E j \in DOMAIN s : s[j] = e(u, n)
    <3>1. PICK j \in DOMAIN q : q[j] = e(u, n)
      BY <2>12 DEF Reached, Waits
    <3> QED
      BY <2>8, <3>1
  <2>13. \A i \in DOMAIN Queued' : Queued'[i].epoch = epoch'
    BY <1>1, <2>4, <2>9
  <2> DEFINE There(v, u) == \A i \in DOMAIN v : v[i].pane = u =>
                                \A n \in v[i].turn + 1 .. herdr[u].turn :
                                    \E j \in DOMAIN v : j > i /\ v[j] = e(u, n)
             Near(v, u) == mark[u] # NoMark /\ mark[u].epoch = epoch =>
                               \A n \in mark[u].last + 1 .. herdr[u].turn :
                                   \E j \in DOMAIN v : v[j] = e(u, n)
  <2>14. ASSUME NEW u \in subs PROVE There(s, u) /\ (Reached(q, u) => Near(s, u))
    <3>1. There(s, u)
      BY <2>11
    <3>2. ASSUME Reached(q, u) PROVE Near(s, u)
      BY <2>12, <3>2
    <3> QED
      BY <3>1, <3>2
  <2>15. Near(s, p)
    <3>1. mark[p].last = since
      BY <1>2, <1>3, <1>10
    <3> QED
      BY <2>10, <3>1
  <2>16. ASSUME NEW u
         PROVE  /\ TailIsThere(Queued, u)' <=> There(Queued', u)
                /\ Reached(Queued, u)' <=> Near(Queued', u)
    BY <1>1, <2>3 DEF TailIsThere, Reached, Waits
  <2> HIDE DEF There, Near
  <2>17. ASSUME NEW u \in subs
         PROVE  TailIsThere(Queued, u)' /\ (Reached(q, u) => Reached(Queued, u)')
    BY <2>4, <2>14, <2>16
  <2>18. Reached(Queued, p)'
    BY <2>4, <2>15, <2>16
  <2> QED
    BY <1>1, <1>4, <2>13, <2>17, <2>18 DEF QueueFits
<1> QED
  BY <1>8, <1>9, <1>10

\* The subscription starts with an empty queue, and everything it covers has still
\* to be replayed once more.
LEMMA SubscribedFits ==
    ASSUME StreamTypeOK, PlacesFit, Subscribe, Steady'
    PROVE  QueueFits'
<1>1. /\ UNCHANGED <<todo, pending, wire, leftover, halt, skipped>>
      /\ pc = "subscribe"
      /\ subs' = (IF supported THEN known ELSE {}) /\ left' = (IF supported THEN known ELSE {})
      /\ pc' = IF supported THEN "second" ELSE "read"
  BY DEF Subscribe, queues
<1>2. todo["backend"] = <<>> /\ pending = <<>> /\ wire = <<>>
  BY <1>1 DEF PlacesFit, Quiet, Steady
<1>3. Queued' = <<>> /\ DOMAIN Queued' = {}
  <2>1. Queued' = (<<>> \o <<>>) \o <<>>
    BY <1>1, <1>2 DEF Queued
  <2>2. (<<>> \o <<>>) \o <<>> = <<>>
    OBVIOUS
  <2>3. Queued' = <<>>
    BY <2>1, <2>2, Zenon
  <2>4. DOMAIN Queued' = {}
    BY <2>3
  <2> QED
    BY <2>3, <2>4
<1>4. supported /\ subs' = left' /\ pc' = "second"
  BY <1>1 DEF Steady
<1> QED
  BY <1>3, <1>4 DEF QueueFits, TailIsThere

\* What the backend thread has queued stays complete.
LEMMA QueueStep ==
    ASSUME StreamTypeOK, PlacesFit, QueueFits, ReadsAreFresh, [StreamNext]_streamVars
    PROVE  QueueFits'
<1> SUFFICES ASSUME Steady' PROVE QueueFits'
  BY DEF QueueFits
<1>0. /\ "backend" \in Threads /\ "stopper" \in Threads
      /\ \A t \in Threads : t = "backend" \/ t = "stopper"
      /\ todo["backend"] \in Seq(Record) /\ pending \in Seq(Record) /\ wire \in Seq(Record)
      /\ subs \subseteq Panes
  BY QueuedAreRecords, PaneSets DEF StreamTypeOK, Threads
<1>1. ASSUME NEW p \in Panes, OpenPane(p) PROVE QueueFits'
  <2>1. /\ UNCHANGED <<todo, pending, wire, epoch, subs, skipped, pc, left, mark, leftover, halt>>
        /\ herdr' = [herdr EXCEPT ![p].open = TRUE]
    BY <1>1 DEF OpenPane, store, thread, queues
  <2>2. \A u \in Panes : herdr'[u].turn = herdr[u].turn
    BY <2>1 DEF StreamTypeOK
  <2> QED
    BY <1>0, <2>1, <2>2, QueueKept DEF Queued, Steady
<1>2. ASSUME NEW p \in Panes, TurnCompletes(p) PROVE QueueFits'
  <2>1. Steady
    BY <1>2 DEF TurnCompletes, Steady, thread
  <2> QED
    BY <1>2, <2>1, CompletedIsQueued
<1>3. ASSUME NEW p \in Panes, SkipPane(p) PROVE QueueFits'
  <2>1. /\ UNCHANGED <<todo, pending, wire, epoch, herdr, subs, pc, mark, leftover, halt>>
        /\ left' = left \ {p} /\ skipped' = skipped \cup {p}
    BY <1>3 DEF SkipPane, server, store, queues
  <2> QED
    BY <1>0, <2>1, QueueKept DEF Queued, Steady
<1>4. ASSUME NEW p \in Panes, ExpireWatermark(p) PROVE QueueFits'
  <2>1. /\ UNCHANGED <<todo, pending, wire, epoch, herdr, subs, skipped, pc, left, leftover, halt>>
        /\ mark' = [mark EXCEPT ![p] = NoMark]
    BY <1>4 DEF ExpireWatermark, server, thread, queues
  <2>2. \A u \in Panes : mark'[u] \in {mark[u], NoMark}
    BY <2>1 DEF StreamTypeOK
  <2> QED
    BY <1>0, <2>1, <2>2, QueueKept DEF Queued, Steady
<1>5. ASSUME NEW p \in Panes, PaneReplay(p) PROVE QueueFits'
  <2>1. Steady
    BY <1>5 DEF PaneReplay, Steady
  <2> QED
    BY <1>5, <2>1, ReplayFits
<1>6. CASE UNCHANGED streamVars \/ (\E t \in Threads : ReadMark(t)) \/ PeriodicReconcile \/ EndReplay
  <2>1. /\ UNCHANGED <<todo, pending, wire, epoch, herdr, subs, skipped, left, mark, leftover, halt>>
        /\ pc' = pc \/ left = {}
    BY <1>6 DEF streamVars, ReadMark, PeriodicReconcile, EndReplay, server, store, thread, queues
  <2> QED
    BY <1>0, <2>1, QueueKept DEF Queued, Steady
<1>7. CASE ReadEvent
  <2>1. /\ UNCHANGED <<todo, epoch, herdr, subs, skipped, left, mark, leftover, halt>>
        /\ pc # "second" /\ wire # <<>>
        /\ pending' = Append(pending, Head(wire)) /\ wire' = Tail(wire)
    BY <1>7 DEF ReadEvent, server, store
  <2>2. Queued' = Queued
    <3>1. Queued' = (todo["backend"] \o Append(pending, Head(wire))) \o Tail(wire)
      BY <2>1 DEF Queued
    <3> QED
      BY <1>0, <2>1, <3>1, QueueParts DEF Queued
  <2> QED
    BY <1>0, <2>1, <2>2, QueueKept DEF Steady
<1>8. CASE Flush("backend")
  <2>1. /\ UNCHANGED <<wire, epoch, herdr, subs, skipped, left, mark, leftover, halt>>
        /\ pc = "drain" /\ pending' = <<>>
        /\ todo' = [todo EXCEPT !["backend"] = pending]
    BY <1>8 DEF Flush, MayFlush, AfterFlush, server, store
  <2>2. Queued' = Queued
    <3>1. todo["backend"] = <<>> /\ todo'["backend"] = pending
      BY <2>1 DEF PlacesFit, Quiet, StreamTypeOK, Threads
    <3>2. Queued' = (pending \o <<>>) \o wire /\ Queued = (<<>> \o pending) \o wire
      BY <2>1, <3>1 DEF Queued
    <3> QED
      BY <1>0, <3>2, QueueParts
  <2> QED
    BY <1>0, <2>1, <2>2, QueueKept DEF Steady
<1>9. CASE ApplyRecord("backend")
  <2>1. Steady
    BY <1>9 DEF ApplyRecord, Steady, thread
  <2> QED
    BY <1>9, <2>1, AppliesFirst
<1>10. CASE Subscribe
  BY <1>10, SubscribedFits
<1>11. CASE Reconcile \/ BeginReplay \/ HerdrRestarts \/ Disconnect \/ Stop \/ Stopped
            \/ Crash \/ Restart
  BY <1>11 DEF Reconcile, BeginReplay, HerdrRestarts, Disconnect, Stop, Stopped, Crash, Restart,
               StartAgain, Unwind, PlacesFit, Steady, thread
<1>12. ASSUME NEW t \in Threads, RecordRefused(t) \/ FlushFails(t) PROVE QueueFits'
  <2>1. CASE t = "backend"
    BY <1>12, <2>1 DEF RecordRefused, FlushFails, Unwind, Steady
  <2>2. CASE t = "stopper"
    BY <1>12, <2>2 DEF RecordRefused, FlushFails, AfterFlush, PlacesFit, Steady
  <2> QED
    BY <1>0, <2>1, <2>2
<1>13. CASE Flush("stopper") \/ ApplyRecord("stopper")
  BY <1>13 DEF Flush, AfterFlush, ApplyRecord, PlacesFit, Steady
<1> QED
  BY <1>0, <1>1, <1>2, <1>3, <1>4, <1>5, <1>6, <1>7, <1>8, <1>9, <1>10, <1>11, <1>12, <1>13
     DEF StreamNext, ThreadNext

-----------------------------------------------------------------------------
(* What the backend thread has read.                                       *)

\* Between reading a watermark and applying its record, and while panes are still
\* to be replayed, only the backend thread itself moves watermarks.
LEMMA MarksStandStill ==
    ASSUME StreamTypeOK, PlacesFit, halt' = "no", [StreamNext]_streamVars,
           todo["backend"] # <<>>, todo'["backend"] = todo["backend"]
    PROVE  mark' = mark
<1>0. \A t \in Threads : t = "backend" \/ t = "stopper"
  BY DEF Threads
<1>1. CASE \/ UNCHANGED streamVars
           \/ Reconcile \/ BeginReplay \/ EndReplay \/ Subscribe \/ ReadEvent \/ Stopped
           \/ HerdrRestarts \/ PeriodicReconcile \/ Disconnect \/ Stop \/ Crash \/ Restart
           \/ \E p \in Panes : OpenPane(p) \/ TurnCompletes(p) \/ SkipPane(p)
           \/ \E t \in Threads : ReadMark(t) \/ RecordRefused(t) \/ Flush(t) \/ FlushFails(t)
  BY <1>1 DEF streamVars, Reconcile, BeginReplay, EndReplay, Subscribe, ReadEvent, Stopped,
              HerdrRestarts, PeriodicReconcile, Disconnect, Stop, Crash, Restart, StartAgain,
              OpenPane, TurnCompletes, SkipPane, ReadMark, RecordRefused, Flush, FlushFails, store
<1>2. ASSUME NEW p \in Panes, PaneReplay(p) \/ ExpireWatermark(p) PROVE FALSE
  BY <1>2 DEF PaneReplay, ExpireWatermark, InFlight, Quiet, Threads
<1>3. ASSUME NEW t \in Threads, ApplyRecord(t) PROVE FALSE
  <2>1. todo[t] # <<>> /\ halt = "no" /\ todo' = [todo EXCEPT ![t] = Tail(todo[t])]
    BY <1>3 DEF ApplyRecord, NextRecord
  <2>2. t = "backend"
    BY <1>0, <2>1 DEF PlacesFit
  <2>3. todo["backend"] \in Seq(Record) /\ todo'["backend"] = Tail(todo["backend"])
    BY <2>1, <2>2 DEF StreamTypeOK, Threads
  <2> DEFINE n == Len(todo["backend"])
             m == Len(Tail(todo["backend"]))
  <2>4. n \in Nat /\ m = n - 1
    BY <2>3
  <2>5. Tail(todo["backend"]) = todo["backend"]
    BY <2>3, Zenon
  <2>6. m = n
    BY <2>5, Zenon
  <2> HIDE DEF m, n
  <2> QED
    BY <2>4, <2>6
<1> QED
  BY <1>1, <1>2, <1>3 DEF StreamNext, ThreadNext

\* What was read is what is there while the backend thread runs alone.
LEMMA FreshStep ==
    ASSUME StreamTypeOK, ReadsAreBacked, PlacesFit, ReadsAreFresh, [StreamNext]_streamVars
    PROVE  ReadsAreFresh'
<1> SUFFICES ASSUME halt' = "no" PROVE ReadsAreFresh'
  BY DEF ReadsAreFresh
<1> DEFINE q == todo["backend"]
<1>0. /\ "backend" \in Threads /\ \A t \in Threads : t = "backend" \/ t = "stopper"
      /\ q \in Seq(Record) /\ mark \in [Panes -> Marks] /\ seen \in [Panes -> Marks]
      /\ left \subseteq Panes
  BY QueuedAreRecords, PaneSets DEF StreamTypeOK, Threads
<1>1. CASE StartAgain
  <2>1. read'["backend"] = Unread /\ pc' = "start"
    BY <1>0, <1>1 DEF StartAgain
  <2> QED
    BY <2>1 DEF ReadsAreFresh
<1>2. CASE ~StartAgain
  <2>1. halt = "no"
    BY <1>2 DEF StreamNext, ThreadNext, Crash, Restart, streamVars, Reconcile, BeginReplay, EndReplay,
                Subscribe, ReadEvent, Stopped, HerdrRestarts, PeriodicReconcile, Disconnect, Stop,
                OpenPane, TurnCompletes, SkipPane, ExpireWatermark, PaneReplay, ReadMark, ApplyRecord,
                RecordRefused, Flush, FlushFails, AfterFlush, MayFlush
  <2>2. /\ read["backend"] # Unread => read["backend"] = mark[FirstRecord("backend").pane]
        /\ pc = "second" =>
              /\ \A p \in left : seen[p] = mark[p]
              /\ \A i \in DOMAIN q : q[i].pane \notin left
    BY <2>1 DEF ReadsAreFresh
  <2>3. read'["backend"] # Unread => read'["backend"] = mark'[Head(todo'["backend"]).pane]
    <3>1. \/ read'["backend"] = Unread
          \/ read'["backend"] = read["backend"] /\ todo'["backend"] = todo["backend"]
          \/ /\ read'["backend"] = mark[FirstRecord("backend").pane] /\ todo["backend"] # <<>>
             /\ UNCHANGED <<todo, mark, done, base>>
      BY <1>0, ReadsMove
    <3>2. CASE read'["backend"] # Unread /\ read'["backend"] = read["backend"]
               /\ todo'["backend"] = todo["backend"]
      <4>1. todo["backend"] # <<>>
        BY <1>0, <3>2 DEF ReadsAreBacked
      <4>2. mark' = mark
        BY <3>2, <4>1, MarksStandStill
      <4> QED
        BY <2>2, <3>2, <4>2 DEF FirstRecord
    <3>3. CASE read'["backend"] = mark[FirstRecord("backend").pane] /\ UNCHANGED <<todo, mark>>
      BY <3>3 DEF FirstRecord
    <3> QED
      BY <3>1, <3>2, <3>3
  <2>4. pc' = "second" => /\ \A p \in left' : seen'[p] = mark'[p]
                          /\ \A i \in DOMAIN todo'["backend"] : todo'["backend"][i].pane \notin left'
    <3> SUFFICES ASSUME pc' = "second"
                 PROVE  /\ \A p \in left' : seen'[p] = mark'[p]
                        /\ \A i \in DOMAIN todo'["backend"] : todo'["backend"][i].pane \notin left'
      OBVIOUS
    <3>1. CASE Subscribe
      <4>1. seen' = mark /\ mark' = mark /\ todo' = todo /\ todo["backend"] = <<>>
        BY <3>1 DEF Subscribe, store, queues, PlacesFit, Quiet
      <4> QED
        BY <4>1
    <3>2. CASE \/ UNCHANGED streamVars \/ HerdrRestarts
               \/ \E p \in Panes : OpenPane(p) \/ TurnCompletes(p) \/ SkipPane(p)
               \/ \E t \in Threads : ReadMark(t)
      <4>1. UNCHANGED <<pc, mark, seen, todo>> /\ left' \subseteq left
        BY <3>2 DEF streamVars, HerdrRestarts, OpenPane, TurnCompletes, SkipPane, ReadMark,
                    store, thread, queues
      <4> QED
        BY <2>2, <4>1
    <3>3. ASSUME NEW p \in Panes, PaneReplay(p)
          PROVE  /\ \A u \in left' : seen'[u] = mark'[u]
                 /\ \A i \in DOMAIN todo'["backend"] : todo'["backend"][i].pane \notin left'
      <4>1. pc = "second" /\ left' = left \ {p} /\ seen' = seen /\ q = <<>>
        BY <3>3 DEF PaneReplay, Quiet
      <4>2. \A u \in Panes \ {p} : mark'[u] = mark[u]
        BY <1>0, <3>3 DEF PaneReplay, Rebaseline, store
      <4>3. ASSUME NEW i \in DOMAIN todo'["backend"] PROVE todo'["backend"][i].pane = p
        <5>1. CASE UNCHANGED todo
          BY <4>1, <4>3, <5>1
        <5>2. CASE \E n : todo' = [todo EXCEPT !["backend"] = Retained(p, n)]
          <6>1. PICK n : todo' = [todo EXCEPT !["backend"] = Retained(p, n)]
            BY <5>2
          <6>2. todo'["backend"] = Retained(p, n)
            BY <1>0, <6>1 DEF StreamTypeOK
          <6> QED
            BY <4>3, <6>2 DEF Retained
        <5> QED
          BY <3>3, <5>1, <5>2 DEF PaneReplay
      <4> QED
        BY <1>0, <2>2, <4>1, <4>2, <4>3
    <3>4. CASE ApplyRecord("backend")
      <4> DEFINE r == FirstRecord("backend")
      <4>1. /\ q # <<>> /\ UNCHANGED <<pc, left, seen>> /\ pc = "second"
            /\ todo' = [todo EXCEPT !["backend"] = Tail(q)]
        BY <3>4 DEF ApplyRecord, NextRecord, thread
      <4>2. todo'["backend"] = Tail(q) /\ r = q[1] /\ 1 \in DOMAIN q
        BY <1>0, <4>1 DEF StreamTypeOK, FirstRecord
      <4>3. r.pane \notin left
        BY <2>2, <4>1, <4>2
      <4>4. \A u \in Panes \ {r.pane} : mark'[u] = mark[u]
        BY <1>0, <3>4 DEF ApplyRecord, RecordCompletion, Rebaseline, store
      <4>5. \A i \in DOMAIN Tail(q) : i + 1 \in DOMAIN q /\ Tail(q)[i] = q[i + 1]
        BY <1>0, <4>1
      <4> QED
        BY <1>0, <2>2, <4>1, <4>2, <4>3, <4>4, <4>5
    <3>5. ASSUME NEW t \in Threads,
                 \/ Flush(t) \/ FlushFails(t) \/ RecordRefused(t)
                 \/ t = "stopper" /\ ApplyRecord(t)
          PROVE  FALSE
      <4>1. CASE t = "backend"
        BY <3>5, <4>1 DEF Flush, FlushFails, RecordRefused, Unwind
      <4>2. CASE t = "stopper"
        BY <2>1, <3>5, <4>2 DEF Flush, MayFlush, FlushFails, RecordRefused, ApplyRecord, PlacesFit
      <4> QED
        BY <1>0, <4>1, <4>2
    <3>6. CASE \/ Reconcile \/ BeginReplay \/ EndReplay \/ ReadEvent \/ Stopped
               \/ PeriodicReconcile \/ Disconnect \/ Stop \/ Crash \/ Restart
               \/ \E p \in Panes : ExpireWatermark(p)
      BY <1>2, <2>1, <3>6 DEF Reconcile, BeginReplay, EndReplay, ReadEvent, Stopped, PeriodicReconcile,
              Disconnect, Unwind, Stop, Crash, Restart, ExpireWatermark, thread
    <3> QED
      BY <1>0, <3>1, <3>2, <3>3, <3>4, <3>5, <3>6 DEF StreamNext, ThreadNext
  <2> QED
    BY <2>3, <2>4 DEF ReadsAreFresh, FirstRecord
<1> QED
  BY <1>1, <1>2

-----------------------------------------------------------------------------
(* The theorem.                                                            *)

\* What is past a watermark is in the queue: that is NothingSlipsPast.
LEMMA NothingSlips == StreamInv => NothingSlipsPast
<1> SUFFICES ASSUME StreamInv, pc \in {"read", "drain"}, halt = "no", ~leftover,
                    NEW p \in subs \ skipped, mark[p] # NoMark, mark[p].epoch = epoch,
                    NEW n \in mark[p].last + 1 .. herdr[p].turn
             PROVE  InReach(p, n)
  BY DEF NothingSlipsPast
<1>1. StreamTypeOK /\ Reached(Queued, p)
  BY DEF StreamInv, QueueFits, Steady
<1>2. PICK j \in DOMAIN Queued : Queued[j] = [pane |-> p, epoch |-> epoch, turn |-> n]
  BY <1>1 DEF Reached, Waits
<1>3. Queued[j] \in Range(Queued)
  BY DEF Range
<1>4. Range(Queued) = Range(todo["backend"]) \cup Range(pending) \cup Range(wire)
  <2>1. todo["backend"] \in Seq(Record) /\ pending \in Seq(Record) /\ wire \in Seq(Record)
    BY <1>1, QueuedAreRecords
  <2>2. Range((todo["backend"] \o pending) \o wire)
           = Range(todo["backend"]) \cup Range(pending) \cup Range(wire)
    BY <2>1, QueueRange
  <2> QED
    BY <2>2, Zenon DEF Queued
<1>5. Range(todo["backend"]) \subseteq UNION {Range(todo[t]) : t \in Threads}
  BY DEF Threads
<1> QED
  BY <1>2, <1>3, <1>4, <1>5 DEF InReach

\* Nothing is known, read or queued when the store is new.
LEMMA StreamStarts == StreamInit => StreamInv
<1> SUFFICES ASSUME StreamInit PROVE StreamInv
  OBVIOUS
<1>1. MaxTurn \in Nat \ {0} /\ MaxEpoch \in Nat \ {0} /\ MaxFaults \in Nat
  BY StreamAssumption
<1>2. StreamTypeOK
  <2>1. herdr \in [Panes -> [turn : 0 .. MaxTurn, open : BOOLEAN]]
    BY <1>1 DEF StreamInit
  <2>2. {known, left, skipped, subs} \subseteq SUBSET Panes
    BY PaneSets DEF StreamInit
  <2>3. /\ epoch \in 1 .. MaxEpoch /\ faults \in 0 .. MaxFaults /\ done \subseteq Record
        /\ pc \in {"start", "probe", "first", "subscribe", "second", "read", "drain", "stopped"}
        /\ halt \in {"no", "set", "flushed"}
    BY <1>1 DEF StreamInit
  <2>4. api \in BOOLEAN /\ supported \in BOOLEAN /\ leftover \in BOOLEAN
    BY Zenon DEF StreamInit
  <2>5. /\ mark \in [Panes -> Marks] /\ seen \in [Panes -> Marks]
        /\ base \in [Panes -> [1 .. MaxEpoch -> 0 .. MaxTurn]]
        /\ read \in [Threads -> Marks \cup {Unread}]
    BY <1>1 DEF StreamInit, Marks
  <2>6. /\ wire \in Seq(Record) /\ pending \in Seq(Record)
        /\ todo \in [Threads -> Seq(Record)]
    BY DEF StreamInit
  <2> QED
    BY <2>1, <2>2, <2>3, <2>4, <2>5, <2>6, Zenon DEF StreamTypeOK
<1>3. MarkIsBacked
  BY DEF StreamInit, MarkIsBacked
<1>4. ReadsAreBacked
  BY DEF StreamInit, ReadsAreBacked
<1>5. PlacesFit
  BY DEF StreamInit, PlacesFit, Quiet, Threads
<1>6. QueueFits
  BY DEF StreamInit, QueueFits, Steady
<1>7. ReadsAreFresh
  BY DEF StreamInit, ReadsAreFresh, Threads
<1> QED
  BY <1>2, <1>3, <1>4, <1>5, <1>6, <1>7 DEF StreamInv

\* Whatever threads, replays, disconnects, refused transactions and epochs come
\* between, a watermark vouches for completion rows that exist, and while the stream
\* is read no turn of a subscribed pane lies past its watermark and out of reach
\* (record_herdr_turn_completion, _replay_turns_after_reconcile).
THEOREM MarksTrue == StreamSpec => []MarksAreTrue
<1>1. StreamInv /\ [StreamNext]_streamVars => StreamInv'
  <2> SUFFICES ASSUME StreamInv, [StreamNext]_streamVars PROVE StreamInv'
    OBVIOUS
  <2>1. /\ StreamTypeOK /\ MarkIsBacked /\ ReadsAreBacked /\ PlacesFit /\ QueueFits /\ ReadsAreFresh
    BY DEF StreamInv
  <2>2. StreamTypeOK'
    BY <2>1, StreamTypes
  <2>3. MarkIsBacked'
    BY <2>1, MarksStayBacked
  <2>4. ReadsAreBacked'
    BY <2>1, ReadsStayBacked
  <2>5. PlacesFit'
    BY <2>1, PlacesStep
  <2>6. QueueFits'
    BY <2>1, QueueStep
  <2>7. ReadsAreFresh'
    BY <2>1, FreshStep
  <2> QED
    BY <2>2, <2>3, <2>4, <2>5, <2>6, <2>7 DEF StreamInv
<1>2. StreamInv => MarksAreTrue
  BY NothingSlips DEF StreamInv, MarksAreTrue
<1> QED
  BY <1>1, <1>2, StreamStarts, PTL DEF StreamSpec
=============================================================================
