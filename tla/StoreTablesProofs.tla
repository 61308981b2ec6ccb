--------------------------- MODULE StoreTablesProofs ---------------------------
(***************************************************************************)
(* Proofs about tables of the store that several processes write: the      *)
(* retained snapshot with its projections and the attention lifecycle, for *)
(* any number of savers, families and contents; and the links from         *)
(* submissions to turns, for any number of both and any windows.           *)
(***************************************************************************)
EXTENDS SnapshotSaves, SubmissionLinks, FiniteSetTheorems, TLAPS

-----------------------------------------------------------------------------
(* Snapshots: the state is well-formed.                                    *)

ClockIsTyped == saveClock \in 1 .. LastTick

\* What a saver is about to save was made at some time of the clock.
SavingIsTyped ==
    \A s \in Savers :
        \/ saving[s] = NotSaving
        \/ saving[s] \in [step : {"made", "prepared", "unprepared"}, made : 1 .. LastTick,
                          content : Fingerprints, stamp : Stamps]

\* The lifecycle of a family, as it is written by Signalled and Missed
IsLifecycle(lc) ==
    \/ lc = NoFamily
    \/ /\ lc = [status |-> lc.status, current |-> lc.current, last |-> lc.last,
                generation |-> lc.generation, firstMissing |-> lc.firstMissing,
                missing |-> lc.missing, rank |-> lc.rank]
       /\ lc.status \in {"open", "resolved"}
       /\ {lc.last, lc.generation, lc.firstMissing, lc.missing, lc.rank} \subseteq Nat

LifecyclesAreTyped ==
    /\ lifecycle = [f \in Families |-> lifecycle[f]]
    /\ \A f \in Families : IsLifecycle(lifecycle[f])

HistoryIsTyped ==
    /\ lastObserved \in Nat
    /\ lastSignal \in [Families -> Nat] /\ openings \in [Families -> Nat]

SavesTypeOK == ClockIsTyped /\ SavingIsTyped /\ LifecyclesAreTyped /\ HistoryIsTyped

\* The newest snapshot that was saved is the one that is retained.
NewestIsKept ==
    /\ retained.made \in Nat
    /\ retained.made = 0 => newest = <<0, 0>>
    /\ ProjectionIsNewest

\* A family has an open item exactly while it is open, and it is the current one.
ItemsFollow ==
    \A f \in Families :
        {i \in openItems : i[1] = f} = IF IsOpened(f) THEN {<<f, lifecycle[f].current>>} ELSE {}

Generation(f) == IF lifecycle[f] = NoFamily THEN 0 ELSE lifecycle[f].generation

Created(f) == {j \in attentionJobs : j[1] = f /\ j[3] = "attention_created"}

\* Connectors were told once of each generation of a family.
JobsFollow ==
    \A f \in Families :
        /\ IsFiniteSet(Created(f)) /\ Cardinality(Created(f)) = openings[f]
        /\ \A j \in Created(f) : \E n \in Nat :
              n <= Generation(f) /\ j = <<f, n, "attention_created", 0>>

\* What a family knows of its last signal: nothing that was saved in order is newer
\* than its last observation, and it was first missed after its last signal.
SignalsAreSeen ==
    \A f \in Families :
        LET lc == lifecycle[f] IN
        /\ lc = NoFamily => lastSignal[f] = 0
        /\ lc # NoFamily => lastSignal[f] <= lc.last /\ lc.last <= lastObserved
        /\ lc.status = "open" /\ lc.firstMissing # 0 =>
              lastSignal[f] < lc.firstMissing /\ lc.firstMissing <= lc.last

SavesInv ==
    SavesTypeOK /\ NewestIsKept /\ ItemsFollow /\ JobsFollow /\ SignalsAreSeen

-----------------------------------------------------------------------------
(* One family and one observation.                                         *)

\* An observation leaves the lifecycle of a family well-formed, and only a signal
\* makes a new generation.
LEMMA ObservationIsTyped ==
    ASSUME NEW lc, IsLifecycle(lc), NEW at \in Nat, NEW a \in {"none", "positive", "complete"},
           NEW sig, sig = NoSignal \/ sig.rank \in Nat
    PROVE  /\ IsLifecycle(AfterObservation(lc, at, a, sig))
           /\ LET new == AfterObservation(lc, at, a, sig)
                  old == IF lc = NoFamily THEN 0 ELSE lc.generation
              IN  /\ lc # NoFamily => new # NoFamily
                  /\ new.status = "open" /\ lc.status # "open" => new.generation = old + 1
                  /\ new # NoFamily /\ ~(new.status = "open" /\ lc.status # "open") =>
                        new.generation = old /\ lc # NoFamily
<1> DEFINE new == AfterObservation(lc, at, a, sig)
<1> USE SavesAssumption
<1>1. CASE new = lc
  BY <1>1 DEF IsLifecycle, NoFamily
<1>2. CASE sig # NoSignal /\ new = Signalled(lc, at, sig)
  <2>1. /\ lc = NoFamily => lc.status = "none"
        /\ lc # NoFamily => lc.status \in {"open", "resolved"}
    BY DEF IsLifecycle, NoFamily
  <2>2. new.status = "open" /\ new # NoFamily
    BY <1>2 DEF Signalled, NoFamily
  <2>3. new.generation = CASE lc = NoFamily -> 1
                           [] lc # NoFamily /\ lc.status = "resolved" -> lc.generation + 1
                           [] lc # NoFamily /\ lc.status = "open" -> lc.generation
    BY <1>2, <2>1 DEF Signalled
  <2>4. {new.last, new.firstMissing, new.missing, new.rank} \subseteq Nat
    BY <1>2, <2>1 DEF Signalled, IsLifecycle
  <2>5. new.generation \in Nat
    BY <2>1, <2>3 DEF IsLifecycle
  <2>6. IsLifecycle(new)
    BY <1>2, <2>2, <2>4, <2>5 DEF Signalled, IsLifecycle
  <2> QED
    BY <2>1, <2>2, <2>3, <2>6 DEF IsLifecycle
<1>3. CASE lc.status = "open" /\ new = Missed(lc, at)
  <2>1. lc # NoFamily
    BY <1>3 DEF NoFamily
  <2>2. PICK status \in {"open", "resolved"} : \E current, first, missing :
           new = [status |-> status, current |-> current, last |-> at,
                  generation |-> lc.generation, firstMissing |-> first,
                  missing |-> missing, rank |-> lc.rank]
    <3>1. ~IsLifecycle(lc) \/ lc = [status |-> lc.status, current |-> lc.current,
                last |-> lc.last, generation |-> lc.generation,
                firstMissing |-> lc.firstMissing, missing |-> lc.missing, rank |-> lc.rank]
      BY <2>1 DEF IsLifecycle
    <3> QED
      BY <1>3, <3>1, Zenon DEF Missed
  <2>3. new.firstMissing \in Nat /\ new.missing \in Nat
    BY <1>3, <2>1 DEF Missed, IsLifecycle
  <2>4. IsLifecycle(new) /\ new # NoFamily /\ new.generation = lc.generation
    BY <2>1, <2>2, <2>3 DEF IsLifecycle, NoFamily
  <2> QED
    BY <1>3, <2>1, <2>4
<1>4. \/ new = lc
      \/ sig # NoSignal /\ new = Signalled(lc, at, sig)
      \/ lc.status = "open" /\ new = Missed(lc, at)
  BY DEF AfterObservation
<1> QED
  BY <1>1, <1>2, <1>3, <1>4

\* What a family knows of its last signal, for one family: `signal` is the last
\* signal in order of observation, `seen` the last observation.
Seen(lc, signal, seen) ==
    /\ lc = NoFamily => signal = 0
    /\ lc # NoFamily => signal <= lc.last /\ lc.last <= seen
    /\ lc.status = "open" /\ lc.firstMissing # 0 =>
          signal < lc.firstMissing /\ lc.firstMissing <= lc.last

\* An observation keeps what a family knows of its last signal, and a family that it
\* resolves has been without a signal for longer than the grace period.
LEMMA ObservationIsSeen ==
    ASSUME NEW lc, IsLifecycle(lc), NEW at \in Nat \ {0},
           NEW a \in {"none", "positive", "complete"}, NEW sig,
           NEW signal \in Nat, NEW seen \in Nat, Seen(lc, signal, seen)
    PROVE  LET new == AfterObservation(lc, at, a, sig)
           IN  /\ Seen(new, IF a # "none" /\ at > seen /\ sig # NoSignal THEN at ELSE signal,
                       IF a # "none" /\ at > seen THEN at ELSE seen)
               /\ lc.status = "open" /\ new.status = "resolved" => new.last - signal > Grace
<1> DEFINE new == AfterObservation(lc, at, a, sig)
           signal2 == IF a # "none" /\ at > seen /\ sig # NoSignal THEN at ELSE signal
           seen2 == IF a # "none" /\ at > seen THEN at ELSE seen
<1> SUFFICES /\ Seen(new, signal2, seen2)
             /\ lc.status = "open" /\ new.status = "resolved" => new.last - signal > Grace
  OBVIOUS
<1> USE SavesAssumption
<1> HIDE DEF new
<1>1. /\ lc = NoFamily => lc.status = "none"
      /\ lc # NoFamily => /\ lc.status \in {"open", "resolved"}
                          /\ lc.last \in Nat /\ lc.firstMissing \in Nat /\ lc.missing \in Nat
                          /\ signal <= lc.last /\ lc.last <= seen
  BY DEF IsLifecycle, NoFamily, Seen
<1>2. CASE new = lc /\ (a = "none" \/ (lc.status # "none" /\ at <= lc.last))
  <2>1. signal2 = signal
    BY <1>1, <1>2
  <2> QED
    BY <1>1, <1>2, <2>1 DEF Seen
<1>3. CASE new = lc /\ sig = NoSignal
  <2>1. signal2 = signal /\ seen2 >= seen /\ seen2 \in Nat
    BY <1>3
  <2> QED
    BY <1>1, <1>3, <2>1 DEF Seen
<1>4. CASE a # "none" /\ sig # NoSignal /\ new = Signalled(lc, at, sig)
           /\ ~(lc.status # "none" /\ at <= lc.last)
  <2>1. new # NoFamily /\ new.status = "open" /\ new.firstMissing = 0 /\ new.last = at
    BY <1>4 DEF Signalled, NoFamily
  <2>2. signal <= at
    BY <1>1, <1>4 DEF Seen
  <2> QED
    BY <1>4, <2>1, <2>2 DEF Seen
<1>5. CASE a # "none" /\ sig = NoSignal /\ lc.status = "open" /\ new = Missed(lc, at)
           /\ ~(lc.status # "none" /\ at <= lc.last)
  <2> DEFINE first == IF lc.firstMissing = 0 THEN at ELSE lc.firstMissing
  <2>1. lc # NoFamily
    BY <1>5 DEF NoFamily
  <2>2. lc = [status |-> lc.status, current |-> lc.current, last |-> lc.last,
              generation |-> lc.generation, firstMissing |-> lc.firstMissing,
              missing |-> lc.missing, rank |-> lc.rank]
    BY <2>1 DEF IsLifecycle
  <2>3. /\ new.last = at /\ new.firstMissing = first
        /\ new.status = "resolved" => at - first >= Grace
        /\ new # NoFamily
    BY <1>5, <2>2 DEF Missed, NoFamily
  <2>4. signal < first /\ first <= at /\ first # 0 /\ first \in Nat /\ lc.last < at
    BY <1>1, <1>5, <2>1 DEF Seen
  <2>5. seen2 >= at /\ signal2 = signal
    BY <1>5
  <2> QED
    BY <2>3, <2>4, <2>5 DEF Seen
<1>6. \/ new = lc /\ (a = "none" \/ (lc.status # "none" /\ at <= lc.last))
      \/ new = lc /\ sig = NoSignal
      \/ /\ a # "none" /\ sig # NoSignal /\ new = Signalled(lc, at, sig)
         /\ ~(lc.status # "none" /\ at <= lc.last)
      \/ /\ a # "none" /\ sig = NoSignal /\ lc.status = "open" /\ new = Missed(lc, at)
         /\ ~(lc.status # "none" /\ at <= lc.last)
  BY DEF new, AfterObservation
<1> QED
  BY <1>2, <1>3, <1>4, <1>5, <1>6

-----------------------------------------------------------------------------
(* The steps.                                                              *)

\* What an observation with the signals sig makes of the lifecycles.
Observed(at, a, sig) == [f \in Families |-> AfterObservation(lifecycle[f], at, a, sig[f])]

\* A save takes one signal of each family, or none, from its content.
LEMMA SaveObserves ==
    ASSUME SavesInv, NEW s \in Savers, NEW at \in 1 .. LastTick,
           NEW a \in {"none", "positive", "complete"}, Save(s, at, a)
    PROVE  \E sig :
              /\ \A f \in Families : sig[f] = NoSignal \/ sig[f].rank \in Nat
              /\ lifecycle' = Observed(at, a, sig)
              /\ openItems' = UNION {
                     {i \in IF Observed(at, a, sig)[f] = lifecycle[f] THEN openItems
                            ELSE ItemsAfter(f, lifecycle[f], Observed(at, a, sig)[f]) : i[1] = f} : f \in Families}
              /\ attentionJobs' = attentionJobs \cup
                     UNION {JobsAfter(f, lifecycle[f], Observed(at, a, sig)[f]) : f \in Families}
              /\ lastSignal' = [f \in Families |->
                     IF a # "none" /\ at > lastObserved /\ sig[f] # NoSignal THEN at ELSE lastSignal[f]]
              /\ openings' = [f \in Families |->
                     IF (\E i \in openItems' : i[1] = f) /\ ~\E i \in openItems : i[1] = f
                     THEN openings[f] + 1 ELSE openings[f]]
<1>1. saving[s] # NotSaving
  BY DEF Save, NotSaving
<1>2. saving[s].content \in DOMAIN Contents
  BY <1>1 DEF SavesInv, SavesTypeOK, SavingIsTyped, Fingerprints
<1> DEFINE c == saving[s].content
<1> HIDE DEF c
<1>3. \A f \in Families : \A i \in Selectable(c, f) : i = NoSignal \/ i.rank \in Nat
  BY <1>2, SavesAssumption DEF c, Selectable
<1> QED
  BY <1>3 DEF Save, Observed, c

\* A save keeps the state well-formed.
LEMMA SaveIsTyped ==
    ASSUME SavesInv, NEW s \in Savers, NEW at \in 1 .. LastTick,
           NEW a \in {"none", "positive", "complete"}, Save(s, at, a)
    PROVE  SavesTypeOK'
<1> USE DEF SavesInv, SavesTypeOK
<1>1. PICK sig :
          /\ \A f \in Families : sig[f] = NoSignal \/ sig[f].rank \in Nat
          /\ lifecycle' = Observed(at, a, sig)
          /\ lastSignal' = [f \in Families |->
                 IF a # "none" /\ at > lastObserved /\ sig[f] # NoSignal THEN at ELSE lastSignal[f]]
          /\ openings' = [f \in Families |->
                 IF (\E i \in openItems' : i[1] = f) /\ ~\E i \in openItems : i[1] = f
                 THEN openings[f] + 1 ELSE openings[f]]
  BY SaveObserves
<1>2. at \in Nat
  BY SavesAssumption
<1>3. LifecyclesAreTyped'
  <2>1. ASSUME NEW f \in Families PROVE IsLifecycle(lifecycle'[f])
    <3>1. IsLifecycle(AfterObservation(lifecycle[f], at, a, sig[f]))
      BY <1>1, <1>2, ObservationIsTyped DEF LifecyclesAreTyped
    <3> QED
      BY <1>1, <3>1 DEF Observed
  <2> QED
    BY <1>1, <2>1 DEF LifecyclesAreTyped, Observed
<1>4. HistoryIsTyped'
  <2>1. lastObserved' \in Nat
    BY <1>2 DEF Save, HistoryIsTyped
  <2>2. lastSignal' \in [Families -> Nat] /\ openings' \in [Families -> Nat]
    BY <1>1, <1>2 DEF HistoryIsTyped
  <2> QED
    BY <2>1, <2>2 DEF HistoryIsTyped
<1>5. ClockIsTyped' /\ SavingIsTyped'
  BY DEF Save, ClockIsTyped, SavingIsTyped
<1> QED
  BY <1>3, <1>4, <1>5

\* A save keeps the newest snapshot and its projections.
LEMMA SaveKeepsNewest ==
    ASSUME SavesInv, NEW s \in Savers, NEW at \in 1 .. LastTick,
           NEW a \in {"none", "positive", "complete"}, Save(s, at, a)
    PROVE  NewestIsKept'
<1> USE DEF SavesInv, NewestIsKept, ProjectionIsNewest
<1>1. saving[s].made \in Nat \ {0}
  <2>1. saving[s] # NotSaving
    BY DEF Save, NotSaving
  <2> QED
    BY <2>1, SavesAssumption DEF SavesTypeOK, SavingIsTyped
<1> DEFINE x == [made |-> saving[s].made, content |-> saving[s].content, stamp |-> saving[s].stamp]
<1>2. /\ retained' = IF RefreshCurrent(retained, x) THEN x ELSE retained
      /\ projected' = IF RefreshCurrent(retained, x) /\ RefreshRequired(retained, x)
                      THEN Projection(x) ELSE projected
      /\ newest' = IF x.made > newest[1] \/ (x.made = newest[1] /\ x.content > newest[2])
                   THEN <<x.made, x.content>> ELSE newest
  BY DEF Save
<1>3. CASE retained.made = 0
  <2>1. retained' = x /\ projected' = Projection(x)
    BY <1>2, <1>3 DEF RefreshCurrent, RefreshRequired
  <2>2. newest' = <<x.made, x.content>>
    BY <1>1, <1>2, <1>3
  <2> QED
    BY <1>1, <2>1, <2>2
<1>4. CASE retained.made # 0 /\ RefreshCurrent(retained, x)
  <2>1. retained' = x /\ newest' = <<x.made, x.content>>
    BY <1>2, <1>4 DEF RefreshCurrent
  <2>2. projected' = Projection(x)
    BY <1>2, <1>4 DEF RefreshRequired, Projection
  <2> QED
    BY <1>1, <2>1, <2>2
<1>5. CASE retained.made # 0 /\ ~RefreshCurrent(retained, x)
  BY <1>2, <1>5 DEF RefreshCurrent, Projection
<1> QED
  BY <1>3, <1>4, <1>5

\* A save closes the items it supersedes and opens the current ones.
LEMMA SaveKeepsItems ==
    ASSUME SavesInv, NEW s \in Savers, NEW at \in 1 .. LastTick,
           NEW a \in {"none", "positive", "complete"}, Save(s, at, a)
    PROVE  ItemsFollow'
<1>1. PICK sig :
          /\ \A f \in Families : sig[f] = NoSignal \/ sig[f].rank \in Nat
          /\ lifecycle' = Observed(at, a, sig)
          /\ openItems' = UNION {
                 {i \in IF Observed(at, a, sig)[f] = lifecycle[f] THEN openItems
                        ELSE ItemsAfter(f, lifecycle[f], Observed(at, a, sig)[f]) : i[1] = f} : f \in Families}
  BY SaveObserves
<1> SUFFICES ASSUME NEW f \in Families
             PROVE  {i \in openItems' : i[1] = f} =
                    IF lifecycle'[f].status = "open" THEN {<<f, lifecycle'[f].current>>} ELSE {}
  BY DEF ItemsFollow, IsOpened
<1> DEFINE old == lifecycle[f]
           new == lifecycle'[f]
<1>2. {i \in openItems' : i[1] = f} =
      {i \in IF new = old THEN openItems ELSE ItemsAfter(f, old, new) : i[1] = f}
  BY <1>1
<1>3. {i \in openItems : i[1] = f} = IF old.status = "open" THEN {<<f, old.current>>} ELSE {}
  BY DEF SavesInv, ItemsFollow, IsOpened
<1> HIDE DEF old, new
<1>4. CASE new = old
  BY <1>2, <1>3, <1>4 DEF old, new
<1>5. CASE new # old
  <2>1. \A i \in ItemsAfter(f, old, new) : i[1] = f => new.status = "open" /\ i = <<f, new.current>>
    BY <1>3 DEF ItemsAfter
  <2>2. new.status = "open" => <<f, new.current>> \in ItemsAfter(f, old, new)
    BY DEF ItemsAfter
  <2> QED
    BY <1>2, <1>5, <2>1, <2>2 DEF new
<1> QED
  BY <1>4, <1>5

\* A save tells connectors of a family exactly when it opens it.
LEMMA SaveKeepsJobs ==
    ASSUME SavesInv, NEW s \in Savers, NEW at \in 1 .. LastTick,
           NEW a \in {"none", "positive", "complete"}, Save(s, at, a)
    PROVE  JobsFollow'
<1>1. PICK sig :
          /\ \A f \in Families : sig[f] = NoSignal \/ sig[f].rank \in Nat
          /\ lifecycle' = Observed(at, a, sig)
          /\ attentionJobs' = attentionJobs \cup
                 UNION {JobsAfter(f, lifecycle[f], Observed(at, a, sig)[f]) : f \in Families}
          /\ openings' = [f \in Families |->
                 IF (\E i \in openItems' : i[1] = f) /\ ~\E i \in openItems : i[1] = f
                 THEN openings[f] + 1 ELSE openings[f]]
  BY SaveObserves
<1> SUFFICES ASSUME NEW f \in Families
             PROVE  /\ IsFiniteSet(Created(f)') /\ Cardinality(Created(f)') = openings'[f]
                    /\ \A j \in Created(f)' : \E n \in Nat :
                          n <= Generation(f)' /\ j = <<f, n, "attention_created", 0>>
  BY DEF JobsFollow
<1> DEFINE old == lifecycle[f]
           new == lifecycle'[f]
<1>2. Created(f)' = Created(f) \cup {j \in JobsAfter(f, old, new) : j[3] = "attention_created"}
  <2>1. \A g \in Families : \A j \in JobsAfter(g, lifecycle[g], lifecycle'[g]) : j[1] = g
    BY DEF JobsAfter
  <2> QED
    BY <1>1, <2>1 DEF Created
<1>3. new = AfterObservation(old, at, a, sig[f])
  BY <1>1 DEF Observed
<1>4. IsLifecycle(old) /\ at \in Nat
  BY SavesAssumption DEF SavesInv, SavesTypeOK, LifecyclesAreTyped
<1> HIDE DEF new
<1>5. /\ IsLifecycle(new)
      /\ old # NoFamily => new # NoFamily
      /\ new.status = "open" /\ old.status # "open" => new.generation = Generation(f) + 1
      /\ new # NoFamily /\ ~(new.status = "open" /\ old.status # "open") =>
            new.generation = Generation(f) /\ old # NoFamily
  BY <1>1, <1>3, <1>4, ObservationIsTyped DEF Generation
<1>6. /\ (\E i \in openItems : i[1] = f) <=> old.status = "open"
      /\ (\E i \in openItems' : i[1] = f) <=> new.status = "open"
  <2>1. /\ {i \in openItems : i[1] = f} = IF old.status = "open" THEN {<<f, old.current>>} ELSE {}
        /\ {i \in openItems' : i[1] = f} = IF new.status = "open" THEN {<<f, new.current>>} ELSE {}
    BY SaveKeepsItems DEF SavesInv, ItemsFollow, IsOpened, new
  <2> QED
    BY <2>1
<1>7. Generation(f)' = IF new = NoFamily THEN 0 ELSE new.generation
  BY DEF Generation, new
<1>8. Generation(f) \in Nat
  BY <1>4 DEF Generation, IsLifecycle
<1>9. /\ IsFiniteSet(Created(f)) /\ Cardinality(Created(f)) = openings[f]
      /\ \A j \in Created(f) : \E n \in Nat :
            n <= Generation(f) /\ j = <<f, n, "attention_created", 0>>
  BY DEF SavesInv, JobsFollow
<1>10. CASE new.status = "open" /\ old.status # "open"
  <2> DEFINE job == <<f, new.generation, "attention_created", 0>>
  <2>1. new # old /\ new # NoFamily
    BY <1>10 DEF NoFamily
  <2>2. JobsAfter(f, old, new) = {job}
    BY <1>10, <2>1 DEF JobsAfter
  <2>3. Created(f)' = Created(f) \cup {job}
    BY <1>2, <2>2
  <2>4. job \notin Created(f)
    <3> SUFFICES ASSUME job \in Created(f) PROVE FALSE
      OBVIOUS
    <3>1. PICK n \in Nat : n <= Generation(f) /\ job = <<f, n, "attention_created", 0>>
      BY <1>9
    <3> QED
      BY <1>5, <1>8, <1>10, <3>1
  <2>5. openings'[f] = openings[f] + 1
    BY <1>1, <1>6, <1>10
  <2>6. Generation(f)' = Generation(f) + 1
    BY <1>5, <1>7, <1>10, <2>1
  <2>7. IsFiniteSet(Created(f)') /\ Cardinality(Created(f)') = openings'[f]
    <3> HIDE DEF job
    <3>1. /\ IsFiniteSet(Created(f) \cup {job})
          /\ Cardinality(Created(f) \cup {job}) = Cardinality(Created(f)) + 1
      BY <1>9, <2>4, FS_AddElement
    <3> QED
      BY <1>9, <2>3, <2>5, <3>1
  <2>8. \A j \in Created(f)' : \E n \in Nat :
            n <= Generation(f)' /\ j = <<f, n, "attention_created", 0>>
    BY <1>5, <1>8, <1>9, <1>10, <2>3, <2>6
  <2> QED
    BY <2>7, <2>8
<1>11. CASE ~(new.status = "open" /\ old.status # "open")
  <2>1. Created(f)' = Created(f)
    <3>1. \A j \in JobsAfter(f, old, new) : j[3] # "attention_created"
      BY <1>11 DEF JobsAfter
    <3> QED
      BY <1>2, <3>1
  <2>2. openings'[f] = openings[f]
    BY <1>1, <1>6, <1>11
  <2>3. Generation(f)' = Generation(f)
    BY <1>5, <1>7, <1>11 DEF Generation
  <2> QED
    BY <1>9, <2>1, <2>2, <2>3
<1> QED
  BY <1>10, <1>11

\* A save keeps what families know of their signals, and resolves only what was gone.
LEMMA SaveKeepsSignals ==
    ASSUME SavesInv, NEW s \in Savers, NEW at \in 1 .. LastTick,
           NEW a \in {"none", "positive", "complete"}, Save(s, at, a)
    PROVE  /\ SignalsAreSeen'
           /\ \A f \in Families : IsOpened(f) /\ lifecycle'[f].status = "resolved"
                  => lifecycle'[f].last - lastSignal[f] > Grace
<1>1. PICK sig :
          /\ \A f \in Families : sig[f] = NoSignal \/ sig[f].rank \in Nat
          /\ lifecycle' = Observed(at, a, sig)
          /\ lastSignal' = [f \in Families |->
                 IF a # "none" /\ at > lastObserved /\ sig[f] # NoSignal THEN at ELSE lastSignal[f]]
  BY SaveObserves
<1>2. lastObserved' = IF a # "none" /\ at > lastObserved THEN at ELSE lastObserved
  BY DEF Save
<1>3. ASSUME NEW f \in Families
      PROVE  /\ Seen(lifecycle'[f], lastSignal'[f], lastObserved')
             /\ IsOpened(f) /\ lifecycle'[f].status = "resolved"
                    => lifecycle'[f].last - lastSignal[f] > Grace
  <2>1. IsLifecycle(lifecycle[f]) /\ lastSignal[f] \in Nat /\ lastObserved \in Nat
    BY DEF SavesInv, SavesTypeOK, LifecyclesAreTyped, HistoryIsTyped
  <2>2. Seen(lifecycle[f], lastSignal[f], lastObserved)
    BY DEF SavesInv, SignalsAreSeen, Seen
  <2>3. at \in Nat \ {0}
    BY SavesAssumption
  <2>4. lifecycle'[f] = AfterObservation(lifecycle[f], at, a, sig[f])
    BY <1>1 DEF Observed
  <2>5. lastSignal'[f] = IF a # "none" /\ at > lastObserved /\ sig[f] # NoSignal THEN at ELSE lastSignal[f]
    BY <1>1
  <2> QED
    BY <1>2, <2>1, <2>2, <2>3, <2>4, <2>5, ObservationIsSeen DEF IsOpened
<1> QED
  BY <1>3 DEF SignalsAreSeen, Seen

\* Every step preserves the invariant, and resolves only what was gone.
LEMMA SavesStep ==
    ASSUME SavesInv, [SavesNext]_saveVars
    PROVE  /\ SavesInv'
           /\ \A f \in Families : IsOpened(f) /\ lifecycle'[f].status = "resolved"
                  => lifecycle'[f].last - lastSignal[f] > Grace
<1>1. ASSUME NEW s \in Savers, NEW at \in 1 .. LastTick,
             NEW a \in {"none", "positive", "complete"}, Save(s, at, a)
      PROVE  /\ SavesInv'
             /\ \A f \in Families : IsOpened(f) /\ lifecycle'[f].status = "resolved"
                    => lifecycle'[f].last - lastSignal[f] > Grace
  BY <1>1, SaveIsTyped, SaveKeepsNewest, SaveKeepsItems, SaveKeepsJobs, SaveKeepsSignals DEF SavesInv
<1>2. ASSUME UNCHANGED <<retained, projected, lifecycle, openItems, attentionJobs, newest,
                         lastObserved, lastSignal, openings>>,
             ClockIsTyped', SavingIsTyped'
      PROVE  /\ SavesInv'
             /\ \A f \in Families : IsOpened(f) /\ lifecycle'[f].status = "resolved"
                    => lifecycle'[f].last - lastSignal[f] > Grace
  <2>1. LifecyclesAreTyped' /\ HistoryIsTyped'
    BY <1>2 DEF SavesInv, SavesTypeOK, LifecyclesAreTyped, HistoryIsTyped
  <2>2. NewestIsKept'
    BY <1>2 DEF SavesInv, NewestIsKept, ProjectionIsNewest
  <2>3. ItemsFollow'
    BY <1>2 DEF SavesInv, ItemsFollow, IsOpened
  <2>4. JobsFollow'
    BY <1>2 DEF SavesInv, JobsFollow, Created, Generation
  <2>5. SignalsAreSeen'
    BY <1>2 DEF SavesInv, SignalsAreSeen
  <2>6. \A f \in Families : IsOpened(f) => lifecycle'[f].status # "resolved"
    BY <1>2 DEF IsOpened
  <2> QED
    BY <1>2, <2>1, <2>2, <2>3, <2>4, <2>5, <2>6 DEF SavesInv, SavesTypeOK
<1>3. ASSUME NEW s \in Savers, NEW c \in Fingerprints, NEW k \in Stamps, Make(s, c, k)
      PROVE  ClockIsTyped' /\ SavingIsTyped'
  BY <1>3 DEF Make, SavesInv, SavesTypeOK, ClockIsTyped, SavingIsTyped
<1>4. ASSUME NEW s \in Savers, Preflight(s) \/ PrepareAgain(s)
      PROVE  ClockIsTyped' /\ SavingIsTyped'
  <2>1. saving[s] # NotSaving
    BY <1>4 DEF Preflight, PrepareAgain, NotSaving
  <2>2. PICK step \in {"prepared", "unprepared"} : saving' = [saving EXCEPT ![s].step = step]
    BY <1>4 DEF Preflight, PrepareAgain
  <2>3. saveClock' = saveClock
    BY <1>4 DEF Preflight, PrepareAgain
  <2> QED
    BY <2>1, <2>2, <2>3 DEF SavesInv, SavesTypeOK, ClockIsTyped, SavingIsTyped
<1>5. ASSUME NEW s \in Savers, Abandoned(s)
      PROVE  ClockIsTyped' /\ SavingIsTyped'
  BY <1>5 DEF Abandoned, SavesInv, SavesTypeOK, ClockIsTyped, SavingIsTyped
<1>6. ASSUME SaveTick PROVE ClockIsTyped' /\ SavingIsTyped'
  BY <1>6, SavesAssumption DEF SaveTick, SavesInv, SavesTypeOK, ClockIsTyped, SavingIsTyped
<1>7. ASSUME UNCHANGED saveVars PROVE ClockIsTyped' /\ SavingIsTyped'
  BY <1>7 DEF saveVars, SavesInv, SavesTypeOK, ClockIsTyped, SavingIsTyped
<1>8. \/ \E s \in Savers, at \in 1 .. LastTick, a \in {"none", "positive", "complete"} : Save(s, at, a)
      \/ /\ ClockIsTyped' /\ SavingIsTyped'
         /\ UNCHANGED <<retained, projected, lifecycle, openItems, attentionJobs, newest,
                        lastObserved, lastSignal, openings>>
  BY <1>3, <1>4, <1>5, <1>6, <1>7
     DEF SavesNext, Make, Preflight, PrepareAgain, Abandoned, SaveTick, saveVars
<1> QED
  BY <1>1, <1>2, <1>8

\* The initial states satisfy the invariant.
LEMMA SavesStart == SavesInit => SavesInv
<1> SUFFICES ASSUME SavesInit PROVE SavesInv
  OBVIOUS
<1> USE DEF SavesInit
<1>1. SavesTypeOK
  BY SavesAssumption DEF SavesTypeOK, ClockIsTyped, SavingIsTyped, LifecyclesAreTyped,
                         IsLifecycle, HistoryIsTyped
<1>2. NewestIsKept
  BY DEF NewestIsKept, ProjectionIsNewest
<1>3. ItemsFollow
  BY DEF ItemsFollow, IsOpened, NoFamily
<1>4. JobsFollow
  <2>1. \A f \in Families : Created(f) = {}
    BY DEF Created
  <2> QED
    BY <2>1, FS_EmptySet DEF JobsFollow
<1>5. SignalsAreSeen
  BY DEF SignalsAreSeen, NoFamily
<1> QED
  BY <1>1, <1>2, <1>3, <1>4, <1>5 DEF SavesInv

\* The invariant of saves holds in every reachable state.
LEMMA SavesInvariant == SavesSpec => []SavesInv
<1>1. SavesInv /\ [SavesNext]_saveVars => SavesInv'
  BY SavesStep
<1> QED
  BY <1>1, SavesStart, PTL DEF SavesSpec

\* Whatever the order in which processes save their snapshots, the newest one is
\* retained and projected, the open items are those the attention list shows, and
\* connectors are told of a family once for each time it appears (save_snapshot).
THEOREM SavesAgreeAlways == SavesSpec => []SavesAgree
<1>1. SavesInv => SavesAgree
  <2> SUFFICES ASSUME SavesInv PROVE SavesAgree
    OBVIOUS
  <2>1. ProjectionIsNewest
    BY DEF SavesInv, NewestIsKept
  <2>2. ASSUME NEW f \in Families, lifecycle[f] # NoFamily
        PROVE  {i \in AttentionList : i[1] = f} = {i \in openItems : i[1] = f}
    <3>1. AttentionList = ListedItems
      BY <2>2 DEF AttentionList
    <3>2. {i \in ListedItems : i[1] = f} = IF IsOpened(f) THEN {<<f, lifecycle[f].current>>} ELSE {}
      BY DEF ListedItems
    <3> QED
      BY <3>1, <3>2 DEF SavesInv, ItemsFollow
  <2>3. \A f \in Families :
           Cardinality({j \in attentionJobs : j[1] = f /\ j[3] = "attention_created"}) = openings[f]
    BY DEF SavesInv, JobsFollow, Created
  <2> QED
    BY <2>1, <2>2, <2>3 DEF SavesAgree, AttentionAgrees
<1> QED
  BY <1>1, SavesInvariant, PTL

\* A family of signals is resolved only when it was without a signal for longer than
\* the grace period, whatever the order of the saves (_plan_attention_transition).
THEOREM ResolvedGone == SavesSpec => ResolvedWasGone
<1>1. SavesInv /\ [SavesNext]_saveVars =>
          [\A f \in Families : IsOpened(f) /\ lifecycle'[f].status = "resolved"
               => lifecycle'[f].last - lastSignal[f] > Grace]_saveVars
  BY SavesStep
<1> QED
  BY <1>1, SavesInvariant, PTL DEF SavesSpec, ResolvedWasGone

-----------------------------------------------------------------------------
(* Links: numbers, and the components of the graph.                        *)

\* A set of natural numbers has a least element.
LEMMA LeastOf ==
    ASSUME NEW S, S \subseteq Nat, S # {}
    PROVE  \E m \in S : \A y \in S : m <= y
<1>1. PICK m \in S : \A y \in S : ~ (<<y, m>> \in OpToRel(<, Nat))
  BY NatLessThanWellFounded, WFMin
<1>2. \A y \in Nat : y < m => <<y, m>> \in OpToRel(<, Nat)
  BY DEF OpToRel
<1>3. ASSUME NEW y \in S PROVE m <= y
  <2>1. ~(y < m)
    BY <1>1, <1>2
  <2> QED
    BY <2>1
<1> QED
  BY <1>3

\* Min is the least element.
LEMMA MinIsLeast ==
    ASSUME NEW S, S \subseteq Nat, S # {}
    PROVE  Min(S) \in S /\ \A y \in S : Min(S) <= y
BY LeastOf DEF Min

\* Max is the greatest element of a bounded set.
LEMMA MaxIsGreatest ==
    ASSUME NEW S, S \subseteq Nat, S # {}, NEW b \in Nat, \A y \in S : y <= b
    PROVE  Max(S) \in S /\ \A y \in S : y <= Max(S)
<1> DEFINE D == {k \in Nat : \E y \in S : y = b - k}
<1>1. PICK y \in S : TRUE
  OBVIOUS
<1>2. b - y \in D
  BY <1>1
<1>3. PICK m \in D : \A k \in D : m <= k
  BY <1>2, LeastOf
<1>4. PICK x \in S : x = b - m
  BY <1>3
<1>5. ASSUME NEW z \in S PROVE x >= z
  <2>1. b - z \in D /\ z \in Nat
    OBVIOUS
  <2>2. m <= b - z /\ m \in Nat
    BY <1>3, <2>1
  <2> QED
    BY <1>4, <2>1, <2>2
<1>6. \E w \in S : \A z \in S : w >= z
  BY <1>5
<1> QED
  BY <1>6 DEF Max

\* A row is in its own component.
LEMMA OwnComponent ==
    ASSUME NEW g, NEW s \in OpenSubs
    PROVE  s \in Component(s, g)
BY DEF Component

\* Rows that share a candidate are in the same component.
LEMMA Neighbours ==
    ASSUME NEW g, NEW s, NEW u \in Component(s, g), NEW v \in OpenSubs,
           g[u] \cap g[v] # {}
    PROVE  v \in Component(s, g)
<1> DEFINE closed(X) == \A a \in X, b \in OpenSubs \ X : g[a] \cap g[b] = {}
<1>1. ASSUME NEW X \in SUBSET OpenSubs, s \in X, closed(X) PROVE v \in X
  <2>1. u \in X
    BY <1>1 DEF Component
  <2> QED
    BY <1>1, <2>1
<1> QED
  BY <1>1 DEF Component

\* A component is the component of each of its rows.
LEMMA SameComponent ==
    ASSUME NEW g, NEW s \in OpenSubs, NEW u \in Component(s, g)
    PROVE  u \in OpenSubs /\ s \in Component(u, g) /\ Component(u, g) = Component(s, g)
<1> DEFINE closed(X) == \A a \in X, b \in OpenSubs \ X : g[a] \cap g[b] = {}
<1>1. u \in OpenSubs
  BY DEF Component
<1>2. s \in Component(u, g)
  <2>1. ASSUME NEW X \in SUBSET OpenSubs, u \in X, closed(X), s \notin X PROVE FALSE
    <3>1. \A a \in OpenSubs \ X, b \in OpenSubs \ (OpenSubs \ X) : g[a] \cap g[b] = {}
      BY <2>1
    <3>2. u \in OpenSubs \ X
      BY <2>1, <3>1 DEF Component
    <3> QED
      BY <2>1, <3>2
  <2> QED
    BY <2>1 DEF Component
<1>3. ASSUME NEW a \in OpenSubs, NEW b \in Component(a, g), NEW w \in Component(b, g)
      PROVE  w \in Component(a, g)
  <2>1. ASSUME NEW X \in SUBSET OpenSubs, a \in X, closed(X) PROVE w \in X
    <3>1. b \in X
      BY <2>1 DEF Component
    <3> QED
      BY <2>1, <3>1 DEF Component
  <2>2. w \in OpenSubs
    BY DEF Component
  <2> QED
    BY <2>1, <2>2 DEF Component
<1> QED
  BY <1>1, <1>2, <1>3

-----------------------------------------------------------------------------
(* Links: the invariant, of the clock n, the rows sb of turn_submissions,  *)
(* the causes src of the turns and the rows rw of turns.                   *)

SubmissionStates ==
    OpenStates \cup {"none", "linked", "expired", "ambiguous", "cancelled"}

SubmissionRow ==
    [state : SubmissionStates, sent : Nat \cup {Never}, submitted : Nat \cup {Never},
     upper : Nat \cup {Never}, hard : Nat \cup {Never}, link : Turns \cup {NoLink},
     receipt : BOOLEAN]

LinkTypes(n, sb, src, rw) ==
    /\ n \in 0 .. MaxTime
    /\ sb \in [Submissions -> SubmissionRow]
    /\ src \in [Turns -> Submissions \cup {NoLink}]
    /\ rw \in [Turns -> (0 .. n) \cup {Never}]

\* A row that was not sent is empty; one that was has its times from the send.
TimesFit(n, sb) ==
    \A s \in Submissions :
        IF sb[s].state = "none" THEN sb[s] = NoSub
        ELSE /\ sb[s].sent \in 0 .. n
             /\ sb[s].hard = sb[s].sent + HardTtl
             /\ sb[s].upper \in {sb[s].sent + Window, sb[s].hard}
             /\ sb[s].state = "submitted" => sb[s].submitted \in sb[s].sent .. n

\* A row has a link exactly while it is linked, to a turn that was observed.
LinksFit(sb, rw) ==
    \A s \in Submissions :
        /\ sb[s].state = "linked" <=> sb[s].link # NoLink
        /\ sb[s].link # NoLink => rw[sb[s].link] # Never

\* A turn has one cause, a submission that was sent and not cancelled, and a
\* submission has one turn.
CausesFit(sb, src) ==
    \A t \in Turns : src[t] # NoLink =>
        /\ sb[src[t]].state \notin {"none", "cancelled"}
        /\ \A u \in Turns \ {t} : src[u] # src[t]

IsFree(sb, t) == \A s \in Submissions : sb[s].link # t

\* No turn is linked twice (LinksAreExclusive).
Exclusive(sb) ==
    \A r, s \in Submissions : r # s /\ sb[r].link # NoLink => sb[r].link # sb[s].link

Fits(n, sb, src, rw) ==
    /\ LinkTypes(n, sb, src, rw) /\ TimesFit(n, sb) /\ LinksFit(sb, rw)
    /\ CausesFit(sb, src) /\ Exclusive(sb)

\* No prompt was queued: every window ends with the link window.
WindowsArePlain(sb) ==
    \A s \in Submissions : sb[s].state # "none" =>
        /\ sb[s].upper = sb[s].sent + Window
        /\ sb[s].state = "send_started" => sb[s].submitted = Never

\* A turn that was observed was first observed in the window of its cause.
SeenInWindow(sb, src, rw) ==
    \A t \in Turns : rw[t] # Never =>
        /\ src[t] # NoLink
        /\ sb[src[t]].sent - Window <= rw[t] /\ rw[t] < sb[src[t]].upper

\* A row ends without a link when its window is closed; a wrong link, too, is not
\* made before.
EndedLate(n, sb, src) ==
    \A s \in Submissions :
        \/ sb[s].state \in {"expired", "ambiguous"}
        \/ sb[s].link # NoLink /\ src[sb[s].link] # s
        => sb[s].upper <= n

\* A turn whose cause ended without it is linked at once to no row that is open.
EndedAlone(n, sb, src, rw) ==
    \A t \in Turns, s \in Submissions :
        /\ rw[t] # Never /\ IsFree(sb, t)
        /\ sb[src[t]].state \in {"expired", "ambiguous"}
        /\ sb[s].state \in OpenStates
        /\ sb[s].sent < rw[t] /\ rw[t] <= sb[s].upper
        => sb[s].upper + MaxReadAge <= n

\* The turn of an open row is not linked to another one.
OpenIsFree(sb, src, rw) ==
    \A t \in Turns :
        rw[t] # Never /\ sb[src[t]].state \in OpenStates => IsFree(sb, t)

\* A link names the turn the submission caused (LinkIsTrue).
LinkTrue(sb, src, rw) ==
    \A s \in Submissions, t \in Turns :
        (sb[s].link # NoLink /\ src[t] = s /\ rw[t] # Never) => sb[s].link = t

Certain(n, sb, src, rw) ==
    /\ WindowsArePlain(sb) /\ SeenInWindow(sb, src, rw) /\ EndedLate(n, sb, src)
    /\ EndedAlone(n, sb, src, rw) /\ OpenIsFree(sb, src, rw) /\ LinkTrue(sb, src, rw)

\* The hard limit is late enough for everything that is read in the windows of two
\* competing submissions.
HardIsLate == HardTtl >= 2 * Window + MaxReadAge

LinkInv ==
    /\ doubtful \in BOOLEAN
    /\ Fits(now, subs, source, rows)
    /\ ~doubtful /\ HardIsLate => Certain(now, subs, source, rows)

-----------------------------------------------------------------------------
(* Settlement.                                                             *)

\* The boundary of a component is the latest end of a window in it.
LEMMA BoundaryIs ==
    ASSUME NEW n, NEW src, NEW rw, Fits(n, subs, src, rw), NEW g, NEW s \in OpenSubs
    PROVE  /\ Boundary(s, g) \in Nat
           /\ \E u \in Component(s, g) : Boundary(s, g) = subs[u].upper
           /\ \A u \in Component(s, g) : subs[u].upper \in Nat /\ subs[u].upper <= Boundary(s, g)
<1> DEFINE C == Component(s, g)
           S == {subs[u].upper : u \in C}
<1>1. s \in C
  BY OwnComponent
<1>2. \A u \in C : u \in Submissions /\ subs[u].state \in OpenStates
  BY DEF Component, OpenSubs, IsOpen
<1>3. \A u \in C : subs[u].upper \in Nat /\ subs[u].upper <= n + HardTtl
  BY <1>2, LinksAssumption DEF Fits, LinkTypes, TimesFit, OpenStates
<1>4. n + HardTtl \in Nat
  BY LinksAssumption DEF Fits, LinkTypes
<1> HIDE DEF C
<1>5. Max(S) \in S /\ \A y \in S : y <= Max(S)
  <2>1. S \subseteq Nat /\ S # {} /\ \A y \in S : y <= n + HardTtl
    BY <1>1, <1>3
  <2> HIDE DEF S
  <2> QED
    BY <1>4, <2>1, MaxIsGreatest
<1>6. Boundary(s, g) = Max(S)
  BY DEF Boundary, C
<1> QED
  BY <1>3, <1>5, <1>6 DEF C

\* The candidates of a row.
LEMMA EdgesAre ==
    ASSUME NEW rw, NEW s \in OpenSubs, NEW t
    PROVE  t \in Graph(rw)[s] <=>
              /\ t \in Turns /\ rw[t] # Never /\ IsFree(subs, t) /\ ~IsQueued(s)
              /\ subs[s].sent - Window <= rw[t] /\ rw[t] <= subs[s].upper
BY DEF Graph, Edges, Candidates, IsFree

\* What settlement makes of a row.
IsSettled(s, g, rw, at, new) ==
    /\ s \notin OpenSubs => new = subs[s]
    /\ s \in OpenSubs =>
         \/ /\ new = subs[s]
            /\ \/ g[s] = {} /\ at < subs[s].upper
               \/ g[s] # {} /\ at < Boundary(s, g)
         \/ new = Ended(s, "expired") /\ g[s] = {} /\ ~(at < subs[s].upper)
         \/ new = Ended(s, "ambiguous") /\ g[s] # {} /\ ~(at < Boundary(s, g))
         \/ \E t \in Turns :
               /\ new = Linked(s, t) /\ Component(s, g) = {s} /\ g[s] = {t}
               /\ \/ ~(at < Boundary(s, g))
                  \/ at < Boundary(s, g) /\ Instant(s, t, {s}, rw, at)

\* The definition of settlement says the same.
LEMMA SettledCases ==
    ASSUME NEW rw, NEW at, NEW s \in Submissions
    PROVE  IsSettled(s, Graph(rw), rw, at, SettledAll(rw, at)[s])
<1> DEFINE g == Graph(rw)
           new == SettledAll(rw, at)[s]
           comp == Component(s, g)
           found == UNION {g[u] : u \in comp}
           t == CHOOSE u \in found : TRUE
           one == comp = {s} /\ Cardinality(found) = 1
<1> USE DEF IsSettled
<1>1. CASE s \notin OpenSubs
  BY <1>1 DEF SettledAll
<1>2. CASE s \in OpenSubs
  <2>1. new = Settled(s, g, rw, at)
    BY <1>2 DEF SettledAll
  <2>2. new = CASE g[s] = {} -> IF at < subs[s].upper THEN subs[s] ELSE Ended(s, "expired")
                [] g[s] # {} /\ at < Boundary(s, g) ->
                     IF Cardinality(found) = 1 /\ Instant(s, t, comp, rw, at)
                     THEN Linked(s, t) ELSE subs[s]
                [] OTHER -> IF one THEN Linked(s, t) ELSE Ended(s, "ambiguous")
    BY <2>1 DEF Settled
  <2>3. ASSUME comp = {s}, Cardinality(found) = 1
        PROVE  t \in Turns /\ g[s] = {t}
    <3>1. found = g[s]
      BY <2>3
    <3>2. g[s] \subseteq Turns
      BY <1>2 DEF Graph, Edges, Candidates
    <3>3. IsFiniteSet(g[s])
      BY <3>2, FS_Subset, LinksAssumption
    <3>4. \E x : g[s] = {x}
      BY <2>3, <3>1, <3>3, FS_Singleton
    <3> QED
      BY <3>1, <3>2, <3>4
  <2> HIDE DEF g, new, comp, found, t
  <2>4. CASE g[s] = {}
    BY <1>2, <2>2, <2>4 DEF g, new
  <2>5. CASE g[s] # {} /\ at < Boundary(s, g)
    <3>1. CASE Cardinality(found) = 1 /\ Instant(s, t, comp, rw, at)
      <4>1. comp = {s}
        BY <3>1 DEF Instant
      <4> QED
        BY <1>2, <2>2, <2>3, <2>5, <3>1, <4>1 DEF g, new, comp
    <3>2. CASE ~(Cardinality(found) = 1 /\ Instant(s, t, comp, rw, at))
      BY <1>2, <2>2, <2>5, <3>2 DEF g, new
    <3> QED
      BY <3>1, <3>2
  <2>6. CASE g[s] # {} /\ ~(at < Boundary(s, g))
    <3>1. CASE one
      BY <1>2, <2>2, <2>3, <2>6, <3>1 DEF g, new, comp
    <3>2. CASE ~one
      BY <1>2, <2>2, <2>6, <3>2 DEF g, new
    <3> QED
      BY <3>1, <3>2
  <2> QED
    BY <2>4, <2>5, <2>6
<1> QED
  BY <1>1, <1>2

\* What settlement keeps of a row, and what it changes.
LEMMA SettledRow ==
    ASSUME NEW rw, NEW at, NEW s \in Submissions, subs[s] \in SubmissionRow,
           SettledAll(rw, at)[s] # subs[s]
    PROVE  LET new == SettledAll(rw, at)[s]
           IN  /\ new \in SubmissionRow
               /\ new.sent = subs[s].sent /\ new.upper = subs[s].upper
               /\ new.hard = subs[s].hard /\ new.submitted = subs[s].submitted
               /\ s \in OpenSubs /\ subs[s].state \in OpenStates /\ subs[s].link = NoLink
               /\ \/ new.state \in {"expired", "ambiguous"} /\ new.link = NoLink
                  \/ /\ new.state = "linked" /\ new.link \in Turns
                     /\ Component(s, Graph(rw)) = {s} /\ Graph(rw)[s] = {new.link}
<1> DEFINE g == Graph(rw)
           new == SettledAll(rw, at)[s]
<1>1. /\ s \in OpenSubs
      /\ \/ new = Ended(s, "expired")
         \/ new = Ended(s, "ambiguous")
         \/ \E t \in Turns :
               new = Linked(s, t) /\ Component(s, g) = {s} /\ g[s] = {t}
  <2>1. /\ s \notin OpenSubs => new = subs[s]
        /\ s \in OpenSubs =>
             \/ new = subs[s]
             \/ new = Ended(s, "expired")
             \/ new = Ended(s, "ambiguous")
             \/ \E t \in Turns : new = Linked(s, t) /\ Component(s, g) = {s} /\ g[s] = {t}
    <3>1. IsSettled(s, g, rw, at, new)
      BY SettledCases
    <3> HIDE DEF g, new
    <3> QED
      BY <3>1 DEF IsSettled
  <2> HIDE DEF g
  <2> QED
    BY <2>1
<1> HIDE DEF new, g
<1>2. subs[s].state \in OpenStates /\ subs[s].link = NoLink
  BY <1>1 DEF OpenSubs, IsOpen
<1>3. ASSUME NEW state \in {"expired", "ambiguous"}, new = Ended(s, state)
      PROVE  /\ new \in SubmissionRow /\ new.state = state /\ new.link = NoLink
             /\ new.sent = subs[s].sent /\ new.upper = subs[s].upper
             /\ new.hard = subs[s].hard /\ new.submitted = subs[s].submitted
  <2>1. new = [subs[s] EXCEPT !.state = state]
    BY <1>3 DEF Ended
  <2> QED
    BY <1>2, <1>3, <2>1 DEF SubmissionRow, SubmissionStates
<1>4. ASSUME NEW t \in Turns, new = Linked(s, t)
      PROVE  /\ new \in SubmissionRow /\ new.state = "linked" /\ new.link = t
             /\ new.sent = subs[s].sent /\ new.upper = subs[s].upper
             /\ new.hard = subs[s].hard /\ new.submitted = subs[s].submitted
  <2>1. new = [subs[s] EXCEPT !.state = "linked", !.link = t]
    BY <1>4 DEF Linked
  <2> QED
    BY <2>1 DEF SubmissionRow, SubmissionStates
<1>5. CASE new = Ended(s, "expired") \/ new = Ended(s, "ambiguous")
  <2>1. PICK state \in {"expired", "ambiguous"} : new = Ended(s, state)
    BY <1>5
  <2>2. /\ new \in SubmissionRow /\ new.state = state /\ new.link = NoLink
        /\ new.sent = subs[s].sent /\ new.upper = subs[s].upper
        /\ new.hard = subs[s].hard /\ new.submitted = subs[s].submitted
    BY <1>3, <2>1
  <2> QED
    BY <1>1, <1>2, <2>2 DEF new, g
<1>6. CASE \E t \in Turns : new = Linked(s, t) /\ Component(s, g) = {s} /\ g[s] = {t}
  <2>1. PICK t \in Turns : new = Linked(s, t) /\ Component(s, g) = {s} /\ g[s] = {t}
    BY <1>6
  <2>2. /\ new \in SubmissionRow /\ new.state = "linked" /\ new.link = t
        /\ new.sent = subs[s].sent /\ new.upper = subs[s].upper
        /\ new.hard = subs[s].hard /\ new.submitted = subs[s].submitted
    BY <1>4, <2>1
  <2> QED
    BY <1>1, <1>2, <2>1, <2>2 DEF new, g
<1> QED
  BY <1>1, <1>5, <1>6

\* Settlement keeps the rows well-formed and their links exclusive.
LEMMA SettleFits ==
    ASSUME NEW n, NEW src, NEW rw, Fits(n, subs, src, rw), NEW at
    PROVE  Fits(n, SettledAll(rw, at), src, rw)
<1> DEFINE g == Graph(rw)
           sb == SettledAll(rw, at)
<1>1. sb = [s \in Submissions |-> sb[s]]
  BY DEF SettledAll
<1>2. subs \in [Submissions -> SubmissionRow]
  BY DEF Fits, LinkTypes
<1>3. ASSUME NEW s \in Submissions, sb[s] # subs[s]
      PROVE  /\ sb[s] \in SubmissionRow
             /\ sb[s].sent = subs[s].sent /\ sb[s].upper = subs[s].upper
             /\ sb[s].hard = subs[s].hard /\ sb[s].submitted = subs[s].submitted
             /\ s \in OpenSubs /\ subs[s].state \in OpenStates /\ subs[s].link = NoLink
             /\ \/ sb[s].state \in {"expired", "ambiguous"} /\ sb[s].link = NoLink
                \/ /\ sb[s].state = "linked" /\ sb[s].link \in Turns
                   /\ Component(s, g) = {s} /\ g[s] = {sb[s].link}
  BY <1>2, <1>3, SettledRow
<1> HIDE DEF sb
<1>4. LinkTypes(n, sb, src, rw)
  <2>1. \A s \in Submissions : sb[s] \in SubmissionRow
    BY <1>2, <1>3
  <2> QED
    BY <1>1, <2>1 DEF Fits, LinkTypes
<1>5. \A s \in Submissions :
          /\ sb[s].sent = subs[s].sent /\ sb[s].upper = subs[s].upper
          /\ sb[s].hard = subs[s].hard /\ sb[s].submitted = subs[s].submitted
          /\ \/ sb[s].state = subs[s].state
             \/ /\ subs[s].state \in OpenStates
                /\ sb[s].state \in {"expired", "ambiguous", "linked"}
  BY <1>3
<1>6. TimesFit(n, sb)
  <2>1. \A s \in Submissions : sb[s].state = "none" => sb[s] = NoSub
    BY <1>3 DEF Fits, TimesFit
  <2> QED
    BY <1>5, <2>1 DEF Fits, TimesFit, OpenStates
<1>7. LinksFit(sb, rw)
  <2>1. ASSUME NEW s \in Submissions
        PROVE  /\ sb[s].state = "linked" <=> sb[s].link # NoLink
               /\ sb[s].link # NoLink => rw[sb[s].link] # Never
    <3>1. CASE sb[s] = subs[s]
      BY <3>1 DEF Fits, LinksFit
    <3>2. CASE sb[s] # subs[s] /\ sb[s].state # "linked"
      BY <1>3, <3>2
    <3>3. CASE sb[s] # subs[s] /\ sb[s].state = "linked"
      <4>1. sb[s].link \in g[s] /\ sb[s].link \in Turns
        BY <1>3, <3>3
      <4>2. rw[sb[s].link] # Never
        BY <1>3, <3>3, <4>1, EdgesAre
      <4> QED
        BY <3>3, <4>1, <4>2, LinksAssumption
    <3> QED
      BY <3>1, <3>2, <3>3
  <2> QED
    BY <2>1 DEF LinksFit
<1>8. CausesFit(sb, src)
  BY <1>5 DEF Fits, CausesFit, LinkTypes, OpenStates
<1>9. Exclusive(sb)
  <2>1. \A s \in Submissions :
           \/ sb[s].link = subs[s].link
           \/ s \in OpenSubs /\ Component(s, g) = {s} /\ g[s] = {sb[s].link}
    BY <1>3
  <2>2. ASSUME NEW r \in Submissions, NEW s \in Submissions, r # s,
               sb[r].link # NoLink, sb[r].link = sb[s].link,
               r \in OpenSubs, Component(r, g) = {r}, g[r] = {sb[r].link}
        PROVE  FALSE
    <3>1. IsFree(subs, sb[r].link)
      BY <2>2, EdgesAre
    <3>2. s \in OpenSubs /\ g[s] = {sb[s].link}
      BY <2>1, <2>2, <3>1 DEF IsFree
    <3>3. s \in Component(r, g)
      <4>1. r \in Component(r, g)
        BY <2>2
      <4>2. g[r] \cap g[s] # {}
        BY <2>2, <3>2
      <4> HIDE DEF g
      <4> QED
        BY <2>2, <3>2, <4>1, <4>2, Neighbours
    <3> QED
      BY <2>2, <3>3
  <2> QED
    BY <2>1, <2>2 DEF Fits, Exclusive
<1> QED
  BY <1>4, <1>6, <1>7, <1>8, <1>9 DEF Fits, sb

\* While nothing is doubtful, an open row has the turns of its window as candidates,
\* those that are linked excepted.
LEMMA CandidatesAre ==
    ASSUME NEW n, NEW src, NEW rw, Fits(n, subs, src, rw), Certain(n, subs, src, rw),
           NEW s \in OpenSubs, NEW t \in Turns, rw[t] # Never, IsFree(subs, t),
           \/ src[t] = s
           \/ subs[s].sent < rw[t] /\ rw[t] <= subs[s].upper
    PROVE  t \in Graph(rw)[s]
<1>1. s \in Submissions /\ subs[s].state \in OpenStates /\ subs[s].state # "none"
  BY DEF OpenSubs, IsOpen, OpenStates
<1>2. ~IsQueued(s)
  BY <1>1 DEF Certain, WindowsArePlain, IsQueued
<1>3. rw[t] \in Nat
  BY DEF Fits, LinkTypes
<1>4. subs[s].sent \in Nat /\ subs[s].upper = subs[s].sent + Window
  BY <1>1 DEF Fits, TimesFit, Certain, WindowsArePlain
<1>5. subs[s].sent - Window <= rw[t] /\ rw[t] <= subs[s].upper
  BY <1>3, <1>4, LinksAssumption DEF Certain, SeenInWindow
<1> QED
  BY <1>2, <1>5, EdgesAre

\* An instant link is true: the turn's cause would compete, or is linked or ended.
LEMMA InstantIsTrue ==
    ASSUME NEW n, NEW src, NEW rw, Fits(n, subs, src, rw), Certain(n, subs, src, rw),
           NEW at \in Nat, n - MaxReadAge <= at,
           NEW s \in OpenSubs, NEW t \in Turns, Component(s, Graph(rw)) = {s}, t \in Graph(rw)[s],
           at < Boundary(s, Graph(rw)), Instant(s, t, {s}, rw, at)
    PROVE  src[t] = s
<1> DEFINE c == src[t]
<1> SUFFICES ASSUME c # s PROVE FALSE
  OBVIOUS
<1> USE DEF Fits, Certain
<1>1. rw[t] # Never /\ IsFree(subs, t) /\ rw[t] \in Nat /\ rw[t] <= subs[s].upper
  BY EdgesAre DEF LinkTypes
<1>2. c \in Submissions /\ subs[c].state \notin {"none", "cancelled"}
  BY <1>1 DEF SeenInWindow, CausesFit, LinkTypes
<1>3. CASE c \in OpenSubs
  <2>1. t \in Graph(rw)[c]
    BY <1>1, <1>3, CandidatesAre
  <2>2. s \in Component(s, Graph(rw)) /\ Graph(rw)[s] \cap Graph(rw)[c] # {}
    BY <2>1, OwnComponent
  <2>3. c \in Component(s, Graph(rw))
    BY <1>3, <2>2, Neighbours
  <2> QED
    BY <2>3
<1>4. CASE subs[c].link # NoLink
  <2>1. subs[c].link = t
    BY <1>1, <1>2, <1>4 DEF LinkTrue
  <2> QED
    BY <1>1, <1>2, <2>1 DEF IsFree
<1>5. CASE subs[c].state \in {"expired", "ambiguous"}
  <2>1. s \in Submissions /\ subs[s].state \in OpenStates
    BY DEF OpenSubs, IsOpen
  <2>2. subs[s].sent < rw[t]
    <3>1. subs[s].state \in {"send_started", "submitted"}
      BY <2>1 DEF Instant, OpenStates
    <3>2. subs[s].sent \in Nat
      BY <2>1 DEF TimesFit, OpenStates
    <3>3. CASE subs[s].state = "send_started"
      BY <1>1, <3>2, <3>3 DEF Instant
    <3>4. CASE subs[s].state = "submitted"
      <4>1. rw[t] > subs[s].submitted /\ subs[s].submitted \in subs[s].sent .. n /\ n \in Nat
        BY <2>1, <3>4, LinksAssumption DEF Instant, TimesFit, LinkTypes
      <4> QED
        BY <1>1, <3>2, <4>1
    <3> QED
      BY <3>1, <3>3, <3>4
  <2>3. subs[s].upper + MaxReadAge <= n
    BY <1>1, <1>5, <2>1, <2>2 DEF EndedAlone
  <2>4. Boundary(s, Graph(rw)) = subs[s].upper /\ subs[s].upper \in Nat
    <3>1. PICK u \in Component(s, Graph(rw)) : Boundary(s, Graph(rw)) = subs[u].upper
      BY BoundaryIs
    <3>2. Boundary(s, Graph(rw)) \in Nat
      BY BoundaryIs
    <3> QED
      BY <3>1, <3>2
  <2> QED
    BY <2>3, <2>4, LinksAssumption DEF LinkTypes
<1> QED
  BY <1>2, <1>3, <1>4, <1>5
     DEF LinksFit, OpenSubs, IsOpen, LinkTypes, SubmissionRow, SubmissionStates

\* Settlement at the date of a reading, or now, keeps what is certain.
LEMMA SettleCertain ==
    ASSUME NEW n, NEW src, NEW rw, Fits(n, subs, src, rw), Certain(n, subs, src, rw),
           NEW at \in Nat, n - MaxReadAge <= at, at <= n
    PROVE  Certain(n, SettledAll(rw, at), src, rw)
<1> DEFINE g == Graph(rw)
           sb == SettledAll(rw, at)
<1>1. subs \in [Submissions -> SubmissionRow] /\ n \in Nat
  BY LinksAssumption DEF Fits, LinkTypes
<1>2. ASSUME NEW s \in Submissions, sb[s] # subs[s]
      PROVE  /\ sb[s].sent = subs[s].sent /\ sb[s].upper = subs[s].upper
             /\ sb[s].submitted = subs[s].submitted
             /\ s \in OpenSubs /\ subs[s].state \in OpenStates /\ subs[s].link = NoLink
             /\ \/ sb[s].state \in {"expired", "ambiguous"} /\ sb[s].link = NoLink
                \/ /\ sb[s].state = "linked" /\ sb[s].link \in Turns
                   /\ Component(s, g) = {s} /\ g[s] = {sb[s].link}
  BY <1>1, <1>2, SettledRow
<1>3. \A s \in Submissions : sb[s].sent = subs[s].sent /\ sb[s].upper = subs[s].upper
  BY <1>2
<1>4. \A s \in Submissions : sb[s].state \in OpenStates => sb[s] = subs[s]
  BY <1>2 DEF OpenStates
<1>5. \A t \in Turns : IsFree(sb, t) => IsFree(subs, t)
  <2>1. ASSUME NEW t \in Turns, NEW s \in Submissions, subs[s].link = t PROVE sb[s].link = t
    BY <1>2, <2>1, LinksAssumption
  <2> QED
    BY <2>1 DEF IsFree
<1>6. \A s \in Submissions : sb[s].state \in OpenStates => s \in OpenSubs
  BY <1>1, <1>4 DEF OpenSubs, IsOpen, Fits, LinksFit, OpenStates
<1>7. ASSUME NEW s \in OpenSubs
      PROVE  /\ Boundary(s, g) \in Nat /\ subs[s].upper \in Nat /\ subs[s].upper <= Boundary(s, g)
             /\ IsSettled(s, g, rw, at, sb[s])
  <2>1. s \in Component(s, g)
    BY OwnComponent
  <2>2. s \in Submissions
    BY DEF OpenSubs
  <2> QED
    BY <2>1, <2>2, BoundaryIs, SettledCases
<1>8. \A s \in Submissions : sb[s] = subs[s] \/ sb[s].state \in {"expired", "ambiguous", "linked"}
  BY <1>2
<1>8a. ASSUME NEW s \in Submissions
       PROVE  /\ Ended(s, "ambiguous").state = "ambiguous"
              /\ \A u \in Turns : Linked(s, u).state = "linked"
  BY <1>1 DEF Ended, Linked, SubmissionRow
<1> HIDE DEF sb
<1>9. WindowsArePlain(sb)
  <2>1. ASSUME NEW s \in Submissions, sb[s].state # "none"
        PROVE  /\ sb[s].upper = sb[s].sent + Window
               /\ sb[s].state = "send_started" => sb[s].submitted = Never
    BY <1>2, <1>8, <2>1 DEF Certain, WindowsArePlain, OpenStates
  <2> QED
    BY <2>1 DEF WindowsArePlain
<1>10. SeenInWindow(sb, src, rw)
  BY <1>3 DEF Certain, SeenInWindow, Fits, LinkTypes
<1>11. EndedLate(n, sb, src)
  <2>1. ASSUME NEW s \in Submissions, sb[s] # subs[s],
               \/ sb[s].state \in {"expired", "ambiguous"}
               \/ sb[s].link # NoLink /\ src[sb[s].link] # s
        PROVE  sb[s].upper <= n
    <3>1. s \in OpenSubs /\ sb[s].upper = subs[s].upper
      BY <1>2, <2>1
    <3>2. /\ Boundary(s, g) \in Nat /\ subs[s].upper \in Nat /\ subs[s].upper <= Boundary(s, g)
          /\ IsSettled(s, g, rw, at, sb[s])
      BY <1>7, <3>1
    <3>3. CASE ~(at < subs[s].upper) \/ ~(at < Boundary(s, g))
      BY <1>1, <3>1, <3>2, <3>3
    <3>4. CASE at < Boundary(s, g) /\ at < subs[s].upper
      <4>1. PICK t \in Turns : /\ sb[s] = Linked(s, t) /\ Component(s, g) = {s} /\ g[s] = {t}
                               /\ Instant(s, t, {s}, rw, at)
        BY <2>1, <3>1, <3>2, <3>4 DEF IsSettled
      <4>2. src[t] = s
        BY <3>1, <3>4, <4>1, InstantIsTrue
      <4>3. sb[s].link = t /\ sb[s].state = "linked"
        BY <1>2, <2>1, <4>1 DEF Linked, SubmissionRow
      <4> QED
        BY <2>1, <4>2, <4>3
    <3> QED
      BY <3>3, <3>4
  <2> QED
    BY <2>1 DEF Certain, EndedLate
<1>12. EndedAlone(n, sb, src, rw)
  <2>1. ASSUME NEW t \in Turns, NEW s \in Submissions,
               rw[t] # Never, IsFree(sb, t), sb[src[t]].state \in {"expired", "ambiguous"},
               sb[s].state \in OpenStates, sb[s].sent < rw[t], rw[t] <= sb[s].upper
        PROVE  sb[s].upper + MaxReadAge <= n
    <3> DEFINE c == src[t]
    <3>1. sb[s] = subs[s] /\ s \in OpenSubs /\ IsFree(subs, t)
      BY <1>4, <1>5, <1>6, <2>1
    <3>2. c \in Submissions
      BY <2>1 DEF Certain, SeenInWindow, Fits, LinkTypes
    <3>3. CASE sb[c] = subs[c]
      BY <2>1, <3>1, <3>3 DEF Certain, EndedAlone
    <3>4. CASE sb[c] # subs[c]
      <4>1. c \in OpenSubs
        BY <1>2, <3>2, <3>4
      <4>2. t \in g[c] /\ t \in g[s]
        BY <2>1, <3>1, <4>1, CandidatesAre
      <4>3. Boundary(c, g) = Boundary(s, g)
        <5>1. c \in Component(c, g)
          BY <4>1, OwnComponent
        <5>2. s \in Component(c, g)
          BY <3>1, <4>2, <5>1, Neighbours
        <5>3. Component(s, g) = Component(c, g)
          BY <4>1, <5>2, SameComponent
        <5> QED
          BY <5>3 DEF Boundary
      <4>4. ~(at < Boundary(c, g))
        <5>1. IsSettled(c, g, rw, at, sb[c]) /\ g[c] # {} /\ sb[c].state # "linked"
          BY <1>7, <2>1, <4>1, <4>2
        <5>2. \A u \in Turns : sb[c] # Linked(c, u)
          BY <1>8a, <3>2, <5>1
        <5> QED
          BY <3>4, <4>1, <5>1, <5>2 DEF IsSettled
      <4>5. at < Boundary(s, g)
        <5>1. IsSettled(s, g, rw, at, sb[s])
          BY <1>7, <3>1
        <5>2. sb[s] # Ended(s, "ambiguous") /\ \A u \in Turns : sb[s] # Linked(s, u)
          BY <1>8a, <2>1, <3>1 DEF OpenStates
        <5> QED
          BY <3>1, <4>2, <5>1, <5>2 DEF IsSettled
      <4> QED
        BY <4>3, <4>4, <4>5
    <3> QED
      BY <3>3, <3>4
  <2> QED
    BY <2>1 DEF EndedAlone
<1>13. OpenIsFree(sb, src, rw)
  <2>1. ASSUME NEW t \in Turns, rw[t] # Never, sb[src[t]].state \in OpenStates,
               NEW x \in Submissions, sb[x].link = t
        PROVE  FALSE
    <3> DEFINE s == src[t]
    <3>1. s \in Submissions
      BY <2>1 DEF Certain, SeenInWindow, Fits, LinkTypes
    <3>2. sb[s] = subs[s] /\ s \in OpenSubs
      BY <1>4, <1>6, <2>1, <3>1
    <3>3. IsFree(subs, t)
      BY <2>1, <3>2 DEF Certain, OpenIsFree
    <3>4. sb[x] # subs[x]
      BY <2>1, <3>3 DEF IsFree
    <3>5. x \in OpenSubs /\ Component(x, g) = {x} /\ g[x] = {t} /\ sb[x].state = "linked"
      BY <1>2, <2>1, <3>4, LinksAssumption
    <3>6. t \in g[s]
      BY <2>1, <3>2, <3>3, CandidatesAre
    <3>7. s \in Component(x, g)
      BY <3>2, <3>5, <3>6, OwnComponent, Neighbours
    <3> QED
      BY <2>1, <3>5, <3>7 DEF OpenStates
  <2> QED
    BY <2>1 DEF OpenIsFree, IsFree
<1>14. LinkTrue(sb, src, rw)
  <2>1. ASSUME NEW s \in Submissions, NEW t \in Turns, sb[s].link # NoLink, src[t] = s,
               rw[t] # Never
        PROVE  sb[s].link = t
    <3>1. CASE sb[s] = subs[s]
      BY <2>1, <3>1 DEF Certain, LinkTrue
    <3>2. CASE sb[s] # subs[s]
      <4>1. s \in OpenSubs /\ subs[s].state \in OpenStates /\ g[s] = {sb[s].link}
        BY <1>2, <2>1, <3>2
      <4>2. IsFree(subs, t)
        BY <2>1, <4>1 DEF Certain, OpenIsFree
      <4>3. t \in g[s]
        BY <2>1, <4>1, <4>2, CandidatesAre
      <4> QED
        BY <4>1, <4>3
    <3> QED
      BY <3>1, <3>2
  <2> QED
    BY <2>1 DEF LinkTrue
<1> QED
  BY <1>9, <1>10, <1>11, <1>12, <1>13, <1>14 DEF Certain, sb

-----------------------------------------------------------------------------
(* An observation, before it is settled, and the hard limit.               *)

\* A first observation leaves the rows well-formed.
LEMMA ObserveFits ==
    ASSUME NEW n, NEW sb, NEW src, NEW rw, Fits(n, sb, src, rw),
           NEW t \in Turns, NEW at \in 0 .. n
    PROVE  Fits(n, sb, src, [rw EXCEPT ![t] = IF rw[t] = Never THEN at ELSE @])
<1> DEFINE ts == [rw EXCEPT ![t] = IF rw[t] = Never THEN at ELSE @]
<1>1. ts \in [Turns -> (0 .. n) \cup {Never}]
  BY DEF Fits, LinkTypes
<1>2. \A u \in Turns : rw[u] # Never => ts[u] # Never
  BY LinksAssumption DEF Fits, LinkTypes, Never
<1>3. LinksFit(sb, ts)
  <2>1. \A s \in Submissions : sb[s].link # NoLink => sb[s].link \in Turns
    BY DEF Fits, LinkTypes, SubmissionRow
  <2> HIDE DEF ts
  <2> QED
    BY <1>2, <2>1 DEF Fits, LinksFit
<1> HIDE DEF ts
<1>4. Fits(n, sb, src, ts)
  BY <1>1, <1>3 DEF Fits, LinkTypes
<1> QED
  BY <1>4 DEF ts

\* A first observation in the window of its cause keeps what is certain.
LEMMA ObserveCertain ==
    ASSUME NEW n, NEW sb, NEW src, NEW rw, Fits(n, sb, src, rw), Certain(n, sb, src, rw),
           NEW t \in Turns, NEW at \in 0 .. n, src[t] # NoLink,
           rw[t] = Never => ~(at < sb[src[t]].sent - Window \/ n >= sb[src[t]].sent + Window)
    PROVE  Certain(n, sb, src, [rw EXCEPT ![t] = IF rw[t] = Never THEN at ELSE @])
<1> DEFINE ts == [rw EXCEPT ![t] = IF rw[t] = Never THEN at ELSE @]
           c == src[t]
<1>1. CASE rw[t] # Never
  <2>1. ts = rw
    BY <1>1 DEF Fits, LinkTypes
  <2> QED
    BY <2>1
<1>2. CASE rw[t] = Never
  <2>1. ts[t] = at /\ \A u \in Turns \ {t} : ts[u] = rw[u]
    BY <1>2 DEF Fits, LinkTypes
  <2>2. c \in Submissions /\ sb[c].sent \in Nat /\ sb[c].upper = sb[c].sent + Window /\ n \in Nat
    BY LinksAssumption DEF Fits, LinkTypes, CausesFit, TimesFit, Certain, WindowsArePlain
  <2>3. at >= sb[c].sent - Window /\ at < sb[c].upper /\ ~(sb[c].upper <= n)
    BY <1>2, <2>2, LinksAssumption
  <2>4. IsFree(sb, t)
    BY <1>2, LinksAssumption DEF Fits, LinksFit, IsFree
  <2> HIDE DEF ts
  <2>5. SeenInWindow(sb, src, ts)
    BY <2>1, <2>3 DEF Certain, SeenInWindow
  <2>6. EndedAlone(n, sb, src, ts)
    <3>1. sb[c].state \notin {"expired", "ambiguous"}
      BY <2>2, <2>3 DEF Certain, EndedLate
    <3> QED
      BY <2>1, <3>1 DEF Certain, EndedAlone
  <2>7. OpenIsFree(sb, src, ts)
    BY <2>1, <2>4 DEF Certain, OpenIsFree
  <2>8. LinkTrue(sb, src, ts)
    <3>1. ASSUME NEW s \in Submissions, sb[s].link # NoLink, src[t] = s PROVE sb[s].link = t
      <4>1. src[sb[s].link] = s
        BY <2>3, <3>1 DEF Certain, EndedLate
      <4>2. sb[s].link \in Turns
        BY <3>1 DEF Fits, LinkTypes, SubmissionRow
      <4> QED
        BY <3>1, <4>1, <4>2 DEF Fits, CausesFit
    <3> QED
      BY <2>1, <3>1 DEF Certain, LinkTrue
  <2>9. Certain(n, sb, src, ts)
    BY <2>5, <2>6, <2>7, <2>8 DEF Certain
  <2> QED
    BY <2>9 DEF ts
<1> QED
  BY <1>1, <1>2

HardExpiredAll(n, sb) == [s \in Submissions |-> HardExpired(sb[s], n)]

\* What the hard limit makes of a row.
LEMMA HardRow ==
    ASSUME NEW n, NEW sb, NEW src, NEW rw, Fits(n, sb, src, rw), NEW s \in Submissions
    PROVE  LET new == HardExpiredAll(n, sb)[s]
           IN  /\ new \in SubmissionRow
               /\ new.sent = sb[s].sent /\ new.upper = sb[s].upper /\ new.hard = sb[s].hard
               /\ new.submitted = sb[s].submitted /\ new.link = sb[s].link
               /\ \/ new = sb[s] /\ (sb[s].state \notin OpenStates \/ sb[s].hard > n)
                  \/ new.state = "expired" /\ sb[s].state \in OpenStates /\ sb[s].hard <= n
<1>1. sb[s] \in SubmissionRow /\ HardExpiredAll(n, sb)[s] = HardExpired(sb[s], n)
  BY DEF Fits, LinkTypes, HardExpiredAll
<1>2. n \in Nat
  BY LinksAssumption DEF Fits, LinkTypes
<1>3. sb[s].state \in OpenStates => sb[s].hard \in Nat
  BY <1>2, LinksAssumption DEF Fits, TimesFit, OpenStates
<1>4. sb[s].state \in OpenStates => sb[s].link = NoLink
  BY DEF Fits, LinksFit, OpenStates
<1>5. CASE sb[s].state \in OpenStates /\ sb[s].hard <= n
  <2>1. HardExpired(sb[s], n) = [sb[s] EXCEPT !.state = "expired"]
    BY <1>4, <1>5 DEF HardExpired
  <2> QED
    BY <1>1, <1>5, <2>1 DEF SubmissionRow, SubmissionStates
<1>6. CASE ~(sb[s].state \in OpenStates /\ sb[s].hard <= n)
  <2>1. HardExpired(sb[s], n) = sb[s]
    BY <1>6 DEF HardExpired
  <2> QED
    BY <1>1, <1>2, <1>3, <1>6, <2>1
<1> QED
  BY <1>5, <1>6

\* The hard limit leaves the rows well-formed.
LEMMA HardFits ==
    ASSUME NEW n, NEW sb, NEW src, NEW rw, Fits(n, sb, src, rw)
    PROVE  Fits(n, HardExpiredAll(n, sb), src, rw)
<1> DEFINE nb == HardExpiredAll(n, sb)
<1>1. \A s \in Submissions :
          /\ nb[s] \in SubmissionRow
          /\ nb[s].sent = sb[s].sent /\ nb[s].upper = sb[s].upper /\ nb[s].hard = sb[s].hard
          /\ nb[s].submitted = sb[s].submitted /\ nb[s].link = sb[s].link
          /\ \/ nb[s] = sb[s]
             \/ nb[s].state = "expired" /\ sb[s].state \in OpenStates
  BY HardRow
<1>2. nb = [s \in Submissions |-> nb[s]]
  BY DEF HardExpiredAll
<1> HIDE DEF nb
<1>3. LinkTypes(n, nb, src, rw)
  BY <1>1, <1>2 DEF Fits, LinkTypes
<1>4. TimesFit(n, nb)
  BY <1>1 DEF Fits, TimesFit, OpenStates
<1>5. LinksFit(nb, rw)
  BY <1>1 DEF Fits, LinksFit, OpenStates
<1>6. CausesFit(nb, src)
  BY <1>1 DEF Fits, LinkTypes, CausesFit, OpenStates
<1>7. Exclusive(nb)
  BY <1>1 DEF Fits, Exclusive
<1> QED
  BY <1>3, <1>4, <1>5, <1>6, <1>7 DEF Fits, nb

\* A late hard limit keeps what is certain: whoever competed with the row that it
\* ends has a window that closed long ago.
LEMMA HardCertain ==
    ASSUME NEW n, NEW sb, NEW src, NEW rw, Fits(n, sb, src, rw), Certain(n, sb, src, rw),
           HardIsLate
    PROVE  Certain(n, HardExpiredAll(n, sb), src, rw)
<1> DEFINE nb == HardExpiredAll(n, sb)
<1>1. \A s \in Submissions :
          /\ nb[s].sent = sb[s].sent /\ nb[s].upper = sb[s].upper
          /\ nb[s].submitted = sb[s].submitted /\ nb[s].link = sb[s].link
          /\ \/ nb[s] = sb[s]
             \/ nb[s].state = "expired" /\ sb[s].state \in OpenStates /\ sb[s].hard <= n
  BY HardRow
<1> HIDE DEF nb
<1>2. n \in Nat
  BY LinksAssumption DEF Fits, LinkTypes
<1>3. \A s \in Submissions : sb[s].state \in OpenStates =>
          /\ sb[s].sent \in Nat /\ sb[s].hard = sb[s].sent + HardTtl
          /\ sb[s].upper = sb[s].sent + Window
  BY <1>2 DEF Fits, TimesFit, Certain, WindowsArePlain, OpenStates
<1>4. \A t \in Turns : IsFree(nb, t) <=> IsFree(sb, t)
  BY <1>1 DEF IsFree
<1>5. WindowsArePlain(nb)
  BY <1>1 DEF Certain, WindowsArePlain, OpenStates
<1>6. SeenInWindow(nb, src, rw)
  BY <1>1 DEF Certain, SeenInWindow, Fits, LinkTypes
<1>7. EndedLate(n, nb, src)
  <2>1. ASSUME NEW s \in Submissions, sb[s].state \in OpenStates, sb[s].hard <= n
        PROVE  sb[s].upper <= n
    BY <1>2, <1>3, <2>1, LinksAssumption
  <2> QED
    BY <1>1, <2>1 DEF Certain, EndedLate
<1>8. EndedAlone(n, nb, src, rw)
  <2>1. ASSUME NEW t \in Turns, NEW s \in Submissions,
               rw[t] # Never, IsFree(nb, t), nb[src[t]].state \in {"expired", "ambiguous"},
               nb[s].state \in OpenStates, nb[s].sent < rw[t], rw[t] <= nb[s].upper
        PROVE  nb[s].upper + MaxReadAge <= n
    <3> DEFINE c == src[t]
    <3>1. c \in Submissions /\ rw[t] \in Nat /\ rw[t] < sb[c].upper
      BY <2>1 DEF Certain, SeenInWindow, Fits, LinkTypes
    <3>2. nb[s] = sb[s]
      BY <1>1, <2>1 DEF OpenStates
    <3>3. CASE nb[c] = sb[c]
      BY <1>4, <2>1, <3>2, <3>3 DEF Certain, EndedAlone
    <3>4. CASE sb[c].state \in OpenStates /\ sb[c].hard <= n
      BY <1>2, <1>3, <2>1, <3>1, <3>2, <3>4, LinksAssumption DEF HardIsLate
    <3> QED
      BY <1>1, <3>1, <3>3, <3>4
  <2> QED
    BY <2>1 DEF EndedAlone
<1>9. OpenIsFree(nb, src, rw)
  <2>1. \A t \in Turns : rw[t] # Never => src[t] \in Submissions
    BY DEF Certain, SeenInWindow, Fits, LinkTypes
  <2> QED
    BY <1>1, <1>4, <2>1 DEF Certain, OpenIsFree, OpenStates
<1>10. LinkTrue(nb, src, rw)
  BY <1>1 DEF Certain, LinkTrue
<1> QED
  BY <1>5, <1>6, <1>7, <1>8, <1>9, <1>10 DEF Certain, nb

-----------------------------------------------------------------------------
(* The steps of the links.                                                 *)

\* A step that keeps the rows well-formed and what is certain preserves the invariant.
LEMMA KeepsLinkInv ==
    ASSUME LinkInv, doubtful' \in BOOLEAN, Fits(now', subs', source', rows'),
           ~doubtful' /\ HardIsLate /\ Certain(now, subs, source, rows) /\ ~doubtful
               => Certain(now', subs', source', rows'),
           doubtful => doubtful'
    PROVE  LinkInv'
<1>1. HardIsLate' <=> HardIsLate
  BY DEF HardIsLate
<1> HIDE DEF HardIsLate
<1> QED
  BY <1>1 DEF LinkInv

\* Sending adds an open row, which no observation has met.
LEMMA SendStep ==
    ASSUME LinkInv, NEW s \in Submissions, NEW here \in BOOLEAN, Send(s, here)
    PROVE  LinkInv'
<1> USE DEF LinkInv
<1> DEFINE row == [NoSub EXCEPT !.state = "send_started", !.sent = now,
                                !.upper = now + Window, !.hard = now + HardTtl]
<1>1. subs' = [subs EXCEPT ![s] = row] /\ subs[s] = NoSub
      /\ UNCHANGED <<now, source, rows, doubtful>>
  BY DEF Send
<1>2. now \in Nat
  BY LinksAssumption DEF Fits, LinkTypes
<1>3. row \in SubmissionRow
  <2>1. NoSub \in SubmissionRow
    BY DEF SubmissionRow, SubmissionStates, NoSub
  <2>2. now + Window \in Nat /\ now + HardTtl \in Nat /\ "send_started" \in SubmissionStates
    BY <1>2, LinksAssumption DEF SubmissionStates, OpenStates
  <2> QED
    BY <1>2, <2>1, <2>2 DEF SubmissionRow
<1>4. /\ row.state = "send_started" /\ row.sent = now /\ row.upper = now + Window
      /\ row.hard = now + HardTtl /\ row.submitted = Never /\ row.link = NoLink
  BY DEF NoSub
<1>5. subs[s].state = "none" /\ subs[s].link = NoLink
  BY <1>1 DEF NoSub
<1>6. \A t \in Turns : source[t] # s
  BY <1>1, <1>5, LinksAssumption DEF Fits, CausesFit
<1> HIDE DEF row
<1>7. subs'[s] = row /\ \A r \in Submissions \ {s} : subs'[r] = subs[r]
  BY <1>1 DEF Fits, LinkTypes
<1>8. Fits(now', subs', source', rows')
  <2>1. LinkTypes(now', subs', source', rows')
    BY <1>1, <1>3 DEF Fits, LinkTypes
  <2>2. TimesFit(now', subs')
    BY <1>1, <1>2, <1>4, <1>7 DEF Fits, TimesFit
  <2>3. LinksFit(subs', rows')
    BY <1>1, <1>4, <1>7 DEF Fits, LinksFit
  <2>4. CausesFit(subs', source')
    BY <1>1, <1>6, <1>7 DEF Fits, CausesFit, LinkTypes
  <2>5. Exclusive(subs')
    BY <1>4, <1>7 DEF Fits, Exclusive
  <2> QED
    BY <2>1, <2>2, <2>3, <2>4, <2>5 DEF Fits
<1>9. ASSUME Certain(now, subs, source, rows) PROVE Certain(now', subs', source', rows')
  <2>1. WindowsArePlain(subs')
    BY <1>4, <1>7, <1>9 DEF Certain, WindowsArePlain
  <2>2. SeenInWindow(subs', source', rows')
    BY <1>1, <1>6, <1>7, <1>9 DEF Certain, SeenInWindow, Fits, LinkTypes
  <2>3. EndedLate(now', subs', source')
    BY <1>1, <1>4, <1>7, <1>9 DEF Certain, EndedLate
  <2>4. \A t \in Turns : IsFree(subs', t) <=> IsFree(subs, t)
    BY <1>4, <1>5, <1>7, LinksAssumption DEF IsFree
  <2>5. EndedAlone(now', subs', source', rows')
    <3>1. \A t \in Turns : rows[t] # Never => rows[t] \in 0 .. now /\ source[t] \in Submissions \ {s}
      BY <1>6, <1>9 DEF Certain, SeenInWindow, Fits, LinkTypes
    <3> QED
      BY <1>1, <1>2, <1>4, <1>7, <1>9, <2>4, <3>1 DEF Certain, EndedAlone
  <2>6. OpenIsFree(subs', source', rows')
    <3>1. \A t \in Turns : rows[t] # Never => source[t] \in Submissions \ {s}
      BY <1>6, <1>9 DEF Certain, SeenInWindow, Fits, LinkTypes
    <3> QED
      BY <1>1, <1>7, <1>9, <2>4, <3>1 DEF Certain, OpenIsFree
  <2>7. LinkTrue(subs', source', rows')
    BY <1>1, <1>4, <1>7, <1>9 DEF Certain, LinkTrue
  <2> QED
    BY <2>1, <2>2, <2>3, <2>5, <2>6, <2>7 DEF Certain
<1> QED
  BY <1>1, <1>8, <1>9, KeepsLinkInv

\* A verdict ends the receipt, and decides of a row that is not yet decided.
LEMMA VerdictStep ==
    ASSUME LinkInv, NEW s \in Submissions, NEW v \in {"submitted", "uncertain", "cancelled"},
           Verdict(s, v)
    PROVE  LinkInv'
<1> USE DEF LinkInv
<1>1. UNCHANGED <<now, source, rows, doubtful>>
  BY DEF Verdict
<1>2. subs \in [Submissions -> SubmissionRow] /\ now \in Nat
  BY LinksAssumption DEF Fits, LinkTypes
<1>3. /\ \A r \in Submissions \ {s} : subs'[r] = subs[r]
      /\ subs' \in [Submissions -> SubmissionRow]
      /\ subs'[s].sent = subs[s].sent /\ subs'[s].upper = subs[s].upper
      /\ subs'[s].hard = subs[s].hard /\ subs'[s].link = subs[s].link
      /\ \/ subs'[s].state = subs[s].state /\ subs'[s].submitted = subs[s].submitted
         \/ /\ subs[s].state = "send_started" /\ subs'[s].state = v
            /\ subs'[s].submitted = IF v = "submitted" THEN now ELSE subs[s].submitted
      /\ v = "cancelled" => \A t \in Turns : source[t] # s
      /\ subs[s] # NoSub
  <2>1. CASE subs[s].state # "send_started"
    <3>1. subs' = [subs EXCEPT ![s] = [subs[s] EXCEPT !.receipt = TRUE]]
      BY <2>1 DEF Verdict
    <3> DEFINE row == [subs[s] EXCEPT !.receipt = TRUE]
    <3>2. /\ row \in SubmissionRow /\ row.sent = subs[s].sent /\ row.upper = subs[s].upper
          /\ row.hard = subs[s].hard /\ row.link = subs[s].link /\ row.state = subs[s].state
          /\ row.submitted = subs[s].submitted
      BY <1>2 DEF SubmissionRow
    <3> HIDE DEF row
    <3>3. subs'[s] = row /\ \A r \in Submissions \ {s} : subs'[r] = subs[r]
      BY <1>2, <3>1 DEF row
    <3>4. subs' \in [Submissions -> SubmissionRow]
      <4>1. subs' = [subs EXCEPT ![s] = row]
        BY <3>1 DEF row
      <4> QED
        BY <1>2, <3>2, <4>1
    <3> QED
      BY <3>2, <3>3, <3>4 DEF Verdict
  <2>2. CASE subs[s].state = "send_started"
    <3> DEFINE row == [subs[s] EXCEPT !.state = v, !.receipt = TRUE,
                                      !.submitted = IF v = "submitted" THEN now ELSE subs[s].submitted]
    <3> DEFINE other == [subs[s] EXCEPT !.receipt = TRUE]
    <3>0. subs' = [subs EXCEPT ![s] = IF subs[s].state # "send_started" THEN other ELSE row]
      BY DEF Verdict
    <3>1. subs' = [subs EXCEPT ![s] = row]
      <4> HIDE DEF row, other
      <4> QED
        BY <2>2, <3>0
    <3>2. /\ row \in SubmissionRow /\ row.sent = subs[s].sent /\ row.upper = subs[s].upper
          /\ row.hard = subs[s].hard /\ row.link = subs[s].link /\ row.state = v
          /\ row.submitted = IF v = "submitted" THEN now ELSE subs[s].submitted
      <4>1. v \in SubmissionStates /\ subs[s] \in SubmissionRow
        BY <1>2 DEF SubmissionStates, OpenStates
      <4> QED
        BY <1>2, <4>1 DEF SubmissionRow
    <3> HIDE DEF row
    <3>3. subs'[s] = row /\ \A r \in Submissions \ {s} : subs'[r] = subs[r]
      BY <1>2, <3>1
    <3>4. subs' \in [Submissions -> SubmissionRow]
      BY <1>2, <3>1, <3>2
    <3> QED
      BY <2>2, <3>2, <3>3, <3>4 DEF Verdict
  <2> QED
    BY <2>1, <2>2
<1>4. subs[s].state # "none"
  BY <1>3 DEF Fits, TimesFit
<1>5. Fits(now', subs', source', rows')
  <2>1. LinkTypes(now', subs', source', rows')
    BY <1>1, <1>3 DEF Fits, LinkTypes
  <2>2. TimesFit(now', subs')
    <3>1. subs'[s].state # "none" /\ subs[s].sent \in 0 .. now
      BY <1>3, <1>4 DEF Fits, TimesFit
    <3> QED
      BY <1>1, <1>2, <1>3, <1>4, <3>1 DEF Fits, TimesFit
  <2>3. LinksFit(subs', rows')
    BY <1>1, <1>3 DEF Fits, LinksFit
  <2>4. CausesFit(subs', source')
    BY <1>1, <1>3, <1>4 DEF Fits, CausesFit, LinkTypes
  <2>5. Exclusive(subs')
    BY <1>3 DEF Fits, Exclusive
  <2> QED
    BY <2>1, <2>2, <2>3, <2>4, <2>5 DEF Fits
<1>6. ASSUME Certain(now, subs, source, rows) PROVE Certain(now', subs', source', rows')
  <2>1. \A r \in Submissions :
           /\ subs'[r].sent = subs[r].sent /\ subs'[r].upper = subs[r].upper
           /\ subs'[r].link = subs[r].link
           /\ subs'[r].state \in OpenStates => subs[r].state \in OpenStates
           /\ subs'[r].state \in {"expired", "ambiguous"} => subs'[r].state = subs[r].state
    BY <1>3 DEF OpenStates
  <2>2. WindowsArePlain(subs')
    BY <1>3, <1>4, <1>6 DEF Certain, WindowsArePlain
  <2>3. SeenInWindow(subs', source', rows')
    BY <1>1, <1>6, <2>1 DEF Certain, SeenInWindow, Fits, LinkTypes
  <2>4. EndedLate(now', subs', source')
    BY <1>1, <1>6, <2>1 DEF Certain, EndedLate
  <2>5. \A t \in Turns : IsFree(subs', t) <=> IsFree(subs, t)
    BY <2>1 DEF IsFree
  <2>6. \A t \in Turns : rows[t] # Never => source[t] \in Submissions
    BY <1>6 DEF Certain, SeenInWindow, Fits, LinkTypes
  <2>7. EndedAlone(now', subs', source', rows')
    BY <1>1, <1>6, <2>1, <2>5, <2>6 DEF Certain, EndedAlone
  <2>8. OpenIsFree(subs', source', rows')
    BY <1>1, <1>6, <2>1, <2>5, <2>6 DEF Certain, OpenIsFree
  <2>9. LinkTrue(subs', source', rows')
    BY <1>1, <1>6, <2>1 DEF Certain, LinkTrue
  <2> QED
    BY <2>2, <2>3, <2>4, <2>7, <2>8, <2>9 DEF Certain
<1> QED
  BY <1>1, <1>5, <1>6, KeepsLinkInv

\* A queued prompt takes its row back; from then on everything is doubtful.
LEMMA QueuedStep ==
    ASSUME LinkInv, NEW s \in Submissions, RecordQueued(s)
    PROVE  LinkInv'
<1> USE DEF LinkInv
<1> DEFINE row == [subs[s] EXCEPT !.state = "send_started", !.link = NoLink,
                                  !.submitted = now, !.upper = subs[s].hard]
<1>1. /\ subs' = [subs EXCEPT ![s] = row]
      /\ UNCHANGED <<now, source, rows>> /\ doubtful' = TRUE
      /\ subs[s].state \in {"send_started", "linked"}
  BY DEF RecordQueued
<1>2. subs \in [Submissions -> SubmissionRow] /\ now \in Nat
  BY LinksAssumption DEF Fits, LinkTypes
<1>3. /\ row \in SubmissionRow /\ row.sent = subs[s].sent /\ row.hard = subs[s].hard
      /\ row.state = "send_started" /\ row.link = NoLink /\ row.upper = subs[s].hard
  <2>1. subs[s] \in SubmissionRow /\ "send_started" \in SubmissionStates
    BY <1>2 DEF SubmissionStates, OpenStates
  <2> QED
    BY <1>2, <2>1 DEF SubmissionRow
<1> HIDE DEF row
<1>4. subs'[s] = row /\ \A r \in Submissions \ {s} : subs'[r] = subs[r]
  BY <1>1, <1>2
<1>5. LinkTypes(now', subs', source', rows')
  BY <1>1, <1>3 DEF Fits, LinkTypes
<1>6. TimesFit(now', subs')
  BY <1>1, <1>3, <1>4 DEF Fits, TimesFit
<1>7. LinksFit(subs', rows')
  BY <1>1, <1>3, <1>4 DEF Fits, LinksFit
<1>8. CausesFit(subs', source')
  BY <1>1, <1>3, <1>4 DEF Fits, CausesFit, LinkTypes
<1>9. Exclusive(subs')
  BY <1>3, <1>4 DEF Fits, Exclusive
<1> QED
  BY <1>1, <1>5, <1>6, <1>7, <1>8, <1>9, KeepsLinkInv DEF Fits

\* A turn begins that nobody has observed.
LEMMA StartTurnStep ==
    ASSUME LinkInv, NEW t \in Turns, NEW s \in Submissions, StartTurn(t, s)
    PROVE  LinkInv'
<1> USE DEF LinkInv
<1>1. /\ source' = [source EXCEPT ![t] = s] /\ source[t] = NoLink
      /\ subs[s].state \notin {"none", "cancelled"} /\ \A u \in Turns : source[u] # s
      /\ UNCHANGED <<now, subs, rows, doubtful>>
  BY DEF StartTurn
<1>2. source'[t] = s /\ \A u \in Turns \ {t} : source'[u] = source[u]
  BY <1>1 DEF Fits, LinkTypes
<1>3. Fits(now', subs', source', rows')
  <2>1. LinkTypes(now', subs', source', rows')
    BY <1>1 DEF Fits, LinkTypes
  <2>2. CausesFit(subs', source')
    BY <1>1, <1>2 DEF Fits, CausesFit
  <2> QED
    BY <1>1, <2>1, <2>2 DEF Fits
<1>4. ASSUME Certain(now, subs, source, rows) PROVE Certain(now', subs', source', rows')
  <2>1. rows[t] = Never
    BY <1>1, <1>4 DEF Certain, SeenInWindow
  <2>2. EndedLate(now', subs', source')
    <3>1. \A r \in Submissions : subs[r].link # NoLink => subs[r].link \in Turns \ {t}
      BY <2>1 DEF Fits, LinkTypes, LinksFit, SubmissionRow
    <3> QED
      BY <1>1, <1>2, <1>4, <3>1 DEF Certain, EndedLate
  <2>3. SeenInWindow(subs', source', rows') /\ EndedAlone(now', subs', source', rows')
    BY <1>1, <1>2, <1>4, <2>1 DEF Certain, SeenInWindow, EndedAlone
  <2>4. OpenIsFree(subs', source', rows') /\ LinkTrue(subs', source', rows')
    BY <1>1, <1>2, <1>4, <2>1 DEF Certain, OpenIsFree, LinkTrue
  <2> QED
    BY <1>1, <1>4, <2>2, <2>3, <2>4 DEF Certain
<1> QED
  BY <1>1, <1>3, <1>4, KeepsLinkInv

\* An observation is applied, and settled unless the settlement fails.
LEMMA ApplyStep ==
    ASSUME LinkInv, NEW t \in Turns, NEW at \in (now - MaxReadAge) .. now,
           NEW settles \in BOOLEAN, Apply(t, at, settles)
    PROVE  LinkInv'
<1> USE DEF LinkInv
<1> DEFINE ts == [rows EXCEPT ![t] = IF rows[t] = Never THEN at ELSE @]
           s == source[t]
           late == /\ rows[t] = Never
                   /\ at < subs[s].sent - Window \/ now >= subs[s].sent + Window
<1>1. /\ s # NoLink /\ at >= 0 /\ rows' = ts
      /\ subs' = IF settles THEN SettledAll(ts, at) ELSE subs
      /\ doubtful' = (doubtful \/ late) /\ UNCHANGED <<now, source>>
  BY DEF Apply
<1>2. at \in 0 .. now /\ at \in Nat /\ now \in Nat /\ now - MaxReadAge <= at /\ at <= now
  BY <1>1, LinksAssumption DEF Fits, LinkTypes
<1>3. Fits(now, subs, source, ts)
  BY <1>2, ObserveFits
<1>4. ASSUME Certain(now, subs, source, rows), ~doubtful' PROVE Certain(now, subs, source, ts)
  <2>1. ~late
    BY <1>1, <1>4
  <2> QED
    BY <1>1, <1>2, <1>4, <2>1, ObserveCertain
<1> HIDE DEF ts, late
<1>5. Fits(now', subs', source', rows')
  BY <1>1, <1>3, SettleFits
<1>6. ASSUME Certain(now, subs, source, rows), ~doubtful'
      PROVE  Certain(now', subs', source', rows')
  BY <1>1, <1>2, <1>3, <1>4, <1>6, SettleCertain
<1>7. doubtful' \in BOOLEAN
  BY <1>1 DEF late
<1> QED
  BY <1>1, <1>5, <1>6, <1>7, KeepsLinkInv

\* A retry settles, and a sweep settles and ends what has reached the hard limit.
LEMMA SweepSteps ==
    ASSUME LinkInv, (\E s \in Submissions : SettleForRequest(s)) \/ Sweep
    PROVE  LinkInv'
<1> USE DEF LinkInv
<1>1. UNCHANGED <<now, source, rows, doubtful>>
  BY DEF SettleForRequest, Sweep
<1>2. now \in Nat /\ now - MaxReadAge <= now /\ now <= now
  BY LinksAssumption DEF Fits, LinkTypes
<1>3. Fits(now, SettledAll(rows, now), source, rows)
  BY SettleFits
<1>4. Certain(now, subs, source, rows) => Certain(now, SettledAll(rows, now), source, rows)
  BY <1>2, SettleCertain
<1>5. CASE subs' = SettledAll(rows, now)
  BY <1>1, <1>3, <1>4, <1>5, KeepsLinkInv
<1>6. CASE Sweep
  <2>1. subs' = HardExpiredAll(now, Swept)
    BY <1>6 DEF Sweep, HardExpiredAll
  <2>2. /\ Fits(now, Swept, source, rows)
        /\ Certain(now, subs, source, rows) => Certain(now, Swept, source, rows)
    BY <1>3, <1>4 DEF Swept
  <2>3. Fits(now', subs', source', rows')
    BY <1>1, <2>1, <2>2, HardFits
  <2>4. HardIsLate /\ Certain(now, subs, source, rows) => Certain(now', subs', source', rows')
    BY <1>1, <2>1, <2>2, HardCertain
  <2> QED
    BY <1>1, <2>3, <2>4, KeepsLinkInv
<1> QED
  BY <1>5, <1>6 DEF SettleForRequest

\* Time passes.
LEMMA TickStep ==
    ASSUME LinkInv, Tick
    PROVE  LinkInv'
<1> USE DEF LinkInv
<1>1. now' = now + 1 /\ now < MaxTime /\ UNCHANGED <<subs, source, rows, doubtful>>
  BY DEF Tick
<1>2. now \in Nat /\ MaxTime \in Nat
  BY LinksAssumption DEF Fits, LinkTypes
<1>3. Fits(now', subs', source', rows')
  <2>1. LinkTypes(now', subs', source', rows')
    <3>1. \A x \in 0 .. now : x \in 0 .. (now + 1)
      BY <1>2
    <3>2. rows \in [Turns -> (0 .. (now + 1)) \cup {Never}]
      BY <3>1 DEF Fits, LinkTypes
    <3> QED
      BY <1>1, <1>2, <3>2 DEF Fits, LinkTypes
  <2>2. TimesFit(now', subs')
    <3>1. ASSUME NEW s \in Submissions, subs[s].state # "none"
          PROVE  /\ subs[s].sent \in 0 .. (now + 1)
                 /\ subs[s].state = "submitted" => subs[s].submitted \in subs[s].sent .. (now + 1)
      BY <1>2, <3>1 DEF Fits, TimesFit
    <3> QED
      BY <1>1, <3>1 DEF Fits, TimesFit
  <2> QED
    BY <1>1, <2>1, <2>2 DEF Fits
<1>4. ASSUME Certain(now, subs, source, rows) PROVE Certain(now', subs', source', rows')
  <2>1. \A s \in Submissions : subs[s].upper \in Int
    BY DEF Fits, LinkTypes, SubmissionRow, Never
  <2>2. EndedLate(now', subs', source')
    BY <1>1, <1>2, <1>4, <2>1 DEF Certain, EndedLate
  <2>3. EndedAlone(now', subs', source', rows')
    <3>1. \A x \in Int : x + MaxReadAge <= now => x + MaxReadAge <= now + 1
      BY <1>2, LinksAssumption
    <3> QED
      BY <1>1, <1>4, <2>1, <3>1 DEF Certain, EndedAlone
  <2> QED
    BY <1>1, <1>4, <2>2, <2>3 DEF Certain
<1> QED
  BY <1>1, <1>3, <1>4, KeepsLinkInv

\* The invariant of the links holds in every reachable state.
LEMMA LinkInvariant == LinkSpec => []LinkInv
<1>1. LinkInit => LinkInv
  <2> SUFFICES ASSUME LinkInit PROVE LinkInv
    OBVIOUS
  <2> USE DEF LinkInit
  <2>1. NoSub \in SubmissionRow /\ NoSub.state = "none" /\ NoSub.link = NoLink
    BY DEF NoSub, SubmissionRow, SubmissionStates
  <2>2. Fits(now, subs, source, rows)
    BY <2>1, LinksAssumption
       DEF Fits, LinkTypes, TimesFit, LinksFit, CausesFit, Exclusive
  <2>3. Certain(now, subs, source, rows)
    BY <2>1, LinksAssumption
       DEF Certain, WindowsArePlain, SeenInWindow, EndedLate, EndedAlone, OpenIsFree, LinkTrue
  <2> QED
    BY <2>2, <2>3 DEF LinkInv
<1>2. LinkInv /\ [LinkNext]_linkVars => LinkInv'
  <2> SUFFICES ASSUME LinkInv, [LinkNext]_linkVars PROVE LinkInv'
    OBVIOUS
  <2>1. CASE Restart \/ UNCHANGED linkVars
    <3>1. UNCHANGED <<now, subs, source, rows, doubtful>>
      BY <2>1 DEF Restart, linkVars
    <3> QED
      BY <3>1, KeepsLinkInv DEF LinkInv
  <2>2. CASE LinkNext /\ ~Restart
    BY <2>2, SendStep, VerdictStep, QueuedStep, StartTurnStep, ApplyStep, SweepSteps, TickStep
       DEF LinkNext
  <2> QED
    BY <2>1, <2>2
<1> QED
  BY <1>1, <1>2, PTL DEF LinkSpec

\* No turn is linked to two submissions, whoever settles, and whatever the limits are
\* (settle_submission_links_conn).
THEOREM LinksExclusive == LinkSpec => []LinksAreExclusive
<1>1. LinkInv => LinksAreExclusive
  BY DEF LinkInv, Fits, Exclusive, LinksAreExclusive
<1> QED
  BY <1>1, LinkInvariant, PTL

\* A submission is linked to its own turn and to no other, if the hard limit leaves
\* room for the windows of two competing submissions and the slowest reading, and
\* nothing doubtful has happened (settle_submission_links_conn).
THEOREM LinksTrue ==
    ASSUME HardIsLate PROVE LinkSpec => []LinksAreTrue
<1>1. LinkInv => LinksAreTrue
  BY DEF LinkInv, Fits, Exclusive, Certain, LinkTrue, LinksAreTrue, LinksAreExclusive, LinkIsTrue
<1> QED
  BY <1>1, LinkInvariant, PTL

-----------------------------------------------------------------------------
(* The backoff of the sweeps.                                              *)

NoneCancelled == \A s \in Submissions : subs[s].state # "cancelled"

\* The sweeps wait at most for a window that opens now, and for one of every component.
BackoffFits ==
    \/ backoff = Never
    \/ /\ backoff \in Nat /\ backoff <= now + Window
       /\ \A s \in OpenSubs :
              \E u \in Component(s, Graph(rows)) : backoff <= subs[u].upper

SweepInv ==
    ~doubtful => /\ WindowsArePlain(subs)
                 /\ NoneCancelled => BackoffFits

\* The component of s among the rows O (Component).
CompOf(s, O, g) ==
    {u \in O : \A X \in SUBSET O :
        s \in X /\ (\A a \in X, b \in O \ X : g[a] \cap g[b] = {}) => u \in X}

\* A component whose rows stay, and stay connected, is part of one afterwards.
LEMMA ComponentGrows ==
    ASSUME NEW O, NEW N, NEW g, NEW h, NEW s \in O, CompOf(s, O, g) \subseteq N,
           \A u \in CompOf(s, O, g) : h[u] = g[u]
    PROVE  CompOf(s, O, g) \subseteq CompOf(s, N, h)
<1> DEFINE C == CompOf(s, O, g)
<1>1. s \in C /\ C \subseteq O
  BY DEF CompOf
<1>2. ASSUME NEW u \in C, NEW v \in O, g[u] \cap g[v] # {} PROVE v \in C
  <2>1. ASSUME NEW X \in SUBSET O, s \in X, \A a \in X, b \in O \ X : g[a] \cap g[b] = {}
        PROVE  v \in X
    <3>1. u \in X
      BY <2>1 DEF CompOf
    <3> QED
      BY <1>2, <2>1, <3>1
  <2> QED
    BY <2>1 DEF CompOf
<1>3. ASSUME NEW X \in SUBSET N, s \in X, \A a \in X, b \in N \ X : h[a] \cap h[b] = {}
      PROVE  C \subseteq X
  <2>1. \A a \in X \cap C, b \in O \ (X \cap C) : g[a] \cap g[b] = {}
    <3>1. ASSUME NEW a \in X \cap C, NEW b \in O \ (X \cap C), g[a] \cap g[b] # {} PROVE FALSE
      <4>1. b \in C
        BY <1>2, <3>1
      <4>2. b \in N \ X /\ h[a] = g[a] /\ h[b] = g[b]
        BY <3>1, <4>1
      <4> QED
        BY <1>3, <3>1, <4>2
    <3> QED
      BY <3>1
  <2>2. X \cap C \in SUBSET O /\ s \in X \cap C
    BY <1>1, <1>3
  <2>3. \A u \in C : u \in X \cap C
    BY <2>1, <2>2 DEF CompOf
  <2> QED
    BY <2>3
<1> QED
  BY <1>3 DEF CompOf

\* The rows N are those of O that were sent last, and the edges g of a row are the
\* turns T that are dated, by at, in the window around its send.
Youngest(N, O, g, sent, T, at) ==
    /\ N \subseteq O
    /\ \A u \in O : sent[u] \in Nat
    /\ \A u \in O, v \in N : sent[u] >= sent[v] => u \in N
    /\ \A t \in T : at[t] \in Int
    /\ \A u \in O : g[u] = {t \in T : sent[u] - Window <= at[t] /\ at[t] <= sent[u] + Window}

\* When the oldest rows go, a row stays connected to every younger one: a turn in the
\* windows of an older and a younger row is in the window of whatever was sent between.
LEMMA OldestGo ==
    ASSUME NEW O, NEW N, NEW g, NEW sent, NEW T, NEW at, Youngest(N, O, g, sent, T, at),
           NEW s \in N, NEW m \in CompOf(s, O, g), m \in N, sent[s] <= sent[m]
    PROVE  m \in CompOf(s, N, g)
<1> SUFFICES ASSUME NEW X \in SUBSET N, s \in X,
                    \A a \in X, b \in N \ X : g[a] \cap g[b] = {}, m \notin X
             PROVE  FALSE
  BY DEF CompOf
<1> USE DEF Youngest
<1>0. Window \in Nat
  BY LinksAssumption
<1> DEFINE A == {a \in N \ X : sent[a] >= sent[s]}
<1>1. PICK a \in A : \A b \in A : sent[a] <= sent[b]
  <2> DEFINE S == {sent[b] : b \in A}
  <2>1. S \subseteq Nat /\ S # {}
    <3>1. m \in A
      BY DEF CompOf
    <3> QED
      BY <3>1
  <2>2. PICK k \in S : \A y \in S : k <= y
    BY <2>1, LeastOf
  <2> QED
    BY <2>2
<1>2. sent[a] \in Nat /\ sent[s] \in Nat /\ sent[m] \in Nat /\ a \in N \ X /\ m \in A
      /\ sent[s] <= sent[a] /\ sent[a] <= sent[m] /\ m \in O /\ a \in O /\ s \in O
  BY <1>1 DEF CompOf
<1>3. ASSUME NEW u \in O, NEW v \in O, NEW w \in O, NEW t \in g[u] \cap g[v],
             sent[u] <= sent[w], sent[w] <= sent[v]
      PROVE  t \in g[w]
  <2>1. /\ t \in T /\ at[t] \in Int /\ at[t] <= sent[u] + Window /\ sent[v] - Window <= at[t]
        /\ sent[u] \in Nat /\ sent[v] \in Nat /\ sent[w] \in Nat
    OBVIOUS
  <2>2. sent[w] - Window <= at[t] /\ at[t] <= sent[w] + Window
    BY <1>0, <1>3, <2>1
  <2>3. g[w] = {x \in T : sent[w] - Window <= at[x] /\ at[x] <= sent[w] + Window}
    OBVIOUS
  <2> QED
    BY <2>1, <2>2, <2>3
<1>4. CASE sent[s] < sent[a]
  <2> DEFINE Y == {u \in O : sent[u] < sent[a]}
  <2>1. ASSUME NEW u \in Y, NEW v \in O \ Y, NEW t \in g[u] \cap g[v] PROVE FALSE
    <3>1. u \in O /\ v \in O /\ sent[u] \in Nat /\ sent[v] \in Nat /\ sent[u] < sent[a]
          /\ sent[a] <= sent[v]
      BY <1>2
    <3>2. t \in g[a]
      BY <1>2, <1>3, <3>1
    <3>3. CASE sent[u] <= sent[s]
      <4>1. t \in g[s]
        BY <1>2, <1>3, <1>4, <3>1, <3>3
      <4> QED
        BY <1>2, <3>2, <4>1
    <3>4. CASE sent[u] >= sent[s]
      <4>1. u \in N
        BY <3>1, <3>4
      <4>2. u \in X
        BY <1>1, <1>2, <3>1, <3>4, <4>1
      <4> QED
        BY <1>2, <3>2, <4>2
    <3> QED
      BY <1>2, <3>1, <3>3, <3>4
  <2>2. Y \in SUBSET O /\ s \in Y /\ m \notin Y
    BY <1>2, <1>4
  <2> HIDE DEF Y
  <2>3. \A u \in Y, v \in O \ Y : g[u] \cap g[v] = {}
    BY <2>1
  <2> QED
    BY <2>2, <2>3 DEF CompOf
<1>5. CASE sent[s] = sent[a]
  <2>1. g[s] = g[a]
    BY <1>2, <1>5
  <2>2. g[s] = {}
    BY <1>2, <2>1
  <2>3. {s} \in SUBSET O /\ s \in {s} /\ \A u \in {s}, v \in O \ {s} : g[u] \cap g[v] = {}
    BY <1>2, <2>2
  <2>4. m \in {s}
    BY <2>3 DEF CompOf
  <2> QED
    BY <2>4
<1> QED
  BY <1>2, <1>4, <1>5

\* The windows of a plain row that is open.
LEMMA PlainRow ==
    ASSUME LinkInv, WindowsArePlain(subs), NEW s \in OpenSubs
    PROVE  /\ s \in Submissions /\ subs[s].state \in OpenStates /\ now \in Nat
           /\ subs[s].sent \in 0 .. now /\ subs[s].upper = subs[s].sent + Window
           /\ subs[s].hard = subs[s].sent + HardTtl
           /\ ~IsQueued(s)
<1>1. s \in Submissions /\ subs[s].state \in OpenStates /\ subs[s].state # "none"
  BY DEF OpenSubs, IsOpen, OpenStates
<1> QED
  BY <1>1, LinksAssumption
     DEF LinkInv, Fits, LinkTypes, TimesFit, WindowsArePlain, IsQueued

\* A step that leaves the rows of a component open, with their edges, keeps the
\* backoff; a row that is new has a later window.
LEMMA KeepsBackoff ==
    ASSUME BackoffFits, LinkInv, LinkInv', backoff' = backoff, now <= now',
           \A s \in OpenSubs' :
              \/ now + Window <= subs'[s].upper /\ subs'[s].upper \in Nat
              \/ /\ s \in OpenSubs
                 /\ \A u \in Component(s, Graph(rows)) :
                       /\ u \in OpenSubs' /\ subs'[u].upper = subs[u].upper
                       /\ Graph(rows)'[u] = Graph(rows)[u]
    PROVE  BackoffFits'
<1> DEFINE g == Graph(rows)
           h == Graph(rows)'
<1>1. now \in Nat /\ now' \in Nat /\ Window \in Nat
  BY LinksAssumption DEF LinkInv, Fits, LinkTypes
<1>2. CASE backoff = Never
  BY <1>2 DEF BackoffFits
<1>3. CASE backoff # Never
  <2>1. backoff \in Nat /\ backoff <= now + Window /\ backoff <= now' + Window
    BY <1>1, <1>3 DEF BackoffFits
  <2>2. ASSUME NEW s \in OpenSubs'
        PROVE  \E u \in CompOf(s, OpenSubs', h) : backoff <= subs'[u].upper
    <3>1. CASE now + Window <= subs'[s].upper /\ subs'[s].upper \in Nat
      <4>1. s \in CompOf(s, OpenSubs', h)
        BY DEF CompOf
      <4>2. backoff <= subs'[s].upper
        BY <1>1, <2>1, <3>1
      <4> QED
        BY <4>1, <4>2
    <3>2. CASE /\ s \in OpenSubs
               /\ \A u \in Component(s, g) :
                     /\ u \in OpenSubs' /\ subs'[u].upper = subs[u].upper
                     /\ h[u] = g[u]
      <4> HIDE DEF g, h
      <4>1. Component(s, g) = CompOf(s, OpenSubs, g)
        BY DEF Component, CompOf
      <4>2. CompOf(s, OpenSubs, g) \subseteq CompOf(s, OpenSubs', h)
        BY <3>2, <4>1, ComponentGrows
      <4>3. PICK u \in Component(s, g) : backoff <= subs[u].upper
        BY <1>3, <3>2 DEF BackoffFits, g
      <4> QED
        BY <3>2, <4>1, <4>2, <4>3
    <3> QED
      BY <3>1, <3>2
  <2>3. \A s : Component(s, Graph(rows))' = CompOf(s, OpenSubs', h)
    BY DEF Component, CompOf
  <2> HIDE DEF h
  <2> QED
    BY <2>1, <2>2, <2>3 DEF BackoffFits
<1> QED
  BY <1>2, <1>3

\* A row that stays open as it was, and loses no candidate, keeps its edges.
LEMMA EdgesStay ==
    ASSUME rows' = rows, NEW s \in OpenSubs, s \in OpenSubs',
           ~IsQueued(s), ~IsQueued(s)',
           subs'[s].sent = subs[s].sent, subs'[s].upper = subs[s].upper,
           \A t \in Turns : IsFree(subs', t) => IsFree(subs, t),
           \A t \in Graph(rows)[s] : IsFree(subs', t)
    PROVE  Graph(rows)'[s] = Graph(rows)[s]
<1>1. Graph(rows)'[s] = {t \in Turns : /\ rows[t] # Never /\ IsFree(subs', t)
                                       /\ subs[s].sent - Window <= rows[t]
                                       /\ rows[t] <= subs[s].upper}
  BY DEF Graph, Edges, Candidates, IsFree
<1>2. Graph(rows)[s] = {t \in Turns : /\ rows[t] # Never /\ IsFree(subs, t)
                                      /\ subs[s].sent - Window <= rows[t]
                                      /\ rows[t] <= subs[s].upper}
  BY DEF Graph, Edges, Candidates, IsFree
<1> QED
  BY <1>1, <1>2

\* A send opens a window that closes after every wait that a sweep chose before.
LEMMA SendWaits ==
    ASSUME LinkInv, LinkInv', SweepInv, ~doubtful, NEW s \in Submissions,
           NEW here \in BOOLEAN, Send(s, here)
    PROVE  WindowsArePlain(subs') /\ (NoneCancelled' => BackoffFits')
<1> DEFINE row == [NoSub EXCEPT !.state = "send_started", !.sent = now,
                                !.upper = now + Window, !.hard = now + HardTtl]
<1>1. /\ subs' = [subs EXCEPT ![s] = row] /\ subs[s] = NoSub
      /\ UNCHANGED <<now, source, rows, doubtful>> /\ backoff' \in {Never, backoff}
  BY DEF Send
<1>2. /\ row.state = "send_started" /\ row.sent = now /\ row.upper = now + Window
      /\ row.submitted = Never /\ row.link = NoLink
      /\ subs[s].state = "none" /\ subs[s].link = NoLink
  BY <1>1 DEF NoSub
<1> HIDE DEF row
<1>3. subs'[s] = row /\ \A r \in Submissions \ {s} : subs'[r] = subs[r]
  BY <1>1 DEF LinkInv, Fits, LinkTypes
<1>4. WindowsArePlain(subs) /\ (NoneCancelled => BackoffFits)
  BY DEF SweepInv
<1>5. WindowsArePlain(subs')
  BY <1>2, <1>3, <1>4 DEF WindowsArePlain
<1>6. ASSUME NoneCancelled', backoff' = backoff PROVE BackoffFits'
  <2>1. NoneCancelled
    BY <1>2, <1>3, <1>6 DEF NoneCancelled
  <2>2. now \in Nat /\ Window \in Nat
    BY LinksAssumption DEF LinkInv, Fits, LinkTypes
  <2>3. ASSUME NEW r \in OpenSubs
        PROVE  r \in OpenSubs' /\ subs'[r] = subs[r] /\ Graph(rows)'[r] = Graph(rows)[r]
    <3>1. r \in Submissions \ {s} /\ r \in OpenSubs'
      BY <1>2, <1>3 DEF OpenSubs, IsOpen, OpenStates
    <3>2. \A t \in Turns : IsFree(subs', t) <=> IsFree(subs, t)
      BY <1>2, <1>3, LinksAssumption DEF IsFree
    <3>3. \A t \in Graph(rows)[r] : t \in Turns /\ IsFree(subs, t)
      BY EdgesAre
    <3>4. ~IsQueued(r) /\ ~IsQueued(r)'
      <4>1. ~IsQueued(r)
        BY <1>4, PlainRow
      <4> QED
        BY <1>3, <3>1, <4>1 DEF IsQueued
    <3> QED
      BY <1>1, <1>3, <3>1, <3>2, <3>3, <3>4, EdgesStay
  <2>4. ASSUME NEW r \in OpenSubs'
        PROVE  \/ now + Window <= subs'[r].upper /\ subs'[r].upper \in Nat
               \/ /\ r \in OpenSubs
                  /\ \A u \in Component(r, Graph(rows)) :
                       /\ u \in OpenSubs' /\ subs'[u].upper = subs[u].upper
                       /\ Graph(rows)'[u] = Graph(rows)[u]
    <3>1. CASE r = s
      BY <1>2, <1>3, <2>2, <3>1
    <3>2. CASE r # s
      <4>1. r \in OpenSubs
        BY <1>3, <3>2 DEF OpenSubs, IsOpen
      <4>2. \A u \in Component(r, Graph(rows)) : u \in OpenSubs
        BY DEF Component
      <4> QED
        BY <2>3, <4>1, <4>2
    <3> QED
      BY <3>1, <3>2
  <2> QED
    BY <1>1, <1>4, <1>6, <2>1, <2>2, <2>4, KeepsBackoff
<1> QED
  BY <1>1, <1>5, <1>6 DEF BackoffFits

\* A verdict decides of a row, but leaves its window and its candidates alone.
LEMMA VerdictWaits ==
    ASSUME LinkInv, LinkInv', SweepInv, ~doubtful, NEW s \in Submissions,
           NEW v \in {"submitted", "uncertain", "cancelled"}, Verdict(s, v)
    PROVE  WindowsArePlain(subs') /\ (NoneCancelled' => BackoffFits')
<1>1. UNCHANGED <<now, source, rows, backoff, doubtful>> /\ subs[s] # NoSub
  BY DEF Verdict
<1>2. subs \in [Submissions -> SubmissionRow] /\ now \in Nat
  BY LinksAssumption DEF LinkInv, Fits, LinkTypes
<1>3. /\ \A r \in Submissions \ {s} : subs'[r] = subs[r]
      /\ subs'[s].sent = subs[s].sent /\ subs'[s].upper = subs[s].upper
      /\ subs'[s].link = subs[s].link
      /\ \/ subs'[s].state = subs[s].state /\ subs'[s].submitted = subs[s].submitted
         \/ subs[s].state = "send_started" /\ subs'[s].state = v
  <2>1. CASE subs[s].state # "send_started"
    <3>1. subs' = [subs EXCEPT ![s] = [subs[s] EXCEPT !.receipt = TRUE]]
      BY <2>1 DEF Verdict
    <3> QED
      BY <1>2, <3>1 DEF SubmissionRow
  <2>2. CASE subs[s].state = "send_started"
    <3> DEFINE row == [subs[s] EXCEPT !.state = v, !.receipt = TRUE,
                                      !.submitted = IF v = "submitted" THEN now ELSE subs[s].submitted]
               other == [subs[s] EXCEPT !.receipt = TRUE]
    <3>1. subs' = [subs EXCEPT ![s] = IF subs[s].state # "send_started" THEN other ELSE row]
      BY DEF Verdict
    <3>2. /\ row.sent = subs[s].sent /\ row.upper = subs[s].upper
          /\ row.link = subs[s].link /\ row.state = v
      BY <1>2 DEF SubmissionRow
    <3> HIDE DEF row, other
    <3>3. subs' = [subs EXCEPT ![s] = row]
      BY <2>2, <3>1
    <3> QED
      BY <1>2, <2>2, <3>2, <3>3
  <2> QED
    BY <2>1, <2>2
<1>4. WindowsArePlain(subs) /\ (NoneCancelled => BackoffFits)
  BY DEF SweepInv
<1>5. subs[s].state # "none"
  BY <1>1 DEF LinkInv, Fits, TimesFit
<1>6. WindowsArePlain(subs')
  BY <1>3, <1>4, <1>5 DEF WindowsArePlain
<1>7. ASSUME NoneCancelled' PROVE BackoffFits'
  <2>1. NoneCancelled
    <3>1. subs[s].state # "cancelled"
      BY <1>3, <1>7 DEF NoneCancelled
    <3> QED
      BY <1>3, <1>7, <3>1 DEF NoneCancelled
  <2>2. \A r \in Submissions : /\ subs'[r].sent = subs[r].sent /\ subs'[r].upper = subs[r].upper
                               /\ subs'[r].link = subs[r].link
                               /\ subs'[r].state \in OpenStates <=> subs[r].state \in OpenStates
    <3>1. v # "cancelled" \/ subs'[s].state = subs[s].state
      BY <1>3, <1>7 DEF NoneCancelled
    <3> QED
      BY <1>3, <3>1 DEF OpenStates
  <2>3. OpenSubs' = OpenSubs
    BY <2>2 DEF OpenSubs, IsOpen
  <2>4. ASSUME NEW r \in OpenSubs
        PROVE  subs'[r].upper = subs[r].upper /\ Graph(rows)'[r] = Graph(rows)[r]
    <3>1. r \in Submissions
      BY DEF OpenSubs
    <3>2. \A t \in Turns : IsFree(subs', t) <=> IsFree(subs, t)
      BY <2>2 DEF IsFree
    <3>3. \A t \in Graph(rows)[r] : t \in Turns /\ IsFree(subs, t)
      BY EdgesAre
    <3>4. ~IsQueued(r) /\ ~IsQueued(r)'
      <4>1. ~IsQueued(r)
        BY <1>4, PlainRow
      <4>2. ~IsQueued(r)'
        BY <1>6, <3>1 DEF IsQueued, WindowsArePlain
      <4> QED
        BY <4>1, <4>2
    <3> QED
      BY <1>1, <2>2, <2>3, <3>1, <3>2, <3>3, <3>4, EdgesStay
  <2>5. \A r \in OpenSubs : \A u \in Component(r, Graph(rows)) : u \in OpenSubs
    BY DEF Component
  <2> QED
    BY <1>1, <1>2, <1>4, <2>1, <2>3, <2>4, <2>5, KeepsBackoff
<1> QED
  BY <1>6, <1>7

\* A component that a settlement leaves open in part stays as it is: its boundary
\* has not come.
LEMMA SettleForRequestWaits ==
    ASSUME LinkInv, LinkInv', SweepInv, ~doubtful, NEW q \in Submissions, SettleForRequest(q)
    PROVE  WindowsArePlain(subs') /\ (NoneCancelled' => BackoffFits')
<1> DEFINE g == Graph(rows)
<1>1. subs' = SettledAll(rows, now) /\ UNCHANGED <<now, source, rows, backoff, doubtful>>
  BY DEF SettleForRequest
<1>2. WindowsArePlain(subs) /\ (NoneCancelled => BackoffFits)
  BY DEF SweepInv
<1>3. subs \in [Submissions -> SubmissionRow] /\ now \in Nat
      /\ Fits(now, subs, source, rows)
  BY LinksAssumption DEF LinkInv, Fits, LinkTypes
<1>4. ASSUME NEW s \in Submissions, subs'[s] # subs[s]
      PROVE  /\ subs'[s].sent = subs[s].sent /\ subs'[s].upper = subs[s].upper
             /\ s \in OpenSubs /\ subs[s].state \in OpenStates
             /\ \/ subs'[s].state \in {"expired", "ambiguous"} /\ subs'[s].link = NoLink
                \/ /\ subs'[s].state = "linked" /\ subs'[s].link \in Turns
                   /\ Component(s, g) = {s} /\ g[s] = {subs'[s].link}
  BY <1>1, <1>3, <1>4, SettledRow
<1>5. \A s \in OpenSubs : IsSettled(s, g, rows, now, subs'[s])
  BY <1>1, SettledCases DEF OpenSubs
<1>6. \A s \in OpenSubs : /\ Ended(s, "ambiguous").state = "ambiguous"
                          /\ Ended(s, "expired").state = "expired"
                          /\ \A t \in Turns : Linked(s, t).state = "linked"
  BY <1>3 DEF Ended, Linked, SubmissionRow, OpenSubs
<1>7. WindowsArePlain(subs')
  <2>1. ASSUME NEW s \in Submissions, subs'[s].state # "none"
        PROVE  /\ subs'[s].upper = subs'[s].sent + Window
               /\ subs'[s].state = "send_started" => subs'[s].submitted = Never
    BY <1>2, <1>4, <2>1 DEF WindowsArePlain, OpenStates
  <2> QED
    BY <2>1 DEF WindowsArePlain
<1>8. ASSUME NoneCancelled' PROVE BackoffFits'
  <2>1. NoneCancelled
    BY <1>4, <1>8 DEF NoneCancelled, OpenStates
  <2>2. ASSUME NEW s \in OpenSubs'
        PROVE  s \in OpenSubs /\ subs'[s] = subs[s]
    <3>1. s \in Submissions /\ subs'[s].state \in OpenStates /\ subs'[s].link = NoLink
      BY DEF OpenSubs, IsOpen
    <3>2. subs'[s] = subs[s]
      BY <1>4, <3>1 DEF OpenStates
    <3> QED
      BY <3>1, <3>2 DEF OpenSubs, IsOpen
  <2>3. ASSUME NEW s \in OpenSubs', NEW u \in Component(s, g)
        PROVE  u \in OpenSubs' /\ subs'[u] = subs[u]
    <3>1. s \in OpenSubs /\ u \in OpenSubs /\ Component(u, g) = Component(s, g)
          /\ s \in Component(u, g)
      BY <2>2, SameComponent
    <3>2. CASE u = s
      BY <2>2, <3>2
    <3>3. CASE u # s
      <4>1. g[s] # {} /\ g[u] # {}
        <5>1. ASSUME NEW x \in OpenSubs, NEW y \in Component(x, g), g[x] = {} PROVE y = x
          <6>1. \A a \in {x}, b \in OpenSubs \ {x} : g[a] \cap g[b] = {}
            BY <5>1
          <6>2. {x} \in SUBSET OpenSubs /\ x \in {x}
            OBVIOUS
          <6>3. y \in {x}
            BY <6>1, <6>2 DEF Component
          <6> QED
            BY <6>3
        <5> QED
          BY <3>1, <3>3, <5>1
      <4>2. now < Boundary(s, g)
        <5>1. subs'[s].state \in OpenStates
          BY DEF OpenSubs, IsOpen
        <5> HIDE DEF g
        <5> QED
          BY <1>5, <1>6, <3>1, <4>1, <5>1 DEF IsSettled, OpenStates
      <4>3. now < Boundary(u, g)
        BY <3>1, <4>2 DEF Boundary
      <4>4. Component(u, g) # {u}
        BY <3>1, <3>3
      <4>5. subs'[u] = subs[u]
        <5> HIDE DEF g
        <5> QED
          BY <1>5, <3>1, <4>1, <4>3, <4>4 DEF IsSettled
      <4> QED
        BY <3>1, <4>5 DEF OpenSubs, IsOpen
    <3> QED
      BY <3>2, <3>3
  <2>4. ASSUME NEW u \in OpenSubs' PROVE Graph(rows)'[u] = g[u]
    <3>1. u \in OpenSubs /\ subs'[u] = subs[u] /\ u \in Submissions
      BY <2>2 DEF OpenSubs
    <3>2. ASSUME NEW t \in g[u], NEW x \in Submissions, subs'[x].link = t PROVE FALSE
      <4>1. t \in Turns /\ IsFree(subs, t)
        BY <3>1, EdgesAre
      <4>2. subs'[x] # subs[x]
        BY <3>2, <4>1 DEF IsFree
      <4>3. x \in OpenSubs /\ Component(x, g) = {x} /\ g[x] = {t} /\ subs'[x].state = "linked"
        BY <1>4, <3>2, <4>1, <4>2, LinksAssumption
      <4>4. u \in Component(x, g)
        BY <3>1, <3>2, <4>3, OwnComponent, Neighbours
      <4> QED
        BY <3>1, <4>2, <4>3, <4>4
    <3>3. \A t \in g[u] : IsFree(subs', t)
      BY <3>2 DEF IsFree
    <3>4. \A t \in Turns : IsFree(subs', t) => IsFree(subs, t)
      <4>1. ASSUME NEW t \in Turns, NEW r \in Submissions, subs[r].link = t PROVE subs'[r].link = t
        BY <1>4, <4>1, LinksAssumption DEF OpenSubs, IsOpen
      <4> QED
        BY <4>1 DEF IsFree
    <3>5. ~IsQueued(u) /\ ~IsQueued(u)'
      <4>1. ~IsQueued(u)
        BY <1>2, <3>1, PlainRow
      <4> QED
        BY <3>1, <4>1 DEF IsQueued
    <3> QED
      BY <1>1, <3>1, <3>3, <3>4, <3>5, EdgesStay
  <2>5. \A s \in OpenSubs' :
            /\ s \in OpenSubs
            /\ \A u \in Component(s, Graph(rows)) :
                 /\ u \in OpenSubs' /\ subs'[u].upper = subs[u].upper
                 /\ Graph(rows)'[u] = Graph(rows)[u]
    BY <2>2, <2>3, <2>4
  <2> QED
    BY <1>1, <1>2, <1>3, <2>1, <2>5, KeepsBackoff
<1> QED
  BY <1>7, <1>8

\* A sweep that settles nothing waits for the next boundary, or as long as it did,
\* and the rows it ends at the hard limit are the oldest of their component.
LEMMA SweepWaits ==
    ASSUME LinkInv, LinkInv', SweepInv, ~doubtful, Sweep
    PROVE  WindowsArePlain(subs') /\ (NoneCancelled' => BackoffFits')
<1> DEFINE g == Graph(rows)
<1>1. /\ subs' = HardExpiredAll(now, Swept) /\ UNCHANGED <<now, source, rows, doubtful>>
      /\ \/ backoff' = Never
         \/ IsDue /\ Swept = subs /\ OpenSubs # {} /\ backoff' = Backoff(g)
         \/ ~IsDue /\ Swept = subs /\ backoff' = backoff
  BY DEF Sweep, HardExpiredAll, Swept
<1>2. WindowsArePlain(subs) /\ (NoneCancelled => BackoffFits)
  BY DEF SweepInv
<1>3. /\ subs \in [Submissions -> SubmissionRow] /\ now \in Nat /\ Window \in Nat
      /\ HardTtl \in Nat /\ HardTtl >= Window /\ Fits(now, subs, source, rows)
  BY LinksAssumption DEF LinkInv, Fits, LinkTypes
<1>4. ASSUME NEW s \in Submissions
      PROVE  /\ Swept[s].sent = subs[s].sent /\ Swept[s].upper = subs[s].upper
             /\ Swept[s].submitted = subs[s].submitted
             /\ \/ Swept[s] = subs[s]
                \/ /\ subs[s].state \in OpenStates
                   /\ Swept[s].state \in {"expired", "ambiguous", "linked"}
  <2>1. CASE Swept = subs
    BY <2>1
  <2>2. CASE Swept = SettledAll(rows, now)
    BY <1>3, <2>2, SettledRow
  <2> QED
    BY <2>1, <2>2 DEF Swept
<1>5. Fits(now, Swept, source, rows)
  BY <1>3, SettleFits DEF Swept
<1>6. ASSUME NEW s \in Submissions
      PROVE  /\ subs'[s].sent = Swept[s].sent /\ subs'[s].upper = Swept[s].upper
             /\ subs'[s].submitted = Swept[s].submitted /\ subs'[s].link = Swept[s].link
             /\ \/ subs'[s] = Swept[s] /\ (Swept[s].state \notin OpenStates \/ Swept[s].hard > now)
                \/ /\ subs'[s].state = "expired"
                   /\ Swept[s].state \in OpenStates /\ Swept[s].hard <= now
  BY <1>1, <1>5, HardRow
<1>7. WindowsArePlain(subs')
  <2>1. ASSUME NEW s \in Submissions, subs'[s].state # "none"
        PROVE  /\ subs'[s].upper = subs'[s].sent + Window
               /\ subs'[s].state = "send_started" => subs'[s].submitted = Never
    <3>1. subs[s].state # "none"
      BY <1>4, <1>6, <2>1 DEF OpenStates
    <3>2. subs[s].upper = subs[s].sent + Window
          /\ (subs[s].state = "send_started" => subs[s].submitted = Never)
      BY <1>2, <3>1 DEF WindowsArePlain
    <3>3. subs'[s].state = "send_started" => subs[s].state = "send_started"
      BY <1>4, <1>6
    <3> QED
      BY <1>4, <1>6, <3>2, <3>3
  <2> QED
    BY <2>1 DEF WindowsArePlain
<1>8. ASSUME NoneCancelled', backoff' # Never PROVE BackoffFits'
  <2>1. NoneCancelled
    <3>1. ASSUME NEW s \in Submissions, subs[s].state = "cancelled" PROVE FALSE
      BY <1>4, <1>6, <1>8, <3>1 DEF NoneCancelled, OpenStates
    <3> QED
      BY <3>1 DEF NoneCancelled
  <2>2. Swept = subs
    BY <1>1, <1>8
  <2>3. ASSUME NEW s \in OpenSubs
        PROVE  /\ Boundary(s, g) \in Nat /\ Boundary(s, g) <= now + Window
               /\ \E u \in Component(s, g) : Boundary(s, g) = subs[u].upper
               /\ \A u \in Component(s, g) : subs[u].upper \in Nat /\ subs[u].upper <= Boundary(s, g)
    <3>1. PICK u \in Component(s, g) : Boundary(s, g) = subs[u].upper
      BY <1>3, BoundaryIs
    <3>2. u \in OpenSubs
      BY DEF Component
    <3>3. subs[u].upper <= now + Window
      BY <1>2, <1>3, <3>2, PlainRow
    <3> QED
      BY <1>3, <3>1, <3>3, BoundaryIs
  <2>4. /\ backoff' \in Nat /\ backoff' <= now + Window
        /\ \A s \in OpenSubs : backoff' <= Boundary(s, g) /\ now < Boundary(s, g)
    <3>1. CASE IsDue /\ OpenSubs # {} /\ backoff' = Backoff(g)
      <4> DEFINE B == {Boundary(s, g) : s \in OpenSubs}
      <4>1. B \subseteq Nat /\ B # {} /\ \A x \in B : x <= now + Window
        BY <2>3, <3>1
      <4>2. backoff' = Min(B)
        BY <3>1 DEF Backoff, NextEligible
      <4>3. \A s \in OpenSubs : Boundary(s, g) \in B
        OBVIOUS
      <4> HIDE DEF B
      <4>4. Min(B) \in B /\ \A y \in B : Min(B) <= y
        BY <4>1, MinIsLeast
      <4>5. ASSUME NEW s \in OpenSubs PROVE now < Boundary(s, g)
        <5>1. s \in Submissions /\ subs[s].state \in OpenStates /\ SettledAll(rows, now)[s] = subs[s]
          BY <2>2, <3>1 DEF Swept, OpenSubs, IsOpen
        <5>2. IsSettled(s, g, rows, now, subs[s])
          BY <5>1, SettledCases
        <5>3. /\ Ended(s, "ambiguous").state = "ambiguous" /\ Ended(s, "expired").state = "expired"
              /\ \A t \in Turns : Linked(s, t).state = "linked"
          BY <1>3, <5>1 DEF Ended, Linked, SubmissionRow
        <5>4. s \in Component(s, g)
          BY OwnComponent
        <5>5. subs[s].upper \in Nat /\ subs[s].upper <= Boundary(s, g) /\ Boundary(s, g) \in Nat
          BY <2>3, <5>4
        <5> HIDE DEF g
        <5>6. now < subs[s].upper \/ now < Boundary(s, g)
          BY <5>1, <5>2, <5>3 DEF IsSettled, OpenStates
        <5> QED
          BY <1>3, <5>5, <5>6
      <4> QED
        BY <4>1, <4>2, <4>3, <4>4, <4>5
    <3>2. CASE ~IsDue /\ backoff' = backoff
      <4>1. backoff # Never /\ backoff \in Nat /\ now < backoff /\ backoff <= now + Window
        BY <1>2, <1>3, <1>8, <2>1, <3>2 DEF IsDue, BackoffFits
      <4>2. ASSUME NEW s \in OpenSubs PROVE backoff <= Boundary(s, g)
        <5>1. PICK u \in Component(s, g) : backoff <= subs[u].upper
          BY <1>2, <2>1, <4>1 DEF BackoffFits
        <5> QED
          BY <2>3, <4>1, <5>1
      <4>3. \A s \in OpenSubs : Boundary(s, g) \in Nat
        BY <2>3
      <4> QED
        BY <1>3, <3>2, <4>1, <4>2, <4>3
    <3> QED
      BY <1>1, <1>8, <3>1, <3>2
  <2>5. \A s \in Submissions :
            /\ subs'[s].sent = subs[s].sent /\ subs'[s].upper = subs[s].upper
            /\ subs'[s].link = subs[s].link
            /\ subs'[s].state \in OpenStates => subs'[s] = subs[s] /\ subs[s].hard > now
            /\ subs[s].state \in OpenStates /\ subs[s].hard > now => subs'[s] = subs[s]
    <3>1. \A s \in Submissions : subs[s].state \in OpenStates => subs[s].hard \in Nat
      BY <1>3, LinksAssumption DEF Fits, LinkTypes, TimesFit, OpenStates
    <3> QED
      BY <1>3, <1>6, <2>2, <3>1 DEF OpenStates
  <2>6. ASSUME NEW s \in OpenSubs'
        PROVE  s \in OpenSubs /\ s \in Submissions /\ subs'[s] = subs[s] /\ subs[s].hard > now
    <3>1. s \in Submissions /\ subs'[s].state \in OpenStates /\ subs'[s].link = NoLink
      BY DEF OpenSubs, IsOpen
    <3> QED
      BY <2>5, <3>1 DEF OpenSubs, IsOpen
  <2>7. ASSUME NEW s \in OpenSubs, subs[s].hard > now PROVE s \in OpenSubs'
    <3>1. s \in Submissions /\ subs[s].state \in OpenStates /\ subs[s].link = NoLink
      BY DEF OpenSubs, IsOpen
    <3> QED
      BY <2>5, <2>7, <3>1 DEF OpenSubs, IsOpen
  <2>8. ASSUME NEW u \in OpenSubs' PROVE Graph(rows)'[u] = g[u]
    <3>1. u \in OpenSubs /\ u \in Submissions /\ subs'[u] = subs[u]
      BY <2>6
    <3>2. \A t \in Turns : IsFree(subs', t) <=> IsFree(subs, t)
      BY <2>5 DEF IsFree
    <3>3. \A t \in g[u] : t \in Turns /\ IsFree(subs, t)
      BY <3>1, EdgesAre
    <3>4. ~IsQueued(u) /\ ~IsQueued(u)'
      <4>1. ~IsQueued(u)
        BY <1>2, <3>1, PlainRow
      <4> QED
        BY <3>1, <4>1 DEF IsQueued
    <3> QED
      BY <1>1, <3>1, <3>2, <3>3, <3>4, EdgesStay
  <2>9. ASSUME NEW s \in OpenSubs'
        PROVE  \E u \in CompOf(s, OpenSubs', Graph(rows)') : backoff' <= subs'[u].upper
    <3>1. s \in OpenSubs
      BY <2>6
    <3>2. PICK m \in Component(s, g) : Boundary(s, g) = subs[m].upper
      BY <2>3, <3>1
    <3>3. m \in OpenSubs /\ m \in CompOf(s, OpenSubs, g) /\ s \in Component(s, g)
      BY <3>1, OwnComponent DEF Component, CompOf
    <3>4. /\ subs[m].upper \in Nat /\ subs[m].upper > now /\ subs[s].upper <= subs[m].upper
          /\ backoff' <= subs[m].upper
      BY <1>3, <2>3, <2>4, <3>1, <3>2, <3>3
    <3> DEFINE sent == [u \in OpenSubs |-> subs[u].sent]
               T == Candidates(rows)
               N == OpenSubs'
    <3>5. ASSUME NEW u \in OpenSubs
          PROVE  /\ sent[u] = subs[u].sent /\ sent[u] \in Nat
                 /\ subs[u].upper = sent[u] + Window /\ subs[u].hard = sent[u] + HardTtl
                 /\ ~IsQueued(u)
      BY <1>2, <1>3, PlainRow
    <3>6. m \in N
      BY <1>3, <2>7, <3>3, <3>4, <3>5
    <3>7. sent[s] <= sent[m]
      BY <1>3, <3>1, <3>3, <3>4, <3>5
    <3>8. \A u \in OpenSubs : g[u] = {t \in T : /\ sent[u] - Window <= rows[t]
                                                /\ rows[t] <= sent[u] + Window}
      BY <3>5 DEF Graph, Edges
    <3>9. \A t \in T : rows[t] \in Int
      BY <1>3, LinksAssumption DEF Candidates, Fits, LinkTypes, Never
    <3>10. \A u \in OpenSubs, v \in N : sent[u] >= sent[v] => u \in N
      <4>1. ASSUME NEW u \in OpenSubs, NEW v \in N, sent[u] >= sent[v] PROVE u \in N
        <5>1. v \in OpenSubs /\ subs[v].hard > now
          BY <2>6
        <5>2. subs[u].hard > now
          BY <1>3, <3>5, <4>1, <5>1
        <5> QED
          BY <2>7, <5>2
      <4> QED
        BY <4>1
    <3>11. N \subseteq OpenSubs /\ s \in N /\ \A u \in OpenSubs : sent[u] \in Nat
      BY <2>6, <3>5
    <3> HIDE DEF sent, T, N, g
    <3>12. m \in CompOf(s, N, g)
      <4>1. Youngest(N, OpenSubs, g, sent, T, rows)
        BY <3>8, <3>9, <3>10, <3>11 DEF Youngest
      <4> QED
        BY <3>3, <3>6, <3>7, <3>11, <4>1, OldestGo
    <3>13. CompOf(s, N, g) \subseteq CompOf(s, N, Graph(rows)')
      <4>1. CompOf(s, N, g) \subseteq N
        BY DEF CompOf
      <4>2. \A u \in CompOf(s, N, g) : Graph(rows)'[u] = g[u]
        BY <2>8, <4>1 DEF N
      <4> QED
        BY <3>11, <4>1, <4>2, ComponentGrows
    <3>14. subs'[m] = subs[m]
      BY <2>6, <3>6 DEF N
    <3> QED
      BY <3>4, <3>12, <3>13, <3>14 DEF N
  <2>10. \A s : Component(s, Graph(rows))' = CompOf(s, OpenSubs', Graph(rows)')
    BY DEF Component, CompOf
  <2>11. backoff' \in Nat /\ backoff' <= now' + Window
    BY <1>1, <2>4
  <2> HIDE DEF g
  <2> QED
    BY <2>9, <2>10, <2>11 DEF BackoffFits
<1> QED
  BY <1>7, <1>8 DEF BackoffFits

\* The other steps keep the rows or the dates, or rearm the sweeps, or leave doubts.
LEMMA OthersWait ==
    ASSUME LinkInv, LinkInv', SweepInv, ~doubtful,
           \/ \E t \in Turns, s \in Submissions : StartTurn(t, s)
           \/ Restart \/ Tick \/ UNCHANGED linkVars
    PROVE  WindowsArePlain(subs') /\ (NoneCancelled' => BackoffFits')
<1>1. UNCHANGED <<subs, rows>> /\ backoff' \in {backoff, Never} /\ now' \in {now, now + 1}
  BY DEF StartTurn, Restart, Tick, linkVars
<1>2. now \in Nat /\ now <= now'
  BY <1>1, LinksAssumption DEF LinkInv, Fits, LinkTypes
<1>3. WindowsArePlain(subs) /\ (NoneCancelled => BackoffFits)
  BY DEF SweepInv
<1>4. ASSUME NoneCancelled', backoff' = backoff PROVE BackoffFits'
  <2>1. NoneCancelled
    BY <1>1, <1>4 DEF NoneCancelled
  <2>2. OpenSubs' = OpenSubs
    BY <1>1 DEF OpenSubs, IsOpen
  <2>3. Graph(rows)' = Graph(rows)
    BY <1>1 DEF Graph, Edges, Candidates, IsQueued, OpenSubs, IsOpen
  <2>4. \A s \in OpenSubs' :
            /\ s \in OpenSubs
            /\ \A u \in Component(s, Graph(rows)) :
                 /\ u \in OpenSubs' /\ subs'[u].upper = subs[u].upper
                 /\ Graph(rows)'[u] = Graph(rows)[u]
    BY <1>1, <2>2, <2>3 DEF Component
  <2> QED
    BY <1>2, <1>3, <1>4, <2>1, <2>4, KeepsBackoff
<1> QED
  BY <1>1, <1>3, <1>4 DEF BackoffFits

\* An observation rearms the sweeps, and settles windows as they are.
LEMMA ApplyWaits ==
    ASSUME LinkInv, LinkInv', SweepInv, ~doubtful, NEW t \in Turns,
           NEW at \in (now - MaxReadAge) .. now, NEW settles \in BOOLEAN, Apply(t, at, settles)
    PROVE  WindowsArePlain(subs') /\ (NoneCancelled' => BackoffFits')
<1> DEFINE ts == [rows EXCEPT ![t] = IF rows[t] = Never THEN at ELSE @]
<1>1. backoff' = Never /\ subs' = IF settles THEN SettledAll(ts, at) ELSE subs
  BY DEF Apply
<1> HIDE DEF ts
<1>2. \A s \in Submissions :
          /\ subs'[s].sent = subs[s].sent /\ subs'[s].upper = subs[s].upper
          /\ \/ subs'[s] = subs[s]
             \/ /\ subs[s].state \in OpenStates
                /\ subs'[s].state \in {"expired", "ambiguous", "linked"}
  <2>1. subs \in [Submissions -> SubmissionRow]
    BY DEF LinkInv, Fits, LinkTypes
  <2> QED
    BY <1>1, <2>1, SettledRow
<1>3. WindowsArePlain(subs')
  <2>1. ASSUME NEW s \in Submissions, subs'[s].state # "none"
        PROVE  /\ subs'[s].upper = subs'[s].sent + Window
               /\ subs'[s].state = "send_started" => subs'[s].submitted = Never
    BY <1>2, <2>1 DEF SweepInv, WindowsArePlain, OpenStates
  <2> QED
    BY <2>1 DEF WindowsArePlain
<1> QED
  BY <1>1, <1>3 DEF BackoffFits

\* The backoff fits in every reachable state.
LEMMA SweepInvariant == LinkSpec => []SweepInv
<1>1. LinkInit => SweepInv
  BY DEF LinkInit, SweepInv, WindowsArePlain, BackoffFits, NoSub
<1>2. LinkInv /\ LinkInv' /\ SweepInv /\ [LinkNext]_linkVars => SweepInv'
  <2> SUFFICES ASSUME LinkInv, LinkInv', SweepInv, [LinkNext]_linkVars, ~doubtful'
               PROVE  WindowsArePlain(subs') /\ (NoneCancelled' => BackoffFits')
    BY DEF SweepInv
  <2>1. doubtful \in BOOLEAN
    BY DEF LinkInv
  <2>2. ~doubtful /\ \A s \in Submissions : ~RecordQueued(s)
    <3>1. \A s \in Submissions : ~RecordQueued(s)
      BY DEF RecordQueued
    <3>2. ASSUME NEW t \in Turns, NEW at \in (now - MaxReadAge) .. now, NEW settles \in BOOLEAN,
                 Apply(t, at, settles)
          PROVE  ~doubtful
      BY <2>1, <3>2 DEF Apply
    <3>3. CASE doubtful' = doubtful
      BY <2>1, <3>1, <3>3
    <3>4. CASE doubtful' # doubtful
      <4>1. \E t \in Turns : \E at \in (now - MaxReadAge) .. now, settles \in BOOLEAN :
                Apply(t, at, settles)
        BY <3>1, <3>4 DEF LinkNext, linkVars, Send, Verdict, SettleForRequest, StartTurn,
                         Sweep, Restart, Tick
      <4> QED
        BY <3>1, <3>2, <4>1
    <3> QED
      BY <3>1, <3>3, <3>4
  <2>3. CASE \E s \in Submissions, here \in BOOLEAN : Send(s, here)
    BY <2>2, <2>3, SendWaits
  <2>4. CASE \E s \in Submissions, v \in {"submitted", "uncertain", "cancelled"} : Verdict(s, v)
    BY <2>2, <2>4, VerdictWaits
  <2>5. CASE \E s \in Submissions : SettleForRequest(s)
    BY <2>2, <2>5, SettleForRequestWaits
  <2>6. CASE \E t \in Turns : \E at \in (now - MaxReadAge) .. now, settles \in BOOLEAN :
                Apply(t, at, settles)
    BY <2>2, <2>6, ApplyWaits
  <2>7. CASE Sweep
    BY <2>2, <2>7, SweepWaits
  <2>8. CASE \/ \E t \in Turns, s \in Submissions : StartTurn(t, s)
             \/ Restart \/ Tick \/ UNCHANGED linkVars
    BY <2>2, <2>8, OthersWait
  <2> QED
    BY <2>2, <2>3, <2>4, <2>5, <2>6, <2>7, <2>8 DEF LinkNext
<1> QED
  BY <1>1, <1>2, LinkInvariant, PTL DEF LinkSpec

\* However long a sweep decided to wait, and whatever was sent or settled since, a
\* sweep leaves nothing open whose component's windows are closed
\* (_settle_due_submission_links_conn, _backoff_submission_link_component).
THEOREM SweepsOnTime == LinkSpec => []SweepIsOnTime
<1>1. LinkInv /\ SweepInv => SweepIsOnTime
  <2> SUFFICES ASSUME LinkInv, SweepInv, ~doubtful, NoneCancelled, NEW s \in OpenSubs,
                      Boundary(s, Graph(rows)) <= now
               PROVE  Swept[s].state \notin OpenStates
    BY DEF SweepIsOnTime, NoneCancelled
  <2> DEFINE g == Graph(rows)
  <2>1. now \in Nat /\ Fits(now, subs, source, rows) /\ subs \in [Submissions -> SubmissionRow]
    BY LinksAssumption DEF LinkInv, Fits, LinkTypes
  <2>2. /\ Boundary(s, g) \in Nat
        /\ \A u \in Component(s, g) : subs[u].upper \in Nat /\ subs[u].upper <= Boundary(s, g)
    BY <2>1, BoundaryIs
  <2>3. IsDue
    <3>1. CASE backoff = Never
      BY <3>1 DEF IsDue
    <3>2. CASE backoff # Never
      <4>1. backoff \in Nat
        BY <3>2 DEF SweepInv, BackoffFits
      <4>2. PICK u \in Component(s, g) : backoff <= subs[u].upper
        BY <3>2 DEF SweepInv, BackoffFits
      <4> QED
        BY <2>1, <2>2, <4>1, <4>2 DEF IsDue
    <3> QED
      BY <3>1, <3>2
  <2>4. s \in Submissions /\ Swept[s] = SettledAll(rows, now)[s]
    BY <2>3 DEF Swept, OpenSubs
  <2>5. IsSettled(s, g, rows, now, Swept[s])
    BY <2>4, SettledCases
  <2>6. /\ Ended(s, "ambiguous").state = "ambiguous" /\ Ended(s, "expired").state = "expired"
        /\ \A t \in Turns : Linked(s, t).state = "linked"
    BY <2>1, <2>4 DEF Ended, Linked, SubmissionRow
  <2>7. ~(now < subs[s].upper) /\ ~(now < Boundary(s, g))
    <3>1. subs[s].upper \in Nat /\ subs[s].upper <= Boundary(s, g)
      BY <2>2, OwnComponent
    <3> QED
      BY <2>1, <2>2, <3>1
  <2> HIDE DEF g
  <2> QED
    BY <2>5, <2>6, <2>7 DEF IsSettled, OpenStates
<1> QED
  BY <1>1, LinkInvariant, SweepInvariant, PTL

=============================================================================
