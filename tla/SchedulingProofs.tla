--------------------------- MODULE SchedulingProofs ---------------------------
(***************************************************************************)
(* Proofs about how work is shared out: the automatic maintenance, for any *)
(* number of hosts and any budget, and the turn refresh scheduler, for any *)
(* number of bindings, workers and queue places.                           *)
(***************************************************************************)
EXTENDS StoreMaintenance, TurnIngestion, FiniteSetTheorems, SequenceTheorems, TLAPS

-----------------------------------------------------------------------------
(* Recursion over the subsets of a finite set, which is what a fold does.   *)
(* The induction is over a set of sets, not over a predicate.               *)

\* A set of natural numbers has a least element.
LEMMA LeastOf ==
    ASSUME NEW S, S \subseteq Nat, S # {}
    PROVE  \E m \in S : \A y \in S : m <= y
<1>1. PICK m \in S : \A y \in S : ~ (<<y, m>> \in OpToRel(<, Nat))
  BY NatLessThanWellFounded, WFMin
<1>2. \A y \in Nat : y < m => <<y, m>> \in OpToRel(<, Nat)
  BY DEF OpToRel
<1>3. ASSUME NEW y \in S PROVE m <= y
  <2>1. ~(y < m)
    BY <1>1, <1>2
  <2> QED
    BY <2>1
<1> QED
  BY <1>3

\* c takes an element from every subset of S that has one.
Peels(c, S) == \A s \in SUBSET S : s # {} => c[s] \in s

\* A set that has {} and every subset of S that it has without its peeled element has
\* all subsets of S.
LEMMA PeelInduction ==
    ASSUME NEW S, IsFiniteSet(S), NEW c, Peels(c, S), NEW P, {} \in P,
           \A s \in SUBSET S : s # {} /\ s \ {c[s]} \in P => s \in P
    PROVE  \A s \in SUBSET S : s \in P
<1> SUFFICES ASSUME NEW s0 \in SUBSET S, s0 \notin P PROVE FALSE
  OBVIOUS
<1> DEFINE Bad == {s \in SUBSET S : s \notin P}
           Sizes == {Cardinality(s) : s \in Bad}
<1>1. \A s \in SUBSET S : IsFiniteSet(s) /\ Cardinality(s) \in Nat
  BY FS_Subset, FS_CardinalityType
<1>2. Sizes \subseteq Nat /\ Sizes # {}
  BY <1>1
<1>3. PICK m \in Sizes : \A y \in Sizes : m <= y
  BY <1>2, LeastOf
<1>4. PICK s \in Bad : Cardinality(s) = m
  OBVIOUS
<1>5. s # {} /\ c[s] \in s
  BY DEF Peels
<1>6. Cardinality(s \ {c[s]}) = Cardinality(s) - 1
  BY <1>1, <1>5, FS_RemoveElement
<1>7. s \ {c[s]} \in SUBSET S /\ Cardinality(s) \in Nat
  BY <1>1
<1>8. s \ {c[s]} \notin Bad
  <2>1. ASSUME s \ {c[s]} \in Bad PROVE FALSE
    <3>1. Cardinality(s \ {c[s]}) \in Sizes
      BY <2>1
    <3>2. Cardinality(s) <= Cardinality(s) - 1
      BY <1>3, <1>4, <1>6, <3>1
    <3> QED
      BY <1>7, <3>2
  <2> QED
    BY <2>1
<1>9. s \ {c[s]} \in P
  BY <1>7, <1>8
<1> QED
  BY <1>5, <1>9

\* g satisfies the equation of a fold on the sets D: base for {}, and otherwise what the
\* function F makes of the set and of the value without its peeled element.
IsFold(g, D, base, F, c) ==
    g = [s \in D |-> IF s = {} THEN base ELSE F[<<s, g[s \ {c[s]}]>>]]

\* The equation of a fold over a finite set has a solution.
LEMMA FoldExists ==
    ASSUME NEW S, IsFiniteSet(S), NEW c, Peels(c, S), NEW base, NEW F
    PROVE  \E g : IsFold(g, SUBSET S, base, F, c)
<1> DEFINE Upto(n) == {s \in SUBSET S : Cardinality(s) <= n}
           step(g, s) == IF s = {} THEN base ELSE F[<<s, g[s \ {c[s]}]>>]
           Bad == {n \in Nat : ~ \E g : IsFold(g, Upto(n), base, F, c)}
<1>1. \A s \in SUBSET S : IsFiniteSet(s) /\ Cardinality(s) \in Nat
                          /\ Cardinality(s) <= Cardinality(S)
  BY FS_Subset, FS_CardinalityType
<1>2. \A s \in SUBSET S : Cardinality(s) = 0 <=> s = {}
  BY <1>1, FS_EmptySet
<1>3. ASSUME NEW n \in Nat, NEW s \in Upto(n), s # {}
      PROVE  s \ {c[s]} \in SUBSET S /\ Cardinality(s \ {c[s]}) = Cardinality(s) - 1
             /\ Cardinality(s) \in Nat \ {0} /\ n # 0
  <2>1. c[s] \in s
    BY <1>3 DEF Peels
  <2>2. Cardinality(s \ {c[s]}) = Cardinality(s) - 1
    BY <1>1, <2>1, FS_RemoveElement
  <2> QED
    BY <1>1, <1>2, <1>3, <2>2
<1>4. Bad = {}
  <2> SUFFICES ASSUME Bad # {} PROVE FALSE
    OBVIOUS
  <2>1. PICK n \in Bad : \A k \in Bad : n <= k
    <3>1. Bad \subseteq Nat
      OBVIOUS
    <3> HIDE DEF Bad
    <3> QED
      BY <3>1, LeastOf
  <2>2. CASE n = 0
    <3> DEFINE g == [s \in Upto(0) |-> base]
    <3>1. \A s \in Upto(0) : s = {}
      BY <1>1, <1>2
    <3>2. g = [s \in Upto(0) |-> IF s = {} THEN base ELSE F[<<s, g[s \ {c[s]}]>>]]
      BY <3>1
    <3>3. IsFold(g, Upto(0), base, F, c)
      BY <3>2 DEF IsFold
    <3> QED
      BY <2>2, <3>3
  <2>3. CASE n # 0
    <3>1. n - 1 \in Nat /\ n - 1 \notin Bad
      <4>1. n \in Nat
        OBVIOUS
      <4> HIDE DEF Bad
      <4> QED
        BY <2>1, <2>3, <4>1
    <3>2. PICK h : IsFold(h, Upto(n - 1), base, F, c)
      BY <3>1
    <3> DEFINE g == [s \in Upto(n) |-> step(h, s)]
    <3>3. ASSUME NEW t \in Upto(n - 1) PROVE t \in Upto(n) /\ g[t] = h[t]
      <4>1. t \in Upto(n)
        BY <1>1, <3>1
      <4>2. h[t] = step(h, t)
        BY <3>2 DEF IsFold
      <4> QED
        BY <4>1, <4>2
    <3>4. ASSUME NEW s \in Upto(n), s # {} PROVE g[s \ {c[s]}] = h[s \ {c[s]}]
      <4>1. s \ {c[s]} \in Upto(n - 1)
        BY <1>1, <1>3, <3>1, <3>4
      <4> QED
        BY <3>3, <4>1
    <3>5. \A s \in Upto(n) : g[s] = step(g, s)
      BY <3>4
    <3>6. g = [s \in Upto(n) |-> step(g, s)]
      <4>1. g = [s \in Upto(n) |-> g[s]]
        OBVIOUS
      <4> HIDE DEF g
      <4> QED
        BY <3>5, <4>1
    <3>7. IsFold(g, Upto(n), base, F, c)
      BY <3>6 DEF IsFold
    <3> QED
      BY <3>7
  <2> QED
    BY <2>2, <2>3
<1>5. Cardinality(S) \in Nat /\ Upto(Cardinality(S)) = SUBSET S
  BY <1>1
<1>6. \E g : IsFold(g, Upto(Cardinality(S)), base, F, c)
  BY <1>4, <1>5
<1> QED
  BY <1>5, <1>6

\* Every step of a fold stays in V.
StaysIn(F, S, V) == \A s \in SUBSET S, y \in V : s # {} => F[<<s, y>>] \in V

\* What a fold computes stays in a set that has the base and that every step keeps.
LEMMA FoldStays ==
    ASSUME NEW S, IsFiniteSet(S), NEW c, Peels(c, S), NEW base, NEW F, NEW g,
           IsFold(g, SUBSET S, base, F, c), NEW V, base \in V, StaysIn(F, S, V)
    PROVE  \A s \in SUBSET S : g[s] \in V
<1> DEFINE P == {s \in SUBSET S : g[s] \in V}
<1>1. \A s \in SUBSET S : g[s] = IF s = {} THEN base ELSE F[<<s, g[s \ {c[s]}]>>]
  BY DEF IsFold
<1>2. {} \in P
  BY <1>1
<1>3. \A s \in SUBSET S : s # {} /\ s \ {c[s]} \in P => s \in P
  BY <1>1 DEF StaysIn
<1> HIDE DEF P
<1>4. \A s \in SUBSET S : s \in P
  BY <1>2, <1>3, PeelInduction
<1> QED
  BY <1>4 DEF P

-----------------------------------------------------------------------------
(* Maintenance.                                                            *)

PickOf(s) == CHOOSE x \in s : TRUE

\* f sums b up over every set of D (MapThenSumSet).
SumsUp(f, b, D) ==
    f = [s \in D |-> IF s = {} THEN 0 ELSE b[PickOf(s)] + f[s \ {PickOf(s)}]]

SumOver(b, S) == (CHOOSE f : SumsUp(f, b, SUBSET S))[S]

\* A sum of natural numbers is one; that of nothing is 0.
LEMMA SumIsNat ==
    ASSUME NEW S, IsFiniteSet(S), NEW b, \A x \in S : b[x] \in Nat
    PROVE  SumOver(b, S) \in Nat /\ (S = {} => SumOver(b, S) = 0)
<1> DEFINE c == [s \in SUBSET S |-> PickOf(s)]
           F == [p \in (SUBSET S) \X Nat |-> b[PickOf(p[1])] + p[2]]
           sum == CHOOSE f : SumsUp(f, b, SUBSET S)
           P == {s \in SUBSET S : sum[s] \in Nat}
<1>1. Peels(c, S)
  BY DEF Peels, PickOf
<1>2. \A s \in SUBSET S, y \in Nat : F[<<s, y>>] = b[PickOf(s)] + y
  OBVIOUS
<1>3. \A s \in SUBSET S : s # {} => c[s] = PickOf(s) /\ PickOf(s) \in s /\ b[PickOf(s)] \in Nat
                                 /\ s \ {c[s]} \in SUBSET S
  BY DEF PickOf
<1> HIDE DEF F, c
<1>4. StaysIn(F, S, Nat)
  BY <1>2, <1>3 DEF StaysIn
<1>5. PICK g : IsFold(g, SUBSET S, 0, F, c)
  BY <1>1, FoldExists
<1>6. \A s \in SUBSET S : g[s] \in Nat
  <2>1. 0 \in Nat
    OBVIOUS
  <2> QED
    BY <1>1, <1>4, <1>5, <2>1, FoldStays
<1>7. SumsUp(g, b, SUBSET S)
  <2>1. g = [s \in SUBSET S |-> IF s = {} THEN 0 ELSE F[<<s, g[s \ {c[s]}]>>]]
    BY <1>5 DEF IsFold
  <2>2. \A s \in SUBSET S : s # {} =>
            F[<<s, g[s \ {c[s]}]>>] = b[PickOf(s)] + g[s \ {PickOf(s)}]
    BY <1>2, <1>3, <1>6
  <2>3. g = [s \in SUBSET S |-> g[s]]
    BY <2>1
  <2>4. \A s \in SUBSET S : g[s] = IF s = {} THEN 0 ELSE b[PickOf(s)] + g[s \ {PickOf(s)}]
    BY <2>1, <2>2
  <2>5. g = [s \in SUBSET S |-> IF s = {} THEN 0 ELSE b[PickOf(s)] + g[s \ {PickOf(s)}]]
    BY <2>3, <2>4
  <2> QED
    BY <2>5 DEF SumsUp
<1>8. SumsUp(sum, b, SUBSET S)
  BY <1>7
<1> HIDE DEF sum
<1>9. \A s \in SUBSET S : sum[s] = IF s = {} THEN 0 ELSE b[PickOf(s)] + sum[s \ {PickOf(s)}]
  BY <1>8 DEF SumsUp
<1>10. {} \in P
  <2>1. {} \in SUBSET S
    OBVIOUS
  <2>2. sum[{}] = 0
    BY <1>9, <2>1
  <2> QED
    BY <2>1, <2>2
<1>11. \A s \in SUBSET S : s # {} /\ s \ {c[s]} \in P => s \in P
  BY <1>3, <1>9
<1>12. \A s \in SUBSET S : s \in P
  <2> HIDE DEF P
  <2> QED
    BY <1>1, <1>10, <1>11, PeelInduction
<1> QED
  BY <1>9, <1>12 DEF SumOver, sum

\* The budget that is left for a host, as a sum.
LEMMA BudgetIs ==
    ASSUME NEW h
    PROVE  BudgetFor(h) = Budget - SumOver(backlog, {g \in Hosts : Before(g, h)})
BY DEF BudgetFor, MapThenSumSet, MapThenFoldSet, SumOver, SumsUp, PickOf

\* The hosts that come after h
After(h) == {g \in Hosts : Before(h, g)}

\* Whoever waits has been overtaken by nobody: the runs it waited for were those of
\* hosts that now come after it.
MaintInv ==
    /\ maintClock \in Nat \ {0}
    /\ lastCompleted \in 0 .. maintClock
    /\ backlog \in [Hosts -> Nat]
    /\ serviced \in [Hosts -> 0 .. lastCompleted]
    /\ waits \in [Hosts -> Nat]
    /\ \A h \in Hosts : waits[h] <= Cardinality(After(h))
    /\ reported \in BOOLEAN
    /\ ~reported => \A h \in Hosts : backlog[h] = 0

\* The budgets are integers, and the first host has all of it.
LEMMA BudgetsFit ==
    ASSUME MaintInv, NEW h \in Hosts
    PROVE  /\ BudgetFor(h) \in Int
           /\ (\A g \in Hosts : ~Before(g, h)) => h \in Serviced
<1> DEFINE earlier == {g \in Hosts : Before(g, h)}
<1>1. IsFiniteSet(earlier) /\ earlier \subseteq Hosts
  BY MaintenanceAssumption, FS_Subset
<1>2. \A g \in earlier : backlog[g] \in Nat
  BY <1>1 DEF MaintInv
<1>3. SumOver(backlog, earlier) \in Nat /\ (earlier = {} => SumOver(backlog, earlier) = 0)
  <2> HIDE DEF earlier
  <2> QED
    BY <1>1, <1>2, SumIsNat
<1>4. BudgetFor(h) = Budget - SumOver(backlog, earlier)
  BY BudgetIs
<1>5. (\A g \in Hosts : ~Before(g, h)) => earlier = {}
  OBVIOUS
<1> HIDE DEF earlier
<1> QED
  BY <1>3, <1>4, <1>5, MaintenanceAssumption DEF Serviced

\* Of several hosts one comes first.
LEMMA FirstHost ==
    ASSUME MaintInv, Hosts # {}
    PROVE  \E f \in Hosts : \A g \in Hosts : ~Before(g, f)
<1> DEFINE Times == {serviced[h] : h \in Hosts}
<1>1. \A h \in Hosts : h \in Nat /\ serviced[h] \in Nat
  BY MaintenanceAssumption DEF MaintInv
<1>2. PICK k \in Times : \A y \in Times : k <= y
  BY <1>1, LeastOf
<1> DEFINE Oldest == {h \in Hosts : serviced[h] = k}
<1>3. Oldest \subseteq Nat /\ Oldest # {}
  BY <1>1
<1>4. PICK f \in Oldest : \A y \in Oldest : f <= y
  BY <1>3, LeastOf
<1>5. ASSUME NEW g \in Hosts, Before(g, f) PROVE FALSE
  <2>1. serviced[g] \in Times /\ serviced[f] = k /\ k \in Nat
    BY <1>1
  <2>2. k <= serviced[g]
    BY <1>2, <2>1
  <2>3. serviced[g] = serviced[f] /\ g < f
    BY <1>1, <1>5, <2>1, <2>2 DEF Before
  <2>4. g \in Oldest
    BY <2>1, <2>3
  <2> QED
    BY <1>1, <1>4, <2>3, <2>4
<1> QED
  BY <1>5

\* A run moves the hosts it services behind all others, the first one among them.
LEMMA MaintainStep ==
    ASSUME MaintInv, Maintain
    PROVE  MaintInv'
<1>1. /\ Due /\ maintClock' = maintClock /\ lastCompleted' = maintClock
      /\ backlog' = [h \in Hosts |-> IF h \in Serviced THEN Max({0, backlog[h] - BudgetFor(h)})
                                     ELSE backlog[h]]
      /\ serviced' = [h \in Hosts |-> IF h \in Serviced THEN maintClock ELSE serviced[h]]
      /\ waits' = [h \in Hosts |-> IF h \in Serviced THEN 0 ELSE waits[h] + 1]
      /\ reported' = (Serviced # Hosts \/ \E h \in Hosts : backlog'[h] > 0)
  BY DEF Maintain
<1>2. maintClock \in Nat /\ lastCompleted \in Nat /\ lastCompleted < maintClock
  BY <1>1, MaintenanceAssumption DEF MaintInv, Due
<1>3. \A h \in Hosts : serviced[h] \in Nat /\ serviced[h] < maintClock /\ h \in Nat
  BY <1>2, MaintenanceAssumption DEF MaintInv
<1>4. backlog' \in [Hosts -> Nat]
  <2>1. ASSUME NEW x \in Int PROVE Max({0, x}) \in Nat
    BY DEF Max
  <2>2. \A h \in Hosts : backlog[h] \in Nat /\ backlog[h] - BudgetFor(h) \in Int
    BY BudgetsFit DEF MaintInv
  <2> QED
    BY <1>1, <2>1, <2>2
<1>5. serviced' \in [Hosts -> 0 .. maintClock]
  BY <1>1, <1>2, <1>3
<1>6. waits' \in [Hosts -> Nat]
  BY <1>1 DEF MaintInv
<1>7. ASSUME NEW h \in Hosts PROVE waits'[h] <= Cardinality(After(h)')
  <2>1. IsFiniteSet(After(h)) /\ IsFiniteSet(After(h)')
        /\ Cardinality(After(h)) \in Nat /\ Cardinality(After(h)') \in Nat
    BY MaintenanceAssumption, FS_Subset, FS_CardinalityType DEF After
  <2>2. CASE h \in Serviced
    BY <1>1, <2>1, <2>2
  <2>3. CASE h \notin Serviced
    <3>1. PICK f \in Hosts : \A g \in Hosts : ~Before(g, f)
      BY FirstHost
    <3>2. f \in Serviced
      BY <3>1, BudgetsFit
    <3>3. f \in After(h)' /\ f \notin After(h)
      BY <1>1, <1>3, <2>3, <3>1, <3>2 DEF After, Before
    <3>4. After(h) \subseteq After(h)'
      BY <1>1, <1>3, <2>3 DEF After, Before
    <3>5. Cardinality(After(h) \cup {f}) = Cardinality(After(h)) + 1
      BY <2>1, <3>3, FS_AddElement
    <3>6. Cardinality(After(h) \cup {f}) <= Cardinality(After(h)')
      BY <2>1, <3>3, <3>4, FS_Subset
    <3> QED
      BY <1>1, <2>1, <2>3, <3>5, <3>6 DEF MaintInv
  <2> QED
    BY <2>2, <2>3
<1>8. /\ reported' \in BOOLEAN
      /\ ~reported' => \A h \in Hosts : backlog'[h] = 0
  <2>1. \A h \in Hosts : backlog'[h] \in Nat
    BY <1>4
  <2>2. (\A h \in Hosts : ~(backlog'[h] > 0)) => \A h \in Hosts : backlog'[h] = 0
    BY <2>1
  <2> DEFINE some == Serviced # Hosts \/ \E h \in Hosts : backlog'[h] > 0
  <2>3. reported' = some
    BY <1>1
  <2>4. ~some => \A h \in Hosts : backlog'[h] = 0
    BY <2>2
  <2>5. some \in BOOLEAN
    OBVIOUS
  <2> HIDE DEF some
  <2> QED
    BY <2>3, <2>4, <2>5
<1>9. maintClock' \in Nat \ {0} /\ lastCompleted' \in 0 .. maintClock'
  BY <1>1, <1>2 DEF MaintInv
<1>10. serviced' \in [Hosts -> 0 .. lastCompleted']
  BY <1>1, <1>5
<1> QED
  BY <1>4, <1>6, <1>7, <1>8, <1>9, <1>10 DEF MaintInv

\* Maintenance is fair in every reachable state.
LEMMA MaintInvariant == MaintSpec => []MaintInv
<1>1. MaintInit => MaintInv
  <2> SUFFICES ASSUME MaintInit PROVE MaintInv
    OBVIOUS
  <2>1. backlog \in [Hosts -> Nat]
    BY DEF MaintInit
  <2>2. \A h \in Hosts : Cardinality(After(h)) \in Nat
    BY MaintenanceAssumption, FS_Subset, FS_CardinalityType DEF After
  <2> QED
    BY <2>1, <2>2 DEF MaintInit, MaintInv
<1>2. MaintInv /\ [MaintNext]_maintVars => MaintInv'
  <2> SUFFICES ASSUME MaintInv, [MaintNext]_maintVars PROVE MaintInv'
    OBVIOUS
  <2>1. CASE \E h \in Hosts : Age(h)
    <3>1. PICK h \in Hosts : Age(h)
      BY <2>1
    <3>2. \A x \in Hosts : After(x)' = After(x)
      BY <3>1 DEF Age, After, Before
    <3> QED
      BY <3>1, <3>2 DEF Age, MaintInv
  <2>2. CASE Maintain
    BY <2>2, MaintainStep
  <2>3. CASE MaintTick \/ UNCHANGED maintVars
    <3>1. \A x \in Hosts : After(x)' = After(x)
      BY <2>3 DEF MaintTick, maintVars, After, Before
    <3> QED
      BY <2>3, <3>1 DEF MaintTick, maintVars, MaintInv
  <2> QED
    BY <2>1, <2>2, <2>3 DEF MaintNext
<1> QED
  BY <1>1, <1>2, PTL DEF MaintSpec

\* No host waits for more runs than there are other hosts, whatever the budget and
\* however much the others have to delete, and a run that reports that nothing remains
\* is right (maybe_run_automatic_store_maintenance).
THEOREM EveryHostServiced == MaintSpec => []EveryHostIsServiced
<1>1. MaintInv => EveryHostIsServiced
  <2> SUFFICES ASSUME MaintInv, NEW h \in Hosts PROVE waits[h] < Cardinality(Hosts)
    BY DEF EveryHostIsServiced, MaintInv
  <2>1. After(h) \in SUBSET (Hosts \ {h})
    BY MaintenanceAssumption DEF After, Before, MaintInv
  <2>2. IsFiniteSet(Hosts \ {h}) /\ Cardinality(Hosts \ {h}) = Cardinality(Hosts) - 1
    BY MaintenanceAssumption, FS_RemoveElement
  <2>3. Cardinality(After(h)) <= Cardinality(Hosts \ {h}) /\ Cardinality(After(h)) \in Nat
        /\ Cardinality(Hosts) \in Nat
    BY <2>1, <2>2, MaintenanceAssumption, FS_Subset, FS_CardinalityType
  <2> QED
    BY <2>2, <2>3 DEF MaintInv
<1> QED
  BY <1>1, MaintInvariant, PTL

-----------------------------------------------------------------------------
(* Sequences of things that have keys.                                     *)

\* No two elements of s have one key.
Distinct(s) == \A i, j \in DOMAIN s : s[i].key = s[j].key => i = j

\* The elements of s
ItemsOf(s) == {s[i] : i \in DOMAIN s}

\* What is known of the sequence made of s.
LEMMA KeysOfItems ==
    ASSUME NEW s
    PROVE  KeysOf(s) = {x.key : x \in ItemsOf(s)}
BY DEF KeysOf, ItemsOf

\* As many keys as elements.
LEMMA DistinctKeys ==
    ASSUME NEW T, NEW s \in Seq(T), Distinct(s)
    PROVE  IsFiniteSet(KeysOf(s)) /\ Cardinality(KeysOf(s)) = Len(s)
<1>1. Len(s) \in Nat /\ DOMAIN s = 1 .. Len(s)
  OBVIOUS
<1> DEFINE f == [i \in 1 .. Len(s) |-> s[i].key]
<1>2. f \in Bijection(1 .. Len(s), KeysOf(s))
  BY <1>1 DEF Bijection, Injection, Surjection, IsInjective, Distinct, KeysOf
<1>3. ExistsBijection(1 .. Len(s), KeysOf(s))
  BY <1>2 DEF ExistsBijection
<1>4. IsFiniteSet(1 .. Len(s)) /\ Cardinality(1 .. Len(s)) = Len(s)
  BY <1>1, FS_Interval
<1> QED
  BY <1>4, <1>3, FS_Bijection

\* What appending an element does to the items, the keys and their being distinct
LEMMA AppendIs ==
    ASSUME NEW T, NEW s \in Seq(T), NEW x \in T, Distinct(s), x.key \notin KeysOf(s)
    PROVE  /\ Append(s, x) \in Seq(T) /\ Distinct(Append(s, x))
           /\ Len(Append(s, x)) = Len(s) + 1
           /\ ItemsOf(Append(s, x)) = ItemsOf(s) \cup {x}
           /\ KeysOf(Append(s, x)) = KeysOf(s) \cup {x.key}
<1> DEFINE a == Append(s, x)
<1>1. /\ a \in Seq(T) /\ Len(a) = Len(s) + 1 /\ Len(s) \in Nat /\ DOMAIN s = 1 .. Len(s)
      /\ DOMAIN a = 1 .. (Len(s) + 1)
      /\ \A i \in 1 .. Len(s) : a[i] = s[i]
      /\ a[Len(s) + 1] = x
  OBVIOUS
<1> HIDE DEF a
<1>2. \A i \in DOMAIN s : s[i].key # x.key
  BY DEF KeysOf
<1>3. Distinct(a)
  BY <1>1, <1>2 DEF Distinct
<1>4. ItemsOf(a) = ItemsOf(s) \cup {x}
  BY <1>1 DEF ItemsOf
<1>5. KeysOf(a) = KeysOf(s) \cup {x.key}
  BY <1>4, KeysOfItems
<1> QED
  BY <1>1, <1>3, <1>4, <1>5 DEF a

\* Removal at a place.
LEMMA RemoveAtIs ==
    ASSUME NEW T, NEW s \in Seq(T), NEW i \in DOMAIN s, Distinct(s)
    PROVE  /\ RemoveAt(s, i) \in Seq(T) /\ Distinct(RemoveAt(s, i))
           /\ Len(RemoveAt(s, i)) = Len(s) - 1
           /\ ItemsOf(RemoveAt(s, i)) = ItemsOf(s) \ {s[i]}
           /\ KeysOf(RemoveAt(s, i)) = KeysOf(s) \ {s[i].key}
<1> DEFINE a == SubSeq(s, 1, i - 1)
           b == SubSeq(s, i + 1, Len(s))
           r == a \o b
<1>1. Len(s) \in Nat /\ DOMAIN s = 1 .. Len(s) /\ i \in 1 .. Len(s)
      /\ \A j \in 1 .. Len(s) : s[j] \in T
  OBVIOUS
<1>2. a \in Seq(T) /\ Len(a) = i - 1 /\ \A j \in 1 .. i - 1 : a[j] = s[j]
  <2>1. \A j \in 1 .. i - 1 : s[j] \in T
    BY <1>1
  <2>2. 1 \in Int /\ i - 1 \in Int
    BY <1>1
  <2>3. a \in Seq(T) /\ Len(a) = (IF 1 <= i - 1 THEN (i - 1) - 1 + 1 ELSE 0)
        /\ \A j \in 1 .. (i - 1) - 1 + 1 : a[j] = s[1 + j - 1]
    BY <2>1, <2>2, SubSeqProperties
  <2> HIDE DEF a
  <2> QED
    BY <1>1, <2>3
<1>3. b \in Seq(T) /\ Len(b) = Len(s) - i /\ \A j \in 1 .. Len(s) - i : b[j] = s[i + j]
  <2>1. \A j \in i + 1 .. Len(s) : s[j] \in T
    BY <1>1
  <2>2. i + 1 \in Int /\ Len(s) \in Int
    BY <1>1
  <2>3. b \in Seq(T) /\ Len(b) = (IF i + 1 <= Len(s) THEN Len(s) - (i + 1) + 1 ELSE 0)
        /\ \A j \in 1 .. Len(s) - (i + 1) + 1 : b[j] = s[(i + 1) + j - 1]
    BY <2>1, <2>2, SubSeqProperties
  <2> HIDE DEF b
  <2>4. Len(s) - (i + 1) + 1 = Len(s) - i /\ i \in Int
    BY <1>1
  <2>5. Len(b) = Len(s) - i
    BY <1>1, <2>3
  <2>6. ASSUME NEW j \in 1 .. Len(s) - i PROVE b[j] = s[i + j]
    <3>1. (i + 1) + j - 1 = i + j
      BY <2>4
    <3>2. b[j] = s[(i + 1) + j - 1]
      BY <2>3, <2>4
    <3> QED
      BY <3>1, <3>2
  <2> QED
    BY <2>3, <2>5, <2>6
<1> HIDE DEF a, b
<1>4. /\ r \in Seq(T) /\ Len(r) = Len(s) - 1
      /\ \A j \in 1 .. Len(s) - 1 : r[j] = IF j < i THEN s[j] ELSE s[j + 1]
  <2>1. r \in Seq(T) /\ Len(r) = Len(a) + Len(b)
        /\ \A j \in 1 .. Len(a) + Len(b) : r[j] = IF j <= Len(a) THEN a[j] ELSE b[j - Len(a)]
    BY <1>2, <1>3, ConcatProperties
  <2> HIDE DEF r
  <2>2. Len(a) + Len(b) = Len(s) - 1 /\ i \in Int
    BY <1>1, <1>2, <1>3
  <2>3. ASSUME NEW j \in 1 .. Len(s) - 1
        PROVE  r[j] = IF j < i THEN s[j] ELSE s[j + 1]
    <3>1. CASE j < i
      <4>1. j <= Len(a) /\ j \in 1 .. i - 1
        BY <1>2, <2>2, <3>1
      <4> QED
        BY <1>2, <2>1, <2>2, <3>1, <4>1
    <3>2. CASE ~(j < i)
      <4>1. j \in Int /\ Len(s) \in Int /\ Len(a) = i - 1
        BY <1>1, <1>2
      <4>2. j - (i - 1) = j + 1 - i /\ i + (j + 1 - i) = j + 1 /\ ~(j <= i - 1)
        BY <2>2, <3>2, <4>1
      <4>3. j + 1 - i \in 1 .. Len(s) - i
        BY <2>2, <3>2, <4>1
      <4>4. ~(j <= Len(a)) /\ j - Len(a) = j + 1 - i /\ j + 1 - i \in 1 .. Len(s) - i
            /\ i + (j + 1 - i) = j + 1
        BY <4>1, <4>2, <4>3
      <4>5. r[j] = b[j + 1 - i]
        BY <2>1, <2>2, <4>4
      <4>6. b[j + 1 - i] = s[i + (j + 1 - i)]
        BY <1>3, <4>4
      <4> QED
        BY <3>2, <4>4, <4>5, <4>6
    <3> QED
      BY <3>1, <3>2
  <2> QED
    BY <2>1, <2>2, <2>3
<1>5. RemoveAt(s, i) = r
  BY DEF RemoveAt, a, b
<1> HIDE DEF r
<1>6. DOMAIN r = 1 .. Len(s) - 1
  BY <1>1, <1>4
<1> DEFINE from(j) == IF j < i THEN j ELSE j + 1
<1>7. \A j \in DOMAIN r : from(j) \in DOMAIN s /\ r[j] = s[from(j)]
  BY <1>1, <1>4, <1>6
<1>8. \A j, k \in DOMAIN r : from(j) = from(k) => j = k
  BY <1>1, <1>6
<1>9. Distinct(r)
  <2> HIDE DEF from
  <2> QED
    BY <1>7, <1>8 DEF Distinct
<1>10. ItemsOf(r) = ItemsOf(s) \ {s[i]}
  <2>1. ASSUME NEW j \in DOMAIN s, j # i PROVE s[j] \in ItemsOf(r)
    <3>1. CASE j < i
      <4>1. j \in 1 .. Len(s) - 1 /\ r[j] = s[j]
        BY <1>1, <1>4, <3>1
      <4> QED
        BY <1>6, <4>1 DEF ItemsOf
    <3>2. CASE j > i
      <4>1. j - 1 \in 1 .. Len(s) - 1 /\ r[j - 1] = s[j]
        BY <1>1, <1>4, <3>2
      <4> QED
        BY <1>6, <4>1 DEF ItemsOf
    <3> QED
      BY <1>1, <2>1, <3>1, <3>2
  <2>2. ASSUME NEW j \in DOMAIN r PROVE r[j] \in ItemsOf(s) /\ r[j] # s[i]
    <3>1. CASE j < i
      <4>1. r[j] = s[j] /\ j \in DOMAIN s /\ j # i
        BY <1>1, <1>4, <1>6, <3>1
      <4> QED
        BY <4>1 DEF ItemsOf, Distinct
    <3>2. CASE ~(j < i)
      <4>1. r[j] = s[j + 1] /\ j + 1 \in DOMAIN s /\ j + 1 # i
        BY <1>1, <1>4, <1>6, <3>2
      <4> QED
        BY <4>1 DEF ItemsOf, Distinct
    <3> QED
      BY <3>1, <3>2
  <2> QED
    BY <2>1, <2>2 DEF ItemsOf
<1>11. KeysOf(r) = KeysOf(s) \ {s[i].key}
  <2>1. \A j \in DOMAIN s : s[j].key = s[i].key => s[j] = s[i]
    BY DEF Distinct
  <2>2. \A x \in ItemsOf(s) : x.key = s[i].key <=> x = s[i]
    BY <2>1 DEF ItemsOf
  <2> QED
    BY <1>10, <2>2, KeysOfItems
<1> QED
  BY <1>4, <1>5, <1>9, <1>10, <1>11

\* The element with key k is taken out, if there is one.
LEMMA WithoutIs ==
    ASSUME NEW T, NEW s \in Seq(T), NEW k, Distinct(s)
    PROVE  /\ Without(s, k) \in Seq(T) /\ Distinct(Without(s, k))
           /\ Len(Without(s, k)) = IF k \in KeysOf(s) THEN Len(s) - 1 ELSE Len(s)
           /\ ItemsOf(Without(s, k)) = {x \in ItemsOf(s) : x.key # k}
           /\ KeysOf(Without(s, k)) = KeysOf(s) \ {k}
<1> DEFINE I == {i \in 1 .. Len(s) : s[i].key = k}
<1>1. Len(s) \in Nat /\ DOMAIN s = 1 .. Len(s)
  OBVIOUS
<1>2. Without(s, k) = IF \E i \in 1 .. Len(s) : s[i].key = k
                      THEN RemoveAt(s, IF I # {} THEN Min(I) ELSE 0) ELSE s
  BY DEF Without, RemoveFirstMatch, SelectInSeq
<1>3. CASE \E i \in 1 .. Len(s) : s[i].key = k
  <2>1. I \subseteq Nat /\ I # {}
    BY <1>1, <1>3
  <2>2. PICK m \in I : \A y \in I : m <= y
    BY <2>1, LeastOf
  <2>3. Min(I) \in I
    BY <2>2 DEF Min
  <2> DEFINE i == Min(I)
  <2>4. i \in DOMAIN s /\ s[i].key = k
    BY <1>1, <2>3
  <2>5. Without(s, k) = RemoveAt(s, i)
    BY <1>2, <1>3, <2>1
  <2> HIDE DEF i, I
  <2>6. /\ RemoveAt(s, i) \in Seq(T) /\ Distinct(RemoveAt(s, i))
        /\ Len(RemoveAt(s, i)) = Len(s) - 1
        /\ ItemsOf(RemoveAt(s, i)) = ItemsOf(s) \ {s[i]}
        /\ KeysOf(RemoveAt(s, i)) = KeysOf(s) \ {s[i].key}
    BY <2>4, RemoveAtIs
  <2>7. \A x \in ItemsOf(s) : x.key = k <=> x = s[i]
    BY <2>4 DEF ItemsOf, Distinct
  <2>8. k \in KeysOf(s)
    BY <2>4 DEF KeysOf
  <2> QED
    BY <2>4, <2>5, <2>6, <2>7, <2>8
<1>4. CASE ~ \E i \in 1 .. Len(s) : s[i].key = k
  <2>1. Without(s, k) = s
    BY <1>2, <1>4
  <2>2. k \notin KeysOf(s) /\ \A x \in ItemsOf(s) : x.key # k
    BY <1>1, <1>4 DEF KeysOf, ItemsOf
  <2> QED
    BY <2>1, <2>2
<1> QED
  BY <1>3, <1>4

\* Also a sequence with equal keys keeps its type.
LEMMA WithoutIsTyped ==
    ASSUME NEW T, NEW s \in Seq(T), NEW k
    PROVE  Without(s, k) \in Seq(T)
<1>1. Len(s) \in Nat /\ \A j \in 1 .. Len(s) : s[j] \in T
  OBVIOUS
<1> DEFINE I == {i \in 1 .. Len(s) : s[i].key = k}
<1>2. Without(s, k) = IF \E i \in 1 .. Len(s) : s[i].key = k
                      THEN RemoveAt(s, IF I # {} THEN Min(I) ELSE 0) ELSE s
  BY DEF Without, RemoveFirstMatch, SelectInSeq
<1>3. CASE \E i \in 1 .. Len(s) : s[i].key = k
  <2>1. I \subseteq Nat /\ I # {}
    BY <1>1, <1>3
  <2>2. PICK m \in I : \A y \in I : m <= y
    BY <2>1, LeastOf
  <2>3. Min(I) \in I
    BY <2>2 DEF Min
  <2> DEFINE i == Min(I)
  <2>4. i \in 1 .. Len(s)
    BY <2>3
  <2>5. Without(s, k) = SubSeq(s, 1, i - 1) \o SubSeq(s, i + 1, Len(s))
    BY <1>2, <1>3, <2>1 DEF RemoveAt
  <2> HIDE DEF i, I
  <2>6. i \in Int /\ i - 1 \in Int /\ i + 1 \in Int /\ Len(s) \in Int
        /\ (\A j \in 1 .. i - 1 : s[j] \in T) /\ (\A j \in i + 1 .. Len(s) : s[j] \in T)
    BY <1>1, <2>4
  <2>7. SubSeq(s, 1, i - 1) \in Seq(T) /\ SubSeq(s, i + 1, Len(s)) \in Seq(T)
    BY <2>6, SubSeqProperties
  <2> QED
    BY <2>5, <2>7, ConcatProperties
<1>4. CASE ~ \E i \in 1 .. Len(s) : s[i].key = k
  BY <1>2, <1>4
<1> QED
  BY <1>3, <1>4

\* t is s with other data: the same keys at the same places.
SameKeys(s, t) ==
    /\ Len(t) = Len(s) /\ DOMAIN t = DOMAIN s
    /\ \A i \in DOMAIN s : t[i].key = s[i].key

\* What depends on the keys only stays.
LEMMA SameKeysKeep ==
    ASSUME NEW s, NEW t, SameKeys(s, t)
    PROVE  KeysOf(t) = KeysOf(s) /\ (Distinct(s) => Distinct(t))
BY DEF SameKeys, KeysOf, Distinct

\* x with the version of item
Renewed(x, item) == [x EXCEPT !.ver = item.ver]

\* A new version replaces the old one in its place.
LEMMA ReplacedIs ==
    ASSUME NEW T, NEW s \in Seq(T), NEW item,
           \A x \in T : Renewed(x, item) \in T
    PROVE  /\ Replaced(s, item) \in Seq(T) /\ Len(Replaced(s, item)) = Len(s)
           /\ \A i \in DOMAIN s :
                 \/ Replaced(s, item)[i] = s[i]
                 \/ s[i].key = item.key /\ Replaced(s, item)[i] = Renewed(s[i], item)
<1> DEFINE e(i) == IF s[i].key = item.key THEN Renewed(s[i], item) ELSE s[i]
<1>1. Len(s) \in Nat /\ DOMAIN s = 1 .. Len(s) /\ \A i \in 1 .. Len(s) : s[i] \in T
  OBVIOUS
<1>2. \A i \in 1 .. Len(s) : e(i) \in T
  BY <1>1
<1>3. Replaced(s, item) = [i \in 1 .. Len(s) |-> e(i)]
  BY <1>1 DEF Replaced, Renewed
<1>4. [i \in 1 .. Len(s) |-> e(i)] \in Seq(T)
  <2> HIDE DEF e
  <2> QED
    BY <1>1, <1>2, IsASeq
<1>5. \A i \in DOMAIN s :
         e(i) = s[i] \/ (s[i].key = item.key /\ e(i) = Renewed(s[i], item))
  <2>1. ASSUME NEW i \in DOMAIN s
        PROVE  e(i) = s[i] \/ (s[i].key = item.key /\ e(i) = Renewed(s[i], item))
    <3>1. CASE s[i].key = item.key
      BY <3>1
    <3>2. CASE s[i].key # item.key
      BY <3>2
    <3> QED
      BY <3>1, <3>2
  <2> HIDE DEF e
  <2> QED
    BY <2>1
<1> HIDE DEF e
<1>6. Len(Replaced(s, item)) = Len(s)
  BY <1>1, <1>3, <1>4
<1> QED
  BY <1>1, <1>3, <1>4, <1>5, <1>6

\* The first element goes.
LEMMA TailIs ==
    ASSUME NEW T, NEW s \in Seq(T), s # <<>>, Distinct(s)
    PROVE  /\ Head(s) \in T /\ Tail(s) \in Seq(T) /\ Distinct(Tail(s))
           /\ Len(Tail(s)) = Len(s) - 1 /\ Len(s) \in Nat \ {0}
           /\ Head(s) \in ItemsOf(s)
           /\ ItemsOf(Tail(s)) \subseteq ItemsOf(s)
           /\ Head(s).key \in KeysOf(s) /\ Head(s).key \notin KeysOf(Tail(s))
           /\ KeysOf(Tail(s)) \subseteq KeysOf(s)
<1> DEFINE t == Tail(s)
<1>1. Len(s) \in Nat \ {0} /\ DOMAIN s = 1 .. Len(s) /\ Head(s) = s[1]
  BY EmptySeq
<1>2. t \in Seq(T) /\ Len(t) = Len(s) - 1 /\ \A i \in 1 .. Len(t) : t[i] = s[i + 1]
  BY HeadTailProperties
<1>3. Head(s) \in T
  BY HeadTailProperties
<1> HIDE DEF t
<1>4. DOMAIN t = 1 .. Len(t)
  BY <1>2
<1>5. \A i \in DOMAIN t : i + 1 \in DOMAIN s /\ i + 1 # 1 /\ t[i] = s[i + 1]
  BY <1>1, <1>2, <1>4
<1>6. \A i, j \in DOMAIN t : i + 1 = j + 1 => i = j
  BY <1>4
<1>7. Distinct(t)
  BY <1>5, <1>6 DEF Distinct
<1>8. ItemsOf(t) \subseteq ItemsOf(s)
  BY <1>5 DEF ItemsOf
<1>9. 1 \in DOMAIN s
  BY <1>1
<1>10. Head(s).key \notin KeysOf(t)
  BY <1>1, <1>5, <1>9 DEF Distinct, KeysOf
<1>11. Head(s) \in ItemsOf(s) /\ Head(s).key \in KeysOf(s)
  BY <1>1, <1>9 DEF ItemsOf, KeysOf
<1>12. KeysOf(t) \subseteq KeysOf(s)
  BY <1>8, KeysOfItems
<1> QED
  BY <1>1, <1>2, <1>3, <1>7, <1>8, <1>10, <1>11, <1>12 DEF t

\* The first n elements of d have moved to the end of q: a and b are the new sequences.
Moved(T, q, d, n, a, b) ==
    /\ a \in Seq(T) /\ b \in Seq(T) /\ Distinct(a) /\ Distinct(b)
    /\ Len(a) = Len(q) + n /\ Len(b) = Len(d) - n
    /\ ItemsOf(a) \cup ItemsOf(b) \subseteq ItemsOf(q) \cup ItemsOf(d)
    /\ KeysOf(a) \cap KeysOf(b) = {}
    /\ KeysOf(a) \cup KeysOf(b) \subseteq KeysOf(q) \cup KeysOf(d)

\* Moving the first elements of one sequence to the end of another neither loses nor
\* doubles a key.
LEMMA MoveIs ==
    ASSUME NEW T, NEW q \in Seq(T), NEW d \in Seq(T), NEW n \in 0 .. Len(d),
           Distinct(q), Distinct(d), KeysOf(q) \cap KeysOf(d) = {},
           NEW a, a = q \o SubSeq(d, 1, n), NEW b, b = SubSeq(d, n + 1, Len(d))
    PROVE  Moved(T, q, d, n, a, b)
<1> DEFINE f == SubSeq(d, 1, n)
<1>1. /\ Len(d) \in Nat /\ Len(q) \in Nat /\ n \in Nat /\ n <= Len(d)
      /\ DOMAIN d = 1 .. Len(d) /\ DOMAIN q = 1 .. Len(q)
      /\ \A i \in 1 .. Len(d) : d[i] \in T
  OBVIOUS
<1>2. f \in Seq(T) /\ Len(f) = n /\ \A i \in 1 .. n : f[i] = d[i]
  <2>1. (\A i \in 1 .. n : d[i] \in T) /\ 1 \in Int /\ n \in Int
    BY <1>1
  <2>2. f \in Seq(T) /\ Len(f) = (IF 1 <= n THEN n - 1 + 1 ELSE 0)
        /\ \A i \in 1 .. n - 1 + 1 : f[i] = d[1 + i - 1]
    BY <2>1, SubSeqProperties
  <2> HIDE DEF f
  <2>3. Len(f) = n /\ n - 1 + 1 = n
    BY <1>1, <2>2
  <2>4. ASSUME NEW i \in 1 .. n PROVE f[i] = d[i]
    <3>1. 1 + i - 1 = i
      OBVIOUS
    <3> QED
      BY <2>2, <2>3, <3>1
  <2> QED
    BY <2>2, <2>3, <2>4
<1>3. b \in Seq(T) /\ Len(b) = Len(d) - n /\ \A i \in 1 .. Len(d) - n : b[i] = d[n + i]
  <2>1. (\A i \in n + 1 .. Len(d) : d[i] \in T) /\ n + 1 \in Int /\ Len(d) \in Int
    BY <1>1
  <2>2. b \in Seq(T) /\ Len(b) = (IF n + 1 <= Len(d) THEN Len(d) - (n + 1) + 1 ELSE 0)
        /\ \A i \in 1 .. Len(d) - (n + 1) + 1 : b[i] = d[(n + 1) + i - 1]
    BY <2>1, SubSeqProperties
  <2>3. Len(d) \in Int /\ n \in Int /\ n <= Len(d)
    BY <1>1
  <2>4. ~(n + 1 <= Len(d)) => Len(d) - n = 0
    BY <2>3
  <2>5. Len(d) - (n + 1) + 1 = Len(d) - n /\ (~(n + 1 <= Len(d)) => Len(d) - n = 0)
    BY <2>4, <2>3
  <2>6. Len(b) = Len(d) - n /\ Len(d) - (n + 1) + 1 = Len(d) - n
    BY <2>2, <2>5
  <2>7. ASSUME NEW i \in 1 .. Len(d) - n PROVE b[i] = d[n + i]
    <3>1. (n + 1) + i - 1 = n + i
      BY <1>1
    <3>2. b[i] = d[(n + 1) + i - 1]
      BY <2>2, <2>6
    <3> QED
      BY <3>1, <3>2
  <2> QED
    BY <2>2, <2>6, <2>7
<1>4. a \in Seq(T) /\ Len(a) = Len(q) + n
      /\ \A i \in 1 .. Len(q) + n : a[i] = IF i <= Len(q) THEN q[i] ELSE f[i - Len(q)]
  <2> HIDE DEF f
  <2>1. a = q \o f
    BY DEF f
  <2> QED
    BY <1>2, <2>1, ConcatProperties
<1> HIDE DEF f
<1>5. DOMAIN a = 1 .. Len(q) + n /\ DOMAIN b = 1 .. Len(d) - n
  BY <1>3, <1>4
\* where an element of a comes from
<1>6. ASSUME NEW i \in DOMAIN a
      PROVE  \/ i <= Len(q) /\ i \in DOMAIN q /\ a[i] = q[i]
             \/ i > Len(q) /\ i - Len(q) \in DOMAIN d /\ i - Len(q) <= n /\ a[i] = d[i - Len(q)]
  <2>1. CASE i <= Len(q)
    BY <1>1, <1>4, <1>5, <2>1
  <2>2. CASE ~(i <= Len(q))
    <3>1. i - Len(q) \in 1 .. n /\ i - Len(q) \in DOMAIN d /\ i > Len(q)
      BY <1>1, <1>5, <2>2
    <3> QED
      BY <1>2, <1>4, <1>5, <2>2, <3>1
  <2> QED
    BY <2>1, <2>2
<1>7. \A i \in DOMAIN b : n + i \in DOMAIN d /\ n + i > n /\ b[i] = d[n + i]
  <2> DEFINE len == Len(d)
  <2>1. len \in Nat /\ n \in Nat /\ DOMAIN d = 1 .. len /\ DOMAIN b = 1 .. len - n
    BY <1>1, <1>5
  <2> HIDE DEF len
  <2>2. \A i \in 1 .. len - n : n + i \in 1 .. len /\ n + i > n
    BY <2>1
  <2>3. \A i \in DOMAIN b : b[i] = d[n + i]
    BY <1>3, <1>5
  <2> QED
    BY <2>1, <2>2, <2>3
<1>8. \A i \in DOMAIN q, j \in DOMAIN d : q[i].key # d[j].key
  BY DEF KeysOf
<1>9. Distinct(a)
  <2> SUFFICES ASSUME NEW i \in DOMAIN a, NEW j \in DOMAIN a, a[i].key = a[j].key
               PROVE  i = j
    BY DEF Distinct
  <2>1. i - Len(q) = j - Len(q) => i = j
    BY <1>1, <1>5
  <2>2. CASE i <= Len(q)
    <3>1. i \in DOMAIN q /\ a[i] = q[i] /\ ~(i > Len(q))
      BY <1>1, <1>5, <1>6, <2>2
    <3>2. j \in DOMAIN q /\ a[j] = q[j]
      BY <1>6, <1>8, <3>1
    <3> QED
      BY <3>1, <3>2 DEF Distinct
  <2>3. CASE i > Len(q)
    <3>1. i - Len(q) \in DOMAIN d /\ a[i] = d[i - Len(q)]
      BY <1>1, <1>5, <1>6, <2>3
    <3>2. j - Len(q) \in DOMAIN d /\ a[j] = d[j - Len(q)]
      BY <1>6, <1>8, <3>1
    <3> QED
      BY <2>1, <3>1, <3>2 DEF Distinct
  <2> QED
    BY <1>6, <2>2, <2>3
<1>10. Distinct(b)
  <2>1. \A i, j \in DOMAIN b : n + i = n + j => i = j
    BY <1>1, <1>5
  <2> QED
    BY <1>7, <2>1 DEF Distinct
<1>11. ItemsOf(a) \cup ItemsOf(b) \subseteq ItemsOf(q) \cup ItemsOf(d)
  BY <1>6, <1>7 DEF ItemsOf
<1>12. \A i \in DOMAIN a, j \in DOMAIN b : a[i].key # b[j].key
  <2> SUFFICES ASSUME NEW i \in DOMAIN a, NEW j \in DOMAIN b, a[i].key = b[j].key
               PROVE  FALSE
    OBVIOUS
  <2>1. n + j \in DOMAIN d /\ b[j] = d[n + j]
    BY <1>7
  <2>2. i > Len(q) /\ i - Len(q) \in DOMAIN d /\ i - Len(q) <= n /\ a[i] = d[i - Len(q)]
    BY <1>6, <1>8, <2>1
  <2>3. i - Len(q) = n + j
    BY <2>1, <2>2 DEF Distinct
  <2> QED
    BY <1>1, <1>5, <2>2, <2>3
<1>13. KeysOf(a) \cap KeysOf(b) = {}
  <2> SUFFICES ASSUME NEW k \in KeysOf(a), k \in KeysOf(b) PROVE FALSE
    OBVIOUS
  <2>1. PICK i \in DOMAIN a : a[i].key = k
    BY DEF KeysOf
  <2>2. PICK j \in DOMAIN b : b[j].key = k
    BY DEF KeysOf
  <2> QED
    BY <1>12, <2>1, <2>2
<1>14. KeysOf(a) \cup KeysOf(b) \subseteq KeysOf(q) \cup KeysOf(d)
  BY <1>11, KeysOfItems
<1> QED
  BY <1>3, <1>4, <1>9, <1>10, <1>11, <1>13, <1>14 DEF Moved

-----------------------------------------------------------------------------
(* The state the condition protects.                                       *)

Works == [queue : Seq(Item), running : Seq(Reader), dirty : SUBSET Keys,
          latest : UNION {[D -> 1 .. MaxVersion] : D \in SUBSET Keys},
          deferred : Seq(Item), retryDue : Seq(Retry), retried : SUBSET Keys]

\* Every binding of w is in one place and there once.
Apart(w) ==
    /\ Distinct(w.queue) /\ Distinct(w.running) /\ Distinct(w.deferred) /\ Distinct(w.retryDue)
    /\ KeysOf(w.queue) \cap KeysOf(w.running) = {}
    /\ KeysOf(w.queue) \cap KeysOf(w.deferred) = {}
    /\ KeysOf(w.queue) \cap KeysOf(w.retryDue) = {}
    /\ KeysOf(w.running) \cap KeysOf(w.deferred) = {}
    /\ KeysOf(w.running) \cap KeysOf(w.retryDue) = {}
    /\ KeysOf(w.deferred) \cap KeysOf(w.retryDue) = {}

Bounded(w) ==
    /\ Len(w.queue) <= QueueCapacity
    /\ Len(w.running) + Len(w.deferred) <= MaxWorkers
    /\ w.deferred # <<>> => Len(w.queue) = QueueCapacity

Owes(w) ==
    /\ w.dirty \subseteq KeysOf(w.running)
    /\ w.dirty \subseteq DOMAIN w.latest
    /\ \A r \in ItemsOf(w.running) : r.key \in w.dirty => r.ver <= w.latest[r.key]
    /\ KeysOf(w.retryDue) \subseteq w.retried

Fits(w) == w \in Works /\ Apart(w) /\ Bounded(w) /\ Owes(w)

NotNewer(w, v) ==
    /\ \A s \in {w.queue, w.running, w.deferred, w.retryDue} :
          \A x \in ItemsOf(s) : x.ver <= v[x.key]
    /\ \A k \in DOMAIN w.latest : w.latest[k] <= v[k]

Settled(w) == w.deferred = <<>> /\ (w.queue # <<>> => Len(w.running) = MaxWorkers)

\* Nothing is left but readers.
Vacant(w) ==
    /\ w.queue = <<>> /\ w.dirty = {} /\ w.latest = <<>>
    /\ w.deferred = <<>> /\ w.retryDue = <<>> /\ w.retried = {}

\* No reader of item's binding has a newer version.
AsNewAsReaders(w, item) == \A r \in ItemsOf(w.running) : r.key = item.key => r.ver <= item.ver

Latests == UNION {[D -> 1 .. MaxVersion] : D \in SUBSET Keys}

\* The fields of a work record, one by one
LEMMA WorkIsTyped ==
    ASSUME NEW w \in Works
    PROVE  /\ w.queue \in Seq(Item) /\ w.running \in Seq(Reader) /\ w.dirty \in SUBSET Keys
           /\ w.latest \in Latests /\ w.deferred \in Seq(Item) /\ w.retryDue \in Seq(Retry)
           /\ w.retried \in SUBSET Keys
BY DEF Works, Latests

\* The latest versions with item's, and without those of a binding
Seen(w, item) ==
    [x \in DOMAIN w.latest \cup {item.key} |-> IF x = item.key THEN item.ver ELSE w.latest[x]]

\* _latest stays a function of bindings when one is seen or forgotten.
LEMMA LatestsAre ==
    ASSUME NEW w \in Works, NEW item \in Item
    PROVE  Seen(w, item) \in Latests /\ Forget(w, item.key) \in Latests
<1>1. PICK D \in SUBSET Keys : w.latest \in [D -> 1 .. MaxVersion]
  BY DEF Works
<1>2. item.key \in Keys /\ item.ver \in 1 .. MaxVersion
  BY DEF Item
<1>3. Seen(w, item) \in [D \cup {item.key} -> 1 .. MaxVersion]
  BY <1>1, <1>2 DEF Seen
<1>4. Forget(w, item.key) \in [D \ {item.key} -> 1 .. MaxVersion]
  BY <1>1 DEF Forget
<1> QED
  BY <1>2, <1>3, <1>4 DEF Latests

\* The branches of _enqueue_locked, as the record each of them leaves
LEMMA EnqueueCases ==
    ASSUME NEW w, NEW item
    PROVE  LET k == item.key
               seen == [w EXCEPT !.latest = Seen(w, item)]
               e == EnqueueLocked(w, item)
           IN  \/ k \in KeysOf(w.running) /\ e = [seen EXCEPT !.dirty = @ \cup {k}]
               \/ k \notin KeysOf(w.running) /\ k \in KeysOf(w.retryDue)
                  /\ e = [seen EXCEPT !.retryDue = Replaced(@, item)]
               \/ k \notin KeysOf(w.running) /\ k \in KeysOf(w.deferred)
                  /\ e = [seen EXCEPT !.deferred = Replaced(@, item)]
               \/ k \notin KeysOf(w.running) /\ k \in KeysOf(w.queue) /\ e = seen
               \/ k \notin KeysOf(w.running) /\ e = [w EXCEPT !.latest = Forget(w, k)]
               \/ /\ k \notin KeysOf(w.running) \cup KeysOf(w.retryDue) \cup KeysOf(w.deferred)
                           \cup KeysOf(w.queue)
                  /\ ~(Len(w.queue) >= QueueCapacity)
                  /\ e = [seen EXCEPT !.queue = Append(@, item)]
<1> DEFINE k == item.key
           seen == [w EXCEPT !.latest = Seen(w, item)]
           e == EnqueueLocked(w, item)
<1>1. seen = [w EXCEPT !.latest =
                    [x \in DOMAIN w.latest \cup {k} |-> IF x = k THEN item.ver ELSE w.latest[x]]]
  BY DEF Seen
<1>2. e = CASE k \in KeysOf(w.running) -> [seen EXCEPT !.dirty = @ \cup {k}]
          [] k \in KeysOf(w.retryDue) \ KeysOf(w.running) ->
                [seen EXCEPT !.retryDue = Replaced(@, item)]
          [] k \in KeysOf(w.deferred) \ (KeysOf(w.running) \cup KeysOf(w.retryDue)) ->
                [seen EXCEPT !.deferred = Replaced(@, item)]
          [] OTHER ->
                IF k \in KeysOf(w.queue) THEN seen
                ELSE IF Len(w.queue) >= QueueCapacity
                     THEN [w EXCEPT !.latest = Forget(w, k)]
                     ELSE [seen EXCEPT !.queue = Append(@, item)]
  BY DEF Seen, EnqueueLocked
<1> HIDE DEF e, seen, k
<1>3. CASE k \in KeysOf(w.running)
  <2>1. e = [seen EXCEPT !.dirty = @ \cup {k}]
    BY <1>2, <1>3
  <2> QED
    BY <1>3, <2>1 DEF e, seen, k
<1>4. CASE k \notin KeysOf(w.running) /\ k \in KeysOf(w.retryDue)
  <2>1. e = [seen EXCEPT !.retryDue = Replaced(@, item)]
    BY <1>2, <1>4
  <2> QED
    BY <1>4, <2>1 DEF e, seen, k
<1>5. CASE k \notin KeysOf(w.running) \cup KeysOf(w.retryDue) /\ k \in KeysOf(w.deferred)
  <2>1. e = [seen EXCEPT !.deferred = Replaced(@, item)]
    BY <1>2, <1>5
  <2> QED
    BY <1>5, <2>1 DEF e, seen, k
<1>6. CASE k \notin KeysOf(w.running) \cup KeysOf(w.retryDue) \cup KeysOf(w.deferred)
  <2>1. e = IF k \in KeysOf(w.queue) THEN seen
            ELSE IF Len(w.queue) >= QueueCapacity
                 THEN [w EXCEPT !.latest = Forget(w, k)]
                 ELSE [seen EXCEPT !.queue = Append(@, item)]
    BY <1>2, <1>6
  <2>2. CASE k \in KeysOf(w.queue)
    BY <1>6, <2>1, <2>2 DEF e, seen, k
  <2>3. CASE k \notin KeysOf(w.queue) /\ Len(w.queue) >= QueueCapacity
    BY <1>6, <2>1, <2>3 DEF e, seen, k
  <2>4. CASE k \notin KeysOf(w.queue) /\ ~(Len(w.queue) >= QueueCapacity)
    BY <1>6, <2>1, <2>4 DEF e, seen, k
  <2> QED
    BY <2>2, <2>3, <2>4
<1> QED
  BY <1>3, <1>4, <1>5, <1>6

\* t has, at every place, what s has there or the same with item's version if it has its key.
Updates(s, t, item) ==
    /\ Len(t) = Len(s) /\ DOMAIN t = DOMAIN s
    /\ \A i \in DOMAIN s :
          /\ t[i].key = s[i].key
          /\ t[i].ver = s[i].ver \/ (t[i].ver = item.ver /\ s[i].key = item.key)

\* A newer version of an item that waits changes no place.
LEMMA ReplacedUpdates ==
    ASSUME NEW T, T \in {Item, Retry}, NEW s \in Seq(T), NEW item \in Item
    PROVE  Replaced(s, item) \in Seq(T) /\ Updates(s, Replaced(s, item), item)
<1>1. \A x \in T : Renewed(x, item) \in T
                  /\ Renewed(x, item).key = x.key
                  /\ Renewed(x, item).ver = item.ver
  <2>1. \A x \in Item : Renewed(x, item) \in Item
                  /\ Renewed(x, item).key = x.key
                  /\ Renewed(x, item).ver = item.ver
    BY DEF Item, Renewed
  <2>2. \A x \in Retry : Renewed(x, item) \in Retry
                  /\ Renewed(x, item).key = x.key
                  /\ Renewed(x, item).ver = item.ver
    BY DEF Item, Retry, Renewed
  <2> QED
    BY <2>1, <2>2
<1> DEFINE t == Replaced(s, item)
<1>2. t \in Seq(T) /\ Len(t) = Len(s)
      /\ \A i \in DOMAIN s :
            t[i] = s[i] \/ (s[i].key = item.key /\ t[i] = Renewed(s[i], item))
  <2>1. \A x \in T : Renewed(x, item) \in T
    BY <1>1
  <2> QED
    BY <2>1, ReplacedIs
<1> HIDE DEF t
<1>3. \A i \in DOMAIN s : s[i] \in T
  OBVIOUS
<1>4. DOMAIN t = DOMAIN s
  BY <1>2
<1>5. ASSUME NEW i \in DOMAIN s
      PROVE  /\ t[i].key = s[i].key
             /\ t[i].ver = s[i].ver \/ (t[i].ver = item.ver /\ s[i].key = item.key)
  <2>1. CASE t[i] = s[i]
    BY <2>1
  <2>2. CASE s[i].key = item.key /\ t[i] = Renewed(s[i], item)
    <3>1. t[i].key = s[i].key /\ t[i].ver = item.ver
      BY <1>1, <1>3, <2>2
    <3> QED
      BY <2>2, <3>1
  <2> QED
    BY <1>2, <2>1, <2>2
<1> QED
  BY <1>2, <1>4, <1>5 DEF Updates, t

\* What the queue of a binding changes of w: the cases of _enqueue_locked
EnqueueIs(w, item, e) ==
    LET k == item.key
    IN  /\ e \in Works /\ e.running = w.running /\ e.retried = w.retried
        /\ \/ /\ k \in KeysOf(w.running) /\ e.dirty = w.dirty \cup {k}
              /\ e.latest = Seen(w, item)
              /\ e.queue = w.queue /\ e.deferred = w.deferred /\ e.retryDue = w.retryDue
           \/ /\ k \notin KeysOf(w.running) /\ e.dirty = w.dirty
              /\ e.latest \in {Seen(w, item), Forget(w, k)}
              /\ e.queue = w.queue
              /\ e.deferred = w.deferred \/ Updates(w.deferred, e.deferred, item)
              /\ e.retryDue = w.retryDue \/ Updates(w.retryDue, e.retryDue, item)
           \/ /\ k \notin KeysOf(w.running) \cup KeysOf(w.retryDue) \cup KeysOf(w.deferred)
                       \cup KeysOf(w.queue)
              /\ ~(Len(w.queue) >= QueueCapacity)
              /\ e.dirty = w.dirty /\ e.latest = Seen(w, item)
              /\ e.queue = Append(w.queue, item)
              /\ e.deferred = w.deferred /\ e.retryDue = w.retryDue

\* _enqueue_locked leaves a work record, whichever branch it takes.
LEMMA EnqueueTyped ==
    ASSUME NEW w \in Works, NEW item \in Item
    PROVE  EnqueueIs(w, item, EnqueueLocked(w, item))
<1> DEFINE k == item.key
           L == Seen(w, item)
           seen == [w EXCEPT !.latest = L]
           e == EnqueueLocked(w, item)
<1>1. /\ w.queue \in Seq(Item) /\ w.running \in Seq(Reader) /\ w.dirty \in SUBSET Keys
      /\ w.latest \in Latests /\ w.deferred \in Seq(Item) /\ w.retryDue \in Seq(Retry)
      /\ w.retried \in SUBSET Keys
  BY WorkIsTyped
<1>2. L \in Latests /\ Forget(w, k) \in Latests /\ k \in Keys
  BY LatestsAre DEF Item
<1>3. Works = [queue : Seq(Item), running : Seq(Reader), dirty : SUBSET Keys,
               latest : Latests, deferred : Seq(Item), retryDue : Seq(Retry),
               retried : SUBSET Keys]
  BY DEF Works, Latests
<1> DEFINE Done == EnqueueIs(w, item, e)
<1> HIDE DEF L
<1>4. ASSUME k \in KeysOf(w.running), e = [seen EXCEPT !.dirty = @ \cup {k}] PROVE Done
  <2>1. e \in Works /\ e.running = w.running /\ e.retried = w.retried /\ e.dirty = w.dirty \cup {k}
        /\ e.latest = L /\ e.queue = w.queue /\ e.deferred = w.deferred
        /\ e.retryDue = w.retryDue
    <3> HIDE DEF e
    <3> QED
      BY <1>1, <1>2, <1>3, <1>4
  <2> QED
    BY <1>4, <2>1 DEF EnqueueIs, L
<1>5. ASSUME k \notin KeysOf(w.running), e = [seen EXCEPT !.retryDue = Replaced(@, item)] PROVE Done
  <2>1. Replaced(w.retryDue, item) \in Seq(Retry)
        /\ Updates(w.retryDue, Replaced(w.retryDue, item), item)
    BY <1>1, ReplacedUpdates
  <2>2. e \in Works /\ e.running = w.running /\ e.retried = w.retried /\ e.dirty = w.dirty
        /\ e.latest = L /\ e.queue = w.queue /\ e.deferred = w.deferred
        /\ e.retryDue = Replaced(w.retryDue, item)
    <3> HIDE DEF e
    <3> QED
      BY <1>1, <1>2, <1>3, <1>5, <2>1
  <2> QED
    BY <1>5, <2>1, <2>2 DEF EnqueueIs, L
<1>6. ASSUME k \notin KeysOf(w.running), e = [seen EXCEPT !.deferred = Replaced(@, item)] PROVE Done
  <2>1. Replaced(w.deferred, item) \in Seq(Item)
        /\ Updates(w.deferred, Replaced(w.deferred, item), item)
    BY <1>1, ReplacedUpdates
  <2>2. e \in Works /\ e.running = w.running /\ e.retried = w.retried /\ e.dirty = w.dirty
        /\ e.latest = L /\ e.queue = w.queue /\ e.retryDue = w.retryDue
        /\ e.deferred = Replaced(w.deferred, item)
    <3> HIDE DEF e
    <3> QED
      BY <1>1, <1>2, <1>3, <1>6, <2>1
  <2> QED
    BY <1>6, <2>1, <2>2 DEF EnqueueIs, L
<1>7. ASSUME k \notin KeysOf(w.running), NEW M \in {L, Forget(w, k)}, e = [w EXCEPT !.latest = M]
      PROVE  Done
  <2>1. e \in Works /\ e.running = w.running /\ e.retried = w.retried /\ e.dirty = w.dirty
        /\ e.latest = M /\ e.queue = w.queue /\ e.retryDue = w.retryDue
        /\ e.deferred = w.deferred
    <3> HIDE DEF e
    <3>1. M \in Latests
      BY <1>2
    <3> QED
      BY <1>1, <1>3, <1>7, <3>1
  <2> QED
    BY <1>7, <2>1 DEF EnqueueIs, L
<1>8. ASSUME k \notin KeysOf(w.running) \cup KeysOf(w.retryDue) \cup KeysOf(w.deferred)
                    \cup KeysOf(w.queue),
             ~(Len(w.queue) >= QueueCapacity), e = [seen EXCEPT !.queue = Append(@, item)]
      PROVE  Done
  <2>1. Append(w.queue, item) \in Seq(Item)
    BY <1>1
  <2>2. e \in Works /\ e.running = w.running /\ e.retried = w.retried /\ e.dirty = w.dirty
        /\ e.latest = L /\ e.queue = Append(w.queue, item) /\ e.retryDue = w.retryDue
        /\ e.deferred = w.deferred
    <3> HIDE DEF e
    <3> QED
      BY <1>1, <1>2, <1>3, <1>8, <2>1
  <2> QED
    BY <1>8, <2>2 DEF EnqueueIs, L
<1>9. \/ k \in KeysOf(w.running) /\ e = [seen EXCEPT !.dirty = @ \cup {k}]
      \/ k \notin KeysOf(w.running) /\ e = [seen EXCEPT !.retryDue = Replaced(@, item)]
      \/ k \notin KeysOf(w.running) /\ e = [seen EXCEPT !.deferred = Replaced(@, item)]
      \/ k \notin KeysOf(w.running) /\ e = [w EXCEPT !.latest = L]
      \/ k \notin KeysOf(w.running) /\ e = [w EXCEPT !.latest = Forget(w, k)]
      \/ /\ k \notin KeysOf(w.running) \cup KeysOf(w.retryDue) \cup KeysOf(w.deferred)
                 \cup KeysOf(w.queue)
         /\ ~(Len(w.queue) >= QueueCapacity) /\ e = [seen EXCEPT !.queue = Append(@, item)]
  <2> USE DEF L
  <2> QED
    BY EnqueueCases
<1> HIDE DEF Done, e, k
<1>10. Done
  BY <1>4, <1>5, <1>6, <1>7, <1>8, <1>9
<1> QED
  BY <1>10 DEF Done, e

\* No item of s is newer than v.
NoNewer(s, v) == \A x \in ItemsOf(s) : x.ver <= v[x.key]

\* A sequence whose versions are raised to the listed one holds nothing newer than that.
LEMMA UpdatesKeep ==
    ASSUME NEW s, NEW t, NEW item, NEW v, Updates(s, t, item), item.ver <= v[item.key]
    PROVE  /\ KeysOf(t) = KeysOf(s) /\ Len(t) = Len(s) /\ (Distinct(s) => Distinct(t))
           /\ NoNewer(s, v) => NoNewer(t, v)
<1>1. KeysOf(t) = KeysOf(s) /\ (Distinct(s) => Distinct(t))
  <2>1. SameKeys(s, t)
    BY DEF Updates, SameKeys
  <2> QED
    BY <2>1, SameKeysKeep
<1>2. ASSUME NoNewer(s, v), NEW i \in DOMAIN t PROVE t[i].ver <= v[t[i].key]
  <2>1. i \in DOMAIN s /\ t[i].key = s[i].key /\ s[i].ver <= v[s[i].key]
    BY <1>2 DEF Updates, NoNewer, ItemsOf
  <2> QED
    BY <2>1 DEF Updates
<1> QED
  BY <1>1, <1>2 DEF Updates, NoNewer, ItemsOf

\* NotNewer, one sequence at a time
LEMMA NotNewerIs ==
    ASSUME NEW w, NEW v
    PROVE  NotNewer(w, v) <=>
              /\ NoNewer(w.queue, v) /\ NoNewer(w.running, v)
              /\ NoNewer(w.deferred, v) /\ NoNewer(w.retryDue, v)
              /\ \A k \in DOMAIN w.latest : w.latest[k] <= v[k]
BY DEF NotNewer, NoNewer

\* The items of a work record, and the latest versions, are typed.
LEMMA ItemsAre ==
    ASSUME NEW w \in Works
    PROVE  /\ \A x \in ItemsOf(w.queue) \cup ItemsOf(w.running) \cup ItemsOf(w.deferred)
                       \cup ItemsOf(w.retryDue) :
                 x.key \in Keys /\ x.ver \in 1 .. MaxVersion
           /\ DOMAIN w.latest \subseteq Keys
           /\ \A k \in DOMAIN w.latest : w.latest[k] \in 1 .. MaxVersion
           /\ Len(w.queue) \in Nat /\ Len(w.running) \in Nat /\ Len(w.deferred) \in Nat
           /\ Len(w.retryDue) \in Nat
<1>1. /\ w.queue \in Seq(Item) /\ w.running \in Seq(Reader) /\ w.deferred \in Seq(Item)
      /\ w.retryDue \in Seq(Retry) /\ w.latest \in Latests
  BY WorkIsTyped
<1>2. /\ \A x \in Item : x.key \in Keys /\ x.ver \in 1 .. MaxVersion
      /\ \A x \in Reader : x.key \in Keys /\ x.ver \in 1 .. MaxVersion
      /\ \A x \in Retry : x.key \in Keys /\ x.ver \in 1 .. MaxVersion
  BY DEF Item, Reader, Retry
<1>3. /\ ItemsOf(w.queue) \subseteq Item /\ ItemsOf(w.running) \subseteq Reader
      /\ ItemsOf(w.deferred) \subseteq Item /\ ItemsOf(w.retryDue) \subseteq Retry
  BY <1>1 DEF ItemsOf
<1>4. PICK D \in SUBSET Keys : w.latest \in [D -> 1 .. MaxVersion]
  BY <1>1 DEF Latests
<1>5. DOMAIN w.latest \subseteq Keys /\ \A k \in DOMAIN w.latest : w.latest[k] \in 1 .. MaxVersion
  BY <1>4
<1> QED
  BY <1>1, <1>2, <1>3, <1>5

\* What has the readers of w, and fits and is no newer than v.
GoodFor(w, v) == Fits(w) /\ NotNewer(w, v)

\* _enqueue_locked keeps what the record promises.
LEMMA EnqueueKeeps ==
    ASSUME NEW w, NEW item \in Item, NEW v, NEW e, GoodFor(w, v), AsNewAsReaders(w, item),
           item.ver <= v[item.key], EnqueueIs(w, item, e)
    PROVE  GoodFor(e, v) /\ e.running = w.running
<1> DEFINE k == item.key
<1>1. w \in Works /\ e \in Works /\ Apart(w) /\ Bounded(w) /\ Owes(w) /\ e.running = w.running
      /\ e.retried = w.retried /\ NotNewer(w, v)
  BY DEF GoodFor, Fits, EnqueueIs
<1>2. k \in Keys /\ item.ver \in 1 .. MaxVersion
  BY DEF Item
<1>3. /\ Updates(w.deferred, w.deferred, item) /\ Updates(w.retryDue, w.retryDue, item)
  BY DEF Updates
\* the latest versions
<1>4. ASSUME e.latest = Seen(w, item)
      PROVE  /\ DOMAIN e.latest = DOMAIN w.latest \cup {k} /\ e.latest[k] = item.ver
             /\ \A x \in DOMAIN w.latest \ {k} : e.latest[x] = w.latest[x]
             /\ \A x \in DOMAIN e.latest : e.latest[x] <= v[x]
  <2>1. /\ DOMAIN e.latest = DOMAIN w.latest \cup {k} /\ e.latest[k] = item.ver
        /\ \A x \in DOMAIN w.latest \ {k} : e.latest[x] = w.latest[x]
    BY <1>4 DEF Seen
  <2> QED
    BY <1>1, <2>1 DEF NotNewer
<1>5. ASSUME e.latest \in {Seen(w, item), Forget(w, k)}
      PROVE  /\ DOMAIN w.latest \ {k} \subseteq DOMAIN e.latest
             /\ \A x \in DOMAIN w.latest \ {k} : e.latest[x] = w.latest[x]
             /\ \A x \in DOMAIN e.latest : e.latest[x] <= v[x]
  <2>1. CASE e.latest = Seen(w, item)
    BY <1>4, <2>1
  <2>2. CASE e.latest = Forget(w, k)
    <3>1. DOMAIN e.latest = DOMAIN w.latest \ {k}
          /\ \A x \in DOMAIN w.latest \ {k} : e.latest[x] = w.latest[x]
      BY <2>2 DEF Forget
    <3> QED
      BY <1>1, <3>1 DEF NotNewer
  <2> QED
    BY <1>5, <2>1, <2>2
<1> DEFINE Good == Apart(e) /\ Bounded(e) /\ Owes(e) /\ NotNewer(e, v)
<1>6. ASSUME k \in KeysOf(w.running), e.dirty = w.dirty \cup {k}, e.latest = Seen(w, item),
             e.queue = w.queue, e.deferred = w.deferred, e.retryDue = w.retryDue
      PROVE  Good
  <2>1. Apart(e)
    BY <1>1, <1>6 DEF Apart
  <2>2. Bounded(e)
    BY <1>1, <1>6 DEF Bounded
  <2>3. NotNewer(e, v)
    BY <1>1, <1>4, <1>6, NotNewerIs
  <2>4. e.dirty \subseteq KeysOf(e.running) /\ e.dirty \subseteq DOMAIN e.latest
        /\ KeysOf(e.retryDue) \subseteq e.retried
    BY <1>1, <1>4, <1>6 DEF Owes
  <2>5. ASSUME NEW r \in ItemsOf(e.running), r.key \in e.dirty PROVE r.ver <= e.latest[r.key]
    <3>1. CASE r.key = k
      BY <1>1, <1>4, <1>6, <3>1 DEF AsNewAsReaders
    <3>2. CASE r.key # k
      <4>1. r.key \in w.dirty /\ r \in ItemsOf(w.running)
        BY <1>1, <1>6, <2>5, <3>2
      <4> QED
        BY <1>1, <1>4, <1>6, <3>2, <4>1 DEF Owes
    <3> QED
      BY <3>1, <3>2
  <2>6. Owes(e)
    BY <2>4, <2>5 DEF Owes
  <2> QED
    BY <2>1, <2>2, <2>3, <2>6
<1>7. ASSUME k \notin KeysOf(w.running), e.dirty = w.dirty, KeysOf(e.retryDue) = KeysOf(w.retryDue),
             e.latest \in {Seen(w, item), Forget(w, k)}
      PROVE  Owes(e)
  <2>1. k \notin w.dirty
    BY <1>1, <1>7 DEF Owes
  <2>2. w.dirty \subseteq DOMAIN e.latest /\ \A x \in w.dirty : e.latest[x] = w.latest[x]
    BY <1>1, <1>5, <1>7, <2>1 DEF Owes
  <2> QED
    BY <1>1, <1>7, <2>2 DEF Owes
<1>8. ASSUME k \notin KeysOf(w.running), e.dirty = w.dirty,
             e.latest \in {Seen(w, item), Forget(w, k)}, e.queue = w.queue,
             e.deferred = w.deferred \/ Updates(w.deferred, e.deferred, item),
             e.retryDue = w.retryDue \/ Updates(w.retryDue, e.retryDue, item)
      PROVE  Good
  <2>1. Updates(w.deferred, e.deferred, item) /\ Updates(w.retryDue, e.retryDue, item)
    BY <1>3, <1>8
  <2>2. /\ KeysOf(e.deferred) = KeysOf(w.deferred) /\ Len(e.deferred) = Len(w.deferred)
        /\ Distinct(w.deferred) => Distinct(e.deferred)
        /\ NoNewer(w.deferred, v) => NoNewer(e.deferred, v)
        /\ KeysOf(e.retryDue) = KeysOf(w.retryDue)
        /\ Distinct(w.retryDue) => Distinct(e.retryDue)
        /\ NoNewer(w.retryDue, v) => NoNewer(e.retryDue, v)
    BY <2>1, UpdatesKeep
  <2>3. Apart(e)
    BY <1>1, <1>8, <2>2 DEF Apart
  <2>4. e.deferred # <<>> => w.deferred # <<>>
    <3>1. e.deferred \in Seq(Item)
      BY <1>1, WorkIsTyped
    <3> QED
      BY <2>2, <3>1, EmptySeq
  <2>5. Bounded(e)
    BY <1>1, <1>8, <2>2, <2>4 DEF Bounded
  <2>6. NotNewer(e, v)
    BY <1>1, <1>5, <1>8, <2>2, NotNewerIs
  <2>7. Owes(e)
    BY <1>7, <1>8, <2>2
  <2> QED
    BY <2>3, <2>5, <2>6, <2>7
<1>9. ASSUME k \notin KeysOf(w.running) \cup KeysOf(w.retryDue) \cup KeysOf(w.deferred)
                      \cup KeysOf(w.queue),
             ~(Len(w.queue) >= QueueCapacity), e.dirty = w.dirty, e.latest = Seen(w, item),
             e.queue = Append(w.queue, item), e.deferred = w.deferred, e.retryDue = w.retryDue
      PROVE  Good
  <2>1. w.queue \in Seq(Item) /\ Distinct(w.queue)
    BY <1>1, WorkIsTyped DEF Apart
  <2>2. /\ Distinct(e.queue) /\ Len(e.queue) = Len(w.queue) + 1
        /\ ItemsOf(e.queue) = ItemsOf(w.queue) \cup {item}
        /\ KeysOf(e.queue) = KeysOf(w.queue) \cup {k}
    BY <1>9, <2>1, AppendIs
  <2>3. Apart(e)
    BY <1>1, <1>9, <2>2 DEF Apart
  <2>4. Bounded(e)
    <3>1. Len(w.queue) \in Nat /\ QueueCapacity \in Nat
      BY <1>1, ItemsAre, TurnIngestionAssumption
    <3>2. Len(w.queue) + 1 <= QueueCapacity /\ Len(w.queue) # QueueCapacity
      BY <1>9, <3>1
    <3>3. w.deferred = <<>>
      BY <1>1, <3>2 DEF Bounded
    <3> QED
      BY <1>1, <1>9, <2>2, <3>2, <3>3 DEF Bounded
  <2>5. NoNewer(e.queue, v)
    BY <1>1, <2>2 DEF NoNewer, NotNewer
  <2>6. NotNewer(e, v)
    BY <1>1, <1>5, <1>9, <2>5, NotNewerIs
  <2>7. Owes(e)
    BY <1>7, <1>9
  <2> QED
    BY <2>3, <2>4, <2>6, <2>7
<1>10. Good
  <2> HIDE DEF Good
  <2> QED
    BY <1>6, <1>8, <1>9 DEF EnqueueIs
<1> QED
  BY <1>1, <1>10 DEF GoodFor, Fits

\* The item of a rerun, and the retry of a lookup
RerunOf(w, r) == [key |-> r.key, ver |-> Latest(w, r)]
RetryOf(w, r) == [key |-> r.key, ver |-> Latest(w, r), due |-> FALSE]

\* The item of a rerun is an item, no newer than the binding.
LEMMA RerunsAre ==
    ASSUME NEW w \in Works, NEW r \in Reader
    PROVE  /\ RerunOf(w, r) \in Item /\ RerunOf(w, r).key = r.key /\ RerunOf(w, r).ver = Latest(w, r)
           /\ RetryOf(w, r) \in Retry /\ RetryOf(w, r).key = r.key /\ RetryOf(w, r).ver = Latest(w, r)
           /\ \A v : NotNewer(w, v) /\ r.ver <= v[r.key] => Latest(w, r) <= v[r.key]
<1>1. r.key \in Keys /\ r.ver \in 1 .. MaxVersion
  BY DEF Reader
<1>2. \A k \in DOMAIN w.latest : w.latest[k] \in 1 .. MaxVersion
  BY ItemsAre
<1>3. Latest(w, r) \in 1 .. MaxVersion
  BY <1>1, <1>2 DEF Latest
<1>4. \A v : NotNewer(w, v) /\ r.ver <= v[r.key] => Latest(w, r) <= v[r.key]
  BY DEF NotNewer, Latest
<1>5. RerunOf(w, r) \in Item /\ RerunOf(w, r).key = r.key /\ RerunOf(w, r).ver = Latest(w, r)
  BY <1>1, <1>3 DEF RerunOf, Item
<1>6. RetryOf(w, r) \in Retry /\ RetryOf(w, r).key = r.key /\ RetryOf(w, r).ver = Latest(w, r)
  BY <1>1, <1>3 DEF RetryOf, Retry
<1> QED
  BY <1>4, <1>5, <1>6

\* What a reader that ends changes: the cases of _collect_finished_locked
CollectIs(w, r, c) ==
    LET k == r.key
    IN  /\ c \in Works /\ c.running = Without(w.running, k) /\ c.dirty = w.dirty \ {k}
        /\ \/ /\ Accepting /\ c.retried = w.retried \cup {k}
              /\ c.retryDue = Append(w.retryDue, RetryOf(w, r)) /\ k \notin w.retried
              /\ c.latest = Forget(w, k) /\ c.queue = w.queue /\ c.deferred = w.deferred
           \/ /\ \/ c.retried = w.retried /\ c.retryDue = w.retryDue
                 \/ c.retried = w.retried \ {k} /\ c.retryDue = Without(w.retryDue, k)
              /\ \/ c.latest = Forget(w, k) /\ c.queue = w.queue /\ c.deferred = w.deferred
                 \/ /\ Accepting /\ c.latest = w.latest
                    /\ \/ /\ Len(w.queue) < QueueCapacity
                          /\ c.queue = Append(w.queue, RerunOf(w, r)) /\ c.deferred = w.deferred
                       \/ /\ ~(Len(w.queue) < QueueCapacity)
                          /\ c.queue = w.queue
                          /\ c.deferred = Append(w.deferred, RerunOf(w, r))

\* Collecting one reader that ended leaves a work record.
LEMMA CollectTyped ==
    ASSUME NEW w \in Works, NEW r \in Reader
    PROVE  CollectIs(w, r, CollectOne(w, r))
<1> DEFINE k == r.key
           R == Without(w.running, k)
           D == w.dirty \ {k}
           L == Forget(w, k)
           Y == Without(w.retryDue, k)
           gone == [w EXCEPT !.running = R, !.dirty = D]
           settled == IF r.result \in {"read", "stale"}
                      THEN [gone EXCEPT !.retried = @ \ {k}, !.retryDue = Without(@, k)]
                      ELSE gone
           forgotten == [settled EXCEPT !.latest = L]
           rerun == RerunOf(w, r)
           c == CollectOne(w, r)
<1>1. c = CASE r.result = "lookup_failed" ->
                IF Accepting /\ k \notin w.retried
                THEN [forgotten EXCEPT !.retried = @ \cup {k},
                         !.retryDue = Append(@, RetryOf(w, r))]
                ELSE forgotten
          [] r.result # "lookup_failed" ->
                IF k \notin w.dirty \/ ~Accepting THEN forgotten
                ELSE IF Len(w.queue) < QueueCapacity
                     THEN [settled EXCEPT !.queue = Append(@, rerun)]
                     ELSE [settled EXCEPT !.deferred = Append(@, rerun)]
  BY DEF CollectOne, RetryOf, RerunOf
<1>2. /\ w.queue \in Seq(Item) /\ w.running \in Seq(Reader) /\ w.dirty \in SUBSET Keys
      /\ w.latest \in Latests /\ w.deferred \in Seq(Item) /\ w.retryDue \in Seq(Retry)
      /\ w.retried \in SUBSET Keys
  BY WorkIsTyped
<1>3. k \in Keys /\ rerun \in Item /\ RetryOf(w, r) \in Retry
  BY RerunsAre DEF Reader
<1>4. L \in Latests
  <2>1. rerun.key = k
    BY RerunsAre
  <2> HIDE DEF k, rerun
  <2> QED
    BY <1>3, <2>1, LatestsAre DEF L
<1>5. R \in Seq(Reader) /\ Y \in Seq(Retry) /\ D \in SUBSET Keys
  BY <1>2, WithoutIsTyped
<1>6. Works = [queue : Seq(Item), running : Seq(Reader), dirty : SUBSET Keys,
               latest : Latests, deferred : Seq(Item), retryDue : Seq(Retry),
               retried : SUBSET Keys]
  BY DEF Works, Latests
<1> DEFINE q == Append(w.queue, rerun)
           d == Append(w.deferred, rerun)
           y == Append(w.retryDue, RetryOf(w, r))
<1>7. q \in Seq(Item) /\ d \in Seq(Item) /\ y \in Seq(Retry)
  BY <1>2, <1>3
<1> DEFINE Base(u) == /\ u \in Works /\ u.running = R /\ u.dirty = D /\ u.queue = w.queue
                      /\ u.deferred = w.deferred
           Kept(u) == \/ u.retried = w.retried /\ u.retryDue = w.retryDue
                      \/ u.retried = w.retried \ {k} /\ u.retryDue = Y
<1> HIDE DEF k, R, D, L, Y, rerun
<1>8. Base(gone) /\ gone.retried = w.retried /\ gone.retryDue = w.retryDue /\ gone.latest = w.latest
  BY <1>2, <1>5, <1>6
<1>9. Base(settled) /\ Kept(settled) /\ settled.latest = w.latest
  <2>1. CASE r.result \in {"read", "stale"}
    <3>1. settled = [gone EXCEPT !.retried = w.retried \ {k}, !.retryDue = Y]
      BY <1>8, <2>1 DEF Y
    <3> HIDE DEF gone, settled
    <3> QED
      BY <1>2, <1>5, <1>6, <1>8, <3>1
  <2>2. CASE r.result \notin {"read", "stale"}
    <3>1. settled = gone
      BY <2>2
    <3> HIDE DEF gone, settled
    <3> QED
      BY <1>8, <3>1
  <2> QED
    BY <2>1, <2>2
<1>10. r.result = "lookup_failed" => settled = gone
  OBVIOUS
<1> HIDE DEF gone, settled
<1>11. Base(forgotten) /\ Kept(forgotten) /\ forgotten.latest = L
       /\ forgotten.retried = settled.retried /\ forgotten.retryDue = settled.retryDue
  BY <1>2, <1>4, <1>6, <1>9
<1> HIDE DEF forgotten, c
<1>12. CASE r.result = "lookup_failed" /\ Accepting /\ k \notin w.retried
  <2>1. forgotten.retried = w.retried /\ forgotten.retryDue = w.retryDue
    BY <1>8, <1>10, <1>11, <1>12
  <2>2. c = [forgotten EXCEPT !.retried = w.retried \cup {k}, !.retryDue = y]
    BY <1>1, <1>12, <2>1
  <2> HIDE DEF y
  <2>3. Base(c) /\ c.latest = L /\ c.retried = w.retried \cup {k} /\ c.retryDue = y
    BY <1>2, <1>3, <1>6, <1>7, <1>11, <2>2
  <2> QED
    BY <1>12, <2>3 DEF CollectIs, c, k, R, D, L, y
<1>13. ASSUME c = forgotten PROVE CollectIs(w, r, c)
  BY <1>11, <1>13 DEF CollectIs, k, R, D, L, Y
<1>14. CASE Accepting /\ Len(w.queue) < QueueCapacity /\ c = [settled EXCEPT !.queue = Append(@, rerun)]
  <2>1. c = [settled EXCEPT !.queue = q]
    BY <1>9, <1>14
  <2> HIDE DEF q
  <2>2. /\ c \in Works /\ c.running = R /\ c.dirty = D /\ c.queue = q
        /\ c.deferred = w.deferred /\ Kept(c) /\ c.latest = w.latest
    BY <1>2, <1>6, <1>7, <1>9, <2>1
  <2> QED
    BY <1>14, <2>2 DEF CollectIs, c, k, R, D, Y, rerun, q
<1>15. CASE Accepting /\ ~(Len(w.queue) < QueueCapacity) /\ c = [settled EXCEPT !.deferred = Append(@, rerun)]
  <2>1. c = [settled EXCEPT !.deferred = d]
    BY <1>9, <1>15
  <2> HIDE DEF d
  <2>2. /\ c \in Works /\ c.running = R /\ c.dirty = D /\ c.queue = w.queue
        /\ c.deferred = d /\ Kept(c) /\ c.latest = w.latest
    BY <1>2, <1>6, <1>7, <1>9, <2>1
  <2> QED
    BY <1>15, <2>2 DEF CollectIs, c, k, R, D, Y, rerun, d
<1>16. \/ r.result = "lookup_failed" /\ Accepting /\ k \notin w.retried
       \/ c = forgotten
       \/ Accepting /\ Len(w.queue) < QueueCapacity /\ c = [settled EXCEPT !.queue = Append(@, rerun)]
       \/ Accepting /\ ~(Len(w.queue) < QueueCapacity)
          /\ c = [settled EXCEPT !.deferred = Append(@, rerun)]
  <2>1. CASE r.result = "lookup_failed"
    BY <1>1, <2>1
  <2>2. CASE r.result # "lookup_failed"
    BY <1>1, <2>2
  <2> QED
    BY <2>1, <2>2
<1>17. CollectIs(w, r, c)
  BY <1>12, <1>13, <1>14, <1>15, <1>16 DEF c
<1> QED
  BY <1>17 DEF c

\* The function with no argument is the empty sequence.
LEMMA EmptyFunction ==
    ASSUME NEW f, f = [x \in DOMAIN f |-> f[x]], DOMAIN f = {}
    PROVE  f = <<>>
<1>1. f = [x \in 1 .. 0 |-> f[x]]
  OBVIOUS
<1>2. [x \in 1 .. 0 |-> f[x]] \in Seq({0})
  <2> DEFINE e(i) == f[i]
  <2>1. \A i \in 1 .. 0 : e(i) \in {0}
    OBVIOUS
  <2>2. 0 \in Nat
    OBVIOUS
  <2> HIDE DEF e
  <2>3. [i \in 1 .. 0 |-> e(i)] \in Seq({0})
    BY <2>1, <2>2, IsASeq
  <2> QED
    BY <2>3 DEF e
<1>3. f \in Seq({0}) /\ DOMAIN f = 1 .. 0
  BY <1>1, <1>2
<1> QED
  BY <1>3, EmptySeq

\* A place in the pool is given up, or taken over by a deferred rerun.
LEMMA OneLess ==
    ASSUME NEW a \in Nat, NEW b \in Nat, NEW d \in Nat, NEW m \in Nat, a = b - 1, b + d <= m
    PROVE  a + d <= m /\ a + (d + 1) <= m
OBVIOUS

\* Collecting one reader that ended keeps what the record promises: the slot it frees
\* pays for the rerun it may defer.
LEMMA CollectKeeps ==
    ASSUME NEW w, NEW v, NEW r \in ItemsOf(w.running), NEW c, GoodFor(w, v), CollectIs(w, r, c)
    PROVE  /\ GoodFor(c, v)
           /\ ItemsOf(c.running) = {x \in ItemsOf(w.running) : x.key # r.key}
           /\ ~Accepting /\ Vacant(w) => Vacant(c)
<1> DEFINE k == r.key
<1>1. w \in Works /\ c \in Works /\ Apart(w) /\ Bounded(w) /\ Owes(w) /\ NotNewer(w, v)
  BY DEF GoodFor, Fits, CollectIs
<1>2. /\ w.queue \in Seq(Item) /\ w.running \in Seq(Reader) /\ w.deferred \in Seq(Item)
      /\ w.retryDue \in Seq(Retry) /\ c.retryDue \in Seq(Retry)
      /\ Distinct(w.queue) /\ Distinct(w.running) /\ Distinct(w.deferred) /\ Distinct(w.retryDue)
  BY <1>1, WorkIsTyped DEF Apart
<1>3. r \in Reader /\ k \in KeysOf(w.running) /\ k \in Keys
  <2>1. PICK i \in DOMAIN w.running : r = w.running[i]
    BY DEF ItemsOf
  <2>2. r \in Reader
    BY <1>2, <2>1
  <2>3. k \in KeysOf(w.running)
    BY <2>1 DEF KeysOf
  <2> QED
    BY <2>2, <2>3 DEF Reader
<1>4. /\ c.running = Without(w.running, k) /\ c.dirty = w.dirty \ {k}
  BY DEF CollectIs
<1>5. /\ Distinct(c.running) /\ Len(c.running) = Len(w.running) - 1
      /\ ItemsOf(c.running) = {x \in ItemsOf(w.running) : x.key # k}
      /\ KeysOf(c.running) = KeysOf(w.running) \ {k}
  <2> HIDE DEF k
  <2> QED
    BY <1>2, <1>3, <1>4, WithoutIs
<1>6. /\ Len(w.queue) \in Nat /\ Len(w.running) \in Nat /\ Len(w.deferred) \in Nat
      /\ QueueCapacity \in Nat /\ MaxWorkers \in Nat
  BY <1>1, ItemsAre, TurnIngestionAssumption
<1>7. Len(c.running) = Len(w.running) - 1 /\ Len(c.running) \in Nat /\ Len(c.deferred) \in Nat
  BY <1>1, <1>5, ItemsAre
<1>8. k \notin KeysOf(w.queue) \cup KeysOf(w.deferred) \cup KeysOf(w.retryDue)
  BY <1>1, <1>3 DEF Apart
<1>9. /\ RerunOf(w, r) \in Item /\ RerunOf(w, r).key = k /\ RerunOf(w, r).ver = Latest(w, r)
      /\ RetryOf(w, r) \in Retry /\ RetryOf(w, r).key = k /\ RetryOf(w, r).ver = Latest(w, r)
      /\ Latest(w, r) <= v[k]
  <2>1. r.ver <= v[k]
    BY <1>1 DEF NotNewer
  <2> QED
    BY <1>1, <1>3, <2>1, RerunsAre
\* what waits for a retry
<1>10. ASSUME c.retried = w.retried \cup {k}, c.retryDue = Append(w.retryDue, RetryOf(w, r))
      PROVE  /\ Distinct(c.retryDue) /\ NoNewer(c.retryDue, v) /\ KeysOf(c.retryDue) \subseteq c.retried
             /\ KeysOf(c.retryDue) \subseteq KeysOf(w.retryDue) \cup {k}
  <2>1. /\ Distinct(c.retryDue) /\ ItemsOf(c.retryDue) = ItemsOf(w.retryDue) \cup {RetryOf(w, r)}
        /\ KeysOf(c.retryDue) = KeysOf(w.retryDue) \cup {k}
    BY <1>2, <1>8, <1>9, <1>10, AppendIs
  <2>2. NoNewer(w.retryDue, v)
    BY <1>1, NotNewerIs
  <2> QED
    BY <1>1, <1>9, <1>10, <2>1, <2>2 DEF NoNewer, Owes
<1>11. ASSUME \/ c.retried = w.retried /\ c.retryDue = w.retryDue
              \/ c.retried = w.retried \ {k} /\ c.retryDue = Without(w.retryDue, k)
       PROVE  /\ Distinct(c.retryDue) /\ NoNewer(c.retryDue, v)
              /\ KeysOf(c.retryDue) \subseteq c.retried
              /\ KeysOf(c.retryDue) \subseteq KeysOf(w.retryDue)
              /\ w.retryDue = <<>> => c.retryDue = <<>>
  <2>1. NoNewer(w.retryDue, v) /\ KeysOf(w.retryDue) \subseteq w.retried
    BY <1>1, NotNewerIs DEF Owes
  <2>2. CASE c.retried = w.retried /\ c.retryDue = w.retryDue
    BY <1>2, <2>1, <2>2
  <2>3. CASE c.retried = w.retried \ {k} /\ c.retryDue = Without(w.retryDue, k)
    <3>1. /\ Distinct(c.retryDue)
          /\ Len(c.retryDue) = IF k \in KeysOf(w.retryDue) THEN Len(w.retryDue) - 1 ELSE Len(w.retryDue)
          /\ ItemsOf(c.retryDue) = {x \in ItemsOf(w.retryDue) : x.key # k}
          /\ KeysOf(c.retryDue) = KeysOf(w.retryDue) \ {k}
      <4> DEFINE y == w.retryDue
      <4> HIDE DEF k
      <4>1. y \in Seq(Retry) /\ Distinct(y) /\ c.retryDue = Without(y, k)
        BY <1>2, <2>3
      <4> HIDE DEF y
      <4>2. /\ Distinct(Without(y, k))
            /\ Len(Without(y, k)) = IF k \in KeysOf(y) THEN Len(y) - 1 ELSE Len(y)
            /\ ItemsOf(Without(y, k)) = {x \in ItemsOf(y) : x.key # k}
            /\ KeysOf(Without(y, k)) = KeysOf(y) \ {k}
        BY <4>1, WithoutIs
      <4> QED
        BY <4>1, <4>2 DEF y
    <3>2. w.retryDue = <<>> => c.retryDue = <<>>
      <4>1. w.retryDue = <<>> => Len(c.retryDue) = 0
        BY <1>8, <3>1, EmptySeq
      <4> QED
        BY <1>2, <4>1, EmptySeq
    <3> QED
      BY <2>1, <2>3, <3>1, <3>2 DEF NoNewer
  <2> QED
    BY <1>11, <2>2, <2>3
\* the rest
<1>12. NoNewer(w.queue, v) /\ NoNewer(w.deferred, v) /\ NoNewer(c.running, v)
  BY <1>1, <1>5, NotNewerIs DEF NoNewer
<1>13. ASSUME c.latest \in {w.latest, Forget(w, k)}
       PROVE  /\ \A x \in DOMAIN c.latest : c.latest[x] <= v[x]
              /\ DOMAIN w.latest \ {k} \subseteq DOMAIN c.latest
              /\ \A x \in DOMAIN w.latest \ {k} : c.latest[x] = w.latest[x]
  <2>1. CASE c.latest = w.latest
    BY <1>1, <2>1 DEF NotNewer
  <2>2. CASE c.latest = Forget(w, k)
    <3>1. /\ DOMAIN c.latest = DOMAIN w.latest \ {k}
          /\ \A x \in DOMAIN w.latest \ {k} : c.latest[x] = w.latest[x]
      BY <2>2 DEF Forget
    <3> QED
      BY <1>1, <3>1 DEF NotNewer
  <2> QED
    BY <1>13, <2>1, <2>2
<1>14. ASSUME c.latest \in {w.latest, Forget(w, k)}, KeysOf(c.retryDue) \subseteq c.retried
       PROVE  Owes(c)
  <2>1. c.dirty \subseteq KeysOf(c.running) /\ c.dirty \subseteq DOMAIN c.latest
    BY <1>1, <1>4, <1>5, <1>13, <1>14 DEF Owes
  <2>2. ASSUME NEW x \in ItemsOf(c.running), x.key \in c.dirty PROVE x.ver <= c.latest[x.key]
    <3>1. x \in ItemsOf(w.running) /\ x.key \in w.dirty /\ x.key # k
      BY <1>4, <1>5, <2>2
    <3>2. x.ver <= w.latest[x.key] /\ x.key \in DOMAIN w.latest
      BY <1>1, <3>1 DEF Owes
    <3> QED
      BY <1>13, <1>14, <3>1, <3>2
  <2> QED
    BY <1>14, <2>1, <2>2 DEF Owes
\* the queue and the reruns that wait for it
<1>15. ASSUME c.queue = w.queue, c.deferred = w.deferred
       PROVE  /\ Distinct(c.queue) /\ Distinct(c.deferred) /\ Bounded(c)
              /\ NoNewer(c.queue, v) /\ NoNewer(c.deferred, v)
              /\ KeysOf(c.queue) \subseteq KeysOf(w.queue) \cup {k}
              /\ KeysOf(c.deferred) \subseteq KeysOf(w.deferred) \cup {k}
              /\ KeysOf(c.queue) \cap KeysOf(c.deferred) = {}
  <2>1. Len(c.running) + Len(c.deferred) <= MaxWorkers
    <3>1. Len(w.running) + Len(w.deferred) <= MaxWorkers
      BY <1>1 DEF Bounded
    <3>2. Len(c.running) + Len(w.deferred) <= MaxWorkers
      BY <1>7, <1>6, <3>1, OneLess
    <3> QED
      BY <1>15, <3>2
  <2>2. Bounded(c)
    BY <1>1, <1>15, <2>1 DEF Bounded
  <2> QED
    BY <1>1, <1>2, <1>12, <1>15, <2>2 DEF Apart
<1>16. ASSUME Len(w.queue) < QueueCapacity, c.queue = Append(w.queue, RerunOf(w, r)),
              c.deferred = w.deferred
       PROVE  /\ Distinct(c.queue) /\ Distinct(c.deferred) /\ Bounded(c)
              /\ NoNewer(c.queue, v) /\ NoNewer(c.deferred, v)
              /\ KeysOf(c.queue) \subseteq KeysOf(w.queue) \cup {k}
              /\ KeysOf(c.deferred) \subseteq KeysOf(w.deferred)
              /\ KeysOf(c.queue) \cap KeysOf(c.deferred) = {}
  <2>1. /\ Distinct(c.queue) /\ Len(c.queue) = Len(w.queue) + 1
        /\ ItemsOf(c.queue) = ItemsOf(w.queue) \cup {RerunOf(w, r)}
        /\ KeysOf(c.queue) = KeysOf(w.queue) \cup {k}
    BY <1>2, <1>8, <1>9, <1>16, AppendIs
  <2>2. w.deferred = <<>> /\ Len(w.queue) + 1 <= QueueCapacity
    BY <1>1, <1>6, <1>16 DEF Bounded
  <2>3. Bounded(c)
    BY <1>1, <1>5, <1>6, <1>16, <2>1, <2>2 DEF Bounded
  <2>4. NoNewer(c.queue, v)
    BY <1>9, <1>12, <2>1 DEF NoNewer
  <2> QED
    BY <1>1, <1>2, <1>8, <1>12, <1>16, <2>1, <2>3, <2>4 DEF Apart
<1>17. ASSUME ~(Len(w.queue) < QueueCapacity), c.queue = w.queue,
              c.deferred = Append(w.deferred, RerunOf(w, r))
       PROVE  /\ Distinct(c.queue) /\ Distinct(c.deferred) /\ Bounded(c)
              /\ NoNewer(c.queue, v) /\ NoNewer(c.deferred, v)
              /\ KeysOf(c.queue) \subseteq KeysOf(w.queue)
              /\ KeysOf(c.deferred) \subseteq KeysOf(w.deferred) \cup {k}
              /\ KeysOf(c.queue) \cap KeysOf(c.deferred) = {}
  <2>1. /\ Distinct(c.deferred) /\ Len(c.deferred) = Len(w.deferred) + 1
        /\ ItemsOf(c.deferred) = ItemsOf(w.deferred) \cup {RerunOf(w, r)}
        /\ KeysOf(c.deferred) = KeysOf(w.deferred) \cup {k}
    BY <1>2, <1>8, <1>9, <1>17, AppendIs
  <2>2. Len(w.queue) = QueueCapacity
    BY <1>1, <1>6, <1>17 DEF Bounded
  <2>3. Len(c.running) + Len(c.deferred) <= MaxWorkers
    <3>1. Len(w.running) + Len(w.deferred) <= MaxWorkers
      BY <1>1 DEF Bounded
    <3>2. Len(c.running) + (Len(w.deferred) + 1) <= MaxWorkers
      BY <1>7, <1>6, <3>1, OneLess
    <3> QED
      BY <2>1, <3>2
  <2>4. Len(c.queue) = QueueCapacity /\ Len(c.queue) <= QueueCapacity
    BY <1>6, <1>17, <2>2
  <2>5. Bounded(c)
    BY <2>3, <2>4 DEF Bounded
  <2>6. NoNewer(c.deferred, v)
    BY <1>9, <1>12, <2>1 DEF NoNewer
  <2> QED
    BY <1>1, <1>2, <1>8, <1>12, <1>17, <2>1, <2>5, <2>6 DEF Apart
<1>18. ASSUME Distinct(c.queue), Distinct(c.deferred), Distinct(c.retryDue),
              KeysOf(c.queue) \subseteq KeysOf(w.queue) \cup {k},
              KeysOf(c.deferred) \subseteq KeysOf(w.deferred) \cup {k},
              KeysOf(c.retryDue) \subseteq KeysOf(w.retryDue) \cup {k},
              KeysOf(c.queue) \cap KeysOf(c.deferred) = {},
              k \notin KeysOf(c.retryDue) \/ k \notin KeysOf(c.queue) \cup KeysOf(c.deferred)
       PROVE  Apart(c)
  BY <1>1, <1>5, <1>18 DEF Apart
<1>19. GoodFor(c, v)
  <2>1. CASE /\ c.retried = w.retried \cup {k} /\ c.retryDue = Append(w.retryDue, RetryOf(w, r))
             /\ c.latest = Forget(w, k) /\ c.queue = w.queue /\ c.deferred = w.deferred
    <3>1. Apart(c)
      BY <1>8, <1>10, <1>15, <1>18, <2>1
    <3>2. Owes(c)
      BY <1>10, <1>14, <2>1
    <3>3. NotNewer(c, v)
      BY <1>10, <1>12, <1>13, <2>1, NotNewerIs
    <3> QED
      BY <1>1, <1>15, <2>1, <3>1, <3>2, <3>3 DEF GoodFor, Fits
  <2>2. CASE /\ \/ c.retried = w.retried /\ c.retryDue = w.retryDue
                \/ c.retried = w.retried \ {k} /\ c.retryDue = Without(w.retryDue, k)
             /\ \/ c.latest = Forget(w, k) /\ c.queue = w.queue /\ c.deferred = w.deferred
                \/ /\ c.latest = w.latest
                   /\ \/ /\ Len(w.queue) < QueueCapacity
                         /\ c.queue = Append(w.queue, RerunOf(w, r)) /\ c.deferred = w.deferred
                      \/ /\ ~(Len(w.queue) < QueueCapacity)
                         /\ c.queue = w.queue
                         /\ c.deferred = Append(w.deferred, RerunOf(w, r))
    <3>1. /\ Distinct(c.retryDue) /\ NoNewer(c.retryDue, v)
          /\ KeysOf(c.retryDue) \subseteq c.retried
          /\ KeysOf(c.retryDue) \subseteq KeysOf(w.retryDue)
      BY <1>11, <2>2
    <3>2. /\ Distinct(c.queue) /\ Distinct(c.deferred) /\ Bounded(c)
          /\ NoNewer(c.queue, v) /\ NoNewer(c.deferred, v)
          /\ KeysOf(c.queue) \subseteq KeysOf(w.queue) \cup {k}
          /\ KeysOf(c.deferred) \subseteq KeysOf(w.deferred) \cup {k}
          /\ KeysOf(c.queue) \cap KeysOf(c.deferred) = {}
      BY <1>15, <1>16, <1>17, <2>2
    <3>3. c.latest \in {w.latest, Forget(w, k)}
      BY <2>2
    <3>4. Apart(c)
      BY <1>8, <1>18, <3>1, <3>2
    <3>5. Owes(c)
      BY <1>14, <3>1, <3>3
    <3>6. NotNewer(c, v)
      BY <1>12, <1>13, <3>1, <3>2, <3>3, NotNewerIs
    <3> QED
      BY <1>1, <3>2, <3>4, <3>5, <3>6 DEF GoodFor, Fits
  <2> QED
    BY <2>1, <2>2 DEF CollectIs
<1>20. ASSUME ~Accepting, Vacant(w) PROVE Vacant(c)
  <2>1. /\ \/ c.retried = w.retried /\ c.retryDue = w.retryDue
           \/ c.retried = w.retried \ {k} /\ c.retryDue = Without(w.retryDue, k)
        /\ c.latest = Forget(w, k) /\ c.queue = w.queue /\ c.deferred = w.deferred
    BY <1>20 DEF CollectIs
  <2>2. c.retryDue = <<>> /\ c.retried = {}
    BY <1>11, <1>20, <2>1 DEF Vacant
  <2>3. c.latest = <<>>
    <3>1. DOMAIN w.latest = {}
      BY <1>20 DEF Vacant
    <3>2. DOMAIN c.latest = {} /\ c.latest = [x \in DOMAIN c.latest |-> c.latest[x]]
      BY <2>1, <3>1 DEF Forget
    <3> QED
      BY <3>2, EmptyFunction
  <2> QED
    BY <1>4, <1>20, <2>1, <2>2, <2>3 DEF Vacant
<1> QED
  BY <1>5, <1>19, <1>20

\* How many reruns a queue of length q has room for, of d
RoomFor(q, d) ==
    IF Accepting /\ QueueCapacity - q > 0
    THEN IF QueueCapacity - q < d THEN QueueCapacity - q ELSE d
    ELSE 0

\* How many deferred reruns are promoted
LEMMA RoomIs ==
    ASSUME NEW q \in Nat, NEW d \in Nat, q <= QueueCapacity
    PROVE  /\ RoomFor(q, d) \in 0 .. d /\ q + RoomFor(q, d) <= QueueCapacity
           /\ ~Accepting => RoomFor(q, d) = 0
           /\ Accepting => RoomFor(q, d) = d \/ q + RoomFor(q, d) = QueueCapacity
           /\ Accepting /\ q < QueueCapacity /\ d # 0 => RoomFor(q, d) >= 1
<1>1. QueueCapacity \in Nat
  BY TurnIngestionAssumption
<1>2. CASE Accepting
  BY <1>1, <1>2 DEF RoomFor
<1>3. CASE ~Accepting
  BY <1>1, <1>3 DEF RoomFor
<1> QED
  BY <1>2, <1>3

\* What the promotion of reruns keeps, of any record that has no more queued than fits.
LEMMA PromoteIs ==
    ASSUME NEW w \in Works, NEW v, NEW p, p = PromoteDeferredLocked(w),
           Apart(w), Owes(w), NotNewer(w, v), Len(w.queue) <= QueueCapacity
    PROVE  LET n == RoomFor(Len(w.queue), Len(w.deferred))
           IN  /\ p \in Works /\ Apart(p) /\ Owes(p) /\ NotNewer(p, v)
               /\ p.running = w.running /\ p.dirty = w.dirty /\ p.latest = w.latest
               /\ p.retryDue = w.retryDue /\ p.retried = w.retried
               /\ Len(p.queue) = Len(w.queue) + n /\ Len(p.deferred) = Len(w.deferred) - n
               /\ KeysOf(p.queue) \cup KeysOf(p.deferred) \subseteq KeysOf(w.queue) \cup KeysOf(w.deferred)
<1> DEFINE n == RoomFor(Len(w.queue), Len(w.deferred))
           a == w.queue \o SubSeq(w.deferred, 1, n)
           b == SubSeq(w.deferred, n + 1, Len(w.deferred))
<1>1. p = [w EXCEPT !.queue = a, !.deferred = b]
  BY DEF PromoteDeferredLocked, RoomFor
<1>2. /\ w.queue \in Seq(Item) /\ w.running \in Seq(Reader) /\ w.dirty \in SUBSET Keys
      /\ w.latest \in Latests /\ w.deferred \in Seq(Item) /\ w.retryDue \in Seq(Retry)
      /\ w.retried \in SUBSET Keys
  BY WorkIsTyped
<1>3. Len(w.queue) \in Nat /\ Len(w.deferred) \in Nat
  BY ItemsAre
<1>4. n \in 0 .. Len(w.deferred)
  <2> HIDE DEF n
  <2> QED
    BY <1>3, RoomIs DEF n
<1> HIDE DEF n
<1>5. /\ Distinct(w.queue) /\ Distinct(w.deferred) /\ KeysOf(w.queue) \cap KeysOf(w.deferred) = {}
  BY DEF Apart
<1>6. /\ a \in Seq(Item) /\ b \in Seq(Item) /\ Distinct(a) /\ Distinct(b)
      /\ Len(a) = Len(w.queue) + n /\ Len(b) = Len(w.deferred) - n
      /\ ItemsOf(a) \cup ItemsOf(b) \subseteq ItemsOf(w.queue) \cup ItemsOf(w.deferred)
      /\ KeysOf(a) \cap KeysOf(b) = {}
      /\ KeysOf(a) \cup KeysOf(b) \subseteq KeysOf(w.queue) \cup KeysOf(w.deferred)
  <2> DEFINE q == w.queue
             d == w.deferred
  <2>1. a = q \o SubSeq(d, 1, n) /\ b = SubSeq(d, n + 1, Len(d))
    OBVIOUS
  <2>2. q \in Seq(Item) /\ d \in Seq(Item) /\ n \in 0 .. Len(d)
        /\ Distinct(q) /\ Distinct(d) /\ KeysOf(q) \cap KeysOf(d) = {}
    BY <1>2, <1>4, <1>5
  <2> HIDE DEF a, b, q, d
  <2>3. Moved(Item, q, d, n, a, b)
    BY <2>1, <2>2, MoveIs
  <2> QED
    BY <2>3 DEF Moved, q, d
<1>7. Works = [queue : Seq(Item), running : Seq(Reader), dirty : SUBSET Keys,
               latest : Latests, deferred : Seq(Item), retryDue : Seq(Retry),
               retried : SUBSET Keys]
  BY DEF Works, Latests
<1> HIDE DEF a, b
<1>8. /\ p \in Works /\ p.queue = a /\ p.deferred = b
      /\ p.running = w.running /\ p.dirty = w.dirty /\ p.latest = w.latest
      /\ p.retryDue = w.retryDue /\ p.retried = w.retried
  BY <1>1, <1>2, <1>6, <1>7
<1>9. Apart(p)
  BY <1>6, <1>8 DEF Apart
<1>10. Owes(p)
  BY <1>8 DEF Owes
<1>11. NotNewer(p, v)
  <2>1. NoNewer(w.queue, v) /\ NoNewer(w.deferred, v) /\ NoNewer(w.running, v)
        /\ NoNewer(w.retryDue, v) /\ \A k \in DOMAIN w.latest : w.latest[k] <= v[k]
    BY NotNewerIs
  <2>2. NoNewer(a, v) /\ NoNewer(b, v)
    BY <1>6, <2>1 DEF NoNewer
  <2> QED
    BY <1>8, <2>1, <2>2, NotNewerIs
<1> QED
  BY <1>6, <1>8, <1>9, <1>10, <1>11 DEF n

\* Nothing is left of an empty sequence, and nothing else has length 0.
LEMMA LengthZero ==
    ASSUME NEW T, NEW s \in Seq(T)
    PROVE  s = <<>> <=> Len(s) = 0
BY EmptySeq

\* A sequence of a work record is empty when its length is zero.
LEMMA SeqsOf ==
    ASSUME NEW w \in Works
    PROVE  /\ w.queue = <<>> <=> Len(w.queue) = 0
           /\ w.running = <<>> <=> Len(w.running) = 0
           /\ w.deferred = <<>> <=> Len(w.deferred) = 0
           /\ w.retryDue = <<>> <=> Len(w.retryDue) = 0
BY WorkIsTyped, LengthZero

\* _promote_deferred_locked keeps what the record promises.
LEMMA PromoteKeeps ==
    ASSUME NEW w, NEW v, NEW p, p = PromoteDeferredLocked(w), GoodFor(w, v)
    PROVE  GoodFor(p, v) /\ p.running = w.running /\ (~Accepting /\ Vacant(w) => Vacant(p))
<1>1. w \in Works /\ Apart(w) /\ Bounded(w) /\ Owes(w) /\ NotNewer(w, v)
  BY DEF GoodFor, Fits
<1> DEFINE q == Len(w.queue)
           d == Len(w.deferred)
           n == RoomFor(q, d)
<1>2. q \in Nat /\ d \in Nat /\ q <= QueueCapacity /\ QueueCapacity \in Nat
      /\ Len(w.running) + d <= MaxWorkers /\ (d # 0 => q = QueueCapacity)
      /\ Len(w.running) \in Nat /\ MaxWorkers \in Nat
  BY <1>1, ItemsAre, SeqsOf, TurnIngestionAssumption DEF Bounded
<1>3. /\ p \in Works /\ Apart(p) /\ Owes(p) /\ NotNewer(p, v)
      /\ p.running = w.running /\ p.dirty = w.dirty /\ p.latest = w.latest
      /\ p.retryDue = w.retryDue /\ p.retried = w.retried
      /\ Len(p.queue) = q + n /\ Len(p.deferred) = d - n
  BY <1>1, <1>2, PromoteIs
<1>4. /\ n \in 0 .. d /\ q + n <= QueueCapacity /\ (~Accepting => n = 0)
      /\ Accepting => n = d \/ q + n = QueueCapacity
  <2> HIDE DEF q, d
  <2> QED
    BY <1>2, RoomIs
<1> HIDE DEF q, d, n
<1>5. Len(p.running) + Len(p.deferred) <= MaxWorkers
  <2>1. Len(w.running) + (d - n) <= MaxWorkers
    BY <1>2, <1>4
  <2> QED
    BY <1>3, <2>1
<1>6. d - n # 0 => q + n = QueueCapacity
  BY <1>2, <1>4
<1>7. p.deferred # <<>> => Len(p.queue) = QueueCapacity
  BY <1>3, <1>6, SeqsOf
<1>8. Bounded(p)
  BY <1>3, <1>4, <1>5, <1>7 DEF Bounded
<1>9. ASSUME ~Accepting, Vacant(w) PROVE Vacant(p)
  <2>1. q = 0 /\ d = 0 /\ n = 0
    BY <1>1, <1>4, <1>9, SeqsOf DEF Vacant, q, d
  <2>2. Len(p.queue) = 0 /\ Len(p.deferred) = 0
    BY <1>3, <2>1
  <2> QED
    BY <1>3, <1>9, <2>2, SeqsOf DEF Vacant
<1> QED
  BY <1>3, <1>8, <1>9 DEF GoodFor, Fits

ReaderOf(item) == [key |-> item.key, ver |-> item.ver, at |-> "submitted", result |-> "none"]

\* The counts of a dispatch: q are queued, d deferred, g running before it.
LEMMA DispatchCounts ==
    ASSUME NEW q \in Nat \ {0}, NEW d \in Nat, NEW g \in Nat, NEW n \in 0 .. d,
           q <= QueueCapacity, g + d <= MaxWorkers, g < MaxWorkers, d # 0 => q = QueueCapacity,
           n = RoomFor(q - 1, d), Accepting
    PROVE  /\ q - 1 + n <= QueueCapacity /\ (g + 1) + (d - n) <= MaxWorkers
           /\ d - n # 0 => q - 1 + n = QueueCapacity
<1>1. QueueCapacity \in Nat /\ MaxWorkers \in Nat
  BY TurnIngestionAssumption
<1> DEFINE p == q - 1
<1>2. p \in Nat /\ p <= QueueCapacity /\ p < QueueCapacity
  BY <1>1
<1> HIDE DEF p
<1>3. /\ RoomFor(p, d) \in 0 .. d /\ p + RoomFor(p, d) <= QueueCapacity
      /\ Accepting => RoomFor(p, d) = d \/ p + RoomFor(p, d) = QueueCapacity
      /\ Accepting /\ p < QueueCapacity /\ d # 0 => RoomFor(p, d) >= 1
  BY <1>2, RoomIs
<1>4. n = RoomFor(p, d)
  BY DEF p
<1>5. /\ p + n <= QueueCapacity /\ (n = d \/ p + n = QueueCapacity) /\ (d # 0 => n >= 1)
  BY <1>2, <1>3, <1>4
<1>6. (g + 1) + (d - n) <= MaxWorkers
  <2>1. CASE d = 0
    BY <1>1, <2>1
  <2>2. CASE d # 0
    BY <1>1, <1>5, <2>2
  <2> QED
    BY <2>1, <2>2
<1>7. d - n # 0 => p + n = QueueCapacity
  BY <1>5
<1> QED
  BY <1>5, <1>6, <1>7 DEF p

\* One dispatch keeps what the record promises.
LEMMA DispatchOneKeeps ==
    ASSUME NEW w, NEW v, NEW e, e = DispatchOne(w), GoodFor(w, v)
    PROVE  /\ GoodFor(e, v)
           /\ Accepting /\ w.queue # <<>> /\ Len(w.running) < MaxWorkers
                 => Len(e.running) = Len(w.running) + 1
           /\ ~(Accepting /\ w.queue # <<>> /\ Len(w.running) < MaxWorkers) => e = w
<1> DEFINE Some == Accepting /\ w.queue # <<>> /\ Len(w.running) < MaxWorkers
<1>1. CASE ~Some
  BY <1>1 DEF DispatchOne
<1>2. CASE Some
  <2> DEFINE item == Head(w.queue)
             k == item.key
             t == Tail(w.queue)
             y == Without(w.retryDue, k)
             taken == [w EXCEPT !.queue = t, !.retryDue = y]
             p == PromoteDeferredLocked(taken)
             g == Append(p.running, ReaderOf(item))
  <2>1. e = [p EXCEPT !.running = g]
    BY <1>2 DEF DispatchOne, ReaderOf
  <2>2. w \in Works /\ Apart(w) /\ Bounded(w) /\ Owes(w) /\ NotNewer(w, v)
    BY DEF GoodFor, Fits
  <2>3. /\ w.queue \in Seq(Item) /\ w.running \in Seq(Reader) /\ w.dirty \in SUBSET Keys
        /\ w.latest \in Latests /\ w.deferred \in Seq(Item) /\ w.retryDue \in Seq(Retry)
        /\ w.retried \in SUBSET Keys
    BY <2>2, WorkIsTyped
  <2>4. Distinct(w.queue) /\ Distinct(w.running) /\ Distinct(w.retryDue)
    BY <2>2 DEF Apart
  <2>5. /\ item \in Item /\ t \in Seq(Item) /\ Distinct(t) /\ Len(t) = Len(w.queue) - 1
        /\ Len(w.queue) \in Nat \ {0} /\ item \in ItemsOf(w.queue)
        /\ ItemsOf(t) \subseteq ItemsOf(w.queue)
        /\ k \in KeysOf(w.queue) /\ k \notin KeysOf(t) /\ KeysOf(t) \subseteq KeysOf(w.queue)
    BY <1>2, <2>3, <2>4, TailIs
  <2> HIDE DEF k
  <2>6. /\ y \in Seq(Retry) /\ Distinct(y) /\ ItemsOf(y) = {x \in ItemsOf(w.retryDue) : x.key # k}
        /\ KeysOf(y) = KeysOf(w.retryDue) \ {k}
    BY <2>3, <2>4, WithoutIs
  <2>7. Works = [queue : Seq(Item), running : Seq(Reader), dirty : SUBSET Keys,
                 latest : Latests, deferred : Seq(Item), retryDue : Seq(Retry),
                 retried : SUBSET Keys]
    BY DEF Works, Latests
  <2> HIDE DEF item, t, y
  <2>8. /\ taken \in Works /\ taken.queue = t /\ taken.retryDue = y /\ taken.running = w.running
        /\ taken.dirty = w.dirty /\ taken.latest = w.latest /\ taken.deferred = w.deferred
        /\ taken.retried = w.retried
    <3>1. t \in Seq(Item) /\ y \in Seq(Retry) /\ w \in Works
      BY <2>2, <2>5, <2>6
    <3> QED
      BY <2>7, <3>1
  <2> HIDE DEF taken
  <2>9. Apart(taken)
    BY <2>2, <2>5, <2>6, <2>8 DEF Apart
  <2>10. Owes(taken)
    BY <2>2, <2>6, <2>8 DEF Owes
  <2>11. NotNewer(taken, v)
    <3>1. NoNewer(w.queue, v) /\ NoNewer(w.deferred, v) /\ NoNewer(w.running, v)
          /\ NoNewer(w.retryDue, v) /\ \A x \in DOMAIN w.latest : w.latest[x] <= v[x]
      BY <2>2, NotNewerIs
    <3>2. NoNewer(t, v) /\ NoNewer(y, v)
      BY <2>5, <2>6, <3>1 DEF NoNewer
    <3> QED
      BY <2>8, <3>1, <3>2, NotNewerIs
  <2> DEFINE qq == Len(w.queue)
             d == Len(w.deferred)
             gg == Len(w.running)
             n == RoomFor(qq - 1, d)
  <2>12. /\ qq \in Nat \ {0} /\ d \in Nat /\ gg \in Nat /\ qq <= QueueCapacity
         /\ gg + d <= MaxWorkers /\ gg < MaxWorkers /\ (d # 0 => qq = QueueCapacity)
         /\ QueueCapacity \in Nat
    BY <1>2, <2>2, <2>5, ItemsAre, SeqsOf, TurnIngestionAssumption DEF Bounded
  <2>13. Len(taken.queue) = qq - 1 /\ Len(taken.queue) <= QueueCapacity /\ Len(taken.deferred) = d
    <3>1. Len(taken.queue) = qq - 1 /\ Len(taken.deferred) = d
      BY <2>5, <2>8
    <3> HIDE DEF qq, d
    <3> QED
      BY <2>12, <3>1
  <2>14. /\ p \in Works /\ Apart(p) /\ Owes(p) /\ NotNewer(p, v)
         /\ p.running = w.running /\ p.dirty = w.dirty /\ p.latest = w.latest
         /\ p.retryDue = y /\ p.retried = w.retried
         /\ Len(p.queue) = (qq - 1) + n /\ Len(p.deferred) = d - n
         /\ KeysOf(p.queue) \cup KeysOf(p.deferred) \subseteq KeysOf(t) \cup KeysOf(w.deferred)
    <3>1. LET m == RoomFor(Len(taken.queue), Len(taken.deferred))
          IN  /\ p \in Works /\ Apart(p) /\ Owes(p) /\ NotNewer(p, v)
              /\ p.running = taken.running /\ p.dirty = taken.dirty /\ p.latest = taken.latest
              /\ p.retryDue = taken.retryDue /\ p.retried = taken.retried
              /\ Len(p.queue) = Len(taken.queue) + m /\ Len(p.deferred) = Len(taken.deferred) - m
              /\ KeysOf(p.queue) \cup KeysOf(p.deferred)
                    \subseteq KeysOf(taken.queue) \cup KeysOf(taken.deferred)
      BY <2>8, <2>9, <2>10, <2>11, <2>13, PromoteIs
    <3> HIDE DEF p, qq, d
    <3> QED
      BY <2>8, <2>13, <3>1
  <2>15. n \in 0 .. d
    <3>1. qq - 1 \in Nat /\ qq - 1 <= QueueCapacity
      <4> HIDE DEF qq, d, gg
      <4> QED
        BY <2>12
    <3> HIDE DEF qq
    <3> QED
      BY <2>12, <3>1, RoomIs
  <2>16. /\ qq - 1 + n <= QueueCapacity /\ (gg + 1) + (d - n) <= MaxWorkers
         /\ d - n # 0 => qq - 1 + n = QueueCapacity
    <3>1. n = RoomFor(qq - 1, d) /\ Accepting
      BY <1>2
    <3> HIDE DEF qq, d, gg, n
    <3> QED
      BY <2>12, <2>15, <3>1, DispatchCounts
  <2>17. /\ k \notin KeysOf(p.running) /\ k \notin KeysOf(p.queue) /\ k \notin KeysOf(p.deferred)
         /\ k \notin KeysOf(p.retryDue) /\ k \notin p.dirty
    <3>1. k \notin KeysOf(w.running) /\ k \notin KeysOf(w.deferred) /\ k \notin w.dirty
      BY <2>2, <2>5 DEF Apart, Owes
    <3> HIDE DEF p
    <3> QED
      BY <2>5, <2>6, <2>14, <3>1
  <2>18. ReaderOf(item) \in Reader /\ ReaderOf(item).key = k /\ ReaderOf(item).ver = item.ver
    BY <2>5 DEF ReaderOf, Reader, Results, Item, k
  <2>19. /\ g \in Seq(Reader) /\ Distinct(g) /\ Len(g) = gg + 1
         /\ ItemsOf(g) = ItemsOf(p.running) \cup {ReaderOf(item)}
         /\ KeysOf(g) = KeysOf(p.running) \cup {k}
    <3>1. p.running \in Seq(Reader) /\ Distinct(p.running) /\ Len(p.running) = gg
      BY <2>3, <2>4, <2>14
    <3> HIDE DEF p, gg
    <3> QED
      BY <2>17, <2>18, <3>1, AppendIs
  <2>20. /\ e \in Works /\ e.running = g /\ e.queue = p.queue /\ e.deferred = p.deferred
         /\ e.retryDue = p.retryDue /\ e.dirty = p.dirty /\ e.latest = p.latest
         /\ e.retried = p.retried
    <3> HIDE DEF p, g
    <3> QED
      BY <2>1, <2>7, <2>14, <2>19
  <2> HIDE DEF p, g, qq, d, gg, n
  <2>21. Apart(e)
    BY <2>14, <2>17, <2>19, <2>20 DEF Apart
  <2>22. Owes(e)
    <3>1. \A r \in ItemsOf(e.running) : r.key \in e.dirty => r \in ItemsOf(p.running)
      BY <2>17, <2>18, <2>19, <2>20
    <3> QED
      BY <2>14, <2>19, <2>20, <3>1 DEF Owes
  <2>23. NotNewer(e, v)
    <3>1. NoNewer(p.queue, v) /\ NoNewer(p.deferred, v) /\ NoNewer(p.running, v)
          /\ NoNewer(p.retryDue, v) /\ \A x \in DOMAIN p.latest : p.latest[x] <= v[x]
      BY <2>14, NotNewerIs
    <3>2. item.ver <= v[k]
      BY <2>2, <2>5 DEF NotNewer, k
    <3>3. NoNewer(g, v)
      BY <2>18, <2>19, <3>1, <3>2 DEF NoNewer
    <3> QED
      BY <2>20, <3>1, <3>3, NotNewerIs
  <2>24. Bounded(e)
    <3>1. Len(e.queue) <= QueueCapacity
      BY <2>14, <2>16, <2>20
    <3>2. Len(e.running) + Len(e.deferred) <= MaxWorkers
      BY <2>14, <2>16, <2>19, <2>20
    <3>3. e.deferred # <<>> => Len(e.queue) = QueueCapacity
      BY <2>14, <2>16, <2>20, SeqsOf
    <3> QED
      BY <3>1, <3>2, <3>3 DEF Bounded
  <2>25. Len(e.running) = Len(w.running) + 1
    BY <2>19, <2>20 DEF gg
  <2> QED
    BY <1>2, <2>20, <2>21, <2>22, <2>23, <2>24, <2>25 DEF GoodFor, Fits
<1> QED
  BY <1>1, <1>2

-----------------------------------------------------------------------------
(* The loops over sequences.                                               *)

\* A set of natural numbers below a bound has a greatest element.
LEMMA GreatestOf ==
    ASSUME NEW n \in Nat, NEW S, S \subseteq 1 .. n, S # {}
    PROVE  Max(S) \in S /\ \A y \in S : y <= Max(S)
<1> DEFINE T == {n - x : x \in S}
<1>1. T \subseteq Nat /\ T # {}
  <2>1. ASSUME NEW x \in S PROVE n - x \in Nat
    <3>1. x \in 1 .. n
      OBVIOUS
    <3> QED
      BY <3>1
  <2> QED
    BY <2>1
<1>2. PICK m \in T : \A y \in T : m <= y
  <2> HIDE DEF T
  <2> QED
    BY <1>1, LeastOf
<1>3. PICK x \in S : m = n - x
  OBVIOUS
<1>4. ASSUME NEW y \in S PROVE x >= y
  <2>1. n - x <= n - y
    BY <1>2, <1>3
  <2> QED
    BY <2>1
<1>5. Max(S) \in S /\ \A y \in S : Max(S) >= y
  BY <1>4 DEF Max
<1>6. ASSUME NEW y \in S PROVE y <= Max(S)
  <2>1. Max(S) >= y /\ Max(S) \in S
    BY <1>5
  <2> DEFINE top == Max(S)
  <2> HIDE DEF top
  <2>2. top >= y /\ top \in 1 .. n /\ y \in 1 .. n
    BY <2>1 DEF top
  <2>3. y <= top
    BY <2>2
  <2> QED
    BY <2>3 DEF top
<1> QED
  BY <1>5, <1>6

\* A fold to the left peels the last place off.
LastOf(D) == [s \in SUBSET D |-> Max(s)]

\* A fold over a sequence peels the last place off its domain.
LEMMA PlacesPeel ==
    ASSUME NEW T, NEW seq \in Seq(T), NEW D, D = DOMAIN seq
    PROVE  /\ IsFiniteSet(D) /\ Peels(LastOf(D), D)
           /\ \A s \in SUBSET D : LastOf(D)[s] = Max(s) /\ (s # {} => Max(s) \in s /\ Max(s) \in D)
<1>1. Len(seq) \in Nat /\ D = 1 .. Len(seq)
  OBVIOUS
<1>2. IsFiniteSet(D)
  BY <1>1, FS_Interval
<1>3. \A s \in SUBSET D : s # {} => Max(s) \in s
  BY <1>1, GreatestOf
<1> QED
  BY <1>2, <1>3 DEF Peels, LastOf

RetryStep(x, r) ==
    IF r.due
    THEN EnqueueLocked([x EXCEPT !.retryDue = Without(@, r.key)], [key |-> r.key, ver |-> r.ver])
    ELSE x

FoldsRetries(f, w, seq) ==
    f = [s \in SUBSET DOMAIN seq |->
            IF s = {} THEN w ELSE RetryStep(f[s \ {Max(s)}], seq[Max(s)])]

\* _promote_binding_retries_locked is the last value of a fold.
LEMMA RetriesFold ==
    ASSUME NEW w
    PROVE  PromoteBindingRetriesLocked(w)
              = (CHOOSE f : FoldsRetries(f, w, w.retryDue))[DOMAIN w.retryDue]
BY DEF PromoteBindingRetriesLocked, FoldLeft, MapThenFoldSet, FoldsRetries, RetryStep

\* One retry that is due, in any record that still has all readers
LEMMA RetryStepKeeps ==
    ASSUME NEW x, NEW v, NEW r \in Retry, GoodFor(x, v), r.key \notin KeysOf(x.running),
           r.ver <= v[r.key]
    PROVE  GoodFor(RetryStep(x, r), v) /\ RetryStep(x, r).running = x.running
<1>1. CASE ~r.due
  BY <1>1 DEF RetryStep
<1>2. CASE r.due
  <2> DEFINE item == [key |-> r.key, ver |-> r.ver]
             y == Without(x.retryDue, r.key)
             t == [x EXCEPT !.retryDue = y]
  <2>1. RetryStep(x, r) = EnqueueLocked(t, item)
    BY <1>2 DEF RetryStep
  <2>2. x \in Works /\ Apart(x) /\ Bounded(x) /\ Owes(x) /\ NotNewer(x, v)
    BY DEF GoodFor, Fits
  <2>3. x.retryDue \in Seq(Retry) /\ Distinct(x.retryDue)
    BY <2>2, WorkIsTyped DEF Apart
  <2>4. /\ y \in Seq(Retry) /\ Distinct(y) /\ ItemsOf(y) = {z \in ItemsOf(x.retryDue) : z.key # r.key}
        /\ KeysOf(y) = KeysOf(x.retryDue) \ {r.key}
    BY <2>3, WithoutIs
  <2>5. item \in Item /\ item.key = r.key /\ item.ver = r.ver
    BY DEF Item, Retry
  <2> HIDE DEF y, item
  <2>6. /\ t \in Works /\ t.queue = x.queue /\ t.retryDue = y /\ t.running = x.running
        /\ t.dirty = x.dirty /\ t.latest = x.latest /\ t.deferred = x.deferred
        /\ t.retried = x.retried
    BY <2>2, <2>4 DEF Works
  <2> HIDE DEF t
  <2>7. Apart(t) /\ Bounded(t)
    BY <2>2, <2>4, <2>6 DEF Apart, Bounded
  <2>8. Owes(t)
    BY <2>2, <2>4, <2>6 DEF Owes
  <2>9. NotNewer(t, v)
    <3>1. NoNewer(x.queue, v) /\ NoNewer(x.deferred, v) /\ NoNewer(x.running, v)
          /\ NoNewer(x.retryDue, v) /\ \A k \in DOMAIN x.latest : x.latest[k] <= v[k]
      BY <2>2, NotNewerIs
    <3>2. NoNewer(y, v)
      BY <2>4, <3>1 DEF NoNewer
    <3> QED
      BY <2>6, <3>1, <3>2, NotNewerIs
  <2>10. GoodFor(t, v)
    BY <2>6, <2>7, <2>8, <2>9 DEF GoodFor, Fits
  <2>11. AsNewAsReaders(t, item)
    BY <2>5, <2>6 DEF AsNewAsReaders, KeysOf, ItemsOf
  <2>12. EnqueueIs(t, item, EnqueueLocked(t, item))
    BY <2>5, <2>6, EnqueueTyped
  <2>13. GoodFor(EnqueueLocked(t, item), v) /\ EnqueueLocked(t, item).running = t.running
    BY <2>5, <2>10, <2>11, <2>12, EnqueueKeeps
  <2> QED
    BY <2>1, <2>6, <2>13
<1> QED
  BY <1>1, <1>2

\* _promote_binding_retries_locked keeps what the record promises.
LEMMA RetriesKeep ==
    ASSUME NEW w, NEW v, NEW e, e = PromoteBindingRetriesLocked(w), GoodFor(w, v)
    PROVE  /\ GoodFor(e, v) /\ e.running = w.running
           /\ w.retryDue = <<>> => e = w
<1> DEFINE seq == w.retryDue
           D == DOMAIN seq
           c == LastOf(D)
           V == {x \in Works : GoodFor(x, v) /\ x.running = w.running /\ (seq = <<>> => x = w)}
           F == [p \in (SUBSET D) \X V |-> RetryStep(p[2], seq[Max(p[1])])]
           sol == CHOOSE f : FoldsRetries(f, w, seq)
<1>1. w \in Works /\ Apart(w) /\ NotNewer(w, v)
  BY DEF GoodFor, Fits
<1>2. seq \in Seq(Retry)
  BY <1>1, WorkIsTyped
<1>3. w \in V
  BY <1>1
<1>4. \A i \in D : seq[i] \in Retry /\ seq[i].key \notin KeysOf(w.running)
                 /\ seq[i].ver <= v[seq[i].key] /\ seq # <<>>
  <2>1. \A i \in D : seq[i] \in Retry
    BY <1>2
  <2>2. \A i \in D : seq[i] \in ItemsOf(w.retryDue) /\ seq[i].key \in KeysOf(w.retryDue)
    BY DEF ItemsOf, KeysOf
  <2>3. \A i \in D : seq # <<>>
    BY <1>2, EmptySeq
  <2> QED
    BY <1>1, <2>1, <2>2, <2>3 DEF Apart, NotNewer
<1> HIDE DEF seq
<1>5. /\ IsFiniteSet(D) /\ Peels(c, D)
      /\ \A s \in SUBSET D : c[s] = Max(s) /\ (s # {} => Max(s) \in s /\ Max(s) \in D)
  <2> HIDE DEF D
  <2>1. D = DOMAIN seq
    BY DEF D
  <2> QED
    BY <1>2, <2>1, PlacesPeel
<1> HIDE DEF D, c
<1>6. ASSUME NEW s \in SUBSET D, s # {}, NEW x \in V PROVE RetryStep(x, seq[Max(s)]) \in V
  <2>1. Max(s) \in D
    BY <1>5, <1>6
  <2> DEFINE r == seq[Max(s)]
  <2>2. r \in Retry /\ r.key \notin KeysOf(x.running) /\ r.ver <= v[r.key] /\ seq # <<>>
        /\ GoodFor(x, v) /\ x.running = w.running
    BY <1>4, <2>1
  <2> HIDE DEF r
  <2>3. GoodFor(RetryStep(x, r), v) /\ RetryStep(x, r).running = x.running
    BY <2>2, RetryStepKeeps
  <2>4. RetryStep(x, r) \in V
    BY <2>2, <2>3 DEF GoodFor, Fits
  <2> QED
    BY <2>4 DEF r
<1> HIDE DEF V
<1>7. \A s \in SUBSET D, x \in V : F[<<s, x>>] = RetryStep(x, seq[Max(s)])
  OBVIOUS
<1> HIDE DEF F
<1>8. StaysIn(F, D, V)
  BY <1>6, <1>7 DEF StaysIn
<1>9. PICK g : IsFold(g, SUBSET D, w, F, c)
  BY <1>5, FoldExists
<1>10. \A s \in SUBSET D : g[s] \in V
  BY <1>3, <1>5, <1>8, <1>9, FoldStays
<1>11. FoldsRetries(g, w, seq)
  <2>1. g = [s \in SUBSET D |-> IF s = {} THEN w ELSE F[<<s, g[s \ {c[s]}]>>]]
    BY <1>9 DEF IsFold
  <2>2. \A s \in SUBSET D : s # {} =>
            F[<<s, g[s \ {c[s]}]>>] = RetryStep(g[s \ {Max(s)}], seq[Max(s)])
    <3> SUFFICES ASSUME NEW s \in SUBSET D
                 PROVE F[<<s, g[s \ {c[s]}]>>] = RetryStep(g[s \ {Max(s)}], seq[Max(s)])
      OBVIOUS
    <3>1. c[s] = Max(s) /\ s \ {c[s]} \in SUBSET D
      BY <1>5
    <3>2. g[s \ {c[s]}] \in V
      BY <1>10, <3>1
    <3>3. F[<<s, g[s \ {c[s]}]>>] = RetryStep(g[s \ {c[s]}], seq[Max(s)])
      BY <1>7, <3>2
    <3> QED
      BY <3>1, <3>3
  <2>3. g = [s \in SUBSET D |-> g[s]]
    BY <2>1
  <2>4. \A s \in SUBSET D : g[s] = IF s = {} THEN w ELSE RetryStep(g[s \ {Max(s)}], seq[Max(s)])
    BY <2>1, <2>2
  <2>5. g = [s \in SUBSET D |-> IF s = {} THEN w ELSE RetryStep(g[s \ {Max(s)}], seq[Max(s)])]
    BY <2>3, <2>4
  <2> QED
    BY <2>5 DEF FoldsRetries, D
<1>12. FoldsRetries(sol, w, seq)
  BY <1>11
<1> HIDE DEF sol
<1>13. \A s \in SUBSET D : sol[s] = IF s = {} THEN w ELSE RetryStep(sol[s \ {Max(s)}], seq[Max(s)])
  BY <1>12 DEF FoldsRetries, D
<1> DEFINE P == {s \in SUBSET D : sol[s] \in V}
<1>14. {} \in P
  BY <1>3, <1>13
<1>15. \A s \in SUBSET D : s # {} /\ s \ {c[s]} \in P => s \in P
  BY <1>5, <1>6, <1>13
<1>16. D \in P
  <2> HIDE DEF P
  <2>1. \A s \in SUBSET D : s \in P
    BY <1>5, <1>14, <1>15, PeelInduction
  <2> QED
    BY <2>1
<1>17. e = sol[D]
  BY RetriesFold DEF sol, seq, D
<1> QED
  BY <1>16, <1>17 DEF V, seq

FoldsEnqueues(f, w, seq) ==
    f = [s \in SUBSET DOMAIN seq |->
            IF s = {} THEN w ELSE EnqueueLocked(f[s \ {Max(s)}], seq[Max(s)])]

\* Enqueuing a listing is the last value of a fold.
LEMMA EnqueuesFold ==
    ASSUME NEW w, NEW seq
    PROVE  FoldLeft(EnqueueLocked, w, seq) = (CHOOSE f : FoldsEnqueues(f, w, seq))[DOMAIN seq]
BY DEF FoldLeft, MapThenFoldSet, FoldsEnqueues

\* A scan queues what it has listed.
LEMMA EnqueuesKeep ==
    ASSUME NEW w, NEW v, NEW seq \in Seq(Item), GoodFor(w, v),
           \A x \in ItemsOf(seq) : x.ver <= v[x.key] /\ AsNewAsReaders(w, x)
    PROVE  GoodFor(FoldLeft(EnqueueLocked, w, seq), v)
<1> DEFINE D == DOMAIN seq
           c == LastOf(D)
           V == {x \in Works : GoodFor(x, v) /\ x.running = w.running}
           F == [p \in (SUBSET D) \X V |-> EnqueueLocked(p[2], seq[Max(p[1])])]
           sol == CHOOSE f : FoldsEnqueues(f, w, seq)
<1>1. w \in Works
  BY DEF GoodFor, Fits
<1>2. w \in V
  BY <1>1
<1>3. \A i \in D : seq[i] \in Item /\ seq[i].ver <= v[seq[i].key] /\ AsNewAsReaders(w, seq[i])
  <2>1. \A i \in D : seq[i] \in Item
    OBVIOUS
  <2>2. \A i \in D : seq[i] \in ItemsOf(seq)
    BY DEF ItemsOf
  <2> QED
    BY <2>1, <2>2
<1>4. /\ IsFiniteSet(D) /\ Peels(c, D)
      /\ \A s \in SUBSET D : c[s] = Max(s) /\ (s # {} => Max(s) \in s /\ Max(s) \in D)
  <2> HIDE DEF D
  <2>1. D = DOMAIN seq
    BY DEF D
  <2> QED
    BY <2>1, PlacesPeel
<1> HIDE DEF D, c
<1>5. ASSUME NEW s \in SUBSET D, s # {}, NEW x \in V PROVE EnqueueLocked(x, seq[Max(s)]) \in V
  <2>1. Max(s) \in D
    BY <1>4, <1>5
  <2> DEFINE r == seq[Max(s)]
  <2>2. r \in Item /\ r.ver <= v[r.key] /\ AsNewAsReaders(w, r) /\ GoodFor(x, v)
        /\ x.running = w.running /\ x \in Works
    BY <1>3, <2>1
  <2> HIDE DEF r
  <2>3. AsNewAsReaders(x, r)
    BY <2>2 DEF AsNewAsReaders
  <2>4. EnqueueIs(x, r, EnqueueLocked(x, r))
    BY <2>2, EnqueueTyped
  <2>5. GoodFor(EnqueueLocked(x, r), v) /\ EnqueueLocked(x, r).running = x.running
    BY <2>2, <2>3, <2>4, EnqueueKeeps
  <2>6. EnqueueLocked(x, r) \in V
    BY <2>2, <2>5 DEF GoodFor, Fits
  <2> QED
    BY <2>6 DEF r
<1> HIDE DEF V
<1>6. \A s \in SUBSET D, x \in V : F[<<s, x>>] = EnqueueLocked(x, seq[Max(s)])
  OBVIOUS
<1> HIDE DEF F
<1>7. StaysIn(F, D, V)
  BY <1>5, <1>6 DEF StaysIn
<1>8. PICK g : IsFold(g, SUBSET D, w, F, c)
  BY <1>4, FoldExists
<1>9. \A s \in SUBSET D : g[s] \in V
  BY <1>2, <1>4, <1>7, <1>8, FoldStays
<1>10. FoldsEnqueues(g, w, seq)
  <2>1. g = [s \in SUBSET D |-> IF s = {} THEN w ELSE F[<<s, g[s \ {c[s]}]>>]]
    BY <1>8 DEF IsFold
  <2>2. \A s \in SUBSET D : s # {} =>
            F[<<s, g[s \ {c[s]}]>>] = EnqueueLocked(g[s \ {Max(s)}], seq[Max(s)])
    <3> SUFFICES ASSUME NEW s \in SUBSET D
                 PROVE F[<<s, g[s \ {c[s]}]>>] = EnqueueLocked(g[s \ {Max(s)}], seq[Max(s)])
      OBVIOUS
    <3>1. c[s] = Max(s) /\ s \ {c[s]} \in SUBSET D
      BY <1>4
    <3>2. g[s \ {c[s]}] \in V
      BY <1>9, <3>1
    <3>3. F[<<s, g[s \ {c[s]}]>>] = EnqueueLocked(g[s \ {c[s]}], seq[Max(s)])
      BY <1>6, <3>2
    <3> QED
      BY <3>1, <3>3
  <2>3. g = [s \in SUBSET D |-> g[s]]
    BY <2>1
  <2>4. \A s \in SUBSET D : g[s] = IF s = {} THEN w ELSE EnqueueLocked(g[s \ {Max(s)}], seq[Max(s)])
    BY <2>1, <2>2
  <2>5. g = [s \in SUBSET D |-> IF s = {} THEN w ELSE EnqueueLocked(g[s \ {Max(s)}], seq[Max(s)])]
    BY <2>3, <2>4
  <2> QED
    BY <2>5 DEF FoldsEnqueues, D
<1>11. FoldsEnqueues(sol, w, seq)
  BY <1>10
<1> HIDE DEF sol
<1>12. \A s \in SUBSET D : sol[s] = IF s = {} THEN w ELSE EnqueueLocked(sol[s \ {Max(s)}], seq[Max(s)])
  BY <1>11 DEF FoldsEnqueues, D
<1> DEFINE P == {s \in SUBSET D : sol[s] \in V}
<1>13. {} \in P
  BY <1>2, <1>12
<1>14. ASSUME NEW s \in SUBSET D, s # {}, s \ {c[s]} \in P PROVE s \in P
  <2>1. c[s] = Max(s) /\ sol[s \ {Max(s)}] \in V
    BY <1>4, <1>14
  <2>2. EnqueueLocked(sol[s \ {Max(s)}], seq[Max(s)]) \in V
    BY <1>5, <1>14, <2>1
  <2> QED
    BY <1>12, <1>14, <2>2
<1>15. D \in P
  <2> HIDE DEF P
  <2>1. \A s \in SUBSET D : s \in P
    BY <1>4, <1>13, <1>14, PeelInduction
  <2> QED
    BY <2>1
<1>16. FoldLeft(EnqueueLocked, w, seq) = sol[D]
  BY EnqueuesFold DEF sol, D
<1> QED
  BY <1>15, <1>16 DEF V

CollectStep(x, r) == IF r.at = "done" THEN CollectOne(x, r) ELSE x

FoldsCollects(f, w, seq) ==
    f = [s \in SUBSET DOMAIN seq |->
            IF s = {} THEN w ELSE CollectStep(f[s \ {Max(s)}], seq[Max(s)])]

\* _collect_finished_locked is the last value of a fold.
LEMMA CollectsFold ==
    ASSUME NEW w
    PROVE  CollectFinishedLocked(w)
              = (CHOOSE f : FoldsCollects(f, w, w.running))[DOMAIN w.running]
BY DEF CollectFinishedLocked, FoldLeft, MapThenFoldSet, FoldsCollects, CollectStep

\* _collect_finished_locked keeps what the record promises.
LEMMA CollectsKeep ==
    ASSUME NEW w, NEW v, NEW e, e = CollectFinishedLocked(w), GoodFor(w, v)
    PROVE  GoodFor(e, v) /\ (~Accepting /\ Vacant(w) => Vacant(e))
<1> DEFINE seq == w.running
           D == DOMAIN seq
           c == LastOf(D)
           V == Works
           F == [p \in (SUBSET D) \X V |-> CollectStep(p[2], seq[Max(p[1])])]
           sol == CHOOSE f : FoldsCollects(f, w, seq)
<1>1. w \in Works /\ Apart(w)
  BY DEF GoodFor, Fits
<1>2. seq \in Seq(Reader) /\ Distinct(seq)
  BY <1>1, WorkIsTyped DEF Apart
<1>3. w \in V
  BY <1>1
<1> HIDE DEF seq
<1>4. \A i \in D : seq[i] \in Reader
  BY <1>2
<1>5. /\ IsFiniteSet(D) /\ Peels(c, D)
      /\ \A s \in SUBSET D : c[s] = Max(s) /\ (s # {} => Max(s) \in s /\ Max(s) \in D)
  <2> HIDE DEF D
  <2>1. D = DOMAIN seq
    BY DEF D
  <2> QED
    BY <1>2, <2>1, PlacesPeel
<1>6. \A i, j \in D : seq[i].key = seq[j].key => i = j
  BY <1>2 DEF Distinct
<1> HIDE DEF D, c
<1>7. ASSUME NEW s \in SUBSET D, s # {}, NEW x \in V PROVE CollectStep(x, seq[Max(s)]) \in V
  <2>1. Max(s) \in D
    BY <1>5, <1>7
  <2> DEFINE r == seq[Max(s)]
  <2>2. r \in Reader /\ x \in Works
    BY <1>4, <2>1
  <2> HIDE DEF r
  <2>3. CollectOne(x, r) \in Works
    BY <2>2, CollectTyped DEF CollectIs
  <2>4. CollectStep(x, r) \in V
    BY <2>2, <2>3 DEF CollectStep
  <2> QED
    BY <2>4 DEF r
<1> HIDE DEF V
<1>8. \A s \in SUBSET D, x \in V : F[<<s, x>>] = CollectStep(x, seq[Max(s)])
  OBVIOUS
<1> HIDE DEF F
<1>9. StaysIn(F, D, V)
  BY <1>7, <1>8 DEF StaysIn
<1>10. PICK g : IsFold(g, SUBSET D, w, F, c)
  BY <1>5, FoldExists
<1>11. \A s \in SUBSET D : g[s] \in V
  BY <1>3, <1>5, <1>9, <1>10, FoldStays
<1>12. FoldsCollects(g, w, seq)
  <2>1. g = [s \in SUBSET D |-> IF s = {} THEN w ELSE F[<<s, g[s \ {c[s]}]>>]]
    BY <1>10 DEF IsFold
  <2>2. \A s \in SUBSET D : s # {} =>
            F[<<s, g[s \ {c[s]}]>>] = CollectStep(g[s \ {Max(s)}], seq[Max(s)])
    <3> SUFFICES ASSUME NEW s \in SUBSET D
                 PROVE F[<<s, g[s \ {c[s]}]>>] = CollectStep(g[s \ {Max(s)}], seq[Max(s)])
      OBVIOUS
    <3>1. c[s] = Max(s) /\ s \ {c[s]} \in SUBSET D
      BY <1>5
    <3>2. g[s \ {c[s]}] \in V
      BY <1>11, <3>1
    <3>3. F[<<s, g[s \ {c[s]}]>>] = CollectStep(g[s \ {c[s]}], seq[Max(s)])
      BY <1>8, <3>2
    <3> QED
      BY <3>1, <3>3
  <2>3. g = [s \in SUBSET D |-> g[s]]
    BY <2>1
  <2>4. \A s \in SUBSET D : g[s] = IF s = {} THEN w ELSE CollectStep(g[s \ {Max(s)}], seq[Max(s)])
    BY <2>1, <2>2
  <2>5. g = [s \in SUBSET D |-> IF s = {} THEN w ELSE CollectStep(g[s \ {Max(s)}], seq[Max(s)])]
    BY <2>3, <2>4
  <2> QED
    BY <2>5 DEF FoldsCollects, D
<1>13. FoldsCollects(sol, w, seq)
  BY <1>12
<1> HIDE DEF sol
<1>14. \A s \in SUBSET D : sol[s] = IF s = {} THEN w ELSE CollectStep(sol[s \ {Max(s)}], seq[Max(s)])
  BY <1>13 DEF FoldsCollects, D
<1> DEFINE Left(s, x) == \A i \in D \ s : seq[i] \in ItemsOf(x.running)
           Good(x) == GoodFor(x, v) /\ (~Accepting /\ Vacant(w) => Vacant(x))
           P == {s \in SUBSET D : Good(sol[s]) /\ Left(s, sol[s])}
<1>15. {} \in P
  <2>1. sol[{}] = w
    BY <1>14
  <2>2. Left({}, w)
    BY DEF seq, D, ItemsOf
  <2> QED
    BY <2>1, <2>2
<1>16. ASSUME NEW s \in SUBSET D, s # {}, s \ {c[s]} \in P PROVE s \in P
  <2> DEFINE m == Max(s)
             x == sol[s \ {m}]
             r == seq[m]
  <2>1. m \in s /\ m \in D /\ c[s] = m
    BY <1>5, <1>16
  <2>2. Good(x) /\ Left(s \ {m}, x) /\ sol[s] = CollectStep(x, r)
    BY <1>14, <1>16, <2>1
  <2>3. r \in ItemsOf(x.running)
    BY <2>1, <2>2
  <2>4. \A i \in D \ s : seq[i].key # r.key /\ seq[i] \in ItemsOf(x.running)
    BY <1>6, <2>1, <2>2
  <2>5. r \in Reader
    BY <1>4, <2>1
  <2> HIDE DEF x, r, m
  <2>6. Good(CollectStep(x, r)) /\ Left(s, CollectStep(x, r))
    <3>1. CASE r.at # "done"
      <4>1. CollectStep(x, r) = x
        BY <3>1 DEF CollectStep
      <4> QED
        BY <2>2, <2>4, <4>1
    <3>2. CASE r.at = "done"
      <4> DEFINE y == CollectOne(x, r)
      <4>1. CollectStep(x, r) = y
        BY <3>2 DEF CollectStep
      <4>2. GoodFor(x, v) /\ x \in Works
        BY <2>2 DEF GoodFor, Fits
      <4>3. CollectIs(x, r, y)
        BY <2>5, <4>2, CollectTyped
      <4> HIDE DEF y
      <4>4. /\ GoodFor(y, v)
            /\ ItemsOf(y.running) = {z \in ItemsOf(x.running) : z.key # r.key}
            /\ ~Accepting /\ Vacant(x) => Vacant(y)
        BY <2>3, <4>2, <4>3, CollectKeeps
      <4> QED
        BY <2>2, <2>4, <4>1, <4>4
    <3> QED
      BY <3>1, <3>2
  <2> HIDE DEF Good, Left
  <2> QED
    BY <2>2, <2>6
<1>17. D \in P
  <2> HIDE DEF P
  <2>1. \A s \in SUBSET D : s \in P
    BY <1>5, <1>15, <1>16, PeelInduction
  <2> QED
    BY <2>1
<1>18. e = sol[D]
  BY CollectsFold DEF sol, seq, D
<1> QED
  BY <1>17, <1>18

PruneStep(k, x) == [x EXCEPT !.retried = @ \ {k}, !.retryDue = Without(@, k)]

FoldsPrunes(f, w, D) ==
    f = [s \in SUBSET D |-> IF s = {} THEN w ELSE PruneStep(PickOf(s), f[s \ {PickOf(s)}])]

\* Pruning the retries of bindings that are gone is the last value of a fold.
LEMMA PrunesFold ==
    ASSUME NEW w, NEW D
    PROVE  Pruned(w, D) = (CHOOSE f : FoldsPrunes(f, w, D))[D]
BY DEF Pruned, FoldSet, MapThenFoldSet, FoldsPrunes, PruneStep, PickOf

\* Pruning one of them keeps what the record promises.
LEMMA PruneStepKeeps ==
    ASSUME NEW x, NEW v, NEW k, GoodFor(x, v)
    PROVE  GoodFor(PruneStep(k, x), v) /\ PruneStep(k, x).running = x.running
<1> DEFINE y == Without(x.retryDue, k)
           t == PruneStep(k, x)
<1>1. x \in Works /\ Apart(x) /\ Bounded(x) /\ Owes(x) /\ NotNewer(x, v)
  BY DEF GoodFor, Fits
<1>2. x.retryDue \in Seq(Retry) /\ Distinct(x.retryDue)
  BY <1>1, WorkIsTyped DEF Apart
<1>3. /\ y \in Seq(Retry) /\ Distinct(y) /\ ItemsOf(y) = {z \in ItemsOf(x.retryDue) : z.key # k}
      /\ KeysOf(y) = KeysOf(x.retryDue) \ {k}
  BY <1>2, WithoutIs
<1>4. t = [x EXCEPT !.retried = x.retried \ {k}, !.retryDue = y]
  BY DEF PruneStep
<1> HIDE DEF y, t
<1>5. /\ t \in Works /\ t.queue = x.queue /\ t.retryDue = y /\ t.running = x.running
      /\ t.dirty = x.dirty /\ t.latest = x.latest /\ t.deferred = x.deferred
      /\ t.retried = x.retried \ {k}
  BY <1>1, <1>3, <1>4 DEF Works
<1>6. Apart(t) /\ Bounded(t)
  BY <1>1, <1>3, <1>5 DEF Apart, Bounded
<1>7. Owes(t)
  BY <1>1, <1>3, <1>5 DEF Owes
<1>8. NotNewer(t, v)
  <2>1. NoNewer(x.queue, v) /\ NoNewer(x.deferred, v) /\ NoNewer(x.running, v)
        /\ NoNewer(x.retryDue, v) /\ \A z \in DOMAIN x.latest : x.latest[z] <= v[z]
    BY <1>1, NotNewerIs
  <2>2. NoNewer(y, v)
    BY <1>3, <2>1 DEF NoNewer
  <2> QED
    BY <1>5, <2>1, <2>2, NotNewerIs
<1> QED
  BY <1>5, <1>6, <1>7, <1>8 DEF GoodFor, Fits, t

\* Pruning keeps what the record promises.
LEMMA PrunesKeep ==
    ASSUME NEW w, NEW v, NEW D, IsFiniteSet(D), GoodFor(w, v)
    PROVE  LET e == Pruned(w, D)
           IN  GoodFor(e, v) /\ e.running = w.running /\ (D = {} => e = w)
<1> DEFINE c == [s \in SUBSET D |-> PickOf(s)]
           V == {x \in Works : GoodFor(x, v) /\ x.running = w.running /\ (D = {} => x = w)}
           F == [p \in (SUBSET D) \X V |-> PruneStep(PickOf(p[1]), p[2])]
           sol == CHOOSE f : FoldsPrunes(f, w, D)
<1>1. w \in V
  BY DEF GoodFor, Fits
<1>2. /\ IsFiniteSet(D) /\ Peels(c, D)
      /\ \A s \in SUBSET D : c[s] = PickOf(s) /\ (s # {} => PickOf(s) \in s /\ PickOf(s) \in D)
  BY DEF Peels, PickOf
<1> HIDE DEF c
<1>3. ASSUME NEW s \in SUBSET D, s # {}, NEW x \in V PROVE PruneStep(PickOf(s), x) \in V
  <2> DEFINE k == PickOf(s)
  <2> HIDE DEF k
  <2>1. GoodFor(x, v) /\ x.running = w.running /\ D # {}
    BY <1>3
  <2>2. GoodFor(PruneStep(k, x), v) /\ PruneStep(k, x).running = x.running
    BY <2>1, PruneStepKeeps
  <2>3. PruneStep(k, x) \in V
    BY <2>1, <2>2 DEF GoodFor, Fits
  <2> QED
    BY <2>3 DEF k
<1> HIDE DEF V
<1>4. \A s \in SUBSET D, x \in V : F[<<s, x>>] = PruneStep(PickOf(s), x)
  OBVIOUS
<1> HIDE DEF F
<1>5. StaysIn(F, D, V)
  BY <1>3, <1>4 DEF StaysIn
<1>6. PICK g : IsFold(g, SUBSET D, w, F, c)
  BY <1>2, FoldExists
<1>7. \A s \in SUBSET D : g[s] \in V
  BY <1>1, <1>2, <1>5, <1>6, FoldStays
<1>8. FoldsPrunes(g, w, D)
  <2>1. g = [s \in SUBSET D |-> IF s = {} THEN w ELSE F[<<s, g[s \ {c[s]}]>>]]
    BY <1>6 DEF IsFold
  <2>2. \A s \in SUBSET D : s # {} =>
            F[<<s, g[s \ {c[s]}]>>] = PruneStep(PickOf(s), g[s \ {PickOf(s)}])
    <3> SUFFICES ASSUME NEW s \in SUBSET D
                 PROVE F[<<s, g[s \ {c[s]}]>>] = PruneStep(PickOf(s), g[s \ {PickOf(s)}])
      OBVIOUS
    <3>1. c[s] = PickOf(s) /\ s \ {c[s]} \in SUBSET D
      BY <1>2
    <3>2. g[s \ {c[s]}] \in V
      BY <1>7, <3>1
    <3>3. F[<<s, g[s \ {c[s]}]>>] = PruneStep(PickOf(s), g[s \ {c[s]}])
      BY <1>4, <3>2
    <3> QED
      BY <3>1, <3>3
  <2>3. g = [s \in SUBSET D |-> g[s]]
    BY <2>1
  <2>4. \A s \in SUBSET D : g[s] = IF s = {} THEN w ELSE PruneStep(PickOf(s), g[s \ {PickOf(s)}])
    BY <2>1, <2>2
  <2>5. g = [s \in SUBSET D |-> IF s = {} THEN w ELSE PruneStep(PickOf(s), g[s \ {PickOf(s)}])]
    BY <2>3, <2>4
  <2> QED
    BY <2>5 DEF FoldsPrunes
<1>9. FoldsPrunes(sol, w, D)
  BY <1>8
<1> HIDE DEF sol
<1>10. \A s \in SUBSET D : sol[s] = IF s = {} THEN w ELSE PruneStep(PickOf(s), sol[s \ {PickOf(s)}])
  BY <1>9 DEF FoldsPrunes
<1> DEFINE P == {s \in SUBSET D : sol[s] \in V}
<1>11. {} \in P
  BY <1>1, <1>10
<1>12. \A s \in SUBSET D : s # {} /\ s \ {c[s]} \in P => s \in P
  <2> SUFFICES ASSUME NEW s \in SUBSET D, s # {}, s \ {c[s]} \in P PROVE sol[s] \in V
    OBVIOUS
  <2>1. c[s] = PickOf(s) /\ sol[s \ {c[s]}] \in V
    BY <1>2
  <2>2. sol[s] = PruneStep(PickOf(s), sol[s \ {PickOf(s)}])
    BY <1>10
  <2> QED
    BY <1>3, <2>1, <2>2
<1>13. D \in P
  <2> HIDE DEF P
  <2>1. \A s \in SUBSET D : s \in P
    BY <1>2, <1>11, <1>12, PeelInduction
  <2> QED
    BY <2>1
<1>14. Pruned(w, D) = sol[D]
  BY PrunesFold DEF sol
<1> QED
  BY <1>13, <1>14 DEF V

-----------------------------------------------------------------------------
(* The loop of a dispatch.                                                 *)

DispatchesFrom(f, w) ==
    f = [n \in 0 .. MaxWorkers |-> IF n = 0 THEN w ELSE DispatchOne(f[n - 1])]

ReadyOf(w) == PromoteBindingRetriesLocked(PromoteDeferredLocked(w))

\* What the dispatch loop is after each of its turns
LEMMA DispatchLoop ==
    ASSUME NEW w
    PROVE  DispatchLocked(w) = (CHOOSE f : DispatchesFrom(f, ReadyOf(w)))[MaxWorkers]
BY DEF DispatchLocked, DispatchesFrom, ReadyOf

\* The loop has a solution: the fold over the turns that are over.
LEMMA DispatchesExist ==
    ASSUME NEW w, NEW v, GoodFor(w, v)
    PROVE  \E f : DispatchesFrom(f, w)
<1> DEFINE D == 1 .. MaxWorkers
           c == LastOf(D)
           V == {x \in Works : GoodFor(x, v)}
           F == [p \in (SUBSET D) \X V |-> DispatchOne(p[2])]
<1>1. MaxWorkers \in Nat
  BY TurnIngestionAssumption
<1>2. w \in V
  BY DEF GoodFor, Fits
<1>3. ASSUME NEW x \in V PROVE DispatchOne(x) \in V
  BY DispatchOneKeeps DEF GoodFor, Fits
<1>4. IsFiniteSet(D) /\ Peels(c, D)
  <2>1. IsFiniteSet(D)
    BY <1>1, FS_Interval
  <2>2. \A s \in SUBSET D : s # {} => Max(s) \in s
    BY <1>1, GreatestOf
  <2> QED
    BY <2>1, <2>2 DEF Peels, LastOf
<1> HIDE DEF V
<1>5. \A s \in SUBSET D, x \in V : F[<<s, x>>] = DispatchOne(x)
  OBVIOUS
<1> HIDE DEF F
<1>6. StaysIn(F, D, V)
  BY <1>3, <1>5 DEF StaysIn
<1>7. PICK g : IsFold(g, SUBSET D, w, F, c)
  <2> HIDE DEF D, c
  <2> QED
    BY <1>4, FoldExists
<1>8. \A s \in SUBSET D : g[s] \in V
  <2> HIDE DEF D, c
  <2> QED
    BY <1>2, <1>4, <1>6, <1>7, FoldStays
<1> DEFINE h == [n \in 0 .. MaxWorkers |-> g[1 .. n]]
<1>9. ASSUME NEW n \in 0 .. MaxWorkers PROVE h[n] = IF n = 0 THEN w ELSE DispatchOne(h[n - 1])
  <2>1. (1 .. n) \in SUBSET D /\ h[n] = g[1 .. n]
    BY <1>1
  <2>2. g[1 .. n] = IF (1 .. n) = {} THEN w ELSE F[<<1 .. n, g[(1 .. n) \ {c[1 .. n]}]>>]
    BY <1>7, <2>1 DEF IsFold
  <2>3. CASE n = 0
    BY <2>1, <2>2, <2>3
  <2>4. CASE n # 0
    <3>1. n \in 1 .. n /\ n - 1 \in 0 .. MaxWorkers /\ n \in Nat
      BY <1>1, <2>4
    <3>2. c[1 .. n] = n
      <4>1. c[1 .. n] = Max(1 .. n)
        BY <2>1 DEF LastOf
      <4>2. Max(1 .. n) \in 1 .. n /\ \A y \in 1 .. n : y <= Max(1 .. n)
        <5> DEFINE S == 1 .. n
        <5>1. S \subseteq 1 .. n /\ S # {}
          BY <3>1
        <5> HIDE DEF S
        <5>2. Max(S) \in S /\ \A y \in S : y <= Max(S)
          BY <3>1, <5>1, GreatestOf
        <5> QED
          BY <5>2 DEF S
      <4> DEFINE m == Max(1 .. n)
      <4> HIDE DEF m
      <4>3. m \in 1 .. n /\ n <= m
        BY <3>1, <4>2 DEF m
      <4>4. m = n
        BY <3>1, <4>3
      <4> QED
        BY <4>1, <4>4 DEF m
    <3>3. (1 .. n) \ {n} = 1 .. (n - 1)
      BY <3>1
    <3>4. g[1 .. n] = F[<<1 .. n, g[1 .. (n - 1)]>>]
      BY <2>2, <3>1, <3>2, <3>3
    <3>5. g[1 .. (n - 1)] \in V /\ h[n - 1] = g[1 .. (n - 1)]
      <4>1. 1 .. (n - 1) \in SUBSET D
        BY <1>1, <3>1
      <4> QED
        BY <1>8, <3>1, <4>1
    <3>6. g[1 .. n] = DispatchOne(g[1 .. (n - 1)])
      BY <1>5, <2>1, <3>4, <3>5
    <3> QED
      BY <2>1, <2>4, <3>5, <3>6
  <2> QED
    BY <2>3, <2>4
<1>10. DispatchesFrom(h, w)
  <2>1. h = [n \in 0 .. MaxWorkers |-> h[n]]
    OBVIOUS
  <2> HIDE DEF h
  <2> QED
    BY <1>9, <2>1 DEF DispatchesFrom
<1> QED
  BY <1>10

\* What the loop starts from keeps what the record promises.
LEMMA ReadyKeeps ==
    ASSUME NEW w, NEW v, GoodFor(w, v)
    PROVE  GoodFor(ReadyOf(w), v) /\ (~Accepting /\ Vacant(w) => Vacant(ReadyOf(w)))
<1> DEFINE p == PromoteDeferredLocked(w)
           e == PromoteBindingRetriesLocked(p)
<1>1. GoodFor(p, v) /\ (~Accepting /\ Vacant(w) => Vacant(p))
  BY PromoteKeeps
<1> HIDE DEF p
<1>2. GoodFor(e, v) /\ (p.retryDue = <<>> => e = p)
  BY <1>1, RetriesKeep
<1> HIDE DEF e
<1>3. ~Accepting /\ Vacant(w) => Vacant(e)
  BY <1>1, <1>2 DEF Vacant
<1> QED
  BY <1>2, <1>3 DEF ReadyOf, e, p

\* A dispatch leaves nothing that a free worker could take, and no rerun deferred.
LEMMA DispatchKeeps ==
    ASSUME NEW w, NEW v, NEW e, e = DispatchLocked(w), GoodFor(w, v)
    PROVE  GoodFor(e, v) /\ (Accepting => Settled(e)) /\ (~Accepting /\ Vacant(w) => Vacant(e))
<1> DEFINE r == ReadyOf(w)
           f == CHOOSE f : DispatchesFrom(f, r)
           Turns == 0 .. MaxWorkers
           Spent(x, n) == \/ x.queue = <<>> \/ Len(x.running) = MaxWorkers \/ Len(x.running) >= n
           Reached(n) == /\ GoodFor(f[n], v) /\ (Accepting => Spent(f[n], n))
                         /\ (~Accepting => f[n] = r)
           Bad == {n \in Turns : ~Reached(n)}
<1>1. MaxWorkers \in Nat \ {0} /\ QueueCapacity \in Nat \ {0}
  BY TurnIngestionAssumption
<1>2. GoodFor(r, v) /\ (~Accepting /\ Vacant(w) => Vacant(r))
  BY ReadyKeeps
<1> HIDE DEF r
<1>3. DispatchesFrom(f, r)
  BY <1>2, DispatchesExist
<1>4. e = f[MaxWorkers]
  BY DispatchLoop DEF r
<1> HIDE DEF f
<1>5. \A n \in Turns : f[n] = IF n = 0 THEN r ELSE DispatchOne(f[n - 1])
  BY <1>3 DEF DispatchesFrom
<1>6. Reached(0)
  <2>1. f[0] = r
    BY <1>1, <1>5
  <2>2. r \in Works
    BY <1>2 DEF GoodFor, Fits
  <2>3. Len(r.running) \in Nat
    BY <2>2, ItemsAre
  <2>4. Len(r.running) >= 0
    BY <2>3
  <2> QED
    BY <1>2, <2>1, <2>4
<1>7. ASSUME NEW n \in Turns, n # 0, Reached(n - 1) PROVE Reached(n)
  <2> DEFINE x == f[n - 1]
             y == f[n]
  <2>1. y = DispatchOne(x)
    BY <1>5, <1>7
  <2>2. GoodFor(x, v) /\ (Accepting => Spent(x, n - 1)) /\ (~Accepting => x = r)
    BY <1>7
  <2> HIDE DEF x, y
  <2>3. /\ GoodFor(y, v)
        /\ Accepting /\ x.queue # <<>> /\ Len(x.running) < MaxWorkers
              => Len(y.running) = Len(x.running) + 1
        /\ ~(Accepting /\ x.queue # <<>> /\ Len(x.running) < MaxWorkers) => y = x
    BY <2>1, <2>2, DispatchOneKeeps
  <2>4. x \in Works /\ Bounded(x)
    BY <2>2 DEF GoodFor, Fits
  <2>5. /\ Len(x.running) \in Nat /\ Len(x.deferred) \in Nat
        /\ Len(x.running) + Len(x.deferred) <= MaxWorkers
    BY <2>4, ItemsAre DEF Bounded
  <2> DEFINE g == Len(x.running)
  <2>6. n \in Nat \ {0} /\ g \in Nat /\ g <= MaxWorkers
    <3>1. n \in Nat \ {0}
      BY <1>1, <1>7
    <3>2. g <= MaxWorkers /\ g \in Nat
      <4> DEFINE d == Len(x.deferred)
      <4>1. g \in Nat /\ d \in Nat /\ g + d <= MaxWorkers
        BY <2>5
      <4> HIDE DEF g, d
      <4> QED
        BY <1>1, <4>1
    <3> QED
      BY <3>1, <3>2
  <2>7. ASSUME Accepting PROVE Spent(y, n)
    <3>1. CASE x.queue # <<>> /\ g < MaxWorkers
      <4>1. Len(y.running) = g + 1
        BY <2>3, <2>7, <3>1
      <4>2. g >= n - 1
        <5>1. Spent(x, n - 1)
          BY <2>2, <2>7
        <5>2. g # MaxWorkers
          <6> HIDE DEF g
          <6> QED
            BY <1>1, <2>6, <3>1
        <5> QED
          BY <3>1, <5>1, <5>2
      <4>3. g + 1 >= n
        <5> HIDE DEF g
        <5> QED
          BY <2>6, <4>2
      <4> QED
        BY <4>1, <4>3
    <3>2. CASE ~(x.queue # <<>> /\ g < MaxWorkers)
      <4>1. y = x
        BY <2>3, <3>2
      <4>2. x.queue = <<>> \/ g = MaxWorkers
        <5>1. x.queue = <<>> \/ ~(g < MaxWorkers)
          BY <3>2
        <5> HIDE DEF g
        <5> QED
          BY <1>1, <2>6, <5>1
      <4> QED
        BY <4>1, <4>2
    <3> QED
      BY <3>1, <3>2
  <2>8. ~Accepting => y = r
    BY <2>2, <2>3
  <2> QED
    BY <2>3, <2>7, <2>8 DEF y
<1>8. Bad = {}
  <2> HIDE DEF Reached
  <2> SUFFICES ASSUME Bad # {} PROVE FALSE
    OBVIOUS
  <2>1. Bad \subseteq Nat
    OBVIOUS
  <2>2. PICK n \in Bad : \A k \in Bad : n <= k
    <3> HIDE DEF Bad
    <3> QED
      BY <2>1, LeastOf
  <2>3. n \in Turns /\ ~Reached(n) /\ n # 0
    BY <1>6, <2>2
  <2>4. n - 1 \in Turns /\ ~(n <= n - 1)
    BY <1>1, <2>3
  <2>5. n - 1 \notin Bad
    BY <2>2, <2>4
  <2>6. Reached(n - 1)
    BY <2>4, <2>5
  <2> QED
    BY <1>7, <2>3, <2>6
<1>9. Reached(MaxWorkers)
  <2>1. MaxWorkers \in Turns
    BY <1>1
  <2> HIDE DEF Reached
  <2> QED
    BY <1>8, <2>1
<1>10. GoodFor(e, v) /\ (Accepting => Spent(e, MaxWorkers)) /\ (~Accepting => e = r)
  BY <1>4, <1>9
<1>11. ASSUME Accepting PROVE Settled(e)
  <2>1. e \in Works /\ Bounded(e)
    BY <1>10 DEF GoodFor, Fits
  <2> DEFINE g == Len(e.running)
             d == Len(e.deferred)
  <2>2. g \in Nat /\ d \in Nat /\ g + d <= MaxWorkers
    BY <2>1, ItemsAre DEF Bounded
  <2>3. e.queue = <<>> \/ g >= MaxWorkers \/ g = MaxWorkers
    BY <1>10, <1>11
  <2>4. e.queue # <<>> => g = MaxWorkers
    <3> HIDE DEF g, d
    <3> QED
      BY <1>1, <2>2, <2>3
  <2>5. e.deferred = <<>>
    <3> SUFFICES ASSUME e.deferred # <<>> PROVE FALSE
      OBVIOUS
    <3>1. d # 0 /\ Len(e.queue) = QueueCapacity
      BY <2>1, SeqsOf DEF Bounded
    <3>2. e.queue # <<>>
      BY <1>1, <2>1, <3>1, SeqsOf
    <3>3. g = MaxWorkers
      BY <2>4, <3>2
    <3> HIDE DEF g, d
    <3> QED
      BY <1>1, <2>2, <3>1, <3>3
  <2> QED
    BY <2>4, <2>5 DEF Settled
<1> QED
  BY <1>2, <1>10, <1>11

-----------------------------------------------------------------------------
(* What the threads keep.                                                  *)

WorkInv == Fits(work) /\ NotNewer(work, version) /\ Settled(work)

StoreInv ==
    /\ live \subseteq Keys
    /\ changes \in 0 .. MaxChanges /\ faults \in 0 .. MaxFaults
    /\ version \in [Keys -> Nat]
    /\ \A k \in Keys : 1 <= version[k] /\ version[k] <= changes + 1
    /\ attempted \in [Keys -> 0 .. MaxVersion]

ListingInv ==
    /\ listing \in Seq(Item) /\ Len(listing) <= N
    /\ \A x \in ItemsOf(listing) :
          x.ver <= version[x.key] /\ (coord = "listed" => AsNewAsReaders(work, x))
    /\ cursor \in 0 .. N /\ (N > 0 => cursor < N)

ThreadInv ==
    /\ phase \in {"new", "accepting", "stopped"}
    /\ coord \in CoordinatorPlaces
    /\ stopper \in {"idle", "joining", "rejoining", "closing", "draining", "done"}
    /\ forceExit \in BOOLEAN /\ rescan \in BOOLEAN /\ scanDue \in BOOLEAN /\ clean \in BOOLEAN
    /\ phase = "new" => coord = "none" /\ work.running = <<>>
    /\ phase # "accepting" => Vacant(work)
    /\ phase = "stopped" <=> stopper # "idle"
    /\ forceExit => phase = "stopped"
    /\ stopper \in {"closing", "draining", "done"} /\ clean => coord \in {"none", "exited"}
    /\ stopper = "done" /\ clean => Busy = {}

SchedInv == StoreInv /\ WorkInv /\ ListingInv /\ ThreadInv

\* t has the keys and versions of s, with other data.
Relabelled(s, t) ==
    /\ Len(t) = Len(s) /\ DOMAIN t = DOMAIN s
    /\ \A i \in DOMAIN s : t[i].key = s[i].key /\ t[i].ver = s[i].ver

\* A sequence whose elements keep key and version has the same keys and is as distinct.
LEMMA RelabelledSame ==
    ASSUME NEW s, NEW t, Relabelled(s, t)
    PROVE  /\ KeysOf(t) = KeysOf(s) /\ (Distinct(s) => Distinct(t))
           /\ \A x \in ItemsOf(t) : \E y \in ItemsOf(s) : x.key = y.key /\ x.ver = y.ver
           /\ \A v : NoNewer(s, v) => NoNewer(t, v)
<1>1. KeysOf(t) = KeysOf(s) /\ (Distinct(s) => Distinct(t))
  <2>1. SameKeys(s, t)
    BY DEF Relabelled, SameKeys
  <2> QED
    BY <2>1, SameKeysKeep
<1>2. \A x \in ItemsOf(t) : \E y \in ItemsOf(s) : x.key = y.key /\ x.ver = y.ver
  BY DEF Relabelled, ItemsOf
<1>3. \A v : NoNewer(s, v) => NoNewer(t, v)
  BY <1>2 DEF NoNewer
<1> QED
  BY <1>1, <1>2, <1>3

\* Readers may come further, and retries fall due.
LEMMA RelabelKeeps ==
    ASSUME NEW w, NEW v, NEW u, GoodFor(w, v), u \in Works,
           u.queue = w.queue, u.deferred = w.deferred, u.dirty = w.dirty, u.latest = w.latest,
           u.retried = w.retried, Relabelled(w.running, u.running), Relabelled(w.retryDue, u.retryDue)
    PROVE  /\ GoodFor(u, v) /\ (Settled(w) => Settled(u)) /\ (Vacant(w) => Vacant(u))
           /\ \A item : AsNewAsReaders(w, item) => AsNewAsReaders(u, item)
           /\ w.running = <<>> => u.running = <<>>
           /\ Len(u.running) = Len(w.running)
<1>1. w \in Works /\ Apart(w) /\ Bounded(w) /\ Owes(w) /\ NotNewer(w, v)
  BY DEF GoodFor, Fits
<1>2. /\ KeysOf(u.running) = KeysOf(w.running) /\ (Distinct(w.running) => Distinct(u.running))
      /\ \A x \in ItemsOf(u.running) : \E y \in ItemsOf(w.running) : x.key = y.key /\ x.ver = y.ver
      /\ NoNewer(w.running, v) => NoNewer(u.running, v)
  BY RelabelledSame
<1>3. /\ KeysOf(u.retryDue) = KeysOf(w.retryDue) /\ (Distinct(w.retryDue) => Distinct(u.retryDue))
      /\ NoNewer(w.retryDue, v) => NoNewer(u.retryDue, v)
  BY RelabelledSame
<1>4. Len(u.running) = Len(w.running) /\ Len(u.retryDue) = Len(w.retryDue)
  BY DEF Relabelled
<1>5. Apart(u)
  BY <1>1, <1>2, <1>3 DEF Apart
<1>6. Bounded(u)
  BY <1>1, <1>4 DEF Bounded
<1>7. Owes(u)
  <2>1. ASSUME NEW r \in ItemsOf(u.running), r.key \in u.dirty PROVE r.ver <= u.latest[r.key]
    <3>1. PICK y \in ItemsOf(w.running) : r.key = y.key /\ r.ver = y.ver
      BY <1>2
    <3>2. y.key \in w.dirty
      BY <2>1, <3>1
    <3>3. y.ver <= w.latest[y.key]
      BY <1>1, <3>2 DEF Owes
    <3> QED
      BY <3>1, <3>3
  <2> QED
    BY <1>1, <1>2, <1>3, <2>1 DEF Owes
<1>8. NotNewer(u, v)
  BY <1>1, <1>2, <1>3, NotNewerIs
<1>9. ASSUME Vacant(w) PROVE Vacant(u)
  BY <1>1, <1>4, <1>9, SeqsOf DEF Vacant
<1>10. ASSUME NEW item, AsNewAsReaders(w, item) PROVE AsNewAsReaders(u, item)
  BY <1>2, <1>10 DEF AsNewAsReaders
<1>11. w.running = <<>> => u.running = <<>>
  BY <1>1, <1>4, SeqsOf
<1>12. Settled(w) => Settled(u)
  BY <1>4 DEF Settled
<1> QED
  BY <1>4, <1>5, <1>6, <1>7, <1>8, <1>9, <1>10, <1>11, <1>12 DEF GoodFor, Fits

\* Nothing changed is a special case.
LEMMA RelabelledRefl ==
    ASSUME NEW s
    PROVE  Relabelled(s, s)
BY DEF Relabelled

\* The same for a record of which only the readers changed.
LEMMA RunningRelabelled ==
    ASSUME NEW w, NEW v, NEW t \in Seq(Reader), NEW u, GoodFor(w, v), Relabelled(w.running, t),
           u = [w EXCEPT !.running = t]
    PROVE  /\ GoodFor(u, v) /\ (Settled(w) => Settled(u)) /\ (Vacant(w) => Vacant(u))
           /\ \A item : AsNewAsReaders(w, item) => AsNewAsReaders(u, item)
           /\ w.running = <<>> => u.running = <<>>
           /\ u.running = t
<1>1. w \in Works
  BY DEF GoodFor, Fits
<1>2. /\ u \in Works /\ u.queue = w.queue /\ u.deferred = w.deferred /\ u.dirty = w.dirty
      /\ u.latest = w.latest /\ u.retried = w.retried /\ u.running = t /\ u.retryDue = w.retryDue
  BY <1>1 DEF Works
<1>3. Relabelled(w.running, u.running) /\ Relabelled(w.retryDue, u.retryDue)
  BY <1>2, RelabelledRefl
<1> QED
  BY <1>2, <1>3, RelabelKeeps

\* A reader that ends is the reader of the same binding and version.
LEMMA EndedIs ==
    ASSUME NEW r \in Reader, NEW broken
    PROVE  Ended(r, broken) \in Reader /\ Ended(r, broken).key = r.key /\ Ended(r, broken).ver = r.ver
<1> DEFINE x == IF r.key \in broken THEN "lookup_failed" ELSE IF Current(r) THEN "read" ELSE "stale"
<1>1. x \in Results
  BY DEF Results
<1>2. Ended(r, broken) = [r EXCEPT !.at = "done", !.result = x]
  BY DEF Ended
<1> HIDE DEF x
<1> QED
  BY <1>1, <1>2 DEF Reader

\* What was dispatched, with the readers that have ended already
LEMMA SubmittedKeeps ==
    ASSUME NEW w, GoodFor(w, version), Submitted(w), StoreInv
    PROVE  /\ GoodFor(work', version) /\ (Settled(w) => Settled(work')) /\ (Vacant(w) => Vacant(work'))
           /\ faults' \in 0 .. MaxFaults /\ attempted' \in [Keys -> 0 .. MaxVersion]
<1>1. PICK early \in SUBSET (KeysOf(w.running) \ KeysOf(work.running)) :
      \E broken \in SUBSET early :
        /\ faults + Cardinality(broken) <= MaxFaults
        /\ faults' = faults + Cardinality(broken)
        /\ work' = [w EXCEPT !.running =
                       [i \in DOMAIN @ |-> IF @[i].key \in early
                                           THEN Ended(@[i], broken) ELSE @[i]]]
        /\ attempted' = [k \in Keys |->
                            IF k \in early \ broken /\ k \in live
                               /\ \E i \in DOMAIN w.running :
                                     w.running[i].key = k /\ Current(w.running[i])
                            THEN version[k] ELSE attempted[k]]
  BY DEF Submitted
<1>2. PICK broken \in SUBSET early :
        /\ faults + Cardinality(broken) <= MaxFaults
        /\ faults' = faults + Cardinality(broken)
        /\ work' = [w EXCEPT !.running =
                       [i \in DOMAIN @ |-> IF @[i].key \in early
                                           THEN Ended(@[i], broken) ELSE @[i]]]
        /\ attempted' = [k \in Keys |->
                            IF k \in early \ broken /\ k \in live
                               /\ \E i \in DOMAIN w.running :
                                     w.running[i].key = k /\ Current(w.running[i])
                            THEN version[k] ELSE attempted[k]]
  BY <1>1
<1>3. w \in Works /\ w.running \in Seq(Reader)
  BY WorkIsTyped DEF GoodFor, Fits
<1> DEFINE s == w.running
           e(i) == IF s[i].key \in early THEN Ended(s[i], broken) ELSE s[i]
           t == [i \in DOMAIN s |-> e(i)]
<1>4. work' = [w EXCEPT !.running = t]
  BY <1>2
<1>5. \A i \in DOMAIN s : e(i) \in Reader /\ e(i).key = s[i].key /\ e(i).ver = s[i].ver
  BY <1>3, EndedIs
<1>6. Len(s) \in Nat /\ DOMAIN s = 1 .. Len(s) /\ s \in Seq(Reader)
  BY <1>3
<1> HIDE DEF s
<1>7. t \in Seq(Reader) /\ Relabelled(s, t)
  <2> HIDE DEF e
  <2>1. t = [i \in 1 .. Len(s) |-> e(i)]
    BY <1>6
  <2>2. t \in Seq(Reader)
    BY <1>5, <1>6, <2>1, IsASeq
  <2>3. Len(t) = Len(s) /\ DOMAIN t = DOMAIN s
    BY <1>6, <2>1, <2>2
  <2> QED
    BY <1>5, <2>2, <2>3 DEF Relabelled
<1>8. /\ GoodFor(work', version) /\ (Settled(w) => Settled(work')) /\ (Vacant(w) => Vacant(work'))
  <2> HIDE DEF t
  <2> QED
    BY <1>4, <1>7, RunningRelabelled DEF s
<1>9. faults' \in 0 .. MaxFaults
  <2>1. KeysOf(w.running) \subseteq Keys
    <3>1. \A x \in ItemsOf(w.running) : x.key \in Keys
      BY <1>3, ItemsAre
    <3> QED
      BY <3>1, KeysOfItems
  <2>2. IsFiniteSet(Keys)
    <3>1. 1 \in Int /\ N \in Int
      BY TurnIngestionAssumption
    <3> QED
      BY <3>1, FS_Interval DEF Keys
  <2>3. broken \subseteq Keys
    BY <2>1
  <2>4. Cardinality(broken) \in Nat
    BY <2>2, <2>3, FS_Subset, FS_CardinalityType
  <2> QED
    BY <1>2, <2>4, TurnIngestionAssumption DEF StoreInv
<1>10. attempted' \in [Keys -> 0 .. MaxVersion]
  <2>1. \A k \in Keys : version[k] \in 0 .. MaxVersion /\ attempted[k] \in 0 .. MaxVersion
    BY TurnIngestionAssumption DEF StoreInv, MaxVersion
  <2> QED
    BY <1>2, <2>1
<1> QED
  BY <1>8, <1>9, <1>10

\* The j-th of a set of numbers exists, for every j up to their number.
LEMMA RankExists ==
    ASSUME NEW n \in Nat, NEW S, S \subseteq 1 .. n, NEW j \in 1 .. Cardinality(S)
    PROVE  \E k \in S : Cardinality({x \in S : x <= k}) = j
<1> DEFINE upto(m) == {x \in S : x <= m}
           Enough == {m \in 0 .. n : Cardinality(upto(m)) >= j}
<1>1. IsFiniteSet(S) /\ Cardinality(S) \in Nat
  <2>1. IsFiniteSet(1 .. n)
    BY FS_Interval
  <2> QED
    BY <2>1, FS_Subset, FS_CardinalityType
<1>2. \A m : IsFiniteSet(upto(m)) /\ Cardinality(upto(m)) \in Nat
  <2>1. \A m : upto(m) \subseteq S
    OBVIOUS
  <2> HIDE DEF upto
  <2> QED
    BY <1>1, <2>1, FS_Subset, FS_CardinalityType
<1>3. upto(n) = S /\ upto(0) = {}
  <2>1. \A x \in S : x <= n /\ ~(x <= 0)
    OBVIOUS
  <2> QED
    BY <2>1
<1>4. n \in Enough
  BY <1>1, <1>3
<1>5. PICK m \in Enough : \A y \in Enough : m <= y
  <2>1. Enough \subseteq Nat
    OBVIOUS
  <2> HIDE DEF Enough
  <2> QED
    BY <1>4, <2>1, LeastOf
<1>6. m # 0
  <2>1. Cardinality(upto(0)) = 0
    BY <1>3, FS_EmptySet
  <2>2. j >= 1 /\ Cardinality(upto(m)) >= j /\ j \in Int
    BY <1>1, <1>5
  <2> HIDE DEF upto
  <2> QED
    BY <2>1, <2>2
<1>7. m - 1 \in 0 .. n /\ m \in 1 .. n
  BY <1>5, <1>6
<1>8. ~(Cardinality(upto(m - 1)) >= j)
  <2>1. m - 1 \notin Enough
    <3>1. ~(m <= m - 1)
      BY <1>7
    <3> HIDE DEF Enough
    <3> QED
      BY <1>5, <3>1
  <2> QED
    BY <1>7, <2>1
<1>9. m \in S
  <2> SUFFICES ASSUME m \notin S PROVE FALSE
    OBVIOUS
  <2>1. \A x \in S : x <= m <=> x <= m - 1
    BY <1>7
  <2>2. upto(m) = upto(m - 1)
    BY <2>1
  <2> HIDE DEF upto
  <2> QED
    BY <1>5, <1>8, <2>2
<1>10. Cardinality(upto(m)) = Cardinality(upto(m - 1)) + 1
  <2>1. m \notin upto(m - 1)
    BY <1>7
  <2>2. upto(m) = upto(m - 1) \cup {m}
    <3>1. \A x \in S : x <= m <=> (x <= m - 1 \/ x = m)
      BY <1>7
    <3> QED
      BY <1>9, <3>1
  <2> HIDE DEF upto
  <2> QED
    BY <1>2, <2>1, <2>2, FS_AddElement
<1>11. Cardinality(upto(m)) >= j
  BY <1>5
<1> DEFINE a == Cardinality(upto(m))
           b == Cardinality(upto(m - 1))
<1>12. a \in Nat /\ b \in Nat /\ j \in Int
  <2>1. a \in Nat /\ b \in Nat
    <3> HIDE DEF upto
    <3> QED
      BY <1>2
  <2>2. j \in Int
    OBVIOUS
  <2> QED
    BY <2>1, <2>2
<1> HIDE DEF a, b
<1>13. a = j
  BY <1>8, <1>10, <1>11, <1>12 DEF a, b
<1> QED
  BY <1>9, <1>13 DEF a

\* A listing that starts elsewhere has the same items.
LEMMA RotatedIs ==
    ASSUME NEW s \in Seq(Item), NEW n \in 0 .. Len(s)
    PROVE  Rotated(s, n) \in Seq(Item) /\ ItemsOf(Rotated(s, n)) \subseteq ItemsOf(s)
<1>1. /\ Len(s) \in Nat /\ DOMAIN s = 1 .. Len(s) /\ n \in Nat /\ n <= Len(s)
      /\ \A i \in 1 .. Len(s) : s[i] \in Item /\ s[i] \in ItemsOf(s)
  BY DEF ItemsOf
<1> DEFINE T == ItemsOf(s)
           a == SubSeq(s, n + 1, Len(s))
           b == SubSeq(s, 1, n)
<1>2. /\ n + 1 \in Int /\ Len(s) \in Int /\ 1 \in Int /\ n \in Int
      /\ (\A i \in n + 1 .. Len(s) : s[i] \in T) /\ (\A i \in 1 .. n : s[i] \in T)
  BY <1>1
<1>3. T \subseteq Item
  BY <1>1 DEF ItemsOf
<1> HIDE DEF T
<1>4. a \in Seq(T) /\ b \in Seq(T)
  BY <1>2, SubSeqProperties
<1> DEFINE r == a \o b
<1>5. r \in Seq(T)
  <2> HIDE DEF a, b
  <2> QED
    BY <1>4, ConcatProperties
<1>6. Rotated(s, n) = r
  BY DEF Rotated
<1> HIDE DEF r
<1>7. ItemsOf(r) \subseteq T
  BY <1>5 DEF ItemsOf
<1>8. r \in Seq(Item)
  BY <1>3, <1>5
<1> QED
  BY <1>6, <1>7, <1>8 DEF T

-----------------------------------------------------------------------------
(* The steps.                                                              *)

\* Readers of the record and of the store state what later steps need.
LEMMA VacantSettles ==
    ASSUME NEW w, Vacant(w)
    PROVE  Settled(w)
BY DEF Vacant, Settled

\* Newer versions leave nothing newer than they are.
LEMMA NewerVersions ==
    ASSUME NEW w, NEW v, NEW u, GoodFor(w, v), \A k \in Keys : v[k] \in Nat /\ u[k] \in Nat /\ v[k] <= u[k]
    PROVE  GoodFor(w, u)
<1>1. w \in Works /\ NotNewer(w, v)
  BY DEF GoodFor, Fits
<1>2. \A x \in ItemsOf(w.queue) \cup ItemsOf(w.running) \cup ItemsOf(w.deferred)
                \cup ItemsOf(w.retryDue) :
          x.key \in Keys /\ x.ver \in Nat
  <2>1. \A n : n \in 1 .. MaxVersion => n \in Nat
    OBVIOUS
  <2> QED
    BY <1>1, <2>1, ItemsAre
<1>3. DOMAIN w.latest \subseteq Keys /\ \A k \in DOMAIN w.latest : w.latest[k] \in Nat
  BY <1>1, ItemsAre
<1>4. \A k \in Keys, n \in Nat : n <= v[k] => n <= u[k]
  OBVIOUS
<1>5. NotNewer(w, u)
  <2>1. NoNewer(w.queue, v) /\ NoNewer(w.deferred, v) /\ NoNewer(w.running, v)
        /\ NoNewer(w.retryDue, v) /\ \A k \in DOMAIN w.latest : w.latest[k] <= v[k]
    BY <1>1, NotNewerIs
  <2>2. NoNewer(w.queue, u) /\ NoNewer(w.deferred, u) /\ NoNewer(w.running, u)
        /\ NoNewer(w.retryDue, u)
    BY <1>2, <1>4, <2>1 DEF NoNewer
  <2>3. \A k \in DOMAIN w.latest : w.latest[k] <= u[k]
    BY <1>3, <1>4, <2>1
  <2> QED
    BY <2>2, <2>3, NotNewerIs
<1> QED
  BY <1>5 DEF GoodFor

\* start() only wakes the coordinator up.
LEMMA StartStep ==
    ASSUME SchedInv, Start
    PROVE  SchedInv'
<1>1. StoreInv'
  BY DEF SchedInv, StoreInv, Start, store
<1>2. WorkInv'
  BY DEF SchedInv, WorkInv, Start, store
<1>3. ListingInv'
  BY DEF SchedInv, ListingInv, Start, store
<1>4. ThreadInv'
  BY DEF SchedInv, ThreadInv, Start, Busy, CoordinatorPlaces
<1> QED
  BY <1>1, <1>2, <1>3, <1>4 DEF SchedInv

\* A notify moves the coordinator from its wait only.
LEMMA WokenIs ==
    /\ coord \in CoordinatorPlaces => Woken \in CoordinatorPlaces
    /\ (Woken \in {"none", "exited"}) <=> (coord \in {"none", "exited"})
    /\ (Woken = "none") <=> (coord = "none")
    /\ (Woken = "listed") <=> (coord = "listed")
    /\ (Woken = "listing") <=> (coord = "listing")
BY DEF Woken, CoordinatorPlaces

\* request_refresh() only wakes it up.
LEMMA RequestRefreshStep ==
    ASSUME SchedInv, RequestRefresh
    PROVE  SchedInv'
<1>1. StoreInv'
  BY DEF SchedInv, StoreInv, RequestRefresh, store
<1>2. WorkInv'
  BY DEF SchedInv, WorkInv, RequestRefresh, store
<1>3. ListingInv'
  BY WokenIs DEF SchedInv, ListingInv, RequestRefresh, store
<1>4. ThreadInv'
  BY WokenIs DEF SchedInv, ThreadInv, RequestRefresh, stopping, Busy, Accepting
<1> QED
  BY <1>1, <1>2, <1>3, <1>4 DEF SchedInv

\* One pass of the coordinator: it collects, promotes and dispatches.
LEMMA CoordinateStep ==
    ASSUME SchedInv, Coordinate
    PROVE  SchedInv'
<1> DEFINE collected == CollectFinishedLocked(work)
           retried == PromoteBindingRetriesLocked(collected)
           d == DispatchLocked(retried)
           exit == forceExit \/ (~Accepting /\ collected.running = <<>>)
           scan == Accepting /\ (rescan \/ scanDue)
<1>1. /\ coord = "top"
      /\ \/ /\ exit
            /\ coord' = "exited"
            /\ work' = collected
            /\ UNCHANGED <<rescan, scanDue, faults, attempted>>
         \/ /\ ~exit
            /\ Submitted(d)
            /\ coord' = IF scan THEN "listing" ELSE "waiting"
            /\ rescan' = (rescan /\ ~scan)
            /\ scanDue' = (scanDue /\ ~scan)
      /\ UNCHANGED <<store, stopping, cursor, listing>>
  BY DEF Coordinate
<1>2. GoodFor(work, version) /\ (~Accepting => Vacant(work))
  BY DEF SchedInv, WorkInv, GoodFor, ThreadInv, Accepting
<1>3. GoodFor(collected, version) /\ (~Accepting => Vacant(collected))
  BY <1>2, CollectsKeep
<1> HIDE DEF collected
<1>4. GoodFor(retried, version) /\ (~Accepting => Vacant(retried))
  <2>1. GoodFor(retried, version) /\ (collected.retryDue = <<>> => retried = collected)
    BY <1>3, RetriesKeep
  <2> HIDE DEF retried
  <2> QED
    BY <1>3, <2>1 DEF Vacant
<1> HIDE DEF retried
<1>5. GoodFor(d, version) /\ Settled(d) /\ (~Accepting => Vacant(d))
  <2>1. GoodFor(d, version) /\ (Accepting => Settled(d)) /\ (~Accepting /\ Vacant(retried) => Vacant(d))
    BY <1>4, DispatchKeeps
  <2> HIDE DEF d
  <2> QED
    BY <1>4, <2>1, VacantSettles
<1>6. exit => ~Accepting
  BY DEF SchedInv, ThreadInv, Accepting
<1> HIDE DEF d, exit, scan
<1>7. /\ GoodFor(work', version) /\ Settled(work') /\ (~Accepting => Vacant(work'))
      /\ faults' \in 0 .. MaxFaults /\ attempted' \in [Keys -> 0 .. MaxVersion]
  <2>1. CASE exit /\ work' = collected /\ UNCHANGED <<faults, attempted>>
    BY <1>3, <1>6, <2>1, VacantSettles DEF SchedInv, StoreInv
  <2>2. CASE Submitted(d)
    <3>1. /\ GoodFor(work', version) /\ (Settled(d) => Settled(work')) /\ (Vacant(d) => Vacant(work'))
          /\ faults' \in 0 .. MaxFaults /\ attempted' \in [Keys -> 0 .. MaxVersion]
      BY <1>5, <2>2, SubmittedKeeps DEF SchedInv
    <3> QED
      BY <1>5, <3>1
  <2> QED
    BY <1>1, <2>1, <2>2
<1>8. /\ coord' \in {"exited", "listing", "waiting"} /\ rescan' \in BOOLEAN /\ scanDue' \in BOOLEAN
      /\ UNCHANGED <<store, stopping, cursor, listing>> /\ coord = "top"
  <2>1. coord' \in {"exited", "listing", "waiting"}
    BY <1>1
  <2>2. rescan \in BOOLEAN /\ scanDue \in BOOLEAN
    BY DEF SchedInv, ThreadInv
  <2>3. rescan' \in BOOLEAN
    BY <1>1, <2>2
  <2>4. scanDue' \in BOOLEAN
    BY <1>1, <2>2
  <2> QED
    BY <1>1, <2>1, <2>3, <2>4
<1>9. StoreInv'
  BY <1>7, <1>8 DEF SchedInv, StoreInv, store
<1>10. WorkInv'
  BY <1>7, <1>8 DEF WorkInv, GoodFor, store
<1>11. ListingInv'
  BY <1>8 DEF SchedInv, ListingInv, store
<1>12. ThreadInv'
  BY <1>7, <1>8 DEF SchedInv, ThreadInv, stopping, Accepting, CoordinatorPlaces
<1> QED
  BY <1>9, <1>10, <1>11, <1>12 DEF SchedInv

\* A timeout, or a listing that fails, brings it back to the top.
LEMMA WaitAndFailSteps ==
    ASSUME SchedInv, WaitTimesOut \/ ScanFails
    PROVE  SchedInv'
<1>1. /\ coord \in {"waiting", "listing"} /\ coord' = "top" /\ faults' \in 0 .. MaxFaults
      /\ UNCHANGED <<store, work, stopping, scanning, attempted>>
  BY TurnIngestionAssumption DEF WaitTimesOut, ScanFails, SchedInv, StoreInv
<1>2. StoreInv'
  BY <1>1 DEF SchedInv, StoreInv, store
<1>3. WorkInv'
  BY <1>1 DEF SchedInv, WorkInv, store
<1>4. ListingInv'
  BY <1>1 DEF SchedInv, ListingInv, store, scanning
<1>5. ThreadInv'
  BY <1>1 DEF SchedInv, ThreadInv, stopping, scanning, Busy, CoordinatorPlaces
<1> QED
  BY <1>2, <1>3, <1>4, <1>5 DEF SchedInv

\* The listing is at least as new as every reader then in flight, since a version never
\* falls.
LEMMA ListBindingsStep ==
    ASSUME SchedInv, ListBindings
    PROVE  SchedInv'
<1> DEFINE c == Cardinality(live)
           pick(i) == CHOOSE k \in live : Cardinality({j \in live : j <= k}) = i
           item(i) == [key |-> pick(i), ver |-> version[pick(i)]]
<1>1. /\ coord = "listing" /\ coord' = "listed"
      /\ listing' = [i \in 1 .. c |-> item(i)]
      /\ UNCHANGED <<store, work, stopping, rescan, scanDue, cursor, attempted, faults>>
  BY DEF ListBindings
<1>2. live \subseteq 1 .. N /\ N \in Nat
  BY TurnIngestionAssumption DEF SchedInv, StoreInv, Keys
<1>3. c \in Nat /\ c <= N
  <2>1. IsFiniteSet(1 .. N) /\ Cardinality(1 .. N) = IF 1 > N THEN 0 ELSE N - 1 + 1
    BY <1>2, FS_Interval
  <2>2. Cardinality(1 .. N) = N
    BY <1>2, <2>1
  <2>3. IsFiniteSet(live) /\ Cardinality(live) <= Cardinality(1 .. N)
    BY <1>2, <2>1, FS_Subset
  <2> QED
    BY <2>2, <2>3, FS_CardinalityType
<1>4. \A i \in 1 .. c : pick(i) \in live
  <2> SUFFICES ASSUME NEW i \in 1 .. c PROVE pick(i) \in live
    OBVIOUS
  <2>1. \A j \in 1 .. Cardinality(live) :
            \E k \in live : Cardinality({x \in live : x <= k}) = j
    BY <1>2, RankExists
  <2>2. \E k \in live : Cardinality({j \in live : j <= k}) = i
    BY <2>1
  <2> QED
    BY <2>2
<1>5. \A k \in Keys : version[k] \in 1 .. MaxVersion
  BY TurnIngestionAssumption DEF SchedInv, StoreInv, MaxVersion
<1> HIDE DEF pick
<1>6. \A i \in 1 .. c : item(i) \in Item /\ item(i).ver = version[item(i).key]
  BY <1>2, <1>4, <1>5 DEF Item, Keys
<1> HIDE DEF item, c
<1>7. listing' \in Seq(Item) /\ Len(listing') = c
  BY <1>1, <1>3, <1>6, IsASeq
<1>8. \A x \in ItemsOf(listing') : x \in Item /\ x.ver = version[x.key]
  BY <1>1, <1>6 DEF ItemsOf
<1>9. NoNewer(work.running, version) /\ \A r \in ItemsOf(work.running) : r.key \in Keys
  BY NotNewerIs, ItemsAre DEF SchedInv, WorkInv, Fits
<1>10. \A x \in ItemsOf(listing') : x.ver <= version[x.key] /\ AsNewAsReaders(work, x)
  <2> SUFFICES ASSUME NEW x \in ItemsOf(listing')
               PROVE  x.ver <= version[x.key] /\ AsNewAsReaders(work, x)
    OBVIOUS
  <2>1. x.key \in Keys /\ x.ver = version[x.key]
    BY <1>8 DEF Item
  <2>2. x.ver <= version[x.key]
    BY <1>5, <2>1
  <2>3. AsNewAsReaders(work, x)
    BY <1>9, <2>1 DEF AsNewAsReaders, NoNewer
  <2> QED
    BY <2>2, <2>3
<1>11. StoreInv'
  BY <1>1 DEF SchedInv, StoreInv, store
<1>12. WorkInv'
  BY <1>1 DEF SchedInv, WorkInv, store
<1>13. ListingInv'
  BY <1>1, <1>3, <1>7, <1>10 DEF SchedInv, ListingInv, store
<1>14. ThreadInv'
  BY <1>1 DEF SchedInv, ThreadInv, stopping, Busy, CoordinatorPlaces
<1> QED
  BY <1>11, <1>12, <1>13, <1>14 DEF SchedInv

\* The cursor stays within the listing that it starts.
LEMMA CursorWraps ==
    ASSUME NEW n \in Nat \ {0}, NEW x \in Nat
    PROVE  /\ x % n \in Nat /\ x % n < n
           /\ NextCursor(x, n) \in Nat /\ NextCursor(x, n) < n
<1>1. \A y \in Nat : y % n \in Nat /\ y % n < n
  OBVIOUS
<1>2. x + QueueCapacity \in Nat
  BY TurnIngestionAssumption
<1> QED
  BY <1>1, <1>2 DEF NextCursor

\* The listing is applied although readers began and ended since it was made: none of
\* them can be newer than it, because only the coordinator starts one.
LEMMA ApplyListingStep ==
    ASSUME SchedInv, ApplyListing
    PROVE  SchedInv'
<1> DEFINE D == work.retried \ KeysOf(listing)
           pruned == Pruned(work, D)
           n == Len(listing)
           offset == IF n = 0 THEN 0 ELSE cursor % n
           rot == Rotated(listing, offset)
           enq == FoldLeft(EnqueueLocked, pruned, rot)
           d == DispatchLocked(enq)
<1>1. /\ coord = "listed" /\ coord' = "top" /\ listing' = <<>>
      /\ IF Accepting
         THEN cursor' = (IF n = 0 THEN cursor ELSE NextCursor(offset, n)) /\ Submitted(d)
         ELSE work' = pruned /\ UNCHANGED <<cursor, faults, attempted>>
      /\ UNCHANGED <<store, stopping, rescan, scanDue>>
  BY DEF ApplyListing
<1>2. GoodFor(work, version) /\ (~Accepting => Vacant(work)) /\ Settled(work)
  BY DEF SchedInv, WorkInv, GoodFor, ThreadInv, Accepting
<1>3. /\ listing \in Seq(Item) /\ n \in Nat /\ n <= N /\ cursor \in Nat /\ N \in Nat
      /\ \A x \in ItemsOf(listing) : x.ver <= version[x.key] /\ AsNewAsReaders(work, x)
  BY <1>1, TurnIngestionAssumption DEF SchedInv, ListingInv
<1>4. offset \in 0 .. n
  <2> HIDE DEF n
  <2>1. CASE n = 0
    BY <2>1
  <2>2. CASE n # 0
    BY <1>3, <2>2, CursorWraps
  <2> QED
    BY <2>1, <2>2
<1>5. cursor' \in 0 .. N /\ (N > 0 => cursor' < N)
  <2>1. cursor \in 0 .. N /\ (N > 0 => cursor < N)
    BY DEF SchedInv, ListingInv
  <2> HIDE DEF n
  <2>2. CASE cursor' = cursor
    BY <2>1, <2>2
  <2>3. CASE n # 0 /\ cursor' = NextCursor(offset, n)
    <3>1. offset \in Nat
      BY <1>3, <1>4
    <3> HIDE DEF offset
    <3>2. NextCursor(offset, n) \in Nat /\ NextCursor(offset, n) < n
      BY <1>3, <2>3, <3>1, CursorWraps
    <3> QED
      BY <1>3, <2>3, <3>2
  <2> QED
    BY <1>1, <2>2, <2>3
<1>6. IsFiniteSet(D)
  <2>1. work.retried \in SUBSET Keys
    BY <1>2, WorkIsTyped DEF GoodFor, Fits
  <2>2. IsFiniteSet(Keys)
    <3>1. 1 \in Int /\ N \in Int
      BY <1>3
    <3> QED
      BY <3>1, FS_Interval DEF Keys
  <2>3. D \subseteq Keys
    BY <2>1
  <2> HIDE DEF D
  <2> QED
    BY <2>2, <2>3, FS_Subset
<1>7. GoodFor(pruned, version) /\ pruned.running = work.running /\ (~Accepting => pruned = work)
  <2>1. ~Accepting => D = {}
    BY <1>2 DEF Vacant
  <2> HIDE DEF D
  <2> QED
    BY <1>2, <1>6, <2>1, PrunesKeep
<1>8. rot \in Seq(Item) /\ ItemsOf(rot) \subseteq ItemsOf(listing)
  <2> HIDE DEF offset
  <2> QED
    BY <1>3, <1>4, RotatedIs
<1> HIDE DEF rot, pruned, D, offset
<1>9. \A x \in ItemsOf(rot) : x.ver <= version[x.key] /\ AsNewAsReaders(pruned, x)
  BY <1>3, <1>7, <1>8 DEF AsNewAsReaders
<1>10. GoodFor(enq, version)
  BY <1>7, <1>8, <1>9, EnqueuesKeep
<1> HIDE DEF enq
<1>11. GoodFor(d, version) /\ (Accepting => Settled(d))
  BY <1>10, DispatchKeeps
<1> HIDE DEF d, n
<1>12. /\ GoodFor(work', version) /\ Settled(work') /\ (~Accepting => Vacant(work'))
       /\ faults' \in 0 .. MaxFaults /\ attempted' \in [Keys -> 0 .. MaxVersion]
  <2>1. CASE Accepting
    <3>1. Submitted(d) /\ StoreInv
      BY <1>1, <2>1 DEF SchedInv
    <3> QED
      BY <1>11, <2>1, <3>1, SubmittedKeeps
  <2>2. CASE ~Accepting
    <3>1. work' = work /\ UNCHANGED <<faults, attempted>>
      BY <1>1, <1>7, <2>2
    <3> QED
      BY <1>2, <2>2, <3>1 DEF SchedInv, StoreInv
  <2> QED
    BY <2>1, <2>2
<1>13. StoreInv'
  BY <1>1, <1>12 DEF SchedInv, StoreInv, store
<1>14. WorkInv'
  BY <1>1, <1>12 DEF WorkInv, GoodFor, store
<1>15. ListingInv'
  <2>1. <<>> \in Seq(Item) /\ Len(<<>>) = 0 /\ ItemsOf(<<>>) = {}
    BY DEF ItemsOf
  <2> QED
    BY <1>1, <1>3, <1>5, <2>1 DEF ListingInv
<1>16. ThreadInv'
  BY <1>1, <1>12 DEF SchedInv, ThreadInv, stopping, Accepting, CoordinatorPlaces
<1> QED
  BY <1>13, <1>14, <1>15, <1>16 DEF SchedInv

\* Whatever happens to the readers without changing what they read keeps the rest.
LEMMA ReadersStep ==
    ASSUME SchedInv, NEW t \in Seq(Reader), Relabelled(work.running, t),
           work' = [work EXCEPT !.running = t],
           UNCHANGED <<store, scanning>>, coord' \in {coord, Woken},
           faults' \in 0 .. MaxFaults, attempted' \in [Keys -> 0 .. MaxVersion]
    PROVE  /\ StoreInv' /\ WorkInv' /\ ListingInv' /\ rescan' \in BOOLEAN /\ scanDue' \in BOOLEAN
           /\ coord' \in CoordinatorPlaces
           /\ (coord' \in {"none", "exited"}) <=> (coord \in {"none", "exited"})
           /\ (coord' = "none") <=> (coord = "none")
           /\ work.running = <<>> => work'.running = <<>>
           /\ Vacant(work) => Vacant(work')
           /\ work'.running = t
<1>1. GoodFor(work, version) /\ Settled(work)
  BY DEF SchedInv, WorkInv, GoodFor
<1>2. /\ GoodFor(work', version) /\ (Settled(work) => Settled(work')) /\ (Vacant(work) => Vacant(work'))
      /\ \A item : AsNewAsReaders(work, item) => AsNewAsReaders(work', item)
      /\ work.running = <<>> => work'.running = <<>>
      /\ work'.running = t
  BY <1>1, RunningRelabelled
<1>3. StoreInv'
  BY DEF SchedInv, StoreInv, store
<1>4. WorkInv'
  BY <1>1, <1>2 DEF WorkInv, GoodFor, store
<1>5. ListingInv'
  BY <1>2, WokenIs DEF SchedInv, ListingInv, store, scanning
<1>6. /\ coord' \in CoordinatorPlaces
      /\ (coord' \in {"none", "exited"}) <=> (coord \in {"none", "exited"})
      /\ (coord' = "none") <=> (coord = "none")
  <2>1. coord \in CoordinatorPlaces
    BY DEF SchedInv, ThreadInv
  <2> QED
    BY <2>1, WokenIs
<1>7. rescan' \in BOOLEAN /\ scanDue' \in BOOLEAN
  BY DEF SchedInv, ThreadInv, scanning
<1> QED
  BY <1>2, <1>3, <1>4, <1>5, <1>6, <1>7

\* One reader of the pool gets on.
LEMMA OneReader ==
    ASSUME NEW s \in Seq(Reader), NEW i \in DOMAIN s, NEW x \in Reader,
           x.key = s[i].key, x.ver = s[i].ver
    PROVE  [s EXCEPT ![i] = x] \in Seq(Reader) /\ Relabelled(s, [s EXCEPT ![i] = x])
<1> DEFINE t == [s EXCEPT ![i] = x]
<1>1. Len(s) \in Nat /\ DOMAIN s = 1 .. Len(s) /\ \A j \in DOMAIN s : s[j] \in Reader
  OBVIOUS
<1>2. DOMAIN t = DOMAIN s /\ \A j \in DOMAIN s : t[j] = IF j = i THEN x ELSE s[j]
  OBVIOUS
<1>3. t = [j \in 1 .. Len(s) |-> t[j]] /\ \A j \in 1 .. Len(s) : t[j] \in Reader
  BY <1>1, <1>2
<1> HIDE DEF t
<1>4. t \in Seq(Reader) /\ Len(t) = Len(s)
  BY <1>1, <1>3, IsASeq
<1>5. Relabelled(s, t)
  BY <1>2, <1>4 DEF Relabelled
<1> QED
  BY <1>4, <1>5 DEF t

\* The callback of a reader that ends, or the read that begins.
LEMMA LookupBindingStep ==
    ASSUME SchedInv, NEW i \in DOMAIN work.running, LookupBinding(i)
    PROVE  SchedInv'
<1> DEFINE s == work.running
           r == s[i]
<1>1. work \in Works /\ s \in Seq(Reader) /\ r \in Reader /\ i \in DOMAIN s
  BY WorkIsTyped DEF SchedInv, WorkInv, Fits
<1>2. r.at = "submitted" /\ UNCHANGED <<store, stopping, scanning>>
  BY DEF LookupBinding
<1>3. PICK x \in {[r EXCEPT !.at = "reading"], Ended(r, {}), Ended(r, {r.key})} :
        work' = [work EXCEPT !.running = [s EXCEPT ![i] = x]]
  BY DEF LookupBinding
<1>4. x \in Reader /\ x.key = r.key /\ x.ver = r.ver
  <2>1. CASE x = [r EXCEPT !.at = "reading"]
    BY <1>1, <2>1 DEF Reader
  <2>2. CASE x \in {Ended(r, {}), Ended(r, {r.key})}
    BY <1>1, <2>2, EndedIs
  <2> QED
    BY <2>1, <2>2
<1>5. coord' \in {coord, Woken}
  BY DEF LookupBinding
<1>6. faults' \in 0 .. MaxFaults
  BY TurnIngestionAssumption DEF LookupBinding, SchedInv, StoreInv
<1>7. attempted' \in [Keys -> 0 .. MaxVersion]
  <2>1. attempted \in [Keys -> 0 .. MaxVersion]
    BY DEF SchedInv, StoreInv
  <2>2. attempted' = attempted \/ attempted' = [attempted EXCEPT ![r.key] = r.ver]
    BY DEF LookupBinding
  <2>3. r.ver \in 0 .. MaxVersion
    BY <1>1 DEF Reader
  <2> QED
    BY <2>1, <2>2, <2>3
<1> DEFINE t == [s EXCEPT ![i] = x]
<1>8. t \in Seq(Reader) /\ Relabelled(s, t) /\ work' = [work EXCEPT !.running = t]
  <2> HIDE DEF s
  <2> QED
    BY <1>1, <1>3, <1>4, OneReader
<1> HIDE DEF t
<1>9. /\ StoreInv' /\ WorkInv' /\ ListingInv' /\ rescan' \in BOOLEAN /\ scanDue' \in BOOLEAN
      /\ coord' \in CoordinatorPlaces
      /\ (coord' \in {"none", "exited"}) <=> (coord \in {"none", "exited"})
      /\ (coord' = "none") <=> (coord = "none")
      /\ work.running = <<>> => work'.running = <<>>
      /\ Vacant(work) => Vacant(work')
  BY <1>2, <1>5, <1>6, <1>7, <1>8, ReadersStep
<1>10. i \in Busy
  BY <1>1, <1>2 DEF Busy
<1>11. ThreadInv'
  BY <1>2, <1>9, <1>10 DEF SchedInv, ThreadInv, stopping
<1> QED
  BY <1>9, <1>11 DEF SchedInv

\* The adapter comes back.
LEMMA ReadEndsStep ==
    ASSUME SchedInv, NEW i \in DOMAIN work.running, ReadEnds(i)
    PROVE  SchedInv'
<1> DEFINE s == work.running
           r == s[i]
           x == [r EXCEPT !.at = "done", !.result = "read"]
           t == [s EXCEPT ![i] = x]
<1>1. work \in Works /\ s \in Seq(Reader) /\ r \in Reader /\ i \in DOMAIN s
  BY WorkIsTyped DEF SchedInv, WorkInv, Fits
<1>2. /\ r.at = "reading" /\ coord' = Woken
      /\ UNCHANGED <<store, stopping, scanning, attempted, faults>>
      /\ work' = [work EXCEPT !.running[i].at = "done", !.running[i].result = "read"]
  BY DEF ReadEnds
<1>3. x \in Reader /\ x.key = r.key /\ x.ver = r.ver
  BY <1>1 DEF Reader, Results
<1>4. work' = [work EXCEPT !.running = t]
  BY <1>1, <1>2 DEF Works
<1>5. t \in Seq(Reader) /\ Relabelled(s, t)
  <2> HIDE DEF s, x
  <2> QED
    BY <1>1, <1>3, OneReader
<1>6. faults' \in 0 .. MaxFaults /\ attempted' \in [Keys -> 0 .. MaxVersion]
  BY <1>2 DEF SchedInv, StoreInv
<1> HIDE DEF t
<1>7. /\ StoreInv' /\ WorkInv' /\ ListingInv' /\ rescan' \in BOOLEAN /\ scanDue' \in BOOLEAN
      /\ coord' \in CoordinatorPlaces
      /\ (coord' \in {"none", "exited"}) <=> (coord \in {"none", "exited"})
      /\ (coord' = "none") <=> (coord = "none")
      /\ work.running = <<>> => work'.running = <<>>
      /\ Vacant(work) => Vacant(work')
  BY <1>2, <1>4, <1>5, <1>6, ReadersStep
<1>8. i \in Busy
  BY <1>1, <1>2 DEF Busy
<1>9. ThreadInv'
  BY <1>2, <1>7, <1>8 DEF SchedInv, ThreadInv, stopping
<1> QED
  BY <1>7, <1>9 DEF SchedInv

\* The executor cancels the readers that no thread has picked up.
LEMMA ShutdownStep ==
    ASSUME SchedInv, Shutdown
    PROVE  SchedInv'
<1> DEFINE s == work.running
<1>1. work \in Works /\ s \in Seq(Reader)
  BY WorkIsTyped DEF SchedInv, WorkInv, Fits
<1>2. PICK unstarted \in SUBSET DOMAIN s :
        /\ work' = [work EXCEPT !.running =
                        [i \in DOMAIN @ |-> IF i \in unstarted
                                            THEN [@[i] EXCEPT !.at = "done",
                                                              !.result = "cancelled"]
                                            ELSE @[i]]]
        /\ coord' = IF unstarted = {} THEN coord ELSE Woken
  BY DEF Shutdown
<1>3. /\ stopper = "closing" /\ stopper' = "draining"
      /\ UNCHANGED <<store, phase, forceExit, clean, scanning, attempted, faults>>
  BY DEF Shutdown
<1> DEFINE e(i) == IF i \in unstarted
                   THEN [s[i] EXCEPT !.at = "done", !.result = "cancelled"] ELSE s[i]
           t == [i \in DOMAIN s |-> e(i)]
<1>4. work' = [work EXCEPT !.running = t]
  BY <1>2
<1>5. \A i \in DOMAIN s : e(i) \in Reader /\ e(i).key = s[i].key /\ e(i).ver = s[i].ver
  <2> SUFFICES ASSUME NEW i \in DOMAIN s
               PROVE  e(i) \in Reader /\ e(i).key = s[i].key /\ e(i).ver = s[i].ver
    OBVIOUS
  <2>1. s[i] \in Reader
    BY <1>1
  <2> QED
    BY <2>1 DEF Reader, Results
<1>6. t \in Seq(Reader) /\ Relabelled(s, t)
  <2> HIDE DEF e, s
  <2>1. Len(s) \in Nat /\ DOMAIN s = 1 .. Len(s)
    BY <1>1
  <2>2. t \in Seq(Reader) /\ Len(t) = Len(s) /\ DOMAIN t = DOMAIN s
    BY <1>5, <2>1, IsASeq
  <2> QED
    BY <1>5, <2>2 DEF Relabelled
<1>7. /\ faults' \in 0 .. MaxFaults /\ attempted' \in [Keys -> 0 .. MaxVersion]
      /\ coord' \in {coord, Woken} /\ UNCHANGED <<store, scanning>>
  BY <1>2, <1>3 DEF SchedInv, StoreInv
<1> HIDE DEF t
<1>8. /\ StoreInv' /\ WorkInv' /\ ListingInv' /\ rescan' \in BOOLEAN /\ scanDue' \in BOOLEAN
      /\ coord' \in CoordinatorPlaces
      /\ (coord' \in {"none", "exited"}) <=> (coord \in {"none", "exited"})
      /\ (coord' = "none") <=> (coord = "none")
      /\ work.running = <<>> => work'.running = <<>>
      /\ Vacant(work) => Vacant(work')
  BY <1>4, <1>6, <1>7, ReadersStep
<1>9. ThreadInv'
  BY <1>3, <1>8 DEF SchedInv, ThreadInv
<1> QED
  BY <1>8, <1>9 DEF SchedInv

\* stop() drops everything but the readers in flight.
LEMMA StopStep ==
    ASSUME SchedInv, Stop
    PROVE  SchedInv'
<1>1. /\ phase # "stopped" /\ phase' = "stopped" /\ rescan' = FALSE
      /\ work' = [Idle EXCEPT !.running = work.running]
      /\ stopper' = (IF phase = "new" THEN "done" ELSE "joining") /\ coord' = Woken
      /\ UNCHANGED <<store, forceExit, clean, scanDue, cursor, listing, attempted, faults>>
  BY DEF Stop
<1>2. work \in Works /\ Apart(work) /\ Bounded(work) /\ NoNewer(work.running, version)
  BY NotNewerIs DEF SchedInv, WorkInv, Fits
<1>3. work.running \in Seq(Reader) /\ Len(work.running) \in Nat /\ Len(work.deferred) \in Nat
  BY <1>2, WorkIsTyped, ItemsAre
<1>4. /\ work'.queue = <<>> /\ work'.running = work.running /\ work'.deferred = <<>>
      /\ work'.retryDue = <<>> /\ work'.dirty = {} /\ work'.retried = {} /\ work'.latest = <<>>
  BY <1>1 DEF Idle
<1>5. Vacant(work')
  BY <1>4 DEF Vacant
<1>6. work' \in Works
  <2>1. <<>> \in Latests
    <3>1. <<>> \in [{} -> 1 .. MaxVersion]
      BY EmptyFunction
    <3> QED
      BY <3>1 DEF Latests
  <2>2. <<>> \in Seq(Item) /\ <<>> \in Seq(Retry)
    OBVIOUS
  <2> QED
    BY <1>1, <1>3, <2>1, <2>2 DEF Works, Latests, Idle
<1>7. KeysOf(<<>>) = {} /\ ItemsOf(<<>>) = {} /\ Distinct(<<>>) /\ Len(<<>>) = 0
  BY DEF KeysOf, ItemsOf, Distinct
<1>8. Apart(work')
  BY <1>2, <1>4, <1>7 DEF Apart
<1>9. Bounded(work')
  <2>1. Len(work.running) <= MaxWorkers
    <3> DEFINE a == Len(work.running)
               b == Len(work.deferred)
    <3>1. a \in Nat /\ b \in Nat /\ a + b <= MaxWorkers /\ MaxWorkers \in Nat
      BY <1>2, <1>3, TurnIngestionAssumption DEF Bounded
    <3> HIDE DEF a, b
    <3>2. a <= MaxWorkers
      BY <3>1
    <3> QED
      BY <3>2 DEF a
  <2> DEFINE a == Len(work.running)
  <2>2. a + 0 <= MaxWorkers /\ 0 <= QueueCapacity
    <3>1. a \in Nat /\ a <= MaxWorkers
      BY <1>3, <2>1
    <3> HIDE DEF a
    <3> QED
      BY <3>1, TurnIngestionAssumption
  <2> HIDE DEF a
  <2> QED
    BY <1>4, <1>7, <2>2 DEF Bounded, a
<1>10. Owes(work')
  BY <1>4, <1>7 DEF Owes
<1>11. NotNewer(work', version)
  BY <1>2, <1>4, <1>7, NotNewerIs DEF NoNewer
<1>12. StoreInv'
  BY <1>1 DEF SchedInv, StoreInv, store
<1>13. WorkInv'
  BY <1>1, <1>5, <1>6, <1>8, <1>9, <1>10, <1>11, VacantSettles DEF WorkInv, Fits, store
<1>14. ListingInv'
  <2>1. \A x : AsNewAsReaders(work, x) => AsNewAsReaders(work', x)
    BY <1>4 DEF AsNewAsReaders
  <2> QED
    BY <1>1, <2>1, WokenIs DEF SchedInv, ListingInv, store
<1>15. ThreadInv'
  <2>1. phase = "new" => coord' = "none" /\ Busy' = {}
    BY <1>1, <1>4, WokenIs DEF SchedInv, ThreadInv, Busy
  <2> QED
    BY <1>1, <1>5, <2>1, WokenIs DEF SchedInv, ThreadInv
<1> QED
  BY <1>12, <1>13, <1>14, <1>15 DEF SchedInv

\* What else stop() does leaves the work alone.
LEMMA StopperSteps ==
    ASSUME SchedInv, Join \/ Rejoin \/ StopReturns
    PROVE  SchedInv'
<1>1. UNCHANGED <<store, work, phase, scanning, attempted, faults>> /\ coord' \in {coord, Woken}
  BY DEF Join, Rejoin, StopReturns
<1>2. StoreInv'
  BY <1>1 DEF SchedInv, StoreInv, store
<1>3. WorkInv'
  BY <1>1 DEF SchedInv, WorkInv, store
<1>4. ListingInv'
  BY <1>1, WokenIs DEF SchedInv, ListingInv, store, scanning
<1>5. ThreadInv'
  <2>1. CASE Join
    BY <2>1, WokenIs DEF SchedInv, ThreadInv, Join, scanning
  <2>2. CASE Rejoin
    BY <2>2 DEF SchedInv, ThreadInv, Rejoin, scanning
  <2>3. CASE StopReturns
    BY <2>3 DEF SchedInv, ThreadInv, StopReturns, scanning, Busy
  <2> QED
    BY <2>1, <2>2, <2>3
<1> QED
  BY <1>2, <1>3, <1>4, <1>5 DEF SchedInv

\* A binding that comes, changes or goes is at least as new as it was.
LEMMA BindingSteps ==
    ASSUME SchedInv, NEW k \in Keys, Bind(k) \/ Rebind(k) \/ Unbind(k)
    PROVE  SchedInv'
<1>1. /\ live' \subseteq Keys /\ changes' = changes + 1 /\ changes < MaxChanges
      /\ version' \in {version, [version EXCEPT ![k] = @ + 1]}
      /\ UNCHANGED <<work, stopping, scanning, coord, attempted, faults>>
  BY DEF Bind, Rebind, Unbind, SchedInv, StoreInv
<1>2. /\ version \in [Keys -> Nat] /\ changes \in 0 .. MaxChanges
      /\ \A x \in Keys : 1 <= version[x] /\ version[x] <= changes + 1
  BY DEF SchedInv, StoreInv
<1>3. /\ version' \in [Keys -> Nat]
      /\ \A x \in Keys : version[x] <= version'[x] /\ 1 <= version'[x] /\ version'[x] <= changes' + 1
  <2>1. CASE version' = version
    BY <1>1, <1>2, <2>1
  <2>2. CASE version' = [version EXCEPT ![k] = @ + 1]
    BY <1>1, <1>2, <2>2
  <2> QED
    BY <1>1, <2>1, <2>2
<1>4. StoreInv'
  <2>1. changes' \in 0 .. MaxChanges
    BY <1>1, <1>2, TurnIngestionAssumption
  <2> QED
    BY <1>1, <1>3, <2>1 DEF SchedInv, StoreInv
<1>5. GoodFor(work, version')
  <2>1. \A x \in Keys : version[x] \in Nat /\ version'[x] \in Nat /\ version[x] <= version'[x]
    BY <1>2, <1>3
  <2>2. GoodFor(work, version)
    BY DEF SchedInv, WorkInv, GoodFor
  <2> QED
    BY <2>1, <2>2, NewerVersions
<1>6. WorkInv'
  BY <1>1, <1>5 DEF SchedInv, WorkInv, GoodFor
<1>7. ListingInv'
  <2>1. \A x \in ItemsOf(listing) : x.ver <= version'[x.key]
    <3> SUFFICES ASSUME NEW x \in ItemsOf(listing) PROVE x.ver <= version'[x.key]
      OBVIOUS
    <3>1. x \in Item /\ x.ver <= version[x.key]
      BY DEF SchedInv, ListingInv, ItemsOf
    <3>2. x.key \in Keys /\ x.ver \in Int
      BY <3>1 DEF Item
    <3>3. version[x.key] \in Nat /\ version'[x.key] \in Nat /\ version[x.key] <= version'[x.key]
      BY <1>2, <1>3, <3>2
    <3> QED
      BY <3>1, <3>2, <3>3
  <2> QED
    BY <1>1, <2>1 DEF SchedInv, ListingInv, scanning
<1>8. ThreadInv'
  BY <1>1 DEF SchedInv, ThreadInv, stopping, scanning, Busy
<1> QED
  BY <1>4, <1>6, <1>7, <1>8 DEF SchedInv

\* Time passes.
LEMMA ScanFallsDueStep ==
    ASSUME SchedInv, ScanFallsDue
    PROVE  SchedInv'
<1>1. /\ scanDue' = TRUE
      /\ UNCHANGED <<store, work, stopping, rescan, cursor, listing, coord, attempted, faults>>
  BY DEF ScanFallsDue
<1>2. StoreInv'
  BY <1>1 DEF SchedInv, StoreInv, store
<1>3. WorkInv'
  BY <1>1 DEF SchedInv, WorkInv, store
<1>4. ListingInv'
  BY <1>1 DEF SchedInv, ListingInv, store
<1>5. ThreadInv'
  BY <1>1 DEF SchedInv, ThreadInv, stopping, Busy
<1> QED
  BY <1>2, <1>3, <1>4, <1>5 DEF SchedInv

\* A delay that is over changes neither the places nor the versions.
LEMMA RetryFallsDueStep ==
    ASSUME SchedInv, RetryFallsDue
    PROVE  SchedInv'
<1> DEFINE s == work.retryDue
<1>1. work \in Works /\ s \in Seq(Retry) /\ GoodFor(work, version) /\ Settled(work)
  BY WorkIsTyped DEF SchedInv, WorkInv, Fits, GoodFor
<1>2. PICK i \in DOMAIN s : work' = [work EXCEPT !.retryDue[i].due = TRUE]
  BY DEF RetryFallsDue
<1>3. UNCHANGED <<store, stopping, scanning, coord, attempted, faults>>
  BY DEF RetryFallsDue
<1> DEFINE x == [s[i] EXCEPT !.due = TRUE]
           t == [s EXCEPT ![i] = x]
<1>4. /\ work' = [work EXCEPT !.retryDue = t]
      /\ s[i] \in Retry /\ x \in Retry /\ x.key = s[i].key /\ x.ver = s[i].ver
  <2>1. s[i] \in Retry
    BY <1>1
  <2>2. x \in Retry /\ x.key = s[i].key /\ x.ver = s[i].ver
    BY <2>1 DEF Retry
  <2> QED
    BY <1>2, <2>1, <2>2
<1>5. t \in Seq(Retry) /\ Relabelled(s, t)
  <2>1. Len(s) \in Nat /\ DOMAIN s = 1 .. Len(s) /\ \A j \in DOMAIN s : s[j] \in Retry
    BY <1>1
  <2> HIDE DEF s, x
  <2>2. DOMAIN t = DOMAIN s /\ \A j \in DOMAIN s : t[j] = IF j = i THEN x ELSE s[j]
    OBVIOUS
  <2>3. t = [j \in 1 .. Len(s) |-> t[j]] /\ \A j \in 1 .. Len(s) : t[j] \in Retry
    BY <1>4, <2>1, <2>2
  <2> HIDE DEF t
  <2>4. t \in Seq(Retry) /\ Len(t) = Len(s)
    BY <2>1, <2>3, IsASeq
  <2> QED
    BY <1>4, <2>2, <2>4 DEF Relabelled
<1> HIDE DEF t
<1>6. /\ work' \in Works /\ work'.queue = work.queue /\ work'.deferred = work.deferred
      /\ work'.dirty = work.dirty /\ work'.latest = work.latest /\ work'.retried = work.retried
      /\ work'.running = work.running /\ work'.retryDue = t
  BY <1>1, <1>4, <1>5 DEF Works
<1>7. Relabelled(work.running, work'.running) /\ Relabelled(work.retryDue, work'.retryDue)
  BY <1>5, <1>6, RelabelledRefl
<1>8. /\ GoodFor(work', version) /\ Settled(work') /\ (Vacant(work) => Vacant(work'))
      /\ \A item : AsNewAsReaders(work, item) => AsNewAsReaders(work', item)
  BY <1>1, <1>6, <1>7, RelabelKeeps
<1>9. StoreInv'
  BY <1>3 DEF SchedInv, StoreInv, store
<1>10. WorkInv'
  BY <1>3, <1>8 DEF WorkInv, GoodFor, store
<1>11. ListingInv'
  BY <1>3, <1>8 DEF SchedInv, ListingInv, store, scanning
<1>12. ThreadInv'
  BY <1>3, <1>6, <1>8 DEF SchedInv, ThreadInv, stopping, scanning, Busy
<1> QED
  BY <1>9, <1>10, <1>11, <1>12 DEF SchedInv

\* At first there is nothing.
LEMMA SchedInit ==
    ASSUME Init
    PROVE  SchedInv
<1>1. KeysOf(<<>>) = {} /\ ItemsOf(<<>>) = {} /\ Distinct(<<>>) /\ Len(<<>>) = 0
  BY DEF KeysOf, ItemsOf, Distinct
<1>2. /\ work.queue = <<>> /\ work.running = <<>> /\ work.deferred = <<>> /\ work.retryDue = <<>>
      /\ work.dirty = {} /\ work.retried = {} /\ work.latest = <<>> /\ work = Idle
  BY DEF Init, Idle
<1>3. work \in Works
  <2>1. <<>> \in Latests
    <3>1. <<>> \in [{} -> 1 .. MaxVersion]
      BY EmptyFunction
    <3> QED
      BY <3>1 DEF Latests
  <2>2. <<>> \in Seq(Item) /\ <<>> \in Seq(Retry) /\ <<>> \in Seq(Reader)
    OBVIOUS
  <2> QED
    BY <1>2, <2>1, <2>2 DEF Works, Latests, Idle
<1>4. Apart(work) /\ Bounded(work) /\ Owes(work)
  BY <1>1, <1>2, TurnIngestionAssumption DEF Apart, Bounded, Owes
<1>5. NotNewer(work, version)
  BY <1>1, <1>2, NotNewerIs DEF NoNewer
<1>6. Vacant(work) /\ Settled(work)
  BY <1>2, VacantSettles DEF Vacant
<1>7. WorkInv
  BY <1>3, <1>4, <1>5, <1>6 DEF WorkInv, Fits
<1>8. StoreInv
  BY TurnIngestionAssumption DEF Init, StoreInv, MaxVersion
<1>9. ListingInv
  BY <1>1, TurnIngestionAssumption DEF Init, ListingInv
<1>10. ThreadInv
  BY <1>2, <1>6 DEF Init, ThreadInv, CoordinatorPlaces, Busy
<1> QED
  BY <1>7, <1>8, <1>9, <1>10 DEF SchedInv

\* Every step keeps the invariant.
LEMMA SchedKept == SchedInv /\ [Next]_vars => SchedInv'
<1> SUFFICES ASSUME SchedInv, [Next]_vars PROVE SchedInv'
  OBVIOUS
<1>1. CASE Start
  BY <1>1, StartStep
<1>2. CASE RequestRefresh
  BY <1>2, RequestRefreshStep
<1>3. CASE Threads
  <2>1. CASE Coordinate
    BY <2>1, CoordinateStep
  <2>2. CASE WaitTimesOut \/ ScanFails
    BY <2>2, WaitAndFailSteps
  <2>3. CASE ListBindings
    BY <2>3, ListBindingsStep
  <2>4. CASE ApplyListing
    BY <2>4, ApplyListingStep
  <2>5. ASSUME NEW i \in DOMAIN work.running, LookupBinding(i) \/ ReadEnds(i)
        PROVE  SchedInv'
    BY <2>5, LookupBindingStep, ReadEndsStep
  <2> QED
    BY <1>3, <2>1, <2>2, <2>3, <2>4, <2>5 DEF Threads
<1>4. CASE Stop
  BY <1>4, StopStep
<1>5. CASE Join \/ Rejoin \/ StopReturns
  BY <1>5, StopperSteps
<1>6. CASE Shutdown
  BY <1>6, ShutdownStep
<1>7. ASSUME NEW k \in Keys, Bind(k) \/ Rebind(k) \/ Unbind(k)
      PROVE  SchedInv'
  BY <1>7, BindingSteps
<1>8. CASE ScanFallsDue
  BY <1>8, ScanFallsDueStep
<1>9. CASE RetryFallsDue
  BY <1>9, RetryFallsDueStep
<1>10. CASE UNCHANGED vars
  <2>1. UNCHANGED <<store, stopping, scanning, work, coord, attempted, faults>>
    BY <1>10 DEF vars, store, stopping, scanning
  <2>2. StoreInv'
    BY <2>1 DEF SchedInv, StoreInv, store
  <2>3. WorkInv'
    BY <2>1 DEF SchedInv, WorkInv, store
  <2>4. ListingInv'
    BY <2>1 DEF SchedInv, ListingInv, store, scanning
  <2>5. ThreadInv'
    BY <2>1 DEF SchedInv, ThreadInv, stopping, scanning, Busy
  <2> QED
    BY <2>2, <2>3, <2>4, <2>5 DEF SchedInv
<1> QED
  BY <1>1, <1>2, <1>3, <1>4, <1>5, <1>6, <1>7, <1>8, <1>9, <1>10 DEF Next

\* The invariant implies the property the run checks.
LEMMA SchedInvSuffices == SchedInv => SchedulerIsSound
<1> SUFFICES ASSUME SchedInv PROVE SchedulerIsSound
  OBVIOUS
<1>1. work \in Works /\ Apart(work) /\ Bounded(work) /\ Owes(work) /\ Settled(work)
  BY DEF SchedInv, WorkInv, Fits
<1>2. /\ work.queue \in Seq(Item) /\ work.running \in Seq(Reader) /\ work.dirty \in SUBSET Keys
      /\ work.latest \in Latests /\ work.deferred \in Seq(Item) /\ work.retryDue \in Seq(Retry)
      /\ work.retried \in SUBSET Keys
      /\ DOMAIN work.latest \subseteq Keys
      /\ \A k \in DOMAIN work.latest : work.latest[k] \in 1 .. MaxVersion
  BY <1>1, WorkIsTyped, ItemsAre
<1>3. TypeOK
  <2>1. version \in [Keys -> 1 .. MaxVersion]
    BY TurnIngestionAssumption DEF SchedInv, StoreInv, MaxVersion
  <2> QED
    BY <1>2, <2>1 DEF SchedInv, StoreInv, ListingInv, ThreadInv, TypeOK
<1>4. EachBindingOnce
  <2> DEFINE places == <<work.queue, work.running, work.deferred, work.retryDue>>
  <2>1. /\ Cardinality(KeysOf(work.queue)) = Len(work.queue)
        /\ Cardinality(KeysOf(work.running)) = Len(work.running)
        /\ Cardinality(KeysOf(work.deferred)) = Len(work.deferred)
        /\ Cardinality(KeysOf(work.retryDue)) = Len(work.retryDue)
    BY <1>1, <1>2, DistinctKeys DEF Apart
  <2>2. /\ DOMAIN places = {1, 2, 3, 4} /\ places[1] = work.queue /\ places[2] = work.running
        /\ places[3] = work.deferred /\ places[4] = work.retryDue
    OBVIOUS
  <2> HIDE DEF places
  <2>3. \A p \in DOMAIN places : Cardinality(KeysOf(places[p])) = Len(places[p])
    BY <2>1, <2>2
  <2>4. \A p, q \in DOMAIN places : p # q => KeysOf(places[p]) \cap KeysOf(places[q]) = {}
    BY <1>1, <2>2 DEF Apart
  <2> QED
    BY <2>3, <2>4 DEF EachBindingOnce, places
<1>5. NoIdleWorker
  <2> DEFINE a == Len(work.running)
             b == Len(work.deferred)
  <2>1. a \in Nat /\ b \in Nat /\ a + b <= MaxWorkers /\ MaxWorkers \in Nat
    BY <1>1, ItemsAre, TurnIngestionAssumption DEF Bounded
  <2> HIDE DEF a, b
  <2>2. a <= MaxWorkers
    BY <2>1
  <2> QED
    BY <1>1, <2>2 DEF NoIdleWorker, Bounded, Settled, a
<1>6. RerunIsOwed
  <2> SUFFICES ASSUME NEW k \in work.dirty
               PROVE  /\ k \in DOMAIN work.latest
                      /\ \E i \in DOMAIN work.running :
                            work.running[i].key = k /\ work.running[i].ver <= work.latest[k]
    BY DEF RerunIsOwed
  <2>1. k \in KeysOf(work.running) /\ k \in DOMAIN work.latest
    BY <1>1 DEF Owes
  <2>2. PICK i \in DOMAIN work.running : work.running[i].key = k
    BY <2>1 DEF KeysOf
  <2>3. work.running[i].ver <= work.latest[k]
    BY <1>1, <2>2 DEF Owes, ItemsOf
  <2> QED
    BY <2>1, <2>2, <2>3
<1>7. RetryHasBudget
  BY <1>1 DEF Owes, RetryHasBudget
<1>8. StopIsClean
  <2>1. ASSUME phase = "stopped" PROVE work = [Idle EXCEPT !.running = work.running]
    <3>1. Vacant(work)
      BY <2>1 DEF SchedInv, ThreadInv
    <3> DEFINE e == [Idle EXCEPT !.running = work.running]
    <3>2. /\ e.queue = <<>> /\ e.running = work.running /\ e.dirty = {} /\ e.latest = <<>>
          /\ e.deferred = <<>> /\ e.retryDue = <<>> /\ e.retried = {}
      BY DEF Idle
    <3>3. e \in Works
      <4>1. <<>> \in Latests
        <5>1. <<>> \in [{} -> 1 .. MaxVersion]
          BY EmptyFunction
        <5> QED
          BY <5>1 DEF Latests
      <4>2. <<>> \in Seq(Item) /\ <<>> \in Seq(Retry)
        OBVIOUS
      <4> QED
        BY <1>2, <4>1, <4>2 DEF Works, Latests, Idle
    <3> HIDE DEF e
    <3>4. \A x \in Works :
              x = [queue |-> x.queue, running |-> x.running, dirty |-> x.dirty,
                   latest |-> x.latest, deferred |-> x.deferred, retryDue |-> x.retryDue,
                   retried |-> x.retried]
      BY DEF Works
    <3> DEFINE left == [queue |-> <<>>, running |-> work.running, dirty |-> {},
                        latest |-> <<>>, deferred |-> <<>>, retryDue |-> <<>>, retried |-> {}]
    <3>5. work = left
      <4>1. work = [queue |-> work.queue, running |-> work.running, dirty |-> work.dirty,
                    latest |-> work.latest, deferred |-> work.deferred,
                    retryDue |-> work.retryDue, retried |-> work.retried]
        BY <1>1, <3>4
      <4> QED
        BY <3>1, <4>1 DEF Vacant
    <3>6. e = left
      <4>1. e = [queue |-> e.queue, running |-> e.running, dirty |-> e.dirty,
                 latest |-> e.latest, deferred |-> e.deferred,
                 retryDue |-> e.retryDue, retried |-> e.retried]
        BY <3>3, <3>4
      <4> QED
        BY <3>2, <4>1
    <3> HIDE DEF left
    <3> QED
      BY <3>5, <3>6 DEF e
  <2>2. (stopper = "done" /\ clean) => (coord \in {"none", "exited"} /\ Busy = {})
    BY DEF SchedInv, ThreadInv
  <2> QED
    BY <2>1, <2>2 DEF StopIsClean
<1> QED
  BY <1>3, <1>4, <1>5, <1>6, <1>7, <1>8 DEF SchedulerIsSound

\* The coordinator's queue, its pool of readers, the reruns and the retries it owes
\* fit together whenever the condition is free, for any number of bindings, workers,
\* queue places, changes and faults: a binding is in one place and once, no worker
\* idles while one is queued, no rerun is forgotten, and stop() leaves nothing behind.
THEOREM SchedulerSound == Spec => []SchedulerIsSound
<1>1. Spec => []SchedInv
  BY SchedInit, SchedKept, PTL DEF Spec
<1> QED
  BY <1>1, SchedInvSuffices, PTL
=============================================================================
