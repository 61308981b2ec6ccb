------------------------- MODULE FinalDeliveryProofs -------------------------
(***************************************************************************)
(* Proofs about the delivery of finished turns, for any turns, revisions,  *)
(* presentation versions and connectors: parts of one stream go out one at *)
(* a time, each under one lease, and no row is attempted too often; a plan *)
(* waits for nothing but a leased part of its turn; and the sweeps of      *)
(* FinalRetention leave what is queued complete.                           *)
(***************************************************************************)
EXTENDS FinalRetention, SequenceTheorems, FiniteSetTheorems, WellFoundedInduction, TLAPS

-----------------------------------------------------------------------------
(* Greatest and least numbers                                              *)

\* A set of natural numbers has a least element.
LEMMA LeastOf ==
    ASSUME NEW S, S \subseteq Nat, S # {}
    PROVE  Min(S) \in S /\ \A y \in S : Min(S) <= y
<1>1. PICK m \in S : \A y \in S : ~ (<<y, m>> \in OpToRel(<, Nat))
  BY NatLessThanWellFounded, WFMin
<1>2. \A y \in Nat : y < m => <<y, m>> \in OpToRel(<, Nat)
  BY DEF OpToRel
<1>3. ASSUME NEW y \in S PROVE m <= y
  <2>1. ~(y < m)
    BY <1>1, <1>2
  <2> QED
    BY <2>1
<1> QED
  BY <1>3 DEF Min

\* A bounded set of natural numbers has a greatest element.
LEMMA GreatestOf ==
    ASSUME NEW n \in Nat, NEW S, S \subseteq 0 .. n, S # {}
    PROVE  Max(S) \in S /\ \A y \in S : y <= Max(S)
<1> DEFINE D == {k \in Nat : \E y \in S : y = n - k}
           m == Min(D)
<1>1. PICK y \in S : TRUE
  OBVIOUS
<1>2. n - y \in D
  BY <1>1
<1>3. m \in D /\ \A k \in D : m <= k
  <2>1. D \subseteq Nat /\ D # {}
    BY <1>2
  <2> HIDE DEF D
  <2> QED
    BY <2>1, LeastOf
<1> HIDE DEF m
<1>4. PICK x \in S : x = n - m
  BY <1>3
<1>5. ASSUME NEW z \in S PROVE x >= z
  <2>1. n - z \in D /\ z \in Nat
    OBVIOUS
  <2>2. m <= n - z /\ m \in Nat
    BY <1>3, <2>1
  <2> QED
    BY <1>4, <2>1, <2>2
<1>6. \E w \in S : \A z \in S : w >= z
  BY <1>5
<1>7. Max(S) \in S /\ \A z \in S : Max(S) >= z
  BY <1>6 DEF Max
<1> DEFINE top == Max(S)
<1> HIDE DEF top
<1>8. top \in S /\ \A z \in S : top >= z
  BY <1>7 DEF top
<1>9. \A z \in S : z <= top
  BY <1>8
<1> QED
  BY <1>7, <1>9 DEF top

\* Rows are numbered from 1: the next number is free and beyond all others.
LEMMA HighestIs ==
    ASSUME NEW n \in Nat, NEW S, S \subseteq 0 .. n
    PROVE  Highest(S) \in 0 .. n /\ \A y \in S : y <= Highest(S)
<1>1. CASE S = {}
  BY <1>1 DEF Highest
<1>2. CASE S # {}
  BY <1>2, GreatestOf DEF Highest
<1> QED
  BY <1>1, <1>2

-----------------------------------------------------------------------------
(* The inductive invariant                                                 *)

RowFields ==
    {"kind", "turn", "rev", "status", "due", "used", "doomed", "gen", "foot", "after"}
PlanFields ==
    {"turn", "rev", "ver", "gen", "parts", "staged", "sourced", "state", "activated",
     "completed", "recovers", "recovered", "jobs"}

\* A row is attempted once for every lease it had; only a root awaits its parts.
RowFits(o) ==
    /\ DOMAIN o = RowFields
    /\ o.foot \in 0 .. MaxParts /\ o.used \in 0 .. MaxAttempts
    /\ o.status \in {"leased", "awaiting_ack"} => o.used # 0
    /\ o.status = "awaiting_ack" => o.kind # "part"

\* The jobs of a plan that can be made again are complete.
PlanFits(p) ==
    /\ DOMAIN p = PlanFields /\ p.parts \in 1 .. MaxParts
    /\ p.state # "superseded" => p.jobs \in Seq(Jobs)

StoreFits(st) ==
    /\ DOMAIN st = {"outbox", "leases", "plans"}
    /\ \E n \in Nat : DOMAIN st.outbox \subseteq 1 .. n
    /\ \A i \in DOMAIN st.outbox : RowFits(st.outbox[i])
    /\ \A q \in DOMAIN st.plans : PlanFits(st.plans[q])

\* A leased row has its lease.
LeasesFit(st) ==
    /\ \A l \in st.leases :
          /\ DOMAIN l = {"row", "owner", "due"}
          /\ l.row \in DOMAIN st.outbox /\ st.outbox[l.row].status = "leased"
    /\ \A i \in DOMAIN st.outbox :
          st.outbox[i].status = "leased" => \E l \in st.leases : l.row = i
    /\ \A l, m \in st.leases : l.row = m.row => l = m

\* Before a part that is leased every part of its stream is closed.
PartsInOrder(st) ==
    \A i, j \in DOMAIN st.outbox :
        /\ st.outbox[i].kind = "part" /\ st.outbox[i].status = "leased"
        /\ st.outbox[j].kind = "part" /\ Same(st, i, j) /\ j < i
        => st.outbox[j].status \in Terminal

Orderly(st) == StoreFits(st) /\ LeasesFit(st) /\ PartsInOrder(st)

-----------------------------------------------------------------------------
(* What the steps of a transaction may do to rows                           *)

\* What a row may become: a part stays one, and stays closed; left says that the
\* row gives its lease up.
Follows(o, n, left) ==
    /\ RowFits(n)
    /\ n.kind = "part" <=> o.kind = "part"
    /\ n.turn = o.turn
    /\ o.kind = "part" /\ o.status \in Terminal => n.status \in Terminal
    /\ n.status = "leased" <=> o.status = "leased" /\ ~left

\* The leases of parts that have not expired
LiveParts(st) == {l \in st.leases : ~l.due /\ st.outbox[l.row].kind = "part"}

\* The parts with a live lease stay leased, unless they are obsolete or deleted.
LeasesKept(a, b) ==
    \A l \in LiveParts(a) :
        l.row \in DOMAIN b.outbox => b.outbox[l.row].status \in {"leased", "superseded"}

\* Leases that stay keep their rows leased.
LEMMA KeptByLeases ==
    ASSUME NEW a, NEW b, Orderly(b), LiveParts(a) \subseteq LiveParts(b)
    PROVE  LeasesKept(a, b)
BY DEF LeasesKept, LiveParts, Orderly, LeasesFit

\* So do rows that stay, are superseded or go.
LEMMA KeptByRows ==
    ASSUME NEW a, Orderly(a), NEW b,
           \A x \in DOMAIN a.outbox \cap DOMAIN b.outbox :
               a.outbox[x].kind = "part" /\ a.outbox[x].status = "leased"
                   => b.outbox[x].status \in {"leased", "superseded"}
    PROVE  LeasesKept(a, b)
BY DEF LeasesKept, LiveParts, Orderly, LeasesFit

\* Rows of a store change or go; a lease goes with its row only.
LEMMA RowsMove ==
    ASSUME NEW a, Orderly(a), NEW b, NEW I,
           DOMAIN b = {"outbox", "leases", "plans"},
           DOMAIN b.outbox \subseteq DOMAIN a.outbox,
           \A i \in DOMAIN a.outbox \ DOMAIN b.outbox : i \in I,
           b.leases = {l \in a.leases : l.row \notin I},
           \A i \in DOMAIN b.outbox : Follows(a.outbox[i], b.outbox[i], i \in I),
           \A q \in DOMAIN b.plans : PlanFits(b.plans[q])
    PROVE  Orderly(b) /\ \A l \in LiveParts(a) : l.row \notin I => l \in LiveParts(b)
<1>1. StoreFits(b)
  BY DEF Orderly, StoreFits, Follows
<1>2. LeasesFit(b)
  BY DEF Orderly, LeasesFit, Follows
<1>3. PartsInOrder(b)
  BY DEF Orderly, PartsInOrder, Follows, Same
<1>4. \A l \in LiveParts(a) : l.row \notin I => l \in LiveParts(b)
  BY DEF LiveParts, Follows, Orderly, LeasesFit
<1> QED
  BY <1>1, <1>2, <1>3, <1>4 DEF Orderly

\* All rows stay, and with them the leases.
LEMMA RowsStay ==
    ASSUME NEW a, Orderly(a), NEW b,
           DOMAIN b = {"outbox", "leases", "plans"},
           DOMAIN b.outbox = DOMAIN a.outbox, b.leases = a.leases,
           \A i \in DOMAIN b.outbox : Follows(a.outbox[i], b.outbox[i], FALSE),
           \A q \in DOMAIN b.plans : PlanFits(b.plans[q])
    PROVE  Orderly(b) /\ LiveParts(a) \subseteq LiveParts(b)
<1> DEFINE I == {}
<1>1. /\ b.leases = {l \in a.leases : l.row \notin I}
      /\ \A i \in DOMAIN b.outbox : Follows(a.outbox[i], b.outbox[i], i \in I)
      /\ \A i : i \notin I
  BY DEF Follows
<1> HIDE DEF I
<1>2. Orderly(b) /\ \A l \in LiveParts(a) : l.row \notin I => l \in LiveParts(b)
  BY <1>1, RowsMove
<1> QED
  BY <1>1, <1>2

\* The rows stay as they are.
LEMMA PlansMove ==
    ASSUME NEW a, Orderly(a), NEW b,
           DOMAIN b = {"outbox", "leases", "plans"},
           b.outbox = a.outbox, b.leases = a.leases,
           \A q \in DOMAIN b.plans : PlanFits(b.plans[q])
    PROVE  Orderly(b)
BY DEF Orderly, StoreFits, LeasesFit, PartsInOrder, Same

\* Rows are added beyond all others.
LEMMA RowsCome ==
    ASSUME NEW a, Orderly(a), NEW b, NEW n \in Nat,
           DOMAIN b = {"outbox", "leases", "plans"},
           DOMAIN a.outbox \subseteq DOMAIN b.outbox, DOMAIN b.outbox \subseteq 1 .. n,
           b.leases = a.leases,
           \A i \in DOMAIN a.outbox : b.outbox[i] = a.outbox[i],
           \A i \in DOMAIN b.outbox \ DOMAIN a.outbox :
               /\ RowFits(b.outbox[i]) /\ b.outbox[i].status # "leased"
               /\ \A j \in DOMAIN a.outbox : ~(i <= j),
           \A q \in DOMAIN b.plans : PlanFits(b.plans[q])
    PROVE  Orderly(b) /\ LiveParts(a) \subseteq LiveParts(b)
<1>1. StoreFits(b)
  BY DEF Orderly, StoreFits
<1>2. LeasesFit(b)
  BY DEF Orderly, LeasesFit
<1>3. PartsInOrder(b)
  <2> SUFFICES ASSUME NEW i \in DOMAIN b.outbox, NEW j \in DOMAIN b.outbox,
                      b.outbox[i].kind = "part", b.outbox[i].status = "leased",
                      b.outbox[j].kind = "part", Same(b, i, j), j < i
               PROVE  b.outbox[j].status \in Terminal
    BY DEF PartsInOrder
  <2>1. i \in DOMAIN a.outbox
    OBVIOUS
  <2>2. j <= i
    OBVIOUS
  <2>3. j \in DOMAIN a.outbox
    BY <2>1, <2>2
  <2> QED
    BY <2>1, <2>3 DEF Orderly, PartsInOrder, Same
<1>4. LiveParts(a) \subseteq LiveParts(b)
  BY DEF LiveParts, Orderly, LeasesFit
<1> QED
  BY <1>1, <1>2, <1>3, <1>4 DEF Orderly

-----------------------------------------------------------------------------
(* The steps of a transaction                                              *)

\* Changing the state of plans
LEMMA SetPlanStateIs ==
    ASSUME NEW st, Orderly(st), NEW Q, NEW s,
           \A q \in Q \cap DOMAIN st.plans : st.plans[q].state = "superseded" => s = "superseded"
    PROVE  LET e == SetPlanState(st, Q, s)
           IN  /\ Orderly(e) /\ e.outbox = st.outbox /\ e.leases = st.leases
               /\ LiveParts(e) = LiveParts(st) /\ DOMAIN e.plans = DOMAIN st.plans
               /\ \A x \in DOMAIN st.plans \ Q : e.plans[x] = st.plans[x]
<1> DEFINE e == SetPlanState(st, Q, s)
<1>1. DOMAIN st = {"outbox", "leases", "plans"} /\ \A q \in DOMAIN st.plans : PlanFits(st.plans[q])
  BY DEF Orderly, StoreFits
<1>2. /\ DOMAIN e = {"outbox", "leases", "plans"} /\ e.outbox = st.outbox /\ e.leases = st.leases
      /\ e.plans = [q \in DOMAIN st.plans |->
                       IF q \in Q THEN [st.plans[q] EXCEPT !.state = s] ELSE st.plans[q]]
  BY <1>1 DEF SetPlanState
<1>3. \A p : PlanFits(p) /\ (p.state = "superseded" => s = "superseded")
                => PlanFits([p EXCEPT !.state = s])
  BY DEF PlanFits, PlanFields
<1> HIDE DEF e
<1>4. \A q \in DOMAIN e.plans : PlanFits(e.plans[q])
  BY <1>1, <1>2, <1>3
<1>5. Orderly(e)
  BY <1>2, <1>4, PlansMove
<1> QED
  BY <1>2, <1>5 DEF e, LiveParts

\* _activate_waiting_presentation_plans_conn changes plans only.
LEMMA ActivateWaitingIs ==
    ASSUME NEW st, Orderly(st)
    PROVE  LET e == ActivateWaiting(st)
           IN  /\ Orderly(e) /\ e.outbox = st.outbox /\ e.leases = st.leases
               /\ LiveParts(e) = LiveParts(st)
<1> DEFINE free(q) == \A o \in DOMAIN st.plans \ {q} :
                         st.plans[o].turn = st.plans[q].turn =>
                             \A k \in DOMAIN st.plans[o].jobs :
                                 StatusOf(st, st.plans[o], k) # "leased"
           e == ActivateWaiting(st)
<1>1. DOMAIN st = {"outbox", "leases", "plans"} /\ \A q \in DOMAIN st.plans : PlanFits(st.plans[q])
  BY DEF Orderly, StoreFits
<1>2. e = [st EXCEPT !.plans = [q \in DOMAIN @ |->
              IF @[q].state = "waiting_predecessor" /\ free(q)
              THEN [@[q] EXCEPT !.state = "active", !.activated = TRUE] ELSE @[q]]]
  BY DEF ActivateWaiting
<1> HIDE DEF e, free
<1>3. /\ DOMAIN e = {"outbox", "leases", "plans"} /\ e.outbox = st.outbox /\ e.leases = st.leases
      /\ e.plans = [q \in DOMAIN st.plans |->
                       IF st.plans[q].state = "waiting_predecessor" /\ free(q)
                       THEN [st.plans[q] EXCEPT !.state = "active", !.activated = TRUE]
                       ELSE st.plans[q]]
  BY <1>1, <1>2
<1>4. ASSUME NEW p, PlanFits(p), p.state = "waiting_predecessor"
      PROVE  PlanFits([p EXCEPT !.state = "active", !.activated = TRUE])
  BY <1>4 DEF PlanFits, PlanFields
<1>5. ASSUME NEW q \in DOMAIN st.plans PROVE PlanFits(e.plans[q])
  <2> DEFINE p == st.plans[q]
  <2>1. PlanFits(p)
    BY <1>1
  <2>2. CASE p.state = "waiting_predecessor" /\ free(q)
    <3>1. e.plans[q] = [p EXCEPT !.state = "active", !.activated = TRUE]
      BY <1>3, <2>2
    <3> HIDE DEF p
    <3> QED
      BY <1>4, <2>1, <2>2, <3>1
  <2>3. CASE ~(p.state = "waiting_predecessor" /\ free(q))
    <3>1. e.plans[q] = p
      BY <1>3, <2>3
    <3> HIDE DEF p
    <3> QED
      BY <2>1, <3>1
  <2> QED
    BY <2>2, <2>3
<1>6. Orderly(e)
  BY <1>3, <1>5, PlansMove
<1> QED
  BY <1>3, <1>6 DEF e, LiveParts

\* What is left of a row that is closed
Closed(o, s) == [o EXCEPT !.status = s, !.due = FALSE]

\* It keeps all but its status.
LEMMA ClosedIs ==
    ASSUME NEW o, RowFits(o), NEW s
    PROVE  LET n == Closed(o, s)
           IN  /\ DOMAIN n = RowFields /\ n.status = s /\ n.used = o.used /\ n.foot = o.foot
               /\ n.kind = o.kind /\ n.turn = o.turn
BY DEF Closed, RowFits, RowFields

\* Closing rows ends their leases.
LEMMA CloseIs ==
    ASSUME NEW st, Orderly(st), NEW I, NEW s \in RowStatus, s # "leased",
           \A i \in I \cap DOMAIN st.outbox :
               /\ s = "awaiting_ack" => st.outbox[i].used # 0 /\ st.outbox[i].kind # "part"
               /\ st.outbox[i].kind = "part" /\ st.outbox[i].status \in Terminal => s \in Terminal
    PROVE  LET e == Close(st, I, s)
           IN  /\ Orderly(e) /\ e.plans = st.plans /\ DOMAIN e.outbox = DOMAIN st.outbox
               /\ e.leases = {l \in st.leases : l.row \notin I}
               /\ \A l \in LiveParts(st) : l.row \notin I => l \in LiveParts(e)
               /\ \A i \in DOMAIN st.outbox :
                     e.outbox[i] = IF i \in I THEN Closed(st.outbox[i], s) ELSE st.outbox[i]
<1> DEFINE e == Close(st, I, s)
<1>1. /\ DOMAIN st = {"outbox", "leases", "plans"} /\ \A q \in DOMAIN st.plans : PlanFits(st.plans[q])
      /\ \A i \in DOMAIN st.outbox : RowFits(st.outbox[i])
  BY DEF Orderly, StoreFits
<1>2. /\ DOMAIN e = {"outbox", "leases", "plans"} /\ e.plans = st.plans
      /\ e.leases = {l \in st.leases : l.row \notin I} /\ DOMAIN e.outbox = DOMAIN st.outbox
      /\ \A i \in DOMAIN st.outbox :
            e.outbox[i] = IF i \in I THEN Closed(st.outbox[i], s) ELSE st.outbox[i]
  BY <1>1 DEF Close, Closed
<1> HIDE DEF e
<1>3. \A i \in DOMAIN st.outbox : Follows(st.outbox[i], e.outbox[i], i \in I)
  <2> SUFFICES ASSUME NEW i \in DOMAIN st.outbox
               PROVE  Follows(st.outbox[i], e.outbox[i], i \in I)
    OBVIOUS
  <2> DEFINE o == st.outbox[i]
             n == Closed(o, s)
  <2>1. RowFits(o)
    BY <1>1
  <2>2. CASE i \notin I
    BY <1>2, <2>1, <2>2 DEF Follows
  <2>3. CASE i \in I
    <3>1. /\ s = "awaiting_ack" => o.used # 0 /\ o.kind # "part"
          /\ o.kind = "part" /\ o.status \in Terminal => s \in Terminal
      BY <2>3
    <3>2. e.outbox[i] = n
      BY <1>2, <2>3
    <3> HIDE DEF o
    <3>3. /\ DOMAIN n = RowFields /\ n.status = s /\ n.used = o.used /\ n.foot = o.foot
          /\ n.kind = o.kind /\ n.turn = o.turn
      BY <2>1, ClosedIs
    <3> HIDE DEF n
    <3>4. Follows(o, n, i \in I)
      BY <2>1, <2>3, <3>1, <3>3 DEF Follows, RowFits
    <3> QED
      BY <3>2, <3>4 DEF o
  <2> QED
    BY <2>2, <2>3
<1>4. Orderly(e) /\ \A l \in LiveParts(st) : l.row \notin I => l \in LiveParts(e)
  BY <1>1, <1>2, <1>3, RowsMove
<1> QED
  BY <1>2, <1>4 DEF e

\* Rows may always be closed for good.
LEMMA CloseForGood ==
    ASSUME NEW st, Orderly(st), NEW I, NEW s \in Terminal
    PROVE  LET e == Close(st, I, s)
           IN  /\ Orderly(e) /\ e.plans = st.plans /\ DOMAIN e.outbox = DOMAIN st.outbox
               /\ e.leases = {l \in st.leases : l.row \notin I}
               /\ \A l \in LiveParts(st) : l.row \notin I => l \in LiveParts(e)
               /\ \A i \in DOMAIN st.outbox :
                     e.outbox[i] = IF i \in I THEN Closed(st.outbox[i], s) ELSE st.outbox[i]
<1>1. s \in RowStatus /\ s # "leased" /\ s # "awaiting_ack"
  BY DEF Terminal, RowStatus
<1>2. \A i \in I \cap DOMAIN st.outbox :
         /\ s = "awaiting_ack" => st.outbox[i].used # 0 /\ st.outbox[i].kind # "part"
         /\ st.outbox[i].kind = "part" /\ st.outbox[i].status \in Terminal => s \in Terminal
  BY <1>1
<1> QED
  BY <1>1, <1>2, CloseIs

\* Deleting rows, too
LEMMA DeleteRowsIs ==
    ASSUME NEW st, Orderly(st), NEW I
    PROVE  LET e == DeleteRows(st, I)
           IN  /\ Orderly(e) /\ e.plans = st.plans /\ DOMAIN e.outbox = DOMAIN st.outbox \ I
               /\ \A i \in DOMAIN e.outbox : e.outbox[i] = st.outbox[i]
<1> DEFINE e == DeleteRows(st, I)
<1>1. /\ DOMAIN st = {"outbox", "leases", "plans"} /\ \A q \in DOMAIN st.plans : PlanFits(st.plans[q])
      /\ \A i \in DOMAIN st.outbox : RowFits(st.outbox[i])
  BY DEF Orderly, StoreFits
<1>2. /\ DOMAIN e = {"outbox", "leases", "plans"} /\ e.plans = st.plans
      /\ e.leases = {l \in st.leases : l.row \notin I} /\ DOMAIN e.outbox = DOMAIN st.outbox \ I
      /\ \A i \in DOMAIN e.outbox : e.outbox[i] = st.outbox[i]
  BY <1>1 DEF DeleteRows
<1> HIDE DEF e
<1>3. \A i \in DOMAIN e.outbox : Follows(st.outbox[i], e.outbox[i], i \in I)
  BY <1>1, <1>2 DEF Follows
<1>4. Orderly(e)
  BY <1>1, <1>2, <1>3, RowsMove
<1> QED
  BY <1>2, <1>4 DEF e

\* The acknowledgement of a part touches its plan and its root.
LEMMA PartDeliveredKeeps ==
    ASSUME NEW st, Orderly(st), NEW q, st.plans[q].state = "active"
    PROVE  LET e == PartDelivered(st, q)
           IN  Orderly(e) /\ LiveParts(st) \subseteq LiveParts(e)
<1> DEFINE p    == st.plans[q]
           src  == {i \in RootsOf(st, p.turn, p.rev) :
                       p.sourced /\ st.outbox[i].status = "awaiting_ack"}
           done == AllDelivered(st, p)
           s    == IF done THEN "delivered" ELSE "awaiting_ack"
           n(i) == [st.outbox[i] EXCEPT !.due = FALSE, !.status = s]
           s1   == [st EXCEPT !.outbox = [i \in DOMAIN @ |->
                       IF i \in src THEN [@[i] EXCEPT !.due = FALSE, !.status = s] ELSE @[i]]]
           s2   == [s1 EXCEPT !.plans[q] = [@ EXCEPT !.state = "completed", !.completed = TRUE]]
<1>1. PartDelivered(st, q) = IF done THEN s2 ELSE s1
  BY DEF PartDelivered
<1>2. /\ DOMAIN st = {"outbox", "leases", "plans"} /\ \A x \in DOMAIN st.plans : PlanFits(st.plans[x])
      /\ \A i \in DOMAIN st.outbox : RowFits(st.outbox[i])
  BY DEF Orderly, StoreFits
<1>3. \A i \in src : i \in DOMAIN st.outbox /\ st.outbox[i].kind # "part" /\ st.outbox[i].status = "awaiting_ack"
  BY DEF RootsOf
<1>4. ASSUME NEW i \in src
      PROVE  Follows(st.outbox[i], n(i), FALSE)
  <2> DEFINE o == st.outbox[i]
  <2>1. RowFits(o) /\ o.kind # "part" /\ o.status = "awaiting_ack"
    BY <1>2, <1>3
  <2>2. s \in {"delivered", "awaiting_ack"}
    OBVIOUS
  <2> HIDE DEF s, o
  <2>3. LET m == [o EXCEPT !.due = FALSE, !.status = s]
        IN  /\ DOMAIN m = RowFields /\ m.status = s /\ m.used = o.used
            /\ m.foot = o.foot /\ m.kind = o.kind /\ m.turn = o.turn
    BY <2>1 DEF RowFits, RowFields
  <2>4. n(i) = [o EXCEPT !.due = FALSE, !.status = s]
    BY DEF o
  <2> HIDE DEF n
  <2>5. Follows(o, n(i), FALSE)
    BY <2>1, <2>2, <2>3, <2>4 DEF Follows, RowFits
  <2> QED
    BY <2>5 DEF o
<1> HIDE DEF src, done, s
<1>5. /\ DOMAIN s1 = {"outbox", "leases", "plans"} /\ s1.plans = st.plans /\ s1.leases = st.leases
      /\ DOMAIN s1.outbox = DOMAIN st.outbox
      /\ \A i \in DOMAIN st.outbox : s1.outbox[i] = IF i \in src THEN n(i) ELSE st.outbox[i]
  BY <1>2
<1> HIDE DEF s1, n
<1>6. \A i \in DOMAIN s1.outbox : Follows(st.outbox[i], s1.outbox[i], FALSE)
  <2> SUFFICES ASSUME NEW i \in DOMAIN st.outbox
               PROVE  Follows(st.outbox[i], s1.outbox[i], FALSE)
    BY <1>5
  <2>1. CASE i \notin src
    BY <1>2, <1>5, <2>1 DEF Follows
  <2>2. CASE i \in src
    <3>1. Follows(st.outbox[i], n(i), FALSE)
      BY <1>4, <2>2
    <3> QED
      BY <1>5, <2>2, <3>1 DEF Follows
  <2> QED
    BY <2>1, <2>2
<1>7. Orderly(s1) /\ LiveParts(st) \subseteq LiveParts(s1)
  BY <1>2, <1>5, <1>6, RowsStay
<1>8. Orderly(s2) /\ LiveParts(st) \subseteq LiveParts(s2)
  <2>1. /\ DOMAIN s2 = {"outbox", "leases", "plans"} /\ s2.outbox = s1.outbox /\ s2.leases = s1.leases
        /\ DOMAIN s2.plans = DOMAIN s1.plans
        /\ \A x \in DOMAIN s1.plans :
              s2.plans[x] = IF x = q THEN [s1.plans[x] EXCEPT !.state = "completed", !.completed = TRUE]
                            ELSE s1.plans[x]
    BY <1>5
  <2>2. \A x : PlanFits(x) /\ x.state = "active"
                  => PlanFits([x EXCEPT !.state = "completed", !.completed = TRUE])
    BY DEF PlanFits, PlanFields
  <2>3. s1.plans[q].state = "active" /\ \A x \in DOMAIN s1.plans : PlanFits(s1.plans[x])
    BY <1>2, <1>5
  <2> HIDE DEF s2
  <2>4. \A x \in DOMAIN s2.plans : PlanFits(s2.plans[x])
    <3> SUFFICES ASSUME NEW x \in DOMAIN s1.plans PROVE PlanFits(s2.plans[x])
      BY <2>1
    <3>1. PlanFits(s1.plans[x])
      BY <2>3
    <3>2. CASE x # q
      BY <2>1, <3>1, <3>2
    <3>3. CASE x = q
      <4> DEFINE p1 == s1.plans[x]
      <4>1. PlanFits(p1) /\ p1.state = "active"
        BY <2>3, <3>1, <3>3
      <4>2. s2.plans[x] = [p1 EXCEPT !.state = "completed", !.completed = TRUE]
        BY <2>1, <3>3
      <4> HIDE DEF p1
      <4> QED
        BY <2>2, <4>1, <4>2
    <3> QED
      BY <3>2, <3>3
  <2> QED
    BY <1>7, <2>1, <2>4, PlansMove DEF LiveParts
<1> QED
  BY <1>1, <1>7, <1>8

\* _update_presentation_plan_after_outbox_conn
LEMMA AfterOutboxKeeps ==
    ASSUME NEW st, Orderly(st), NEW i, NEW s
    PROVE  LET e == AfterOutbox(st, i, s)
           IN  Orderly(e) /\ LiveParts(st) \subseteq LiveParts(e)
<1> DEFINE q == CHOOSE q \in PlansOf(st, i) : TRUE
           state == st.plans[q].state
           e == IF s = "dead_letter" /\ state \in {"active", "waiting_predecessor"}
                THEN SetPlanState(st, {q}, "failed")
                ELSE IF s = "delivered" /\ state = "active" THEN PartDelivered(st, q)
                ELSE st
<1>1. AfterOutbox(st, i, s) = IF PlansOf(st, i) = {} THEN st ELSE ActivateWaiting(e)
  BY DEF AfterOutbox
<1>2. Orderly(e) /\ LiveParts(st) \subseteq LiveParts(e)
  <2> HIDE DEF q
  <2>1. ASSUME state \in {"active", "waiting_predecessor"}
        PROVE  LET x == SetPlanState(st, {q}, "failed")
               IN  Orderly(x) /\ LiveParts(st) \subseteq LiveParts(x)
    <3>1. \A x \in {q} \cap DOMAIN st.plans : st.plans[x].state = "superseded" => "failed" = "superseded"
      BY <2>1
    <3> QED
      BY <3>1, SetPlanStateIs
  <2>2. ASSUME state = "active"
        PROVE  LET x == PartDelivered(st, q)
               IN  Orderly(x) /\ LiveParts(st) \subseteq LiveParts(x)
    BY <2>2, PartDeliveredKeeps
  <2> QED
    BY <2>1, <2>2
<1> HIDE DEF e
<1> QED
  BY <1>1, <1>2, ActivateWaitingIs

-----------------------------------------------------------------------------
(* Reclaiming and handing out                                              *)

\* _connector_reclaim_expired_leases_conn: expired leases go, and their rows wait
\* again or are superseded.
LEMMA ReclaimLeasesKeeps ==
    ASSUME NEW st, Orderly(st)
    PROVE  LET e == ReclaimLeases(st)
           IN  Orderly(e) /\ LiveParts(st) \subseteq LiveParts(e)
<1> DEFINE I  == ExpiredRows(st)
           s1 == [st EXCEPT !.leases = {l \in @ : ~l.due},
                            !.outbox = [i \in DOMAIN @ |->
                                IF i \in I THEN Returned(@[i]) ELSE @[i]]]
<1>1. /\ DOMAIN st = {"outbox", "leases", "plans"} /\ \A x \in DOMAIN st.plans : PlanFits(st.plans[x])
      /\ \A i \in DOMAIN st.outbox : RowFits(st.outbox[i])
  BY DEF Orderly, StoreFits
<1>2. \A l \in st.leases : l.due <=> l.row \in I
  BY DEF Orderly, LeasesFit, ExpiredRows
<1>3. \A i \in I : i \in DOMAIN st.outbox /\ st.outbox[i].status = "leased"
  BY DEF Orderly, LeasesFit, ExpiredRows
<1> HIDE DEF I
<1>4. /\ DOMAIN s1 = {"outbox", "leases", "plans"} /\ s1.plans = st.plans
      /\ s1.leases = {l \in st.leases : ~l.due} /\ DOMAIN s1.outbox = DOMAIN st.outbox
      /\ \A i \in DOMAIN st.outbox :
            s1.outbox[i] = IF i \in I THEN Returned(st.outbox[i]) ELSE st.outbox[i]
  BY <1>1
<1>5. s1.leases = {l \in st.leases : l.row \notin I}
  BY <1>2, <1>4
<1>6. ReclaimLeases(st) = IF \E i \in I : PlansOf(s1, i) # {} THEN ActivateWaiting(s1) ELSE s1
  BY DEF ReclaimLeases, I
<1> HIDE DEF s1
<1>7. \A i \in DOMAIN s1.outbox : Follows(st.outbox[i], s1.outbox[i], i \in I)
  <2> SUFFICES ASSUME NEW i \in DOMAIN st.outbox
               PROVE  Follows(st.outbox[i], s1.outbox[i], i \in I)
    BY <1>4
  <2> DEFINE o == st.outbox[i]
             n == Returned(o)
  <2>1. RowFits(o)
    BY <1>1
  <2>2. CASE i \notin I
    BY <1>4, <2>1, <2>2 DEF Follows
  <2>3. CASE i \in I
    <3>1. o.status = "leased" /\ s1.outbox[i] = n
      BY <1>3, <1>4, <2>3
    <3> HIDE DEF o
    <3>2. /\ DOMAIN n = RowFields /\ n.status \in {"superseded", "queued"} /\ n.used = o.used
          /\ n.foot = o.foot /\ n.kind = o.kind /\ n.turn = o.turn
      BY <2>1 DEF RowFits, RowFields, Returned
    <3> HIDE DEF n
    <3>3. Follows(o, n, i \in I)
      BY <2>1, <2>3, <3>1, <3>2 DEF Follows, RowFits, Terminal
    <3> QED
      BY <3>1, <3>3 DEF o
  <2> QED
    BY <2>2, <2>3
<1>8. Orderly(s1) /\ \A l \in LiveParts(st) : l.row \notin I => l \in LiveParts(s1)
  BY <1>1, <1>4, <1>5, <1>7, RowsMove
<1>9. LiveParts(st) \subseteq LiveParts(s1)
  BY <1>2, <1>8 DEF LiveParts
<1> QED
  BY <1>6, <1>8, <1>9, ActivateWaitingIs

\* _connector_reclaim_expired_awaiting_ack_conn: roots whose deadline has passed are
\* scheduled again or closed, and the open parts of a plan that fails are closed.
LEMMA ReclaimAwaitingKeeps ==
    ASSUME NEW st, Orderly(st)
    PROVE  LET e == ReclaimAwaiting(st)
           IN  Orderly(e) /\ LiveParts(st) \subseteq LiveParts(e)
<1> DEFINE expired == {i \in DOMAIN st.outbox : st.outbox[i].status = "awaiting_ack" /\ st.outbox[i].due}
           done    == {i \in expired : LatestState(st, i) = "completed"}
           begun   == {i \in expired : LatestState(st, i) \in {"active", "waiting_predecessor", "failed"}}
           again   == {i \in begun : ~HasLiveJobLease(st, LatestPlan(st, i))}
           lost    == expired \ (done \cup begun)
           failed  == {LatestPlan(st, i) : i \in again}
           open    == OpenRows(st, failed)
           s0      == SetPlanState(st, failed, "failed")
           sd      == Close(s0, done, "delivered")
           s1      == Close(sd, lost \cup open, "dead_letter")
           n(i)    == Replanned(s1.outbox[i], st.plans[LatestPlan(st, i)].gen)
           s2      == [s1 EXCEPT !.outbox = [i \in DOMAIN @ |-> IF i \in again THEN n(i) ELSE @[i]]]
<1>1. ReclaimAwaiting(st) = IF again \cup lost # {} THEN ActivateWaiting(s2) ELSE s2
  BY DEF ReclaimAwaiting
<1>2. \A i \in again : /\ i \in DOMAIN st.outbox /\ st.outbox[i].status = "awaiting_ack"
                       /\ st.outbox[i].kind # "part" /\ st.outbox[i].used # 0 /\ RowFits(st.outbox[i])
  BY DEF Orderly, StoreFits, RowFits
<1>3. "delivered" \in Terminal /\ "dead_letter" \in Terminal /\ "leased" \notin Terminal
  BY DEF Terminal
<1>4. \A x \in failed \cap DOMAIN st.plans : st.plans[x].state = "superseded" => "failed" = "superseded"
  BY DEF LatestState
<1>5. \A l \in LiveParts(st) : l.row \notin done /\ l.row \notin lost /\ l.row \notin open
  <2> SUFFICES ASSUME NEW l \in LiveParts(st)
               PROVE  l.row \notin done /\ l.row \notin lost /\ l.row \notin open
    OBVIOUS
  <2>1. l \in st.leases /\ ~l.due /\ st.outbox[l.row].status = "leased"
    BY DEF LiveParts, Orderly, LeasesFit
  <2>2. l.row \notin expired
    BY <2>1
  <2>3. \A i \in again : l.row \notin JobRows(st.plans[LatestPlan(st, i)])
    BY <2>1 DEF HasLiveJobLease
  <2>4. l.row \notin open
    BY <2>3 DEF OpenRows
  <2> QED
    BY <2>2, <2>4
<1> HIDE DEF again, done, lost, open, failed
<1>6. Orderly(s0) /\ s0.outbox = st.outbox /\ LiveParts(s0) = LiveParts(st)
  BY <1>4, SetPlanStateIs
<1> HIDE DEF s0
<1>7. /\ Orderly(sd) /\ DOMAIN sd.outbox = DOMAIN s0.outbox
      /\ \A l \in LiveParts(s0) : l.row \notin done => l \in LiveParts(sd)
      /\ \A i \in DOMAIN s0.outbox :
            sd.outbox[i] = IF i \in done THEN Closed(s0.outbox[i], "delivered") ELSE s0.outbox[i]
  BY <1>3, <1>6, CloseForGood
<1> HIDE DEF sd
<1>8. /\ Orderly(s1) /\ DOMAIN s1.outbox = DOMAIN sd.outbox
      /\ \A l \in LiveParts(sd) : l.row \notin lost \cup open => l \in LiveParts(s1)
      /\ \A i \in DOMAIN sd.outbox :
            s1.outbox[i] = IF i \in lost \cup open THEN Closed(sd.outbox[i], "dead_letter")
                           ELSE sd.outbox[i]
  BY <1>3, <1>7, CloseForGood
<1> HIDE DEF s1
<1>9. \A i \in again : /\ i \in DOMAIN s1.outbox /\ s1.outbox[i].kind # "part" /\ s1.outbox[i].used # 0
                       /\ s1.outbox[i].status # "leased"
  <2> SUFFICES ASSUME NEW i \in again
               PROVE  /\ i \in DOMAIN s1.outbox /\ s1.outbox[i].kind # "part" /\ s1.outbox[i].used # 0
                      /\ s1.outbox[i].status # "leased"
    OBVIOUS
  <2>1. i \in DOMAIN st.outbox /\ s0.outbox[i] = st.outbox[i] /\ RowFits(s0.outbox[i])
    BY <1>2, <1>6
  <2>2. /\ i \in DOMAIN sd.outbox /\ sd.outbox[i].kind # "part" /\ sd.outbox[i].used # 0
        /\ sd.outbox[i].status # "leased"
    BY <1>2, <1>3, <1>6, <1>7, <2>1, ClosedIs
  <2>3. RowFits(sd.outbox[i])
    BY <1>7, <2>2 DEF Orderly, StoreFits
  <2> QED
    BY <1>3, <1>8, <2>2, <2>3, ClosedIs
<1>10. /\ DOMAIN s1 = {"outbox", "leases", "plans"} /\ \A x \in DOMAIN s1.plans : PlanFits(s1.plans[x])
      /\ \A i \in DOMAIN s1.outbox : RowFits(s1.outbox[i])
  BY <1>8 DEF Orderly, StoreFits
<1>11. ASSUME NEW i \in again
      PROVE  Follows(s1.outbox[i], n(i), FALSE)
  <2> DEFINE o == s1.outbox[i]
             g == st.plans[LatestPlan(st, i)].gen
             m == Replanned(o, g)
  <2>1. RowFits(o) /\ o.kind # "part" /\ o.used # 0 /\ o.status # "leased" /\ n(i) = m
    BY <1>9, <1>10
  <2> HIDE DEF o, g
  <2>2. /\ DOMAIN m = RowFields /\ m.status = "retry" /\ m.used = o.used - 1
        /\ m.foot = o.foot /\ m.kind = o.kind /\ m.turn = o.turn
    BY <2>1 DEF RowFits, RowFields, Replanned
  <2> HIDE DEF m, n
  <2>3. m.used \in 0 .. MaxAttempts
    BY <2>1, <2>2, DeliveryAssumption DEF RowFits
  <2>4. Follows(o, m, FALSE)
    BY <2>1, <2>2, <2>3 DEF Follows, RowFits
  <2> QED
    BY <2>1, <2>4 DEF o
<1>12. /\ DOMAIN s2 = {"outbox", "leases", "plans"} /\ s2.plans = s1.plans /\ s2.leases = s1.leases
      /\ DOMAIN s2.outbox = DOMAIN s1.outbox
      /\ \A i \in DOMAIN s1.outbox : s2.outbox[i] = IF i \in again THEN n(i) ELSE s1.outbox[i]
  BY <1>10
<1> HIDE DEF s2
<1>13. \A i \in DOMAIN s2.outbox : Follows(s1.outbox[i], s2.outbox[i], FALSE)
  <2> SUFFICES ASSUME NEW i \in DOMAIN s1.outbox
               PROVE  Follows(s1.outbox[i], s2.outbox[i], FALSE)
    BY <1>12
  <2>1. CASE i \notin again
    BY <1>10, <1>12, <2>1 DEF Follows
  <2>2. CASE i \in again
    <3>1. Follows(s1.outbox[i], n(i), FALSE)
      BY <1>11, <2>2
    <3> QED
      BY <1>12, <2>2, <3>1 DEF Follows
  <2> QED
    BY <2>1, <2>2
<1>14. Orderly(s2) /\ LiveParts(s1) \subseteq LiveParts(s2)
  BY <1>8, <1>10, <1>12, <1>13, RowsStay
<1>15. LiveParts(st) \subseteq LiveParts(s2)
  BY <1>5, <1>6, <1>7, <1>8, <1>14
<1> QED
  BY <1>1, <1>14, <1>15, ActivateWaitingIs

\* Every operation on a ref starts with both.
LEMMA ReclaimedKeeps ==
    ASSUME NEW st, Orderly(st)
    PROVE  LET e == Reclaimed(st)
           IN  Orderly(e) /\ LiveParts(st) \subseteq LiveParts(e)
<1> DEFINE s1 == ReclaimLeases(st)
<1>1. Orderly(s1) /\ LiveParts(st) \subseteq LiveParts(s1)
  BY ReclaimLeasesKeeps
<1>2. Reclaimed(st) = ReclaimAwaiting(s1)
  BY DEF Reclaimed
<1> HIDE DEF s1
<1> QED
  BY <1>1, <1>2, ReclaimAwaitingKeeps

\* After _connector_exhaust_retryable_conn no row that waits has used its attempts up.
LEMMA ExhaustedIs ==
    ASSUME NEW st, Orderly(st)
    PROVE  LET e == Exhausted(st)
           IN  /\ Orderly(e) /\ LiveParts(st) \subseteq LiveParts(e)
               /\ \A i \in DOMAIN e.outbox :
                     e.outbox[i].status \in Waiting => e.outbox[i].used < MaxAttempts
<1> DEFINE I  == {i \in DOMAIN st.outbox : st.outbox[i].status \in Waiting /\ Spent(st.outbox[i])}
           s1 == Close(st, I, "dead_letter")
           Q  == {q \in DOMAIN s1.plans :
                     /\ s1.plans[q].state \in {"active", "waiting_predecessor"}
                     /\ \E k \in DOMAIN s1.plans[q].jobs : StatusOf(s1, s1.plans[q], k) = "dead_letter"}
<1>1. "dead_letter" \in Terminal /\ "dead_letter" \notin Waiting
  BY DEF Terminal, Waiting
<1>2. /\ Orderly(s1) /\ DOMAIN s1.outbox = DOMAIN st.outbox
      /\ \A l \in LiveParts(st) : l.row \notin I => l \in LiveParts(s1)
      /\ \A i \in DOMAIN st.outbox :
            s1.outbox[i] = IF i \in I THEN Closed(st.outbox[i], "dead_letter") ELSE st.outbox[i]
  <2> HIDE DEF I
  <2> QED
    BY <1>1, CloseForGood
<1>3. \A i \in DOMAIN s1.outbox : s1.outbox[i].status \in Waiting => s1.outbox[i].used < MaxAttempts
  <2> SUFFICES ASSUME NEW i \in DOMAIN st.outbox, s1.outbox[i].status \in Waiting
               PROVE  s1.outbox[i].used < MaxAttempts
    BY <1>2
  <2>1. RowFits(st.outbox[i])
    BY DEF Orderly, StoreFits
  <2>2. i \notin I
    <3>1. Closed(st.outbox[i], "dead_letter").status = "dead_letter"
      BY <2>1, ClosedIs
    <3> HIDE DEF I, s1
    <3> QED
      BY <1>1, <1>2, <3>1
  <2>3. s1.outbox[i] = st.outbox[i]
    BY <1>2, <2>2
  <2>4. ~(st.outbox[i].used >= MaxAttempts)
    BY <2>2, <2>3 DEF Spent
  <2>5. st.outbox[i].used \in Nat
    BY <2>1 DEF RowFits
  <2> HIDE DEF s1
  <2> QED
    BY <2>3, <2>4, <2>5, DeliveryAssumption
<1>4. LiveParts(st) \subseteq LiveParts(s1)
  <2>1. \A l \in LiveParts(st) : st.outbox[l.row].status = "leased"
    BY DEF LiveParts, Orderly, LeasesFit
  <2>2. \A l \in LiveParts(st) : l.row \notin I
    BY <2>1 DEF Waiting
  <2> HIDE DEF I, s1
  <2> QED
    BY <1>2, <2>2
<1>5. Exhausted(st) = SetPlanState(s1, Q, "failed")
  BY DEF Exhausted
<1>6. \A x \in Q \cap DOMAIN s1.plans : s1.plans[x].state = "superseded" => "failed" = "superseded"
  <2> HIDE DEF s1
  <2> QED
    OBVIOUS
<1> HIDE DEF s1, Q
<1>7. /\ Orderly(SetPlanState(s1, Q, "failed")) /\ SetPlanState(s1, Q, "failed").outbox = s1.outbox
      /\ LiveParts(SetPlanState(s1, Q, "failed")) = LiveParts(s1)
  BY <1>2, <1>6, SetPlanStateIs
<1> QED
  BY <1>3, <1>4, <1>5, <1>7

\* poll_connector_outbox: a waiting row that may go is leased, and its attempt counted.
LEMMA LeaseRowKeeps ==
    ASSUME NEW st, Orderly(st), NEW i \in DOMAIN st.outbox, NEW c,
           st.outbox[i].status \in Waiting, st.outbox[i].used < MaxAttempts,
           st.outbox[i].kind = "part" =>
               \A j \in DOMAIN st.outbox :
                   st.outbox[j].kind = "part" /\ Same(st, i, j) /\ j < i => st.outbox[j].status \in Terminal
    PROVE  Orderly(LeaseRow(st, i, c)) /\ LiveParts(st) \subseteq LiveParts(LeaseRow(st, i, c))
<1> DEFINE o == st.outbox[i]
           n == Attempted(o)
           l == [row |-> i, owner |-> c, due |-> FALSE]
           e == LeaseRow(st, i, c)
<1>1. /\ DOMAIN st = {"outbox", "leases", "plans"} /\ \A x \in DOMAIN st.plans : PlanFits(st.plans[x])
      /\ \A x \in DOMAIN st.outbox : RowFits(st.outbox[x])
  BY DEF Orderly, StoreFits
<1>2. /\ DOMAIN e = {"outbox", "leases", "plans"} /\ e.plans = st.plans
      /\ e.leases = st.leases \cup {l} /\ DOMAIN e.outbox = DOMAIN st.outbox
      /\ \A x \in DOMAIN st.outbox : e.outbox[x] = IF x = i THEN n ELSE st.outbox[x]
  BY <1>1 DEF LeaseRow
<1>3. /\ DOMAIN n = RowFields /\ n.status = "leased" /\ n.used = o.used + 1 /\ n.foot = o.foot
      /\ n.kind = o.kind /\ n.turn = o.turn
  <2>1. RowFits(o)
    BY <1>1
  <2> HIDE DEF o
  <2> QED
    BY <2>1 DEF RowFits, RowFields, Attempted
<1>4. RowFits(n)
  <2>1. RowFits(o) /\ o.used < MaxAttempts
    BY <1>1
  <2>2. n.used \in 0 .. MaxAttempts /\ n.used # 0
    BY <1>3, <2>1, DeliveryAssumption DEF RowFits
  <2> HIDE DEF o, n
  <2> QED
    BY <1>3, <2>1, <2>2 DEF RowFits
<1>5. o.status \notin Terminal /\ o.status # "leased"
  BY DEF Waiting, Terminal
<1>6. DOMAIN l = {"row", "owner", "due"} /\ l.row = i
  OBVIOUS
<1> HIDE DEF e, n, l
<1>7. StoreFits(e)
  BY <1>1, <1>2, <1>4 DEF Orderly, StoreFits
<1>8. LeasesFit(e)
  <2>1. \A m \in st.leases : m.row # i
    BY <1>5 DEF Orderly, LeasesFit
  <2> QED
    BY <1>2, <1>3, <1>6, <2>1 DEF Orderly, LeasesFit
<1>9. \A x \in DOMAIN st.outbox : e.outbox[x].kind = st.outbox[x].kind /\ e.outbox[x].turn = st.outbox[x].turn
  BY <1>2, <1>3
<1>10. \A x \in DOMAIN st.outbox : x # i => e.outbox[x] = st.outbox[x]
  BY <1>2
<1>11. PartsInOrder(e)
  <2> SUFFICES ASSUME NEW x \in DOMAIN st.outbox, NEW y \in DOMAIN st.outbox,
                      e.outbox[x].kind = "part", e.outbox[x].status = "leased",
                      e.outbox[y].kind = "part", Same(e, x, y), y < x
               PROVE  e.outbox[y].status \in Terminal
    BY <1>2 DEF PartsInOrder
  <2>1. st.outbox[x].kind = "part" /\ st.outbox[y].kind = "part" /\ Same(st, x, y)
    BY <1>9 DEF Same
  <2>2. DOMAIN st.outbox \subseteq Nat
    BY DEF Orderly, StoreFits
  <2>3. x # y
    BY <2>2
  <2>4. CASE x = i
    BY <1>10, <2>1, <2>3, <2>4
  <2>5. CASE x # i
    <3>1. st.outbox[x].status = "leased"
      BY <1>10, <2>5
    <3>2. st.outbox[y].status \in Terminal
      BY <2>1, <3>1 DEF Orderly, PartsInOrder
    <3> QED
      BY <1>5, <1>10, <3>2
  <2> QED
    BY <2>4, <2>5
<1>12. LiveParts(st) \subseteq LiveParts(e)
  BY <1>2, <1>9 DEF LiveParts, Orderly, LeasesFit
<1> QED
  BY <1>7, <1>8, <1>11, <1>12 DEF Orderly, e

\* The end of an attempt: the row leaves its lease and its plan follows.
LEMMA FinishKeeps ==
    ASSUME NEW st, Orderly(st), NEW i \in DOMAIN st.outbox, st.outbox[i].status = "leased",
           NEW s \in RowStatus \ {"leased", "awaiting_ack"}
    PROVE  LET e == Finish(st, i, s)
           IN  Orderly(e) /\ \A l \in LiveParts(st) : l.row # i => l \in LiveParts(e)
<1>1. \A x \in {i} \cap DOMAIN st.outbox :
         /\ s = "awaiting_ack" => st.outbox[x].used # 0 /\ st.outbox[x].kind # "part"
         /\ st.outbox[x].kind = "part" /\ st.outbox[x].status \in Terminal => s \in Terminal
  BY DEF Terminal
<1> DEFINE s1 == Close(st, {i}, s)
<1>2. Orderly(s1) /\ \A l \in LiveParts(st) : l.row \notin {i} => l \in LiveParts(s1)
  BY <1>1, CloseIs
<1>3. Finish(st, i, s) = AfterOutbox(s1, i, s)
  BY DEF Finish
<1> HIDE DEF s1
<1> QED
  BY <1>2, <1>3, AfterOutboxKeeps

-----------------------------------------------------------------------------
(* Planning                                                                *)

\* A plan is added.
LEMMA WithPlanIs ==
    ASSUME NEW st, Orderly(st), NEW q, NEW p, PlanFits(p)
    PROVE  LET e == WithPlan(st, q, p)
           IN  /\ Orderly(e) /\ e.outbox = st.outbox /\ e.leases = st.leases
               /\ DOMAIN e.plans = DOMAIN st.plans \cup {q} /\ e.plans[q] = p
               /\ \A x \in DOMAIN st.plans : x # q => e.plans[x] = st.plans[x]
<1> DEFINE e == WithPlan(st, q, p)
<1>1. DOMAIN st = {"outbox", "leases", "plans"} /\ \A x \in DOMAIN st.plans : PlanFits(st.plans[x])
  BY DEF Orderly, StoreFits
<1>2. /\ DOMAIN e = {"outbox", "leases", "plans"} /\ e.outbox = st.outbox /\ e.leases = st.leases
      /\ DOMAIN e.plans = DOMAIN st.plans \cup {q} /\ e.plans[q] = p
      /\ \A x \in DOMAIN st.plans : x # q => e.plans[x] = st.plans[x]
  BY <1>1 DEF WithPlan
<1> HIDE DEF e
<1>3. \A x \in DOMAIN e.plans : PlanFits(e.plans[x])
  BY <1>1, <1>2
<1>4. Orderly(e)
  BY <1>2, <1>3, PlansMove
<1> QED
  BY <1>2, <1>4 DEF e

\* A plan begins without jobs.
LEMMA NewPlanFits ==
    ASSUME NEW t, NEW r, NEW v, NEW g, NEW n \in 1 .. MaxParts, NEW src
    PROVE  PlanFits(NewPlan(t, r, v, g, n, src))
BY DEF NewPlan, PlanFits, PlanFields

\* Rows are numbered from 1.
LEMMA NextRow ==
    ASSUME NEW st, Orderly(st)
    PROVE  /\ Highest(DOMAIN st.outbox) \in Nat
           /\ \A i \in DOMAIN st.outbox : i \in Nat \ {0} /\ i <= Highest(DOMAIN st.outbox)
<1>1. PICK n \in Nat : DOMAIN st.outbox \subseteq 1 .. n
  BY DEF Orderly, StoreFits
<1>2. DOMAIN st.outbox \subseteq 0 .. n
  BY <1>1
<1>3. Highest(DOMAIN st.outbox) \in 0 .. n /\ \A i \in DOMAIN st.outbox : i <= Highest(DOMAIN st.outbox)
  BY <1>2, HighestIs
<1> QED
  BY <1>1, <1>3

\* A row is added behind all others.
LEMMA WithRowKeeps ==
    ASSUME NEW st, Orderly(st), NEW row, RowFits(row), row.status # "leased"
    PROVE  LET e == WithRow(st, Highest(DOMAIN st.outbox) + 1, row)
           IN  Orderly(e) /\ \A x \in DOMAIN st.outbox : e.outbox[x] = st.outbox[x]
<1> DEFINE i == Highest(DOMAIN st.outbox) + 1
           e == WithRow(st, i, row)
<1>1. i \in Nat /\ \A x \in DOMAIN st.outbox : x \in Nat \ {0} /\ ~(i <= x)
  BY NextRow
<1>2. DOMAIN st = {"outbox", "leases", "plans"} /\ \A x \in DOMAIN st.plans : PlanFits(st.plans[x])
  BY DEF Orderly, StoreFits
<1>3. DOMAIN st.outbox \subseteq 1 .. i /\ i \in 1 .. i
  BY NextRow
<1> HIDE DEF i
<1>4. /\ DOMAIN e = {"outbox", "leases", "plans"} /\ e.plans = st.plans /\ e.leases = st.leases
      /\ DOMAIN e.outbox = DOMAIN st.outbox \cup {i} /\ e.outbox[i] = row
      /\ \A x \in DOMAIN st.outbox : x # i => e.outbox[x] = st.outbox[x]
  BY <1>2 DEF WithRow
<1> HIDE DEF e
<1>5. i \notin DOMAIN st.outbox
  BY <1>1
<1>6. /\ \A x \in DOMAIN st.outbox : e.outbox[x] = st.outbox[x]
      /\ \A x \in DOMAIN e.outbox \ DOMAIN st.outbox : x = i
  BY <1>4, <1>5
<1>7. /\ DOMAIN st.outbox \subseteq DOMAIN e.outbox /\ DOMAIN e.outbox \subseteq 1 .. i
      /\ \A x \in DOMAIN e.plans : PlanFits(e.plans[x])
  BY <1>2, <1>3, <1>4
<1>8. \A x \in DOMAIN e.outbox \ DOMAIN st.outbox :
         /\ RowFits(e.outbox[x]) /\ e.outbox[x].status # "leased"
         /\ \A y \in DOMAIN st.outbox : ~(x <= y)
  BY <1>1, <1>4, <1>6
<1>9. Orderly(e)
  BY <1>1, <1>4, <1>6, <1>7, <1>8, RowsCome
<1> QED
  BY <1>6, <1>9 DEF e, i

\* How many parts may be on display is bounded like the parts of a plan.
LEMMA PriorPartsIs ==
    ASSUME NEW st, Orderly(st), NEW q
    PROVE  PriorParts(st, q) \in 0 .. MaxParts
<1> DEFINE p        == st.plans[q]
           others   == {x \in DOMAIN st.plans \ {q} : st.plans[x].turn = p.turn}
           baseline == Highest({x \in others : st.plans[x].completed})
           parts    == {st.plans[x].parts : x \in {x \in others : st.plans[x].activated /\ x >= baseline}}
           feet     == IF p.sourced THEN {st.outbox[i].foot : i \in RootsOf(st, p.turn, p.rev)} ELSE {}
<1>1. PriorParts(st, q) = Highest(parts \cup feet)
  BY DEF PriorParts
<1>2. parts \subseteq 1 .. MaxParts
  <2>1. \A x \in DOMAIN st.plans : st.plans[x].parts \in 1 .. MaxParts
    BY DEF Orderly, StoreFits, PlanFits
  <2> HIDE DEF baseline
  <2> QED
    BY <2>1
<1>3. feet \subseteq 0 .. MaxParts
  BY DEF Orderly, StoreFits, RowFits, RootsOf
<1> HIDE DEF parts, feet
<1>4. parts \cup feet \subseteq 0 .. MaxParts /\ MaxParts \in Nat
  BY <1>2, <1>3, DeliveryAssumption
<1> QED
  BY <1>1, <1>4, HighestIs

\* What a plan is made of
Steps(ops) ==
    /\ Len(ops) \in Nat /\ DOMAIN ops = 1 .. Len(ops)
    /\ \A k \in 1 .. Len(ops) : ops[k].op \in {"upsert", "retire"} /\ ops[k].ord \in Nat

\* The operations of a plan are well-formed.
LEMMA OperationsFit ==
    ASSUME NEW n \in 1 .. MaxParts, NEW prior \in 0 .. MaxParts
    PROVE  Steps(Operations(n, prior))
<1> DEFINE S == [op : {"upsert", "retire"}, ord : Nat]
           m == IF prior > n THEN prior - n ELSE 0
           a == [k \in 1 .. n |-> [op |-> "upsert", ord |-> k - 1]]
           b == [k \in 1 .. m |-> [op |-> "retire", ord |-> prior - k]]
<1>1. n \in Nat /\ m \in Nat /\ prior \in Nat /\ \A k \in 1 .. m : prior - k \in Nat
  BY DeliveryAssumption
<1>2. a \in Seq(S)
  <2>1. a \in [1 .. n -> S]
    BY <1>1
  <2> HIDE DEF a, S
  <2> QED
    BY <1>1, <2>1, SeqDef
<1>3. b \in Seq(S)
  <2>1. b \in [1 .. m -> S]
    <3> HIDE DEF m
    <3> QED
      BY <1>1
  <2> HIDE DEF b, m, S
  <2> QED
    BY <1>1, <2>1, SeqDef
<1>4. Operations(n, prior) = a \o b
  BY DEF Operations
<1>5. a \o b \in Seq(S)
  <2> HIDE DEF a, b, S
  <2> QED
    BY <1>2, <1>3, ConcatProperties
<1> DEFINE s == a \o b
<1>6. s \in Seq(S)
  BY <1>5
<1> HIDE DEF s
<1>7. Steps(s)
  <2>1. Len(s) \in Nat /\ DOMAIN s = 1 .. Len(s) /\ \A k \in 1 .. Len(s) : s[k] \in S
    <3> HIDE DEF S
    <3> QED
      BY <1>6
  <2> QED
    BY <2>1 DEF Steps
<1> QED
  BY <1>4, <1>7 DEF s

\* _materialize_connector_plan_job_conn: the rows of the parts come behind all others.
LEMMA MaterializeIs ==
    ASSUME NEW st, Orderly(st), NEW q, NEW ops, Steps(ops)
    PROVE  LET e == Materialize(st, q, ops)
           IN  /\ Orderly(e) /\ DOMAIN e.plans = DOMAIN st.plans /\ LiveParts(st) \subseteq LiveParts(e)
               /\ DOMAIN st.outbox \subseteq DOMAIN e.outbox
               /\ \A i \in DOMAIN st.outbox : e.outbox[i] = st.outbox[i]
               /\ q \in DOMAIN st.plans => e.plans[q].state = st.plans[q].state
<1> DEFINE base == Highest(DOMAIN st.outbox)
           new  == (base + 1) .. (base + Len(ops))
           row  == [kind |-> "part", turn |-> st.plans[q].turn, rev |-> st.plans[q].rev,
                    status |-> "queued", due |-> FALSE, used |-> 0, doomed |-> FALSE,
                    gen |-> 0, foot |-> 0, after |-> 0]
           jobs == [k \in DOMAIN ops |-> [op |-> ops[k].op, ord |-> ops[k].ord, row |-> base + k]]
           e    == Materialize(st, q, ops)
<1>1. base \in Nat /\ Len(ops) \in Nat /\ base + Len(ops) \in Nat
  BY NextRow DEF Steps
<1>2. \A i \in DOMAIN st.outbox : i \in Nat \ {0} /\ i <= base
  BY NextRow
<1>3. DOMAIN st = {"outbox", "leases", "plans"} /\ \A x \in DOMAIN st.plans : PlanFits(st.plans[x])
  BY DEF Orderly, StoreFits
<1>4. RowFits(row) /\ row.status # "leased"
  BY DeliveryAssumption DEF RowFits, RowFields
<1>5. jobs \in Seq(Jobs)
  <2> HIDE DEF base
  <2>1. \A k \in 1 .. Len(ops) : [op |-> ops[k].op, ord |-> ops[k].ord, row |-> base + k] \in Jobs
    BY <1>1 DEF Steps, Jobs
  <2>2. jobs \in [1 .. Len(ops) -> Jobs]
    BY <2>1 DEF Steps
  <2> HIDE DEF jobs
  <2> QED
    BY <1>1, <2>2, SeqDef
<1>6. e = [st EXCEPT !.outbox = [i \in DOMAIN @ \cup new |-> IF i \in new THEN row ELSE @[i]],
                     !.plans[q].jobs = jobs]
  BY DEF Materialize
<1> HIDE DEF new, row, jobs, e
<1>7. /\ DOMAIN e = {"outbox", "leases", "plans"} /\ e.leases = st.leases
      /\ DOMAIN e.outbox = DOMAIN st.outbox \cup new
      /\ \A i \in DOMAIN e.outbox : e.outbox[i] = IF i \in new THEN row ELSE st.outbox[i]
      /\ DOMAIN e.plans = DOMAIN st.plans
      /\ \A x \in DOMAIN st.plans : e.plans[x] = IF x = q THEN [st.plans[x] EXCEPT !.jobs = jobs]
                                               ELSE st.plans[x]
  BY <1>3, <1>6
<1> HIDE DEF base
<1>8. \A i \in new : i \in 1 .. (base + Len(ops)) /\ \A j \in DOMAIN st.outbox : ~(i <= j)
  BY <1>1, <1>2 DEF new
<1>9. new \cap DOMAIN st.outbox = {}
  BY <1>2, <1>8
<1>10. \A i \in DOMAIN st.outbox : e.outbox[i] = st.outbox[i]
  BY <1>7, <1>9
<1>11. DOMAIN st.outbox \subseteq DOMAIN e.outbox /\ DOMAIN e.outbox \subseteq 1 .. (base + Len(ops))
  BY <1>1, <1>2, <1>7, <1>8
<1>12. \A p : PlanFits(p) => PlanFits([p EXCEPT !.jobs = jobs]) /\ [p EXCEPT !.jobs = jobs].state = p.state
  BY <1>5 DEF PlanFits, PlanFields
<1>13. \A x \in DOMAIN e.plans : PlanFits(e.plans[x]) /\ e.plans[x].state = st.plans[x].state
  <2> SUFFICES ASSUME NEW x \in DOMAIN st.plans
               PROVE  PlanFits(e.plans[x]) /\ e.plans[x].state = st.plans[x].state
    BY <1>7
  <2> DEFINE p == st.plans[x]
  <2>1. PlanFits(p) /\ e.plans[x] = IF x = q THEN [p EXCEPT !.jobs = jobs] ELSE p
    BY <1>3, <1>7
  <2> HIDE DEF p
  <2>2. PlanFits([p EXCEPT !.jobs = jobs]) /\ [p EXCEPT !.jobs = jobs].state = p.state
    BY <1>12, <2>1
  <2>3. PlanFits(e.plans[x]) /\ e.plans[x].state = p.state
    BY <2>1, <2>2
  <2> QED
    BY <2>3 DEF p
<1>14. \A i \in DOMAIN e.outbox \ DOMAIN st.outbox :
          /\ RowFits(e.outbox[i]) /\ e.outbox[i].status # "leased"
          /\ \A j \in DOMAIN st.outbox : ~(i <= j)
  BY <1>4, <1>7, <1>8
<1>15. Orderly(e) /\ LiveParts(st) \subseteq LiveParts(e)
  BY <1>1, <1>7, <1>10, <1>11, <1>13, <1>14, RowsCome
<1> QED
  BY <1>7, <1>10, <1>11, <1>13, <1>15 DEF e

\* _mark_obsolete_presentation_plans_conn: waiting parts of the other plans are closed,
\* leased ones end with their lease.
LEMMA MarkObsoleteIs ==
    ASSUME NEW st, Orderly(st), NEW q
    PROVE  LET e == MarkObsolete(st, q)
           IN  /\ Orderly(e) /\ LiveParts(st) \subseteq LiveParts(e)
               /\ DOMAIN e.outbox = DOMAIN st.outbox /\ DOMAIN e.plans = DOMAIN st.plans
               /\ \A i \in DOMAIN st.outbox :
                     e.outbox[i].kind = st.outbox[i].kind /\ e.outbox[i].used = st.outbox[i].used
               /\ q \in DOMAIN st.plans => e.plans[q] = st.plans[q]
<1> DEFINE Q  == Obsolete(st, q)
           I  == ObsoleteRows(st, q, Waiting)
           L  == ObsoleteRows(st, q, {"leased"})
           s0 == SetPlanState(st, Q, "superseded")
           s1 == Close(s0, I, "superseded")
           e  == [s1 EXCEPT !.outbox = [i \in DOMAIN @ |->
                     IF i \in L THEN [@[i] EXCEPT !.doomed = TRUE] ELSE @[i]]]
<1>1. MarkObsolete(st, q) = e
  BY DEF MarkObsolete
<1>2. q \notin Q /\ "superseded" \in Terminal
  BY DEF Obsolete, Terminal
<1>3. \A l \in LiveParts(st) : l.row \notin I
  <2>1. \A l \in LiveParts(st) : st.outbox[l.row].status = "leased"
    BY DEF LiveParts, Orderly, LeasesFit
  <2> QED
    BY <2>1 DEF ObsoleteRows, Waiting
<1> HIDE DEF Q, I, L
<1>4. /\ Orderly(s0) /\ s0.outbox = st.outbox /\ LiveParts(s0) = LiveParts(st) /\ DOMAIN s0.plans = DOMAIN st.plans
      /\ q \in DOMAIN st.plans => s0.plans[q] = st.plans[q]
  BY <1>2, SetPlanStateIs
<1> HIDE DEF s0
<1>5. /\ Orderly(s1) /\ \A l \in LiveParts(s0) : l.row \notin I => l \in LiveParts(s1)
      /\ s1.plans = s0.plans /\ DOMAIN s1.outbox = DOMAIN s0.outbox
      /\ \A i \in DOMAIN s0.outbox :
            s1.outbox[i] = IF i \in I THEN Closed(s0.outbox[i], "superseded") ELSE s0.outbox[i]
  BY <1>2, <1>4, CloseForGood
<1> HIDE DEF s1
<1>6. \A i \in DOMAIN st.outbox : s1.outbox[i].kind = st.outbox[i].kind /\ s1.outbox[i].used = st.outbox[i].used
  <2>1. \A i \in DOMAIN st.outbox : RowFits(st.outbox[i])
    BY DEF Orderly, StoreFits
  <2> QED
    BY <1>4, <1>5, <2>1, ClosedIs
<1>7. /\ DOMAIN s1 = {"outbox", "leases", "plans"} /\ \A x \in DOMAIN s1.plans : PlanFits(s1.plans[x])
      /\ \A i \in DOMAIN s1.outbox : RowFits(s1.outbox[i])
  BY <1>5 DEF Orderly, StoreFits
<1>8. /\ DOMAIN e = {"outbox", "leases", "plans"} /\ e.plans = s1.plans /\ e.leases = s1.leases
      /\ DOMAIN e.outbox = DOMAIN s1.outbox
      /\ \A i \in DOMAIN s1.outbox :
            e.outbox[i] = IF i \in L THEN [s1.outbox[i] EXCEPT !.doomed = TRUE] ELSE s1.outbox[i]
  BY <1>7
<1> HIDE DEF e
<1>9. ASSUME NEW o, RowFits(o)
      PROVE  /\ Follows(o, [o EXCEPT !.doomed = TRUE], FALSE)
             /\ [o EXCEPT !.doomed = TRUE].kind = o.kind /\ [o EXCEPT !.doomed = TRUE].used = o.used
  <2> DEFINE n == [o EXCEPT !.doomed = TRUE]
  <2>1. /\ DOMAIN n = RowFields /\ n.kind = o.kind /\ n.used = o.used /\ n.foot = o.foot
        /\ n.turn = o.turn /\ n.status = o.status
    BY <1>9 DEF RowFits, RowFields
  <2> HIDE DEF n
  <2>2. Follows(o, n, FALSE)
    BY <1>9, <2>1 DEF Follows, RowFits
  <2> QED
    BY <2>1, <2>2 DEF n
<1>10. \A i \in DOMAIN s1.outbox :
         /\ Follows(s1.outbox[i], e.outbox[i], FALSE)
         /\ e.outbox[i].kind = s1.outbox[i].kind /\ e.outbox[i].used = s1.outbox[i].used
  <2> SUFFICES ASSUME NEW i \in DOMAIN s1.outbox
               PROVE  /\ Follows(s1.outbox[i], e.outbox[i], FALSE)
                      /\ e.outbox[i].kind = s1.outbox[i].kind /\ e.outbox[i].used = s1.outbox[i].used
    OBVIOUS
  <2> DEFINE o == s1.outbox[i]
             n == [o EXCEPT !.doomed = TRUE]
  <2>1. RowFits(o)
    BY <1>7
  <2>2. CASE i \notin L
    BY <1>8, <2>1, <2>2 DEF Follows
  <2>3. CASE i \in L
    <3>1. e.outbox[i] = n
      BY <1>8, <2>3
    <3>2. Follows(o, n, FALSE) /\ n.kind = o.kind /\ n.used = o.used
      BY <1>9, <2>1
    <3> HIDE DEF n
    <3> QED
      BY <3>1, <3>2 DEF Follows
  <2> QED
    BY <2>2, <2>3
<1>11. Orderly(e) /\ LiveParts(s1) \subseteq LiveParts(e)
  BY <1>5, <1>7, <1>8, <1>10, RowsStay
<1>12. LiveParts(st) \subseteq LiveParts(e)
  BY <1>3, <1>4, <1>5, <1>11
<1> QED
  BY <1>1, <1>4, <1>5, <1>6, <1>8, <1>10, <1>11, <1>12

\* _activate_waiting_presentation_plans_conn for a committed plan: it replaces the others.
LEMMA ActivateIs ==
    ASSUME NEW st, Orderly(st), NEW q \in DOMAIN st.plans, st.plans[q].state = "preparing"
    PROVE  LET e == Activate(st, q)
           IN  /\ Orderly(e) /\ LiveParts(st) \subseteq LiveParts(e)
               /\ DOMAIN st.outbox \subseteq DOMAIN e.outbox
               /\ \A i \in DOMAIN st.outbox :
                     e.outbox[i].kind = st.outbox[i].kind /\ e.outbox[i].used = st.outbox[i].used
<1> DEFINE ops   == Operations(st.plans[q].parts, PriorParts(st, q))
           s0    == Materialize(st, q, ops)
           s1    == MarkObsolete(s0, q)
           waits == ObsoleteRows(st, q, {"leased"}) # {}
           s     == IF waits THEN "waiting_predecessor" ELSE "active"
           e     == [s1 EXCEPT !.plans[q] = [@ EXCEPT !.state = s, !.activated = ~waits]]
<1>1. Activate(st, q) = e
  BY DEF Activate
<1>2. Steps(ops)
  <2>1. st.plans[q].parts \in 1 .. MaxParts
    BY DEF Orderly, StoreFits, PlanFits
  <2> QED
    BY <2>1, PriorPartsIs, OperationsFit
<1>3. s # "superseded"
  OBVIOUS
<1> HIDE DEF ops, waits, s
<1>4. /\ Orderly(s0) /\ LiveParts(st) \subseteq LiveParts(s0) /\ DOMAIN s0.plans = DOMAIN st.plans /\ DOMAIN st.outbox \subseteq DOMAIN s0.outbox
      /\ \A i \in DOMAIN st.outbox : s0.outbox[i] = st.outbox[i]
      /\ s0.plans[q].state = "preparing"
  BY <1>2, MaterializeIs
<1> HIDE DEF s0
<1>5. /\ Orderly(s1) /\ LiveParts(s0) \subseteq LiveParts(s1) /\ DOMAIN s1.outbox = DOMAIN s0.outbox /\ DOMAIN s1.plans = DOMAIN s0.plans
      /\ \A i \in DOMAIN s0.outbox :
            s1.outbox[i].kind = s0.outbox[i].kind /\ s1.outbox[i].used = s0.outbox[i].used
      /\ s1.plans[q].state = "preparing"
  BY <1>4, MarkObsoleteIs
<1> HIDE DEF s1
<1>6. DOMAIN s1 = {"outbox", "leases", "plans"} /\ \A x \in DOMAIN s1.plans : PlanFits(s1.plans[x])
  BY <1>5 DEF Orderly, StoreFits
<1>7. /\ DOMAIN e = {"outbox", "leases", "plans"} /\ e.outbox = s1.outbox /\ e.leases = s1.leases
      /\ DOMAIN e.plans = DOMAIN s1.plans
      /\ \A x \in DOMAIN s1.plans : x # q => e.plans[x] = s1.plans[x]
      /\ e.plans[q] = [s1.plans[q] EXCEPT !.state = s, !.activated = ~waits]
  BY <1>4, <1>5, <1>6
<1> HIDE DEF e
<1>8. PlanFits(e.plans[q])
  <2> DEFINE p == s1.plans[q]
  <2>1. PlanFits(p) /\ p.state = "preparing" /\ e.plans[q] = [p EXCEPT !.state = s, !.activated = ~waits]
    BY <1>4, <1>5, <1>6, <1>7
  <2> HIDE DEF p
  <2>2. PlanFits([p EXCEPT !.state = s, !.activated = ~waits])
    BY <1>3, <2>1 DEF PlanFits, PlanFields
  <2> QED
    BY <2>1, <2>2
<1>9. \A x \in DOMAIN e.plans : PlanFits(e.plans[x])
  BY <1>6, <1>7, <1>8
<1>10. Orderly(e)
  BY <1>5, <1>7, <1>9, PlansMove
<1>11. LiveParts(e) = LiveParts(s1)
  BY <1>7 DEF LiveParts
<1> QED
  BY <1>1, <1>4, <1>5, <1>7, <1>10, <1>11

\* A row of a store is changed, its place in its stream and its lease are not.
LEMMA OneRowKeeps ==
    ASSUME NEW st, Orderly(st), NEW i \in DOMAIN st.outbox, NEW n, Follows(st.outbox[i], n, FALSE)
    PROVE  LET e == [st EXCEPT !.outbox[i] = n]
           IN  Orderly(e) /\ LiveParts(st) \subseteq LiveParts(e)
<1> DEFINE e == [st EXCEPT !.outbox[i] = n]
<1>1. /\ DOMAIN st = {"outbox", "leases", "plans"} /\ \A x \in DOMAIN st.plans : PlanFits(st.plans[x])
      /\ \A x \in DOMAIN st.outbox : RowFits(st.outbox[x])
  BY DEF Orderly, StoreFits
<1>2. /\ DOMAIN e = {"outbox", "leases", "plans"} /\ e.plans = st.plans /\ e.leases = st.leases
      /\ DOMAIN e.outbox = DOMAIN st.outbox
      /\ e.outbox[i] = n
      /\ \A x \in DOMAIN st.outbox : x # i => e.outbox[x] = st.outbox[x]
  BY <1>1
<1> HIDE DEF e
<1>3. \A x \in DOMAIN e.outbox : Follows(st.outbox[x], e.outbox[x], FALSE)
  <2> SUFFICES ASSUME NEW x \in DOMAIN st.outbox PROVE Follows(st.outbox[x], e.outbox[x], FALSE)
    BY <1>2
  <2>1. CASE x = i
    BY <1>2, <2>1 DEF Follows
  <2>2. CASE x # i
    BY <1>1, <1>2, <2>2 DEF Follows
  <2> QED
    BY <2>1, <2>2
<1>4. Orderly(e) /\ LiveParts(st) \subseteq LiveParts(e)
  BY <1>1, <1>2, <1>3, RowsStay
<1> QED
  BY <1>4 DEF e

\* prepare_connector_plan_commit: the root leaves its lease and awaits its parts.
LEMMA CommitKeeps ==
    ASSUME Orderly(db), NEW c, NEW q \in DOMAIN db.plans, Commit(c, q)
    PROVE  Orderly(db') /\ LeasesKept(db, db')
<1> DEFINE p  == db.plans[q]
           N  == {PriorParts(db, q), p.parts}
           s0 == Activate(db, q)
<1>1. PICK l \in LiveLeases(db, c) :
         /\ l.row \in RootsOf(db, p.turn, p.rev)
         /\ db' = [Close(s0, {l.row}, "awaiting_ack") EXCEPT !.outbox[l.row] = Committed(@, p.gen, N)]
  BY DEF Commit
<1> DEFINE i  == l.row
           s1 == Close(s0, {i}, "awaiting_ack")
<1>2. i \in DOMAIN db.outbox /\ db.outbox[i].kind # "part" /\ db.outbox[i].status = "leased"
  BY <1>1 DEF RootsOf, LiveLeases
<1>3. db.outbox[i].used # 0
  BY <1>2 DEF Orderly, StoreFits, RowFits
<1>4. p.state = "preparing"
  BY DEF Commit, MayCommit
<1>5. N \subseteq 0 .. MaxParts
  <2>1. p.parts \in 1 .. MaxParts
    BY DEF Orderly, StoreFits, PlanFits
  <2> QED
    BY <2>1, PriorPartsIs, DeliveryAssumption
<1> HIDE DEF N
<1>6. /\ Orderly(s0) /\ i \in DOMAIN s0.outbox
      /\ s0.outbox[i].kind # "part" /\ s0.outbox[i].used # 0
      /\ LiveParts(db) \subseteq LiveParts(s0)
  BY <1>2, <1>3, <1>4, ActivateIs
<1> HIDE DEF s0, i
<1>7. \A x \in {i} \cap DOMAIN s0.outbox :
         /\ "awaiting_ack" = "awaiting_ack" => s0.outbox[x].used # 0 /\ s0.outbox[x].kind # "part"
         /\ s0.outbox[x].kind = "part" /\ s0.outbox[x].status \in Terminal => "awaiting_ack" \in Terminal
  BY <1>6
<1>8. "awaiting_ack" \in RowStatus /\ "awaiting_ack" # "leased"
  BY DEF RowStatus
<1>9. /\ Orderly(s1) /\ i \in DOMAIN s1.outbox /\ s1.outbox[i] = Closed(s0.outbox[i], "awaiting_ack")
      /\ \A m \in LiveParts(s0) : m.row \notin {i} => m \in LiveParts(s1)
  BY <1>6, <1>7, <1>8, CloseIs
<1> HIDE DEF s1
<1> DEFINE o == s1.outbox[i]
           n == Committed(o, p.gen, N)
<1>10. RowFits(o)
  BY <1>9 DEF Orderly, StoreFits
<1>11. o.status = "awaiting_ack" /\ o.kind # "part" /\ o.used # 0
  <2>1. RowFits(s0.outbox[i])
    BY <1>6 DEF Orderly, StoreFits
  <2> QED
    BY <1>6, <1>9, <2>1, ClosedIs
<1>12. db' = [s1 EXCEPT !.outbox[i] = n]
  BY <1>1 DEF s1, i
<1>13. Follows(o, n, FALSE)
  <2> HIDE DEF o
  <2>1. Max({o.foot} \cup N) \in 0 .. MaxParts
    <3>1. {o.foot} \cup N \subseteq 0 .. MaxParts /\ {o.foot} \cup N # {} /\ MaxParts \in Nat
      BY <1>5, <1>10, DeliveryAssumption DEF RowFits
    <3>2. Max({o.foot} \cup N) \in {o.foot} \cup N
      BY <3>1, GreatestOf
    <3> QED
      BY <3>1, <3>2
  <2>2. /\ DOMAIN n = RowFields /\ n.foot = Max({o.foot} \cup N) /\ n.kind = o.kind
        /\ n.used = o.used /\ n.status = o.status /\ n.turn = o.turn
    BY <1>10 DEF Committed, RowFits, RowFields
  <2> HIDE DEF n
  <2> QED
    BY <1>10, <1>11, <2>1, <2>2 DEF Follows, RowFits
<1>14. LET e == [s1 EXCEPT !.outbox[i] = n]
       IN  Orderly(e) /\ LiveParts(s1) \subseteq LiveParts(e)
  <2> HIDE DEF n
  <2> QED
    BY <1>9, <1>13, OneRowKeeps
<1>15. \A m \in LiveParts(s0) : m.row # i
  BY <1>6 DEF LiveParts
<1> HIDE DEF n
<1>16. LiveParts(db) \subseteq LiveParts([s1 EXCEPT !.outbox[i] = n])
  BY <1>6, <1>9, <1>14, <1>15
<1> QED
  BY <1>12, <1>14, <1>16, KeptByLeases

\* prepare_connector_plan_begin with a ref
LEMMA BeginKeeps ==
    ASSUME Orderly(db), NEW c, NEW v, NEW n \in 1 .. MaxParts, Begin(c, v, n)
    PROVE  Orderly(db') /\ LeasesKept(db, db')
<1>1. PICK l \in LiveLeases(db, c) :
         LET o == db.outbox[l.row]
         IN  db' = WithPlan(db, Highest(DOMAIN db.plans) + 1,
                            NewPlan(o.turn, o.rev, v, Max({1, o.gen}), n, TRUE))
  BY DEF Begin
<1> DEFINE o == db.outbox[l.row]
           p == NewPlan(o.turn, o.rev, v, Max({1, o.gen}), n, TRUE)
<1>2. PlanFits(p) /\ db' = WithPlan(db, Highest(DOMAIN db.plans) + 1, p)
  BY <1>1, NewPlanFits
<1> HIDE DEF p
<1>3. Orderly(db') /\ db'.outbox = db.outbox
  BY <1>2, WithPlanIs
<1> QED
  BY <1>3, KeptByRows

\* prepare_connector_plan_begin without one
LEMMA BeginSourceLessKeeps ==
    ASSUME Orderly(db), NEW t, NEW v, NEW n \in 1 .. MaxParts, BeginSourceLess(t, v, n)
    PROVE  Orderly(db') /\ LeasesKept(db, db')
<1>1. db' = WithPlan(db, Highest(DOMAIN db.plans) + 1, NewPlan(t, current[t], v, 1, n, FALSE))
  BY DEF BeginSourceLess
<1> DEFINE p == NewPlan(t, current[t], v, 1, n, FALSE)
<1>2. PlanFits(p) /\ db' = WithPlan(db, Highest(DOMAIN db.plans) + 1, p)
  BY <1>1, NewPlanFits
<1> HIDE DEF p
<1>3. Orderly(db') /\ db'.outbox = db.outbox
  BY <1>2, WithPlanIs
<1> QED
  BY <1>3, KeptByRows

\* prepare_connector_plan_part counts a part.
LEMMA PartKeeps ==
    ASSUME Orderly(db), NEW q \in DOMAIN db.plans, Part(q)
    PROVE  Orderly(db') /\ LeasesKept(db, db')
<1>1. DOMAIN db = {"outbox", "leases", "plans"} /\ \A x \in DOMAIN db.plans : PlanFits(db.plans[x])
  BY DEF Orderly, StoreFits
<1>2. db' = [db EXCEPT !.plans[q].staged = @ + 1]
  BY DEF Part
<1>3. /\ DOMAIN db' = {"outbox", "leases", "plans"} /\ db'.outbox = db.outbox /\ db'.leases = db.leases
      /\ DOMAIN db'.plans = DOMAIN db.plans
      /\ \A x \in DOMAIN db.plans : x # q => db'.plans[x] = db.plans[x]
      /\ db'.plans[q] = [db.plans[q] EXCEPT !.staged = @ + 1]
  BY <1>1, <1>2
<1>4. PlanFits([db.plans[q] EXCEPT !.staged = @ + 1])
  <2> DEFINE p == db.plans[q]
  <2>1. PlanFits(p)
    BY <1>1
  <2> HIDE DEF p
  <2>2. PlanFits([p EXCEPT !.staged = @ + 1])
    BY <2>1 DEF PlanFits, PlanFields
  <2> QED
    BY <2>2 DEF p
<1>5. \A x \in DOMAIN db'.plans : PlanFits(db'.plans[x])
  BY <1>1, <1>3, <1>4
<1> QED
  BY <1>3, <1>5, PlansMove, KeptByRows

\* prepare_connector_plan_commit without a ref
LEMMA CommitSourceLessKeeps ==
    ASSUME Orderly(db), NEW q \in DOMAIN db.plans, CommitSourceLess(q)
    PROVE  Orderly(db') /\ LeasesKept(db, db')
<1>1. db.plans[q].state = "preparing" /\ db' = Activate(db, q)
  BY DEF CommitSourceLess, MayCommit
<1> QED
  BY <1>1, ActivateIs, KeptByLeases

-----------------------------------------------------------------------------
(* Operations on a ref                                                     *)

\* poll_connector_outbox leases the first row that may go.
LEMMA PollKeeps ==
    ASSUME Orderly(db), NEW c, Poll(c)
    PROVE  Orderly(db') /\ LeasesKept(db, db')
<1> DEFINE st == Exhausted(Reclaimed(db))
           parts == {i \in Candidates(st) : st.outbox[i].kind = "part"}
           i == First(st)
<1>1. /\ Orderly(st) /\ LiveParts(db) \subseteq LiveParts(st)
      /\ \A x \in DOMAIN st.outbox : st.outbox[x].status \in Waiting => st.outbox[x].used < MaxAttempts
  BY ReclaimedKeeps, ExhaustedIs
<1>2. db' = IF Candidates(st) = {} THEN st ELSE LeaseRow(st, i, c)
  BY DEF Poll
<1> HIDE DEF st
<1>3. CASE Candidates(st) = {}
  BY <1>1, <1>2, <1>3, KeptByLeases
<1>4. CASE Candidates(st) # {}
  <2>1. Candidates(st) \subseteq Nat /\ parts \subseteq Nat
    BY <1>1, NextRow DEF Candidates
  <2>2. i \in Candidates(st)
    BY <1>4, <2>1, LeastOf DEF First
  <2> HIDE DEF i
  <2>3. /\ i \in DOMAIN st.outbox /\ st.outbox[i].status \in Waiting
        /\ st.outbox[i].kind = "part" =>
               \A j \in DOMAIN st.outbox :
                   st.outbox[j].kind = "part" /\ Same(st, i, j) /\ j < i => st.outbox[j].status \in Terminal
    BY <2>2 DEF Candidates, PartMayGo
  <2>4. st.outbox[i].used < MaxAttempts
    BY <1>1, <2>3
  <2>5. Orderly(LeaseRow(st, i, c)) /\ LiveParts(st) \subseteq LiveParts(LeaseRow(st, i, c))
    BY <1>1, <2>3, <2>4, LeaseRowKeeps
  <2> QED
    BY <1>1, <1>2, <1>4, <2>5, KeptByLeases
<1> QED
  BY <1>3, <1>4

\* What a ref stands for is leased.
LEMMA HeldIsLeased ==
    ASSUME NEW st, Orderly(st), NEW c, NEW i \in HeldRows(st, c)
    PROVE  i \in DOMAIN st.outbox /\ st.outbox[i].status = "leased"
BY DEF HeldRows, LiveLeases, Orderly, LeasesFit

\* All parts but the one that c has given back stay leased.
Returns(a, b, c) ==
    \A l \in LiveParts(a) :
        \/ l.owner = c
        \/ l.row \in DOMAIN b.outbox /\ b.outbox[l.row].status = "leased"

\* A ref is the lease of its connector.
LEMMA ReturnsOwn ==
    ASSUME NEW a, NEW st, Orderly(st), LiveParts(a) \subseteq LiveParts(st), NEW c, NEW i \in HeldRows(st, c),
           NEW b, Orderly(b), \A l \in LiveParts(st) : l.row # i => l \in LiveParts(b)
    PROVE  Returns(a, b, c)
<1> SUFFICES ASSUME NEW l \in LiveParts(a), l.owner # c
             PROVE  l.row \in DOMAIN b.outbox /\ b.outbox[l.row].status = "leased"
  BY DEF Returns
<1>1. PICK m \in st.leases : m.row = i /\ m.owner = c
  BY DEF HeldRows, LiveLeases
<1>2. l \in st.leases /\ l # m
  BY <1>1 DEF LiveParts
<1>3. l.row # i
  BY <1>1, <1>2 DEF Orderly, LeasesFit
<1>4. l \in b.leases
  BY <1>3 DEF LiveParts
<1> QED
  BY <1>4 DEF Orderly, LeasesFit

\* ack_connector_delivery
LEMMA AckKeeps ==
    ASSUME Orderly(db), NEW c, Ack(c)
    PROVE  Orderly(db') /\ Returns(db, db', c)
<1> DEFINE st == Reclaimed(db)
<1>1. PICK i \in HeldRows(st, c) : db' = Finish(st, i, "delivered")
  BY DEF Ack
<1>2. "delivered" \in RowStatus \ {"leased", "awaiting_ack"}
  BY DEF RowStatus, Terminal
<1>3. Orderly(st) /\ LiveParts(db) \subseteq LiveParts(st)
  BY ReclaimedKeeps
<1> HIDE DEF st
<1>4. Orderly(db') /\ \A l \in LiveParts(st) : l.row # i => l \in LiveParts(db')
  BY <1>1, <1>2, <1>3, HeldIsLeased, FinishKeeps
<1> QED
  BY <1>3, <1>4, ReturnsOwn

\* fail_connector_delivery, defer_connector_delivery and release_connector_delivery
LEMMA GiveBackKeeps ==
    ASSUME Orderly(db), NEW c, NEW action \in {"fail", "defer", "release"}, GiveBack(c, action)
    PROVE  Orderly(db') /\ Returns(db, db', c)
<1> DEFINE st == Reclaimed(db)
<1>1. PICK i \in HeldRows(st, c) : db' = Finish(st, i, ResultStatus(st.outbox[i], action))
  BY DEF GiveBack
<1>2. Orderly(st) /\ LiveParts(db) \subseteq LiveParts(st)
  BY ReclaimedKeeps
<1> HIDE DEF st
<1> DEFINE s == ResultStatus(st.outbox[i], action)
<1>3. s \in {"superseded", "dead_letter", "retry", "deferred", "queued"}
  BY Zenon DEF ResultStatus
<1> HIDE DEF s
<1>4. s \in RowStatus \ {"leased", "awaiting_ack"}
  BY <1>3 DEF RowStatus, Terminal, Waiting
<1>5. LET e == Finish(st, i, s)
      IN  Orderly(e) /\ \A l \in LiveParts(st) : l.row # i => l \in LiveParts(e)
  BY <1>1, <1>2, <1>4, HeldIsLeased, FinishKeeps
<1>6. Orderly(db') /\ \A l \in LiveParts(st) : l.row # i => l \in LiveParts(db')
  BY <1>1, <1>5 DEF s
<1> QED
  BY <1>2, <1>6, ReturnsOwn

-----------------------------------------------------------------------------
(* A turn is observed                                                      *)

\* _supersede_stale_final_work_conn closes rows.
LEMMA SupersedeStaleKeeps ==
    ASSUME NEW st, Orderly(st), NEW t, NEW r
    PROVE  LET e == SupersedeStale(st, t, r)
           IN  /\ Orderly(e) /\ DOMAIN e.outbox = DOMAIN st.outbox
               /\ \A i \in DOMAIN st.outbox :
                     e.outbox[i] = st.outbox[i] \/ e.outbox[i].status = "superseded"
<1>1. ASSUME NEW Q, NEW I
      PROVE  LET e == Close(SetPlanState(st, Q, "superseded"), I, "superseded")
             IN  /\ Orderly(e) /\ DOMAIN e.outbox = DOMAIN st.outbox
                 /\ \A i \in DOMAIN st.outbox :
                       e.outbox[i] = st.outbox[i] \/ e.outbox[i].status = "superseded"
  <2> DEFINE s0 == SetPlanState(st, Q, "superseded")
  <2>1. \A q \in Q \cap DOMAIN st.plans : st.plans[q].state = "superseded" => "superseded" = "superseded"
    OBVIOUS
  <2>2. Orderly(s0) /\ s0.outbox = st.outbox
    BY <2>1, SetPlanStateIs
  <2>3. "superseded" \in Terminal
    BY DEF Terminal
  <2>4. \A i \in DOMAIN st.outbox : Closed(st.outbox[i], "superseded").status = "superseded"
    BY ClosedIs DEF Orderly, StoreFits
  <2> HIDE DEF s0
  <2> DEFINE e == Close(s0, I, "superseded")
  <2>5. /\ Orderly(e) /\ DOMAIN e.outbox = DOMAIN s0.outbox
        /\ \A i \in DOMAIN s0.outbox :
              e.outbox[i] = IF i \in I THEN Closed(s0.outbox[i], "superseded") ELSE s0.outbox[i]
    BY <2>2, <2>3, CloseForGood
  <2> HIDE DEF e
  <2> QED
    BY <2>2, <2>4, <2>5 DEF e, s0
<1> QED
  BY <1>1 DEF SupersedeStale
\* How a root starts is neither leased nor a part.
LEMMA OpeningIs ==
    ASSUME NEW r
    PROVE  /\ Opening(r).kind \in {"hold", "ready"}
           /\ Opening(r).status \in {"dead_letter", "queued"}
BY DEF Opening

\* _reactivate_final_root_conn: a closed root starts again, its plans and parts go.
LEMMA ReactivateKeeps ==
    ASSUME NEW st, Orderly(st), NEW i \in DOMAIN st.outbox, st.outbox[i].kind # "part",
           MustReactivate(st, i)
    PROVE  LET e == Reactivate(st, i)
           IN  /\ Orderly(e)
               /\ \A x \in DOMAIN e.outbox : x \in DOMAIN st.outbox /\ (x # i => e.outbox[x] = st.outbox[x])
<1> DEFINE o   == st.outbox[i]
           Q   == PlansFor(st, o.turn, o.rev)
           q   == LatestAttempted(st, o.turn)
           s1  == DeleteRows(st, UNION {JobRows(st.plans[x]) : x \in Q})
           gen == Max({1, o.gen} \cup {st.plans[x].gen : x \in Q}) + 1
           F   == {o.foot} \cup {st.plans[x].parts : x \in Q}
           aft == IF q = 0 THEN o.after ELSE q
           row == [o EXCEPT !.kind = Opening(o.rev).kind, !.status = Opening(o.rev).status,
                            !.due = FALSE, !.used = 0, !.gen = gen, !.foot = Max(F), !.after = aft]
           e   == [s1 EXCEPT !.plans = [x \in DOMAIN @ \ Q |-> @[x]], !.outbox[i] = row]
<1>1. Reactivate(st, i) = e
  BY DEF Reactivate
<1>2. o.status # "leased"
  BY DEF MustReactivate
<1>3. /\ Orderly(s1) /\ s1.plans = st.plans /\ DOMAIN s1.outbox \subseteq DOMAIN st.outbox
      /\ \A x \in DOMAIN s1.outbox : s1.outbox[x] = st.outbox[x]
  BY DeleteRowsIs
<1>4. Max(F) \in 0 .. MaxParts
  <2>1. o.foot \in 0 .. MaxParts /\ \A x \in DOMAIN st.plans : st.plans[x].parts \in 1 .. MaxParts
    BY DEF Orderly, StoreFits, RowFits, PlanFits
  <2>2. F \subseteq 0 .. MaxParts /\ F # {} /\ MaxParts \in Nat
    BY <2>1, DeliveryAssumption DEF PlansFor
  <2> HIDE DEF F
  <2> QED
    BY <2>2, GreatestOf
<1>5. RowFits(o)
  BY DEF Orderly, StoreFits
<1> HIDE DEF Q, q, s1, F, gen, aft
<1>6. Follows(o, row, FALSE)
  <2> DEFINE kind   == Opening(o.rev).kind
             status == Opening(o.rev).status
  <2>1. kind # "part" /\ status # "leased" /\ status # "awaiting_ack" /\ o.kind # "part"
    BY OpeningIs
  <2> HIDE DEF kind, status, o
  <2>2. /\ DOMAIN row = RowFields /\ row.kind = kind /\ row.status = status
        /\ row.used = 0 /\ row.foot = Max(F) /\ row.turn = o.turn
    BY <1>5 DEF RowFits, RowFields, kind, status
  <2> HIDE DEF row
  <2> QED
    BY <1>2, <1>4, <2>1, <2>2, DeliveryAssumption DEF Follows, RowFits
<1>7. /\ DOMAIN s1 = {"outbox", "leases", "plans"} /\ \A x \in DOMAIN s1.plans : PlanFits(s1.plans[x])
      /\ \A x \in DOMAIN s1.outbox : RowFits(s1.outbox[x])
  BY <1>3 DEF Orderly, StoreFits
<1> HIDE DEF row
<1>8. /\ DOMAIN e = {"outbox", "leases", "plans"} /\ e.leases = s1.leases
      /\ DOMAIN e.outbox = DOMAIN s1.outbox
      /\ \A x \in DOMAIN s1.outbox : e.outbox[x] = IF x = i THEN row ELSE s1.outbox[x]
      /\ DOMAIN e.plans = DOMAIN s1.plans \ Q
      /\ \A x \in DOMAIN e.plans : e.plans[x] = s1.plans[x]
  BY <1>7
<1> HIDE DEF e
<1>9. \A x \in DOMAIN e.outbox : Follows(s1.outbox[x], e.outbox[x], FALSE)
  <2> SUFFICES ASSUME NEW x \in DOMAIN s1.outbox PROVE Follows(s1.outbox[x], e.outbox[x], FALSE)
    BY <1>8
  <2>1. CASE x = i
    BY <1>3, <1>6, <1>8, <2>1 DEF Follows
  <2>2. CASE x # i
    BY <1>7, <1>8, <2>2 DEF Follows
  <2> QED
    BY <2>1, <2>2
<1>10. \A x \in DOMAIN e.plans : PlanFits(e.plans[x])
  BY <1>7, <1>8
<1>11. Orderly(e)
  BY <1>3, <1>8, <1>9, <1>10, RowsStay
<1> QED
  BY <1>1, <1>3, <1>8, <1>11

\* _ensure_final_ready_anchor_conn
LEMMA EnsureAnchorKeeps ==
    ASSUME NEW st, Orderly(st), NEW t, NEW r
    PROVE  LET e == EnsureAnchor(st, t, r)
           IN  Orderly(e) /\ LeasesKept(st, e)
<1>1. CASE RootsOf(st, t, r) = {}
  <2> DEFINE s1  == SupersedeStale(st, t, r)
             row == NewRoot(t, r)
  <2>1. EnsureAnchor(st, t, r) = WithRow(s1, Highest(DOMAIN s1.outbox) + 1, row)
    BY <1>1 DEF EnsureAnchor
  <2>2. /\ Orderly(s1) /\ DOMAIN s1.outbox = DOMAIN st.outbox
        /\ \A x \in DOMAIN st.outbox : s1.outbox[x] = st.outbox[x] \/ s1.outbox[x].status = "superseded"
    BY SupersedeStaleKeeps
  <2>3. RowFits(row) /\ row.status # "leased"
    BY OpeningIs, DeliveryAssumption DEF NewRoot, RowFits, RowFields
  <2> HIDE DEF s1, row
  <2> DEFINE e == EnsureAnchor(st, t, r)
  <2>4. Orderly(e) /\ \A x \in DOMAIN s1.outbox : e.outbox[x] = s1.outbox[x]
    BY <2>1, <2>2, <2>3, WithRowKeeps
  <2> HIDE DEF e
  <2>5. LeasesKept(st, e)
    BY <2>2, <2>4, KeptByRows
  <2> QED
    BY <2>4, <2>5 DEF e
<1>2. CASE RootsOf(st, t, r) # {}
  <2> DEFINE i == Root(st, t, r)
             e == IF MustReactivate(st, i) THEN Reactivate(st, i) ELSE st
  <2>1. EnsureAnchor(st, t, r) = SupersedeStale(e, t, r)
    BY <1>2 DEF EnsureAnchor
  <2>2. i \in RootsOf(st, t, r)
    BY <1>2 DEF Root
  <2>3. i \in DOMAIN st.outbox /\ st.outbox[i].kind # "part"
    BY <2>2 DEF RootsOf
  <2> HIDE DEF i
  <2>4. /\ Orderly(e)
        /\ \A x \in DOMAIN e.outbox : x \in DOMAIN st.outbox /\ (x # i => e.outbox[x] = st.outbox[x])
    BY <2>3, ReactivateKeeps
  <2> HIDE DEF e
  <2> DEFINE s1 == SupersedeStale(e, t, r)
  <2>5. /\ Orderly(s1) /\ DOMAIN s1.outbox = DOMAIN e.outbox
        /\ \A x \in DOMAIN e.outbox : s1.outbox[x] = e.outbox[x] \/ s1.outbox[x].status = "superseded"
    BY <2>4, SupersedeStaleKeeps
  <2> HIDE DEF s1
  <2>6. \A x \in DOMAIN st.outbox \cap DOMAIN s1.outbox :
            st.outbox[x].kind = "part" /\ st.outbox[x].status = "leased"
                => s1.outbox[x].status \in {"leased", "superseded"}
    BY <2>3, <2>4, <2>5
  <2>7. LeasesKept(st, s1)
    BY <2>6, KeptByRows
  <2> QED
    BY <2>1, <2>5, <2>7 DEF s1
<1> QED
  BY <1>1, <1>2

-----------------------------------------------------------------------------
(* The operator                                                            *)

\* _finalize_recovered_plan_materialization_conn: what was not acknowledged is deleted.
LEMMA FinalizeRecoveryKeeps ==
    ASSUME NEW st, Orderly(st), NEW q
    PROVE  LET e == FinalizeRecovery(st, q)
           IN  Orderly(e) /\ \A i \in DOMAIN e.outbox : i \in DOMAIN st.outbox /\ e.outbox[i] = st.outbox[i]
<1>1. ASSUME NEW done
      PROVE  LET e == [st EXCEPT !.plans[q] =
                          [@ EXCEPT !.state = "superseded", !.recovered = TRUE, !.jobs = done]]
             IN  Orderly(e) /\ e.outbox = st.outbox
  <2> DEFINE e == [st EXCEPT !.plans[q] =
                      [@ EXCEPT !.state = "superseded", !.recovered = TRUE, !.jobs = done]]
  <2>1. DOMAIN st = {"outbox", "leases", "plans"} /\ \A x \in DOMAIN st.plans : PlanFits(st.plans[x])
    BY DEF Orderly, StoreFits
  <2>2. ASSUME NEW p, PlanFits(p)
        PROVE  PlanFits([p EXCEPT !.state = "superseded", !.recovered = TRUE, !.jobs = done])
    BY <2>2 DEF PlanFits, PlanFields
  <2>3. /\ DOMAIN e = {"outbox", "leases", "plans"} /\ e.outbox = st.outbox /\ e.leases = st.leases
        /\ DOMAIN e.plans = DOMAIN st.plans
        /\ \A x \in DOMAIN st.plans :
              e.plans[x] = IF x = q
                           THEN [st.plans[x] EXCEPT !.state = "superseded", !.recovered = TRUE, !.jobs = done]
                           ELSE st.plans[x]
    BY <2>1
  <2> HIDE DEF e
  <2>4. \A x \in DOMAIN e.plans : PlanFits(e.plans[x])
    <3> SUFFICES ASSUME NEW x \in DOMAIN st.plans PROVE PlanFits(e.plans[x])
      BY <2>3
    <3> DEFINE p == st.plans[x]
               n == [p EXCEPT !.state = "superseded", !.recovered = TRUE, !.jobs = done]
    <3>1. PlanFits(p)
      BY <2>1
    <3>2. e.plans[x] = IF x = q THEN n ELSE p
      BY <2>3
    <3> HIDE DEF p
    <3>3. PlanFits(n)
      BY <2>2, <3>1
    <3> HIDE DEF n
    <3> QED
      BY <3>1, <3>2, <3>3
  <2>5. Orderly(e)
    BY <2>3, <2>4, PlansMove
  <2> QED
    BY <2>3, <2>5 DEF e
<1> DEFINE p    == st.plans[q]
           done == SubSeq(p.jobs, 1, Min(Suffix(st, p)) - 1)
           gone == JobRows(p) \ {done[k].row : k \in DOMAIN done}
           s1   == [st EXCEPT !.plans[q] =
                       [@ EXCEPT !.state = "superseded", !.recovered = TRUE, !.jobs = done]]
           old  == {x \in PlansFor(s1, p.turn, p.rev) :
                       /\ s1.plans[x].ver = p.ver /\ s1.plans[x].state = "superseded"
                       /\ ~s1.plans[x].recovers /\ ~s1.plans[x].recovered}
<1>2. FinalizeRecovery(st, q) = DeleteRows([s1 EXCEPT !.plans = [x \in DOMAIN @ \ old |-> @[x]]], gone)
  BY DEF FinalizeRecovery
<1> HIDE DEF done
<1>3. Orderly(s1) /\ s1.outbox = st.outbox
  BY <1>1
<1> HIDE DEF s1, old, gone
<1> DEFINE s2 == [s1 EXCEPT !.plans = [x \in DOMAIN @ \ old |-> @[x]]]
           e  == DeleteRows(s2, gone)
<1>4. FinalizeRecovery(st, q) = e
  BY <1>2
<1>5. DOMAIN s1 = {"outbox", "leases", "plans"} /\ \A x \in DOMAIN s1.plans : PlanFits(s1.plans[x])
  BY <1>3 DEF Orderly, StoreFits
<1>6. /\ DOMAIN s2 = {"outbox", "leases", "plans"} /\ s2.outbox = s1.outbox /\ s2.leases = s1.leases
      /\ \A x \in DOMAIN s2.plans : x \in DOMAIN s1.plans /\ s2.plans[x] = s1.plans[x]
  BY <1>5
<1> HIDE DEF s2
<1>7. Orderly(s2)
  BY <1>3, <1>5, <1>6, PlansMove
<1>8. Orderly(e) /\ \A i \in DOMAIN e.outbox : i \in DOMAIN s2.outbox /\ e.outbox[i] = s2.outbox[i]
  BY <1>7, DeleteRowsIs
<1> HIDE DEF e
<1> QED
  BY <1>3, <1>4, <1>6, <1>8

\* What a recovery queues again is a part of the jobs of the failed plan.
LEMMA RecoveredSteps ==
    ASSUME Orderly(db), NEW q \in DOMAIN db.plans, Recover(q)
    PROVE  Steps(SubSeq(db.plans[q].jobs, Min(Suffix(db, db.plans[q])), Len(db.plans[q].jobs)))
<1> DEFINE p == db.plans[q]
<1>1. p.jobs \in Seq(Jobs)
  BY DEF Orderly, StoreFits, PlanFits, Recover, MayRecover
<1>2. Suffix(db, p) # {} /\ Suffix(db, p) \subseteq DOMAIN p.jobs
  BY DEF Recover, MayRecover, Suffix
<1> DEFINE s == p.jobs
           S == Suffix(db, p)
<1>3. s \in Seq(Jobs) /\ S # {} /\ S \subseteq DOMAIN s
  BY <1>1, <1>2
<1> HIDE DEF s, S
<1>4. Len(s) \in Nat /\ S \subseteq 1 .. Len(s)
  BY <1>3
<1>5. Min(S) \in 1 .. Len(s)
  BY <1>3, <1>4, LeastOf
<1> DEFINE m == Min(S)
           x == SubSeq(s, m, Len(s))
<1>6. m \in 1 .. Len(s) + 1 /\ Len(s) \in (m - 1) .. Len(s)
  BY <1>4, <1>5
<1> HIDE DEF m
<1>7. x \in Seq(Jobs)
  BY <1>3, <1>6, SubSeqProperties
<1> HIDE DEF x
<1>8. Len(x) \in Nat /\ DOMAIN x = 1 .. Len(x) /\ \A k \in 1 .. Len(x) : x[k] \in Jobs
  BY <1>7
<1>9. Steps(x)
  BY <1>8 DEF Steps, Jobs
<1> QED
  BY <1>9 DEF x, m, s, S

\* prepare_connector_plan_recover
LEMMA RecoverKeeps ==
    ASSUME Orderly(db), NEW q \in DOMAIN db.plans, Recover(q)
    PROVE  Orderly(db') /\ LeasesKept(db, db')
<1> DEFINE p     == db.plans[q]
           n     == Highest(DOMAIN db.plans) + 1
           new   == [NewPlan(p.turn, p.rev, p.ver, p.gen + 1, p.parts, p.sourced) EXCEPT
                        !.staged = p.parts, !.state = "active", !.activated = TRUE, !.recovers = TRUE]
           first == Min(Suffix(db, p))
           ops   == SubSeq(p.jobs, first, Len(p.jobs))
           s1    == WithPlan(db, n, new)
           s2    == Materialize(s1, n, ops)
<1>1. db' = FinalizeRecovery(s2, q)
  BY DEF Recover
<1>2. PlanFits(p) /\ p.state # "superseded"
  BY DEF Orderly, StoreFits, Recover, MayRecover
<1>3. p.jobs \in Seq(Jobs) /\ p.parts \in 1 .. MaxParts
  BY <1>2 DEF PlanFits
<1>4. PlanFits(new)
  BY <1>3, EmptySeq DEF NewPlan, PlanFits, PlanFields
<1>5. Steps(ops)
  BY RecoveredSteps
<1> HIDE DEF n, new, ops
<1>6. Orderly(s1) /\ s1.outbox = db.outbox
  BY <1>4, WithPlanIs
<1> HIDE DEF s1
<1>7. Orderly(s2) /\ \A i \in DOMAIN s1.outbox : s2.outbox[i] = s1.outbox[i]
  BY <1>5, <1>6, MaterializeIs
<1> HIDE DEF s2
<1>8. Orderly(db') /\ \A i \in DOMAIN db'.outbox : db'.outbox[i] = s2.outbox[i]
  BY <1>1, <1>7, FinalizeRecoveryKeeps
<1> QED
  BY <1>6, <1>7, <1>8, KeptByRows

\* retry_final_ready_delivery of a root that is not current
LEMMA RetryStaleKeeps ==
    ASSUME Orderly(db), NEW i, RetryStale(i)
    PROVE  Orderly(db') /\ LeasesKept(db, db')
<1>1. "superseded" \in Terminal /\ db' = Close(db, {i}, "superseded")
  BY DEF Terminal, RetryStale
<1>2. \A x \in DOMAIN db.outbox : Closed(db.outbox[x], "superseded").status = "superseded"
  BY ClosedIs DEF Orderly, StoreFits
<1>3. /\ Orderly(db') /\ DOMAIN db'.outbox = DOMAIN db.outbox
      /\ \A x \in DOMAIN db.outbox : db'.outbox[x] = db.outbox[x] \/ db'.outbox[x].status = "superseded"
  BY <1>1, <1>2, CloseForGood
<1> QED
  BY <1>3, KeptByRows

\* retry_final_ready_delivery of a dead root
LEMMA RetryDeadLetterKeeps ==
    ASSUME Orderly(db), NEW i \in DOMAIN db.outbox, RetryDeadLetter(i)
    PROVE  Orderly(db') /\ LeasesKept(db, db')
<1> DEFINE o == db.outbox[i]
           n == [o EXCEPT !.status = "queued", !.used = 0]
<1>1. /\ RowFits(o) /\ o.kind # "part" /\ o.status = "dead_letter"
      /\ db' = [db EXCEPT !.outbox[i] = n]
  BY DEF RetryDeadLetter, Orderly, StoreFits
<1> HIDE DEF o
<1>2. /\ DOMAIN n = RowFields /\ n.status = "queued" /\ n.used = 0 /\ n.foot = o.foot
      /\ n.kind = o.kind /\ n.turn = o.turn
  BY <1>1 DEF RowFits, RowFields
<1> HIDE DEF n
<1>3. Follows(o, n, FALSE)
  BY <1>1, <1>2, DeliveryAssumption DEF Follows, RowFits
<1> QED
  BY <1>1, <1>3, OneRowKeeps, KeptByLeases DEF o

-----------------------------------------------------------------------------
(* Connectors and time                                                     *)

\* Leases change their holder or expire.
LEMMA LeasesChange ==
    ASSUME NEW a, Orderly(a), NEW b,
           DOMAIN b = {"outbox", "leases", "plans"}, b.outbox = a.outbox, b.plans = a.plans,
           \A l \in b.leases : DOMAIN l = {"row", "owner", "due"},
           \A l \in b.leases : \E m \in a.leases : l.row = m.row,
           \A m \in a.leases : \E l \in b.leases : l.row = m.row,
           \A l, m \in b.leases : l.row = m.row => l = m
    PROVE  Orderly(b)
<1>1. StoreFits(b) /\ PartsInOrder(b)
  BY DEF Orderly, StoreFits, PartsInOrder, Same
<1>2. LeasesFit(b)
  BY DEF Orderly, LeasesFit
<1> QED
  BY <1>1, <1>2 DEF Orderly

\* A connector stops.
LEMMA StopKeeps ==
    ASSUME Orderly(db), NEW c, Stop(c)
    PROVE  Orderly(db') /\ LeasesKept(db, db')
<1> DEFINE f(l) == IF l.owner = c THEN [l EXCEPT !.owner = Nobody] ELSE l
<1>1. db' = [db EXCEPT !.leases = {f(l) : l \in @}]
  BY DEF Stop
<1>2. /\ DOMAIN db = {"outbox", "leases", "plans"}
      /\ \A l \in db.leases : DOMAIN l = {"row", "owner", "due"}
      /\ \A l, m \in db.leases : l.row = m.row => l = m
  BY DEF Orderly, StoreFits, LeasesFit
<1>3. \A l \in db.leases : DOMAIN f(l) = {"row", "owner", "due"} /\ f(l).row = l.row
  BY <1>2
<1> HIDE DEF f
<1>4. /\ DOMAIN db' = {"outbox", "leases", "plans"} /\ db'.outbox = db.outbox /\ db'.plans = db.plans
      /\ db'.leases = {f(l) : l \in db.leases}
  BY <1>1, <1>2
<1>5. /\ \A l \in db'.leases : DOMAIN l = {"row", "owner", "due"}
      /\ \A l \in db'.leases : \E m \in db.leases : l.row = m.row
      /\ \A m \in db.leases : \E l \in db'.leases : l.row = m.row
      /\ \A l, m \in db'.leases : l.row = m.row => l = m
  BY <1>2, <1>3, <1>4
<1> QED
  BY <1>4, <1>5, LeasesChange, KeptByRows

\* A lease expires.
LEMMA LeaseExpiresKeeps ==
    ASSUME Orderly(db), NEW l \in db.leases, LeaseExpires(l)
    PROVE  Orderly(db') /\ LeasesKept(db, db')
<1> DEFINE n == [l EXCEPT !.due = TRUE]
<1>1. db' = [db EXCEPT !.leases = (@ \ {l}) \cup {n}]
  BY DEF LeaseExpires
<1>2. /\ DOMAIN db = {"outbox", "leases", "plans"}
      /\ \A m \in db.leases : DOMAIN m = {"row", "owner", "due"}
      /\ \A k, m \in db.leases : k.row = m.row => k = m
  BY DEF Orderly, StoreFits, LeasesFit
<1>3. DOMAIN n = {"row", "owner", "due"} /\ n.row = l.row
  BY <1>2
<1> HIDE DEF n
<1>4. /\ DOMAIN db' = {"outbox", "leases", "plans"} /\ db'.outbox = db.outbox /\ db'.plans = db.plans
      /\ db'.leases = (db.leases \ {l}) \cup {n}
  BY <1>1, <1>2
<1>5. /\ \A m \in db'.leases : DOMAIN m = {"row", "owner", "due"}
      /\ \A k \in db'.leases : \E m \in db.leases : k.row = m.row
      /\ \A m \in db.leases : \E k \in db'.leases : k.row = m.row
      /\ \A k, m \in db'.leases : k.row = m.row => k = m
  BY <1>2, <1>3, <1>4
<1> QED
  BY <1>4, <1>5, LeasesChange, KeptByRows

\* A deadline passes or a delay ends.
LEMMA RowDueKeeps ==
    ASSUME Orderly(db), NEW i \in DOMAIN db.outbox, RowDue(i)
    PROVE  Orderly(db') /\ LeasesKept(db, db')
<1> DEFINE o == db.outbox[i]
           n == [o EXCEPT !.due = TRUE]
<1>1. RowFits(o) /\ db' = [db EXCEPT !.outbox[i] = n]
  BY DEF RowDue, Orderly, StoreFits
<1> HIDE DEF o
<1>2. /\ DOMAIN n = RowFields /\ n.status = o.status /\ n.used = o.used /\ n.foot = o.foot
      /\ n.kind = o.kind /\ n.turn = o.turn
  BY <1>1 DEF RowFits, RowFields
<1> HIDE DEF n
<1>3. Follows(o, n, FALSE)
  BY <1>1, <1>2 DEF Follows, RowFits
<1> QED
  BY <1>1, <1>3, OneRowKeeps, KeptByLeases DEF o

-----------------------------------------------------------------------------
(* What refers to what                                                     *)

IsPartOf(st, i, p) ==
    /\ i \in DOMAIN st.outbox /\ st.outbox[i].kind = "part"
    /\ st.outbox[i].turn = p.turn /\ st.outbox[i].rev = p.rev

\* Plans are numbered from 1; the jobs of a plan have rows of their own, and a plan
\* made with a ref has its root.
Linked(st) ==
    /\ \E n \in Nat : DOMAIN st.plans \subseteq 1 .. n
    /\ \A q \in DOMAIN st.plans :
          /\ \A i \in JobRows(st.plans[q]) : IsPartOf(st, i, st.plans[q])
          /\ st.plans[q].sourced => RootsOf(st, st.plans[q].turn, st.plans[q].rev) # {}
    /\ \A q, x \in DOMAIN st.plans :
          q # x => JobRows(st.plans[q]) \cap JobRows(st.plans[x]) = {}

\* Rows and plans have the text of their revision.
Readable(st, S) ==
    /\ \A i \in DOMAIN st.outbox : <<st.outbox[i].turn, st.outbox[i].rev>> \in S
    /\ \A q \in DOMAIN st.plans : <<st.plans[q].turn, st.plans[q].rev>> \in S

Shaped(st) ==
    /\ DOMAIN st = {"outbox", "leases", "plans"}
    /\ \A i \in DOMAIN st.outbox : DOMAIN st.outbox[i] = RowFields
    /\ \A q \in DOMAIN st.plans : DOMAIN st.plans[q] = PlanFields

\* A store in order has rows and plans with all their fields.
LEMMA OrderlyIsShaped ==
    ASSUME NEW st, Orderly(st)
    PROVE  Shaped(st)
BY DEF Orderly, StoreFits, RowFits, PlanFits, Shaped

RowStays(o, n) ==
    /\ DOMAIN n = RowFields /\ n.turn = o.turn /\ n.rev = o.rev
    /\ n.kind = "part" <=> o.kind = "part"
PlanStays(p, n) ==
    /\ DOMAIN n = PlanFields /\ n.turn = p.turn /\ n.rev = p.rev /\ n.ver = p.ver /\ n.gen = p.gen
    /\ n.sourced = p.sourced /\ n.recovers = p.recovers /\ n.recovered = p.recovered
    /\ n.jobs = p.jobs

\* The rows and plans are the same ones, whatever has become of them.
Alike(a, b) ==
    /\ DOMAIN b = {"outbox", "leases", "plans"}
    /\ DOMAIN b.outbox = DOMAIN a.outbox /\ DOMAIN b.plans = DOMAIN a.plans
    /\ \A i \in DOMAIN a.outbox : RowStays(a.outbox[i], b.outbox[i])
    /\ \A q \in DOMAIN a.plans : PlanStays(a.plans[q], b.plans[q])

\* Then the new store is shaped like the old one.
LEMMA AlikeIsShaped ==
    ASSUME NEW a, NEW b, Alike(a, b)
    PROVE  Shaped(b)
BY DEF Alike, Shaped, RowStays, PlanStays

\* A store is like itself.
LEMMA AlikeSelf ==
    ASSUME NEW a, Shaped(a)
    PROVE  Alike(a, a)
BY DEF Alike, Shaped, RowStays, PlanStays

\* Two steps of this kind are one.
LEMMA AlikeTwice ==
    ASSUME NEW a, NEW b, NEW c, Alike(a, b), Alike(b, c)
    PROVE  Alike(a, c)
BY DEF Alike, RowStays, PlanStays

\* What refers to what is the same.
LEMMA AlikeLinks ==
    ASSUME NEW a, NEW b, Alike(a, b), Linked(a)
    PROVE  Linked(b)
<1>1. \A q \in DOMAIN a.plans : JobRows(b.plans[q]) = JobRows(a.plans[q])
  BY DEF Alike, PlanStays, JobRows
<1>2. \A q \in DOMAIN a.plans :
         RootsOf(b, b.plans[q].turn, b.plans[q].rev) = RootsOf(a, a.plans[q].turn, a.plans[q].rev)
  BY DEF Alike, PlanStays, RowStays, RootsOf
<1>3. \A q \in DOMAIN a.plans : \A i : IsPartOf(a, i, a.plans[q]) => IsPartOf(b, i, b.plans[q])
  BY DEF Alike, PlanStays, RowStays, IsPartOf
<1>4. DOMAIN b.plans = DOMAIN a.plans /\ \A q \in DOMAIN a.plans : b.plans[q].sourced = a.plans[q].sourced
  BY DEF Alike, PlanStays
<1> QED
  BY <1>1, <1>2, <1>3, <1>4 DEF Linked

\* So are the texts that are needed.
LEMMA AlikeReads ==
    ASSUME NEW a, NEW b, Alike(a, b), NEW S, Readable(a, S)
    PROVE  Readable(b, S)
BY DEF Alike, PlanStays, RowStays, Readable

\* Rows change.
LEMMA RowsAlike ==
    ASSUME NEW a, Shaped(a), NEW b, DOMAIN b = {"outbox", "leases", "plans"},
           b.plans = a.plans, DOMAIN b.outbox = DOMAIN a.outbox,
           \A i \in DOMAIN a.outbox :
               b.outbox[i] = a.outbox[i] \/ RowStays(a.outbox[i], b.outbox[i])
    PROVE  Alike(a, b)
BY DEF Alike, Shaped, RowStays, PlanStays

\* Plans change.
LEMMA PlansAlike ==
    ASSUME NEW a, Shaped(a), NEW b, DOMAIN b = {"outbox", "leases", "plans"},
           b.outbox = a.outbox, DOMAIN b.plans = DOMAIN a.plans,
           \A q \in DOMAIN a.plans :
               b.plans[q] = a.plans[q] \/ PlanStays(a.plans[q], b.plans[q])
    PROVE  Alike(a, b)
BY DEF Alike, Shaped, RowStays, PlanStays

\* SetPlanState changes no more than states.
LEMMA SetPlanStateAlike ==
    ASSUME NEW st, Shaped(st), NEW Q, NEW s
    PROVE  Alike(st, SetPlanState(st, Q, s))
<1> DEFINE e == SetPlanState(st, Q, s)
<1>1. /\ DOMAIN e = {"outbox", "leases", "plans"} /\ e.outbox = st.outbox
      /\ DOMAIN e.plans = DOMAIN st.plans
      /\ \A q \in DOMAIN st.plans :
            e.plans[q] = IF q \in Q THEN [st.plans[q] EXCEPT !.state = s] ELSE st.plans[q]
  BY DEF SetPlanState, Shaped
<1> HIDE DEF e
<1>3. ASSUME NEW q \in DOMAIN st.plans
      PROVE  e.plans[q] = st.plans[q] \/ PlanStays(st.plans[q], e.plans[q])
  <2> DEFINE r == st.plans[q]
             n == [r EXCEPT !.state = s]
  <2>1. DOMAIN r = PlanFields /\ (e.plans[q] = n \/ e.plans[q] = r)
    BY <1>1 DEF Shaped
  <2> HIDE DEF r
  <2>2. PlanStays(r, n)
    BY <2>1 DEF PlanStays, PlanFields
  <2> HIDE DEF n
  <2> QED
    BY <2>1, <2>2 DEF r
<1>4. Alike(st, e)
  BY <1>1, <1>3, PlansAlike
<1> QED
  BY <1>4 DEF e

\* A waiting plan that is activated is the same plan.
LEMMA ActivateWaitingAlike ==
    ASSUME NEW st, Shaped(st)
    PROVE  Alike(st, ActivateWaiting(st))
<1> DEFINE free(q) == \A o \in DOMAIN st.plans \ {q} :
                         st.plans[o].turn = st.plans[q].turn =>
                             \A k \in DOMAIN st.plans[o].jobs :
                                 StatusOf(st, st.plans[o], k) # "leased"
           e == ActivateWaiting(st)
<1>1. e = [st EXCEPT !.plans = [q \in DOMAIN @ |->
              IF @[q].state = "waiting_predecessor" /\ free(q)
              THEN [@[q] EXCEPT !.state = "active", !.activated = TRUE] ELSE @[q]]]
  BY DEF ActivateWaiting
<1> HIDE DEF e, free
<1>2. /\ DOMAIN e = {"outbox", "leases", "plans"} /\ e.outbox = st.outbox
      /\ DOMAIN e.plans = DOMAIN st.plans
      /\ \A q \in DOMAIN st.plans :
            \/ e.plans[q] = st.plans[q]
            \/ e.plans[q] = [st.plans[q] EXCEPT !.state = "active", !.activated = TRUE]
  BY <1>1 DEF Shaped
<1>4. ASSUME NEW q \in DOMAIN st.plans
      PROVE  e.plans[q] = st.plans[q] \/ PlanStays(st.plans[q], e.plans[q])
  <2> DEFINE r == st.plans[q]
             n == [r EXCEPT !.state = "active", !.activated = TRUE]
  <2>1. DOMAIN r = PlanFields /\ (e.plans[q] = n \/ e.plans[q] = r)
    BY <1>2 DEF Shaped
  <2> HIDE DEF r
  <2>2. PlanStays(r, n)
    BY <2>1 DEF PlanStays, PlanFields
  <2> HIDE DEF n
  <2> QED
    BY <2>1, <2>2 DEF r
<1>5. Alike(st, e)
  BY <1>2, <1>4, PlansAlike
<1> QED
  BY <1>5 DEF e

\* Closing rows changes their status.
LEMMA CloseAlike ==
    ASSUME NEW st, Shaped(st), NEW I, NEW s
    PROVE  Alike(st, Close(st, I, s))
<1> DEFINE e == Close(st, I, s)
<1>1. /\ DOMAIN e = {"outbox", "leases", "plans"} /\ e.plans = st.plans
      /\ DOMAIN e.outbox = DOMAIN st.outbox
      /\ \A i \in DOMAIN st.outbox :
            e.outbox[i] = IF i \in I THEN [st.outbox[i] EXCEPT !.status = s, !.due = FALSE] ELSE st.outbox[i]
  BY DEF Close, Shaped
<1> HIDE DEF e
<1>3. ASSUME NEW i \in DOMAIN st.outbox
      PROVE  e.outbox[i] = st.outbox[i] \/ RowStays(st.outbox[i], e.outbox[i])
  <2> DEFINE r == st.outbox[i]
             n == [r EXCEPT !.status = s, !.due = FALSE]
  <2>1. DOMAIN r = RowFields /\ (e.outbox[i] = n \/ e.outbox[i] = r)
    BY <1>1 DEF Shaped
  <2> HIDE DEF r
  <2>2. RowStays(r, n)
    BY <2>1 DEF RowStays, RowFields
  <2> HIDE DEF n
  <2> QED
    BY <2>1, <2>2 DEF r
<1>4. Alike(st, e)
  BY <1>1, <1>3, RowsAlike
<1> QED
  BY <1>4 DEF e

\* So does the acknowledgement of a part.
LEMMA PartDeliveredAlike ==
    ASSUME NEW st, Shaped(st), NEW q
    PROVE  Alike(st, PartDelivered(st, q))
<1> DEFINE p    == st.plans[q]
           src  == {i \in RootsOf(st, p.turn, p.rev) :
                       p.sourced /\ st.outbox[i].status = "awaiting_ack"}
           done == AllDelivered(st, p)
           s    == IF done THEN "delivered" ELSE "awaiting_ack"
           s1   == [st EXCEPT !.outbox = [i \in DOMAIN @ |->
                       IF i \in src THEN [@[i] EXCEPT !.due = FALSE, !.status = s] ELSE @[i]]]
           s2   == [s1 EXCEPT !.plans[q] = [@ EXCEPT !.state = "completed", !.completed = TRUE]]
<1>1. PartDelivered(st, q) = IF done THEN s2 ELSE s1
  BY DEF PartDelivered
<1> HIDE DEF src, done, s
<1>2. /\ DOMAIN s1 = {"outbox", "leases", "plans"} /\ s1.plans = st.plans
      /\ DOMAIN s1.outbox = DOMAIN st.outbox
      /\ \A i \in DOMAIN st.outbox :
            s1.outbox[i] = IF i \in src THEN [st.outbox[i] EXCEPT !.due = FALSE, !.status = s]
                           ELSE st.outbox[i]
  BY DEF Shaped
<1> HIDE DEF s1
<1>4. ASSUME NEW i \in DOMAIN st.outbox
      PROVE  s1.outbox[i] = st.outbox[i] \/ RowStays(st.outbox[i], s1.outbox[i])
  <2> DEFINE r == st.outbox[i]
             n == [r EXCEPT !.due = FALSE, !.status = s]
  <2>1. DOMAIN r = RowFields /\ (s1.outbox[i] = n \/ s1.outbox[i] = r)
    BY <1>2 DEF Shaped
  <2> HIDE DEF r
  <2>2. RowStays(r, n)
    BY <2>1 DEF RowStays, RowFields
  <2> HIDE DEF n
  <2> QED
    BY <2>1, <2>2 DEF r
<1>5. Alike(st, s1)
  BY <1>2, <1>4, RowsAlike
<1>6. /\ DOMAIN s2 = {"outbox", "leases", "plans"} /\ s2.outbox = s1.outbox
      /\ DOMAIN s2.plans = DOMAIN s1.plans
      /\ \A x \in DOMAIN s1.plans :
            s2.plans[x] = IF x = q THEN [s1.plans[x] EXCEPT !.state = "completed", !.completed = TRUE]
                          ELSE s1.plans[x]
  BY <1>2
<1> HIDE DEF s2
<1>8. ASSUME NEW x \in DOMAIN s1.plans
      PROVE  s2.plans[x] = s1.plans[x] \/ PlanStays(s1.plans[x], s2.plans[x])
  <2> DEFINE r == s1.plans[x]
             n == [r EXCEPT !.state = "completed", !.completed = TRUE]
  <2>1. DOMAIN r = PlanFields /\ (s2.plans[x] = n \/ s2.plans[x] = r)
    BY <1>2, <1>6 DEF Shaped
  <2> HIDE DEF r
  <2>2. PlanStays(r, n)
    BY <2>1 DEF PlanStays, PlanFields
  <2> HIDE DEF n
  <2> QED
    BY <2>1, <2>2 DEF r
<1>9. Alike(s1, s2)
  BY <1>5, <1>6, <1>8, AlikeIsShaped, PlansAlike
<1> QED
  BY <1>1, <1>5, <1>9, AlikeTwice

\* So does what follows the end of an attempt.
LEMMA FinishAlike ==
    ASSUME NEW st, Shaped(st), NEW i, NEW s
    PROVE  Alike(st, Finish(st, i, s))
<1> DEFINE a == Close(st, {i}, s)
           q == CHOOSE q \in PlansOf(a, i) : TRUE
           state == a.plans[q].state
           e == IF s = "dead_letter" /\ state \in {"active", "waiting_predecessor"}
                THEN SetPlanState(a, {q}, "failed")
                ELSE IF s = "delivered" /\ state = "active" THEN PartDelivered(a, q)
                ELSE a
<1>1. Finish(st, i, s) = IF PlansOf(a, i) = {} THEN a ELSE ActivateWaiting(e)
  BY DEF Finish, AfterOutbox
<1>2. Alike(st, a) /\ Shaped(a)
  BY CloseAlike, AlikeIsShaped
<1> HIDE DEF a, q, state
<1>3. Alike(a, e)
  BY <1>2, AlikeSelf, SetPlanStateAlike, PartDeliveredAlike
<1> HIDE DEF e
<1>4. Alike(a, ActivateWaiting(e))
  BY <1>3, AlikeIsShaped, ActivateWaitingAlike, AlikeTwice
<1> QED
  BY <1>1, <1>2, <1>4, AlikeTwice

\* Expired leases return their rows.
LEMMA ReclaimLeasesAlike ==
    ASSUME NEW st, Shaped(st)
    PROVE  Alike(st, ReclaimLeases(st))
<1> DEFINE I  == ExpiredRows(st)
           s1 == [st EXCEPT !.leases = {l \in @ : ~l.due},
                            !.outbox = [i \in DOMAIN @ |->
                                IF i \in I THEN Returned(@[i]) ELSE @[i]]]
<1>1. ReclaimLeases(st) = IF \E i \in I : PlansOf(s1, i) # {} THEN ActivateWaiting(s1) ELSE s1
  BY DEF ReclaimLeases
<1> HIDE DEF I
<1>2. /\ DOMAIN s1 = {"outbox", "leases", "plans"} /\ s1.plans = st.plans
      /\ DOMAIN s1.outbox = DOMAIN st.outbox
      /\ \A i \in DOMAIN st.outbox : s1.outbox[i] = st.outbox[i] \/ s1.outbox[i] = Returned(st.outbox[i])
  BY DEF Shaped
<1> HIDE DEF s1
<1>3. ASSUME NEW i \in DOMAIN st.outbox
      PROVE  s1.outbox[i] = st.outbox[i] \/ RowStays(st.outbox[i], s1.outbox[i])
  <2> DEFINE o == st.outbox[i]
  <2>1. DOMAIN o = RowFields /\ (s1.outbox[i] = o \/ s1.outbox[i] = Returned(o))
    BY <1>2 DEF Shaped
  <2> HIDE DEF o
  <2>2. RowStays(o, Returned(o))
    BY <2>1 DEF RowStays, RowFields, Returned
  <2> QED
    BY <2>1, <2>2 DEF o
<1>4. Alike(st, s1)
  BY <1>2, <1>3, RowsAlike
<1> QED
  BY <1>1, <1>4, AlikeIsShaped, ActivateWaitingAlike, AlikeTwice

\* An acknowledgement deadline fails plans and schedules roots again.
LEMMA ReclaimAwaitingAlike ==
    ASSUME NEW st, Shaped(st)
    PROVE  Alike(st, ReclaimAwaiting(st))
<1> DEFINE expired == {i \in DOMAIN st.outbox : st.outbox[i].status = "awaiting_ack" /\ st.outbox[i].due}
           done    == {i \in expired : LatestState(st, i) = "completed"}
           begun   == {i \in expired : LatestState(st, i) \in {"active", "waiting_predecessor", "failed"}}
           again   == {i \in begun : ~HasLiveJobLease(st, LatestPlan(st, i))}
           lost    == expired \ (done \cup begun)
           failed  == {LatestPlan(st, i) : i \in again}
           open    == OpenRows(st, failed)
           s0      == SetPlanState(st, failed, "failed")
           sd      == Close(s0, done, "delivered")
           s1      == Close(sd, lost \cup open, "dead_letter")
           g(i)    == st.plans[LatestPlan(st, i)].gen
           s2      == [s1 EXCEPT !.outbox = [i \in DOMAIN @ |-> IF i \in again THEN Replanned(@[i], g(i)) ELSE @[i]]]
<1>1. ReclaimAwaiting(st) = IF again \cup lost # {} THEN ActivateWaiting(s2) ELSE s2
  BY DEF ReclaimAwaiting
<1> HIDE DEF again, lost, done, failed, open, g
<1>2. Alike(st, s0) /\ Shaped(s0)
  BY SetPlanStateAlike, AlikeIsShaped
<1> HIDE DEF s0
<1>3. Alike(st, sd) /\ Shaped(sd)
  BY <1>2, CloseAlike, AlikeIsShaped, AlikeTwice
<1> HIDE DEF sd
<1>4. Alike(st, s1) /\ Shaped(s1)
  BY <1>3, CloseAlike, AlikeIsShaped, AlikeTwice
<1> HIDE DEF s1
<1>5. /\ DOMAIN s2 = {"outbox", "leases", "plans"} /\ s2.plans = s1.plans
      /\ DOMAIN s2.outbox = DOMAIN s1.outbox
      /\ \A i \in DOMAIN s1.outbox : s2.outbox[i] = s1.outbox[i] \/ s2.outbox[i] = Replanned(s1.outbox[i], g(i))
  BY <1>4 DEF Shaped
<1> HIDE DEF s2
<1>6. ASSUME NEW i \in DOMAIN s1.outbox
      PROVE  s2.outbox[i] = s1.outbox[i] \/ RowStays(s1.outbox[i], s2.outbox[i])
  <2> DEFINE o == s1.outbox[i]
             n == Replanned(o, g(i))
  <2>1. DOMAIN o = RowFields /\ (s2.outbox[i] = o \/ s2.outbox[i] = n)
    BY <1>4, <1>5 DEF Shaped
  <2> HIDE DEF o
  <2>2. RowStays(o, n)
    BY <2>1 DEF RowStays, RowFields, Replanned
  <2> HIDE DEF n
  <2> QED
    BY <2>1, <2>2 DEF o
<1>7. Alike(st, s2)
  BY <1>4, <1>5, <1>6, RowsAlike, AlikeTwice
<1> QED
  BY <1>1, <1>7, AlikeIsShaped, ActivateWaitingAlike, AlikeTwice

\* Both
LEMMA ReclaimedAlike ==
    ASSUME NEW st, Shaped(st)
    PROVE  Alike(st, Reclaimed(st))
BY ReclaimLeasesAlike, ReclaimAwaitingAlike, AlikeIsShaped, AlikeTwice DEF Reclaimed

\* Spent rows are closed.
LEMMA ExhaustedAlike ==
    ASSUME NEW st, Shaped(st)
    PROVE  Alike(st, Exhausted(st))
<1>1. ASSUME NEW I, NEW Q
      PROVE  Alike(st, SetPlanState(Close(st, I, "dead_letter"), Q, "failed"))
  BY CloseAlike, SetPlanStateAlike, AlikeIsShaped, AlikeTwice
<1> QED
  BY <1>1 DEF Exhausted

\* One row is edited.
LEMMA OneRowAlike ==
    ASSUME NEW st, Shaped(st), NEW i \in DOMAIN st.outbox, NEW n, RowStays(st.outbox[i], n),
           NEW e, DOMAIN e = {"outbox", "leases", "plans"}, e.plans = st.plans,
           e.outbox = [st.outbox EXCEPT ![i] = n]
    PROVE  Alike(st, e)
<1>1. DOMAIN e.outbox = DOMAIN st.outbox
      /\ \A x \in DOMAIN st.outbox : e.outbox[x] = IF x = i THEN n ELSE st.outbox[x]
  OBVIOUS
<1> QED
  BY <1>1, RowsAlike

\* A row is leased.
LEMMA LeaseRowAlike ==
    ASSUME NEW st, Shaped(st), NEW i \in DOMAIN st.outbox, NEW c
    PROVE  Alike(st, LeaseRow(st, i, c))
<1> DEFINE o == st.outbox[i]
           n == Attempted(o)
           e == LeaseRow(st, i, c)
<1>1. /\ DOMAIN e = {"outbox", "leases", "plans"} /\ e.plans = st.plans
      /\ e.outbox = [st.outbox EXCEPT ![i] = n] /\ DOMAIN o = RowFields
  BY DEF LeaseRow, Shaped
<1> HIDE DEF e, o
<1>2. RowStays(o, n)
  BY <1>1 DEF RowStays, RowFields, Attempted
<1> HIDE DEF n
<1>3. Alike(st, e)
  BY <1>1, <1>2, OneRowAlike DEF o
<1> QED
  BY <1>3 DEF e

\* The parts of other plans are closed or doomed.
LEMMA MarkObsoleteAlike ==
    ASSUME NEW st, Shaped(st), NEW q
    PROVE  Alike(st, MarkObsolete(st, q))
<1> DEFINE s0 == SetPlanState(st, Obsolete(st, q), "superseded")
           s1 == Close(s0, ObsoleteRows(st, q, Waiting), "superseded")
           L  == ObsoleteRows(st, q, {"leased"})
           e  == [s1 EXCEPT !.outbox = [i \in DOMAIN @ |->
                     IF i \in L THEN [@[i] EXCEPT !.doomed = TRUE] ELSE @[i]]]
<1>1. MarkObsolete(st, q) = e
  BY DEF MarkObsolete
<1> HIDE DEF L
<1>2. Alike(st, s0) /\ Shaped(s0)
  BY SetPlanStateAlike, AlikeIsShaped
<1> HIDE DEF s0
<1>3. Alike(st, s1) /\ Shaped(s1)
  BY <1>2, CloseAlike, AlikeIsShaped, AlikeTwice
<1> HIDE DEF s1
<1>4. /\ DOMAIN e = {"outbox", "leases", "plans"} /\ e.plans = s1.plans
      /\ DOMAIN e.outbox = DOMAIN s1.outbox
      /\ \A i \in DOMAIN s1.outbox :
            e.outbox[i] = IF i \in L THEN [s1.outbox[i] EXCEPT !.doomed = TRUE] ELSE s1.outbox[i]
  BY <1>3 DEF Shaped
<1> HIDE DEF e
<1>5. ASSUME NEW i \in DOMAIN s1.outbox
      PROVE  e.outbox[i] = s1.outbox[i] \/ RowStays(s1.outbox[i], e.outbox[i])
  <2> DEFINE o == s1.outbox[i]
             n == [o EXCEPT !.doomed = TRUE]
  <2>1. DOMAIN o = RowFields /\ (e.outbox[i] = o \/ e.outbox[i] = n)
    BY <1>3, <1>4 DEF Shaped
  <2> HIDE DEF o
  <2>2. RowStays(o, n)
    BY <2>1 DEF RowStays, RowFields
  <2> HIDE DEF n
  <2> QED
    BY <2>1, <2>2 DEF o
<1>6. Alike(st, e)
  BY <1>3, <1>4, <1>5, RowsAlike, AlikeTwice
<1> QED
  BY <1>1, <1>6

\* Work on other revisions is superseded.
LEMMA SupersedeStaleAlike ==
    ASSUME NEW st, Shaped(st), NEW t, NEW r
    PROVE  Alike(st, SupersedeStale(st, t, r))
<1>1. ASSUME NEW Q, NEW I
      PROVE  Alike(st, Close(SetPlanState(st, Q, "superseded"), I, "superseded"))
  BY CloseAlike, SetPlanStateAlike, AlikeIsShaped, AlikeTwice
<1> QED
  BY <1>1 DEF SupersedeStale

-----------------------------------------------------------------------------
(* Rows and plans come and go                                              *)

\* The next plan has a number that no plan has.
LEMMA NextPlan ==
    ASSUME NEW st, Linked(st)
    PROVE  LET n == Highest(DOMAIN st.plans) + 1
           IN  n \in Nat \ {0} /\ n \notin DOMAIN st.plans /\ \E m \in Nat : DOMAIN st.plans \cup {n} \subseteq 1 .. m
<1>1. PICK m \in Nat : DOMAIN st.plans \subseteq 1 .. m
  BY DEF Linked
<1>2. DOMAIN st.plans \subseteq 0 .. m
  BY <1>1
<1> DEFINE h == Highest(DOMAIN st.plans)
<1>3. h \in 0 .. m /\ \A x \in DOMAIN st.plans : x <= h
  BY <1>2, HighestIs
<1> HIDE DEF h
<1>4. DOMAIN st.plans \cup {h + 1} \subseteq 1 .. (m + 1)
  BY <1>1, <1>3
<1>5. h + 1 \notin DOMAIN st.plans
  BY <1>1, <1>3
<1> QED
  BY <1>3, <1>4, <1>5 DEF h

\* A plan begins without jobs, with its root if it is made with a ref.
LEMMA WithPlanLinks ==
    ASSUME NEW st, Shaped(st), Linked(st), NEW S, Readable(st, S),
           NEW p, DOMAIN p = PlanFields, p.jobs = <<>>, <<p.turn, p.rev>> \in S,
           p.sourced => RootsOf(st, p.turn, p.rev) # {}
    PROVE  LET e == WithPlan(st, Highest(DOMAIN st.plans) + 1, p)
           IN  Linked(e) /\ Readable(e, S) /\ Shaped(e)
<1> DEFINE n == Highest(DOMAIN st.plans) + 1
           e == WithPlan(st, n, p)
<1>1. n \notin DOMAIN st.plans /\ \E m \in Nat : DOMAIN st.plans \cup {n} \subseteq 1 .. m
  BY NextPlan
<1> HIDE DEF n
<1>2. /\ DOMAIN e = {"outbox", "leases", "plans"} /\ e.outbox = st.outbox
      /\ DOMAIN e.plans = DOMAIN st.plans \cup {n} /\ e.plans[n] = p
      /\ \A x \in DOMAIN st.plans : e.plans[x] = st.plans[x]
  BY <1>1 DEF WithPlan, Shaped
<1> HIDE DEF e
<1>3. JobRows(p) = {}
  BY DEF JobRows
<1>4. \A t, r : RootsOf(e, t, r) = RootsOf(st, t, r)
  BY <1>2 DEF RootsOf
<1>5. \A i, x : IsPartOf(e, i, x) <=> IsPartOf(st, i, x)
  BY <1>2 DEF IsPartOf
<1>6. Linked(e)
  <2>1. ASSUME NEW x \in DOMAIN e.plans
        PROVE  /\ \A i \in JobRows(e.plans[x]) : IsPartOf(e, i, e.plans[x])
               /\ e.plans[x].sourced => RootsOf(e, e.plans[x].turn, e.plans[x].rev) # {}
    <3>1. CASE x = n
      BY <1>2, <1>3, <1>4, <3>1
    <3>2. CASE x # n
      <4>1. x \in DOMAIN st.plans /\ e.plans[x] = st.plans[x]
        BY <1>2, <3>2
      <4>2. /\ \A i \in JobRows(st.plans[x]) : IsPartOf(st, i, st.plans[x])
            /\ st.plans[x].sourced => RootsOf(st, st.plans[x].turn, st.plans[x].rev) # {}
        BY <4>1 DEF Linked
      <4> QED
        BY <1>4, <1>5, <4>1, <4>2
    <3> QED
      BY <3>1, <3>2
  <2>2. \A x, y \in DOMAIN e.plans : x # y => JobRows(e.plans[x]) \cap JobRows(e.plans[y]) = {}
    BY <1>2, <1>3 DEF Linked
  <2> QED
    BY <1>1, <1>2, <2>1, <2>2 DEF Linked
<1>7. Readable(e, S) /\ Shaped(e)
  BY <1>2 DEF Readable, Shaped
<1> QED
  BY <1>6, <1>7 DEF e, n

\* A root is added whose text is there.
LEMMA WithRootLinks ==
    ASSUME NEW st, Orderly(st), Linked(st), NEW S, Readable(st, S),
           NEW row, <<row.turn, row.rev>> \in S
    PROVE  LET e == WithRow(st, Highest(DOMAIN st.outbox) + 1, row)
           IN  Linked(e) /\ Readable(e, S)
<1> DEFINE i == Highest(DOMAIN st.outbox) + 1
           e == WithRow(st, i, row)
<1>1. i \notin DOMAIN st.outbox
  BY NextRow
<1> HIDE DEF i
<1>2. /\ e.plans = st.plans /\ DOMAIN e.outbox = DOMAIN st.outbox \cup {i} /\ e.outbox[i] = row
      /\ \A x \in DOMAIN st.outbox : e.outbox[x] = st.outbox[x]
  BY <1>1, OrderlyIsShaped DEF WithRow, Shaped
<1> HIDE DEF e
<1>3. \A t, r : RootsOf(st, t, r) \subseteq RootsOf(e, t, r)
  BY <1>2 DEF RootsOf
<1>4. \A x, p : IsPartOf(st, x, p) => IsPartOf(e, x, p)
  BY <1>2 DEF IsPartOf
<1>5. Linked(e)
  <2>1. \A q \in DOMAIN e.plans : /\ \A x \in JobRows(e.plans[q]) : IsPartOf(e, x, e.plans[q])
                                  /\ e.plans[q].sourced => RootsOf(e, e.plans[q].turn, e.plans[q].rev) # {}
    BY <1>2, <1>3, <1>4 DEF Linked
  <2> QED
    BY <1>2, <2>1 DEF Linked
<1>6. Readable(e, S)
  BY <1>2 DEF Readable
<1> QED
  BY <1>5, <1>6 DEF e, i

\* The rows of a plan that is committed come behind all others.
LEMMA MaterializeLinks ==
    ASSUME NEW st, Orderly(st), Linked(st), NEW S, Readable(st, S),
           NEW q \in DOMAIN st.plans, NEW ops, Steps(ops)
    PROVE  LET e == Materialize(st, q, ops)
           IN  /\ Linked(e) /\ Readable(e, S) /\ DOMAIN e.plans = DOMAIN st.plans
               /\ \A x \in DOMAIN st.plans \ {q} : e.plans[x] = st.plans[x]
<1> DEFINE base == Highest(DOMAIN st.outbox)
           new  == (base + 1) .. (base + Len(ops))
           p    == st.plans[q]
           row  == [kind |-> "part", turn |-> st.plans[q].turn, rev |-> st.plans[q].rev,
                    status |-> "queued", due |-> FALSE, used |-> 0, doomed |-> FALSE,
                    gen |-> 0, foot |-> 0, after |-> 0]
           jobs == [k \in DOMAIN ops |-> [op |-> ops[k].op, ord |-> ops[k].ord, row |-> base + k]]
           e    == Materialize(st, q, ops)
<1>1. base \in Nat /\ Len(ops) \in Nat /\ DOMAIN ops = 1 .. Len(ops)
  BY NextRow DEF Steps
<1>2. \A i \in DOMAIN st.outbox : i \in Nat \ {0} /\ i <= base
  BY NextRow
<1>3. DOMAIN st = {"outbox", "leases", "plans"} /\ DOMAIN p = PlanFields
  BY OrderlyIsShaped DEF Shaped
<1>4. row.kind = "part" /\ row.turn = p.turn /\ row.rev = p.rev
  OBVIOUS
<1>5. e = [st EXCEPT !.outbox = [i \in DOMAIN @ \cup new |-> IF i \in new THEN row ELSE @[i]],
                     !.plans[q].jobs = jobs]
  BY DEF Materialize
<1> HIDE DEF base
<1>6. \A k \in DOMAIN jobs : jobs[k].row \in new
  BY <1>1
<1>7. new \cap DOMAIN st.outbox = {}
  BY <1>1, <1>2
<1> HIDE DEF new, row, jobs, e
<1>8. /\ DOMAIN e.outbox = DOMAIN st.outbox \cup new
      /\ \A i \in new : e.outbox[i] = row
      /\ \A i \in DOMAIN st.outbox : e.outbox[i] = st.outbox[i]
      /\ DOMAIN e.plans = DOMAIN st.plans
      /\ \A x \in DOMAIN st.plans \ {q} : e.plans[x] = st.plans[x]
      /\ e.plans[q] = [p EXCEPT !.jobs = jobs]
  BY <1>3, <1>5, <1>7
<1> HIDE DEF p
<1> DEFINE n == [p EXCEPT !.jobs = jobs]
<1>9. n.turn = p.turn /\ n.rev = p.rev /\ n.sourced = p.sourced /\ n.jobs = jobs
  BY <1>3 DEF PlanFields
<1> HIDE DEF n
<1>10. JobRows(n) \subseteq new
  BY <1>6, <1>9 DEF JobRows
<1>11. \A t, r : RootsOf(st, t, r) \subseteq RootsOf(e, t, r)
  BY <1>8 DEF RootsOf
<1>12. \A i, x : IsPartOf(st, i, x) => IsPartOf(e, i, x)
  BY <1>8 DEF IsPartOf
<1>13. \A i \in new : IsPartOf(e, i, n)
  BY <1>4, <1>8, <1>9 DEF IsPartOf, p
<1>14. \A x \in DOMAIN st.plans : JobRows(st.plans[x]) \subseteq DOMAIN st.outbox
  BY DEF Linked, IsPartOf
<1>15. e.plans[q] = n
  BY <1>8 DEF n
<1>16. ASSUME NEW x \in DOMAIN e.plans
      PROVE  /\ \A i \in JobRows(e.plans[x]) : IsPartOf(e, i, e.plans[x])
             /\ e.plans[x].sourced => RootsOf(e, e.plans[x].turn, e.plans[x].rev) # {}
  <2>1. CASE x = q
    <3>1. p.sourced => RootsOf(st, p.turn, p.rev) # {}
      BY DEF Linked, p
    <3> QED
      BY <1>9, <1>10, <1>11, <1>13, <1>15, <2>1, <3>1
  <2>2. CASE x # q
    BY <1>8, <1>11, <1>12, <2>2 DEF Linked
  <2> QED
    BY <2>1, <2>2
<1>17. ASSUME NEW x \in DOMAIN e.plans, NEW y \in DOMAIN e.plans, x # y
      PROVE  JobRows(e.plans[x]) \cap JobRows(e.plans[y]) = {}
  <2>1. CASE x # q /\ y # q
    BY <1>8, <1>17, <2>1 DEF Linked
  <2>2. CASE x = q
    BY <1>7, <1>8, <1>10, <1>14, <1>15, <1>17, <2>2
  <2>3. CASE y = q
    BY <1>7, <1>8, <1>10, <1>14, <1>15, <1>17, <2>3
  <2> QED
    BY <2>1, <2>2, <2>3
<1>18. Linked(e)
  BY <1>8, <1>16, <1>17 DEF Linked
<1>19. Readable(e, S)
  <2>1. <<p.turn, p.rev>> \in S
    BY DEF Readable, p
  <2>2. \A i \in DOMAIN e.outbox : <<e.outbox[i].turn, e.outbox[i].rev>> \in S
    BY <1>4, <1>8, <2>1 DEF Readable, p
  <2>3. \A x \in DOMAIN e.plans : <<e.plans[x].turn, e.plans[x].rev>> \in S
    BY <1>8, <1>9, <1>15, <2>1 DEF Readable
  <2> QED
    BY <2>2, <2>3 DEF Readable
<1> QED
  BY <1>8, <1>18, <1>19 DEF e

\* A committed plan and the others, which it replaces, are the same plans.
LEMMA ActivateLinks ==
    ASSUME NEW st, Orderly(st), Linked(st), NEW S, Readable(st, S),
           NEW q \in DOMAIN st.plans, st.plans[q].state = "preparing"
    PROVE  LET e == Activate(st, q)
           IN  Linked(e) /\ Readable(e, S) /\ Shaped(e)
<1> DEFINE ops   == Operations(st.plans[q].parts, PriorParts(st, q))
           s0    == Materialize(st, q, ops)
           s1    == MarkObsolete(s0, q)
           waits == ObsoleteRows(st, q, {"leased"}) # {}
           s     == IF waits THEN "waiting_predecessor" ELSE "active"
           e     == [s1 EXCEPT !.plans[q] = [@ EXCEPT !.state = s, !.activated = ~waits]]
<1>1. Activate(st, q) = e
  BY DEF Activate
<1>2. Steps(ops)
  <2>1. st.plans[q].parts \in 1 .. MaxParts
    BY DEF Orderly, StoreFits, PlanFits
  <2> QED
    BY <2>1, PriorPartsIs, OperationsFit
<1> HIDE DEF ops, waits, s
<1>3. /\ Linked(s0) /\ Readable(s0, S) /\ Shaped(s0)
      /\ q \in DOMAIN s0.plans
  BY <1>2, MaterializeIs, MaterializeLinks, OrderlyIsShaped
<1> HIDE DEF s0
<1>4. Alike(s0, s1) /\ Shaped(s1)
  BY <1>3, MarkObsoleteAlike, AlikeIsShaped
<1> HIDE DEF s1
<1>5. /\ DOMAIN e = {"outbox", "leases", "plans"} /\ e.outbox = s1.outbox
      /\ DOMAIN e.plans = DOMAIN s1.plans
      /\ \A x \in DOMAIN s1.plans :
            e.plans[x] = IF x = q THEN [s1.plans[x] EXCEPT !.state = s, !.activated = ~waits]
                         ELSE s1.plans[x]
  BY <1>4 DEF Shaped
<1> HIDE DEF e
<1>6. ASSUME NEW x \in DOMAIN s1.plans
      PROVE  e.plans[x] = s1.plans[x] \/ PlanStays(s1.plans[x], e.plans[x])
  <2> DEFINE p == s1.plans[x]
             n == [p EXCEPT !.state = s, !.activated = ~waits]
  <2>1. DOMAIN p = PlanFields /\ (e.plans[x] = p \/ e.plans[x] = n)
    BY <1>4, <1>5 DEF Shaped
  <2> HIDE DEF p
  <2>2. PlanStays(p, n)
    BY <2>1 DEF PlanStays, PlanFields
  <2> HIDE DEF n
  <2> QED
    BY <2>1, <2>2 DEF p
<1>7. Alike(s0, e)
  BY <1>4, <1>5, <1>6, PlansAlike, AlikeTwice
<1> QED
  BY <1>1, <1>3, <1>7, AlikeLinks, AlikeReads, AlikeIsShaped

\* b is what is left of a.
Remains(a, b) ==
    /\ DOMAIN b.outbox \subseteq DOMAIN a.outbox
    /\ \A i \in DOMAIN b.outbox : b.outbox[i] = a.outbox[i]
    /\ DOMAIN b.plans \subseteq DOMAIN a.plans
    /\ \A q \in DOMAIN b.plans :
          /\ b.plans[q].turn = a.plans[q].turn /\ b.plans[q].rev = a.plans[q].rev
          /\ JobRows(b.plans[q]) \subseteq JobRows(a.plans[q])

\* Rows and plans may go when no plan that stays refers to them.
LEMMA RemainsLinks ==
    ASSUME NEW a, Linked(a), NEW S, Readable(a, S), NEW b, Remains(a, b),
           \A q \in DOMAIN b.plans :
               /\ JobRows(b.plans[q]) \subseteq DOMAIN b.outbox
               /\ b.plans[q].sourced => RootsOf(b, b.plans[q].turn, b.plans[q].rev) # {}
    PROVE  Linked(b) /\ Readable(b, S)
<1>1. Linked(b)
  <2>1. \E n \in Nat : DOMAIN b.plans \subseteq 1 .. n
    BY DEF Linked, Remains
  <2>2. \A q \in DOMAIN b.plans : \A i \in JobRows(b.plans[q]) : IsPartOf(b, i, b.plans[q])
    BY DEF Linked, Remains, IsPartOf
  <2>3. \A q, x \in DOMAIN b.plans :
           q # x => JobRows(b.plans[q]) \cap JobRows(b.plans[x]) = {}
    BY DEF Linked, Remains
  <2> QED
    BY <2>1, <2>2, <2>3 DEF Linked
<1>2. Readable(b, S)
  BY DEF Readable, Remains
<1> QED
  BY <1>1, <1>2

\* Roots are not among the rows of plans.
LEMMA RootsStay ==
    ASSUME NEW a, NEW b, DOMAIN b.outbox \subseteq DOMAIN a.outbox,
           \A i \in DOMAIN b.outbox : b.outbox[i] = a.outbox[i],
           \A i \in DOMAIN a.outbox \ DOMAIN b.outbox : a.outbox[i].kind = "part"
    PROVE  \A t, r : RootsOf(b, t, r) = RootsOf(a, t, r)
BY DEF RootsOf

\* The plan q can be recovered.
Failing(st, q) ==
    /\ Shaped(st) /\ Linked(st) /\ q \in DOMAIN st.plans
    /\ st.plans[q].jobs \in Seq(Jobs) /\ Suffix(st, st.plans[q]) # {}

\* e is what is left of st when q is recovered: the rows that were queued again are
\* deleted, and superseded plans that no recovery names.
Recovered(st, q, e) ==
    LET p == st.plans[q]
        n == e.plans[q]
    IN  /\ DOMAIN e.outbox \subseteq DOMAIN st.outbox
        /\ DOMAIN st.outbox \ DOMAIN e.outbox \subseteq JobRows(p)
        /\ \A i \in DOMAIN e.outbox : e.outbox[i] = st.outbox[i]
        /\ \A t, r : RootsOf(e, t, r) = RootsOf(st, t, r)
        /\ q \in DOMAIN e.plans /\ DOMAIN e.plans \subseteq DOMAIN st.plans
        /\ \A x \in DOMAIN st.plans \ DOMAIN e.plans :
              LET o == st.plans[x]
              IN  /\ o.turn = p.turn /\ o.rev = p.rev /\ o.ver = p.ver
                  /\ o.state = "superseded" /\ ~o.recovers /\ ~o.recovered
        /\ \A x \in DOMAIN e.plans \ {q} : e.plans[x] = st.plans[x]
        /\ n.turn = p.turn /\ n.rev = p.rev /\ n.ver = p.ver /\ n.gen = p.gen
        /\ n.sourced = p.sourced /\ n.recovers = p.recovers
        /\ n.recovered = TRUE /\ n.state = "superseded"
        /\ JobRows(n) \subseteq JobRows(p)
        /\ \A x \in DOMAIN e.plans : JobRows(e.plans[x]) \subseteq DOMAIN e.outbox

\* _finalize_recovered_plan_materialization_conn
LEMMA FinalizeRecoveryIs ==
    ASSUME NEW st, NEW q, Failing(st, q)
    PROVE  Recovered(st, q, FinalizeRecovery(st, q))
<1> DEFINE p    == st.plans[q]
           done == SubSeq(p.jobs, 1, Min(Suffix(st, p)) - 1)
           gone == JobRows(p) \ {done[k].row : k \in DOMAIN done}
           s1   == [st EXCEPT !.plans[q] =
                       [@ EXCEPT !.state = "superseded", !.recovered = TRUE, !.jobs = done]]
           old  == {x \in PlansFor(s1, p.turn, p.rev) :
                       /\ s1.plans[x].ver = p.ver /\ s1.plans[x].state = "superseded"
                       /\ ~s1.plans[x].recovers /\ ~s1.plans[x].recovered}
           s2   == [s1 EXCEPT !.plans = [x \in DOMAIN @ \ old |-> @[x]]]
           e    == DeleteRows(s2, gone)
<1> USE DEF Failing
<1>1. FinalizeRecovery(st, q) = e
  BY DEF FinalizeRecovery
<1>2. {done[k].row : k \in DOMAIN done} \subseteq JobRows(p)
  <2> DEFINE js == p.jobs
             m  == Min(Suffix(st, p))
  <2>1. js \in Seq(Jobs) /\ m \in 1 .. Len(js)
    <3>1. Suffix(st, p) \subseteq 1 .. Len(js) /\ Suffix(st, p) # {} /\ js \in Seq(Jobs) /\ Len(js) \in Nat
      BY DEF Suffix
    <3>2. Suffix(st, p) \subseteq Nat
      BY <3>1
    <3> HIDE DEF js
    <3> QED
      BY <3>1, <3>2, LeastOf
  <2> HIDE DEF js, m
  <2>2. Len(js) \in Nat /\ m - 1 \in 0 .. Len(js) /\ m - 1 <= Len(js)
    BY <2>1
  <2> DEFINE d == SubSeq(js, 1, m - 1)
  <2>3. Len(d) = m - 1 /\ d \in Seq(Jobs) /\ \A k \in 1 .. (m - 1) : d[k] = js[k]
    BY <2>1, <2>2, SubSeqProperties
  <2> HIDE DEF d
  <2>4. DOMAIN d \subseteq DOMAIN js /\ \A k \in DOMAIN d : d[k] = js[k]
    BY <2>1, <2>2, <2>3
  <2>5. {d[k].row : k \in DOMAIN d} \subseteq {js[k].row : k \in DOMAIN js}
    BY <2>4
  <2> QED
    BY <2>5 DEF d, js, m, JobRows
<1> HIDE DEF done
<1>3. DOMAIN st = {"outbox", "leases", "plans"} /\ DOMAIN p = PlanFields
  BY DEF Shaped
<1>4. /\ DOMAIN s1 = {"outbox", "leases", "plans"} /\ s1.outbox = st.outbox
      /\ DOMAIN s1.plans = DOMAIN st.plans
      /\ \A x \in DOMAIN st.plans \ {q} : s1.plans[x] = st.plans[x]
      /\ s1.plans[q] = [p EXCEPT !.state = "superseded", !.recovered = TRUE, !.jobs = done]
  BY <1>3
<1> DEFINE n == s1.plans[q]
<1>5. /\ n.turn = p.turn /\ n.rev = p.rev /\ n.ver = p.ver /\ n.gen = p.gen
      /\ n.sourced = p.sourced /\ n.recovers = p.recovers
      /\ n.recovered = TRUE /\ n.state = "superseded" /\ n.jobs = done
  <2> HIDE DEF p, s1
  <2> QED
    BY <1>3, <1>4 DEF PlanFields
<1> HIDE DEF s1
<1>6. q \notin old
  BY <1>5 DEF PlansFor
<1>7. \A x \in old \ {q} :
         LET o == st.plans[x]
         IN  /\ o.turn = p.turn /\ o.rev = p.rev /\ o.ver = p.ver
             /\ o.state = "superseded" /\ ~o.recovers /\ ~o.recovered
  BY <1>4 DEF PlansFor
<1> HIDE DEF old, n
<1>8. /\ DOMAIN s2 = {"outbox", "leases", "plans"} /\ s2.outbox = st.outbox
      /\ DOMAIN s2.plans = DOMAIN st.plans \ old
      /\ \A x \in DOMAIN s2.plans : s2.plans[x] = s1.plans[x]
  BY <1>4
<1> HIDE DEF s2
<1>9. /\ DOMAIN e.outbox = DOMAIN st.outbox \ gone /\ e.plans = s2.plans
      /\ \A i \in DOMAIN e.outbox : e.outbox[i] = st.outbox[i]
  BY <1>8 DEF DeleteRows
<1> HIDE DEF e
<1>10. JobRows(n) \subseteq JobRows(p) /\ JobRows(n) \cap gone = {}
  BY <1>2, <1>5 DEF JobRows
<1> HIDE DEF n
<1>11. gone \subseteq JobRows(p) /\ \A i \in JobRows(p) : IsPartOf(st, i, p)
  BY DEF Linked
<1>12. \A x \in DOMAIN st.plans \ {q} : JobRows(st.plans[x]) \cap gone = {}
  <2>1. \A x \in DOMAIN st.plans \ {q} : JobRows(st.plans[x]) \cap JobRows(p) = {}
    BY DEF Linked
  <2> HIDE DEF gone, p
  <2> QED
    BY <1>11, <2>1
<1> HIDE DEF gone
<1>13. \A t, r : RootsOf(e, t, r) = RootsOf(st, t, r)
  <2>1. \A i \in DOMAIN st.outbox \ DOMAIN e.outbox : st.outbox[i].kind = "part"
    BY <1>9, <1>11 DEF IsPartOf
  <2> QED
    BY <1>9, <2>1, RootsStay
<1>14. e.plans[q] = n /\ DOMAIN e.plans = DOMAIN st.plans \ old /\ q \in DOMAIN e.plans
  BY <1>4, <1>6, <1>8, <1>9 DEF n
<1>15. \A x \in DOMAIN e.plans \ {q} : e.plans[x] = st.plans[x]
  BY <1>4, <1>8, <1>9
<1>16. DOMAIN st.outbox \ DOMAIN e.outbox \subseteq JobRows(p)
  BY <1>9, <1>11
<1>17. \A x \in DOMAIN e.plans : JobRows(e.plans[x]) \subseteq DOMAIN e.outbox
  <2>1. \A x \in DOMAIN st.plans : JobRows(st.plans[x]) \subseteq DOMAIN st.outbox
    BY DEF Linked, IsPartOf
  <2>2. JobRows(n) \subseteq DOMAIN e.outbox
    BY <1>9, <1>10, <2>1 DEF p
  <2> QED
    BY <1>9, <1>12, <1>14, <1>15, <2>1, <2>2
<1>18. \A x \in DOMAIN st.plans \ DOMAIN e.plans : x \in old \ {q}
  BY <1>6, <1>14
<1> QED
  BY <1>1, <1>5, <1>7, <1>9, <1>10, <1>13, <1>14, <1>15, <1>16, <1>17, <1>18 DEF p, Recovered

\* What is left refers to what is left.
LEMMA FinalizeRecoveryLinks ==
    ASSUME NEW st, NEW q, Failing(st, q), NEW S, Readable(st, S)
    PROVE  LET e == FinalizeRecovery(st, q)
           IN  Linked(e) /\ Readable(e, S)
<1> DEFINE e == FinalizeRecovery(st, q)
<1>1. Recovered(st, q, e) /\ Linked(st)
  BY FinalizeRecoveryIs DEF Failing
<1> HIDE DEF e
<1>2. \A x \in DOMAIN e.plans :
         /\ e.plans[x].turn = st.plans[x].turn /\ e.plans[x].rev = st.plans[x].rev
         /\ e.plans[x].sourced = st.plans[x].sourced
         /\ JobRows(e.plans[x]) \subseteq JobRows(st.plans[x])
  BY <1>1 DEF Recovered
<1>3. Remains(st, e)
  BY <1>1, <1>2 DEF Remains, Recovered
<1>4. \A x \in DOMAIN e.plans :
         e.plans[x].sourced => RootsOf(e, e.plans[x].turn, e.plans[x].rev) # {}
  BY <1>1, <1>2 DEF Linked, Recovered
<1>5. Linked(e) /\ Readable(e, S)
  BY <1>1, <1>3, <1>4, RemainsLinks DEF Recovered
<1> QED
  BY <1>5 DEF e

-----------------------------------------------------------------------------
(* The operations keep the queue intact                                    *)

Intact(st, S) == Linked(st) /\ Readable(st, S)

\* A step that changes neither rows nor plans in this respect
LEMMA AlikeIsIntact ==
    ASSUME NEW a, NEW b, Alike(a, b), NEW S, Intact(a, S)
    PROVE  Intact(b, S)
BY AlikeLinks, AlikeReads DEF Intact

\* A step that leaves rows and plans alone
LEMMA SameIsIntact ==
    ASSUME NEW a, NEW b, b.outbox = a.outbox, b.plans = a.plans, NEW S, Intact(a, S)
    PROVE  Intact(b, S)
BY DEF Intact, Linked, Readable, RootsOf, IsPartOf

\* prepare_connector_plan_begin: the root is there, by its lease or its delivery.
LEMMA BeginIntact ==
    ASSUME Orderly(db), NEW S, Intact(db, S), NEW t, NEW r, RootsOf(db, t, r) # {},
           NEW v, NEW g, NEW n, NEW src \in BOOLEAN,
           db' = WithPlan(db, Highest(DOMAIN db.plans) + 1, NewPlan(t, r, v, g, n, src))
    PROVE  Intact(db', S)
<1> DEFINE p == NewPlan(t, r, v, g, n, src)
<1>1. DOMAIN p = PlanFields /\ p.jobs = <<>> /\ p.turn = t /\ p.rev = r
  BY DEF NewPlan, PlanFields
<1> HIDE DEF p
<1>2. <<t, r>> \in S
  BY DEF Intact, Readable, RootsOf
<1>3. LET e == WithPlan(db, Highest(DOMAIN db.plans) + 1, p)
      IN  Linked(e) /\ Readable(e, S) /\ Shaped(e)
  BY <1>1, <1>2, OrderlyIsShaped, WithPlanLinks DEF Intact
<1> QED
  BY <1>3 DEF Intact, p

\* prepare_connector_plan_begin, with a ref and without one
LEMMA BeginsIntact ==
    ASSUME Orderly(db), NEW S, Intact(db, S), NEW v, NEW n,
           \/ \E c : Begin(c, v, n)
           \/ \E t : BeginSourceLess(t, v, n)
    PROVE  Intact(db', S)
<1>1. ASSUME NEW c, Begin(c, v, n) PROVE Intact(db', S)
  <2>1. PICK l \in LiveLeases(db, c) :
           LET o == db.outbox[l.row]
           IN  /\ o.kind = "ready"
               /\ db' = WithPlan(db, Highest(DOMAIN db.plans) + 1,
                                 NewPlan(o.turn, o.rev, v, Max({1, o.gen}), n, TRUE))
    BY <1>1 DEF Begin
  <2> DEFINE o == db.outbox[l.row]
             g == Max({1, o.gen})
  <2>2. l.row \in DOMAIN db.outbox
    BY DEF LiveLeases, Orderly, LeasesFit
  <2>3. RootsOf(db, o.turn, o.rev) # {}
    BY <2>1, <2>2 DEF RootsOf
  <2>4. db' = WithPlan(db, Highest(DOMAIN db.plans) + 1, NewPlan(o.turn, o.rev, v, g, n, TRUE))
    BY <2>1
  <2> HIDE DEF o, g
  <2> QED
    BY <2>3, <2>4, BeginIntact
<1>2. ASSUME NEW t, BeginSourceLess(t, v, n) PROVE Intact(db', S)
  <2> DEFINE r == current[t]
  <2>1. RouteKnown(db, t, r)
    BY <1>2 DEF BeginSourceLess
  <2>2. RootsOf(db, t, r) # {}
    BY <2>1 DEF RouteKnown
  <2>3. db' = WithPlan(db, Highest(DOMAIN db.plans) + 1, NewPlan(t, r, v, 1, n, FALSE))
    BY <1>2 DEF BeginSourceLess
  <2> HIDE DEF r
  <2> QED
    BY <2>2, <2>3, BeginIntact
<1> QED
  BY <1>1, <1>2

\* prepare_connector_plan_part
LEMMA PartIntact ==
    ASSUME Orderly(db), NEW S, Intact(db, S), NEW q \in DOMAIN db.plans, Part(q)
    PROVE  Intact(db', S)
<1> DEFINE p == db.plans[q]
           n == [p EXCEPT !.staged = @ + 1]
<1>1. Shaped(db)
  BY OrderlyIsShaped
<1>2. DOMAIN p = PlanFields
  BY <1>1 DEF Shaped
<1>3. /\ DOMAIN db' = {"outbox", "leases", "plans"} /\ db'.outbox = db.outbox
      /\ DOMAIN db'.plans = DOMAIN db.plans
      /\ \A x \in DOMAIN db.plans : db'.plans[x] = IF x = q THEN n ELSE db.plans[x]
  BY <1>1 DEF Part, Shaped
<1> HIDE DEF p
<1>4. PlanStays(p, n)
  BY <1>2 DEF PlanStays, PlanFields
<1> HIDE DEF n
<1>5. \A x \in DOMAIN db.plans : db'.plans[x] = db.plans[x] \/ PlanStays(db.plans[x], db'.plans[x])
  BY <1>3, <1>4 DEF p
<1> QED
  BY <1>1, <1>3, <1>5, PlansAlike, AlikeIsIntact

\* prepare_connector_plan_commit without a ref
LEMMA CommitSourceLessIntact ==
    ASSUME Orderly(db), NEW S, Intact(db, S), NEW q \in DOMAIN db.plans, CommitSourceLess(q)
    PROVE  Intact(db', S)
<1>1. db.plans[q].state = "preparing" /\ db' = Activate(db, q)
  BY DEF CommitSourceLess, MayCommit
<1> QED
  BY <1>1, ActivateLinks DEF Intact

\* and with a ref: the root is edited besides.
LEMMA CommitIntact ==
    ASSUME Orderly(db), NEW S, Intact(db, S), NEW c, NEW q \in DOMAIN db.plans, Commit(c, q)
    PROVE  Intact(db', S)
<1> DEFINE p  == db.plans[q]
           N  == {PriorParts(db, q), p.parts}
           s0 == Activate(db, q)
<1>1. PICK l \in LiveLeases(db, c) :
         db' = [Close(s0, {l.row}, "awaiting_ack") EXCEPT !.outbox[l.row] = Committed(@, p.gen, N)]
  BY DEF Commit
<1>2. p.state = "preparing"
  BY DEF Commit, MayCommit
<1>3. Intact(s0, S) /\ Shaped(s0)
  BY <1>2, ActivateLinks DEF Intact
<1> HIDE DEF s0, N
<1> DEFINE i  == l.row
           s1 == Close(s0, {i}, "awaiting_ack")
           e  == [s1 EXCEPT !.outbox[i] = Committed(@, p.gen, N)]
<1>4. Alike(s0, s1) /\ Shaped(s1)
  BY <1>3, CloseAlike, AlikeIsShaped
<1>5. db' = e
  BY <1>1
<1> HIDE DEF s1, i
<1>6. /\ DOMAIN e = {"outbox", "leases", "plans"} /\ e.plans = s1.plans
      /\ DOMAIN e.outbox = DOMAIN s1.outbox
      /\ \A x \in DOMAIN s1.outbox :
            e.outbox[x] = IF x = i THEN Committed(s1.outbox[x], p.gen, N) ELSE s1.outbox[x]
  BY <1>4 DEF Shaped
<1> HIDE DEF e
<1>7. ASSUME NEW x \in DOMAIN s1.outbox
      PROVE  e.outbox[x] = s1.outbox[x] \/ RowStays(s1.outbox[x], e.outbox[x])
  <2> DEFINE o == s1.outbox[x]
             n == Committed(o, p.gen, N)
  <2>1. DOMAIN o = RowFields /\ (e.outbox[x] = o \/ e.outbox[x] = n)
    BY <1>4, <1>6 DEF Shaped
  <2> HIDE DEF o
  <2>2. RowStays(o, n)
    BY <2>1 DEF RowStays, RowFields, Committed
  <2> HIDE DEF n
  <2> QED
    BY <2>1, <2>2 DEF o
<1>8. Alike(s0, e)
  BY <1>4, <1>6, <1>7, RowsAlike, AlikeTwice
<1> QED
  BY <1>3, <1>5, <1>8, AlikeIsIntact

\* poll_connector_outbox
LEMMA PollAlike ==
    ASSUME Orderly(db), NEW c, Poll(c)
    PROVE  Alike(db, db')
<1> DEFINE st == Exhausted(Reclaimed(db))
           i  == First(st)
<1>1. Alike(db, st) /\ Shaped(st)
  BY OrderlyIsShaped, ReclaimedAlike, ExhaustedAlike, AlikeIsShaped, AlikeTwice
<1>2. db' = IF Candidates(st) = {} THEN st ELSE LeaseRow(st, i, c)
  BY DEF Poll
<1>3. Orderly(st)
  BY ReclaimedKeeps, ExhaustedIs
<1> HIDE DEF st
<1>4. CASE Candidates(st) # {}
  <2> DEFINE parts == {x \in Candidates(st) : st.outbox[x].kind = "part"}
  <2>1. Candidates(st) \subseteq Nat /\ parts \subseteq Nat
    BY <1>3, NextRow DEF Candidates
  <2>2. i \in Candidates(st)
    BY <1>4, <2>1, LeastOf DEF First
  <2>3. i \in DOMAIN st.outbox
    BY <2>2 DEF Candidates
  <2> HIDE DEF i
  <2> QED
    BY <1>1, <1>2, <1>4, <2>3, LeaseRowAlike, AlikeTwice
<1> QED
  BY <1>1, <1>2, <1>4

\* The operations on a ref
LEMMA EndsAlike ==
    ASSUME Orderly(db), NEW c,
           Ack(c) \/ \E action \in {"fail", "defer", "release"} : GiveBack(c, action)
    PROVE  Alike(db, db')
<1> DEFINE st == Reclaimed(db)
<1>1. PICK i, s : db' = Finish(st, i, s)
  BY DEF Ack, GiveBack
<1>2. Alike(db, st) /\ Shaped(st)
  BY OrderlyIsShaped, ReclaimedAlike, AlikeIsShaped
<1> HIDE DEF st
<1> QED
  BY <1>1, <1>2, FinishAlike, AlikeTwice

\* reclaim_expired_connector_leases and exhaust_connector_retries
LEMMA MaintenanceAlike ==
    ASSUME Orderly(db), Maintenance
    PROVE  Alike(db, db')
<1>1. CASE Reclaim
  <2>1. db' = ReclaimAwaiting(ReclaimLeases(db))
    BY <1>1 DEF Reclaim
  <2> QED
    BY <2>1, OrderlyIsShaped, ReclaimLeasesAlike, ReclaimAwaitingAlike, AlikeIsShaped, AlikeTwice
<1>2. CASE ExhaustRetries
  <2>1. db' = Exhausted(Reclaimed(db))
    BY <1>2 DEF ExhaustRetries
  <2> QED
    BY <2>1, OrderlyIsShaped, ReclaimedAlike, ExhaustedAlike, AlikeIsShaped, AlikeTwice
<1> QED
  BY <1>1, <1>2 DEF Maintenance

\* retry_final_ready_delivery of a root, and a deadline that passes
LEMMA RowEditsAlike ==
    ASSUME Orderly(db), NEW i \in DOMAIN db.outbox,
           RetryStale(i) \/ RetryDeadLetter(i) \/ RowDue(i)
    PROVE  Alike(db, db')
<1>1. Shaped(db)
  BY OrderlyIsShaped
<1>2. CASE RetryStale(i)
  BY <1>1, <1>2, CloseAlike DEF RetryStale
<1>3. ASSUME NEW n, RowStays(db.outbox[i], n), db' = [db EXCEPT !.outbox[i] = n]
      PROVE  Alike(db, db')
  <2>1. /\ DOMAIN db' = {"outbox", "leases", "plans"} /\ db'.plans = db.plans
        /\ db'.outbox = [db.outbox EXCEPT ![i] = n]
    BY <1>1, <1>3 DEF Shaped
  <2> QED
    BY <1>1, <1>3, <2>1, OneRowAlike
<1> DEFINE o == db.outbox[i]
<1>4. CASE RetryDeadLetter(i)
  <2> DEFINE n == [o EXCEPT !.status = "queued", !.used = 0]
  <2>1. db' = [db EXCEPT !.outbox[i] = n] /\ DOMAIN o = RowFields
    BY <1>1, <1>4 DEF RetryDeadLetter, Shaped
  <2> HIDE DEF o
  <2>2. RowStays(o, n)
    BY <2>1 DEF RowStays, RowFields
  <2> HIDE DEF n
  <2> QED
    BY <1>3, <2>1, <2>2 DEF o
<1>5. CASE RowDue(i)
  <2> DEFINE n == [o EXCEPT !.due = TRUE]
  <2>1. db' = [db EXCEPT !.outbox[i] = n] /\ DOMAIN o = RowFields
    BY <1>1, <1>5 DEF RowDue, Shaped
  <2> HIDE DEF o
  <2>2. RowStays(o, n)
    BY <2>1 DEF RowStays, RowFields
  <2> HIDE DEF n
  <2> QED
    BY <1>3, <2>1, <2>2 DEF o
<1> QED
  BY <1>2, <1>4, <1>5

\* A connector stops, a lease expires.
LEMMA LeasesIntact ==
    ASSUME Orderly(db), NEW S, Intact(db, S),
           \/ \E c : Stop(c)
           \/ \E l \in db.leases : LeaseExpires(l)
    PROVE  Intact(db', S)
<1>1. DOMAIN db = {"outbox", "leases", "plans"}
  BY DEF Orderly, StoreFits
<1>2. db'.outbox = db.outbox /\ db'.plans = db.plans
  BY <1>1 DEF Stop, LeaseExpires
<1> QED
  BY <1>2, SameIsIntact

\* e is st after the root i has started again: the plans of the revision are gone with
\* their parts, and no other plan had these.
Reactivated(st, i, e) ==
    LET o == st.outbox[i]
        n == e.outbox[i]
        Q == PlansFor(st, o.turn, o.rev)
        I == UNION {JobRows(st.plans[x]) : x \in Q}
    IN  /\ DOMAIN e.outbox = DOMAIN st.outbox \ I /\ i \in DOMAIN e.outbox
        /\ \A x \in DOMAIN e.outbox \ {i} : e.outbox[x] = st.outbox[x]
        /\ n.kind # "part" /\ n.turn = o.turn /\ n.rev = o.rev
        /\ n.status \in {"dead_letter", "queued"}
        /\ n.gen = Max({1, o.gen} \cup {st.plans[x].gen : x \in Q}) + 1
        /\ DOMAIN e.plans = DOMAIN st.plans \ Q
        /\ \A x \in DOMAIN e.plans : e.plans[x] = st.plans[x]
        /\ \A t, r : RootsOf(e, t, r) = RootsOf(st, t, r)
        /\ \A x \in DOMAIN e.plans : JobRows(st.plans[x]) \subseteq DOMAIN e.outbox \ {i}

\* _reactivate_final_root_conn
LEMMA ReactivateIs ==
    ASSUME NEW st, Shaped(st), Linked(st),
           NEW i \in DOMAIN st.outbox, st.outbox[i].kind # "part"
    PROVE  Reactivated(st, i, Reactivate(st, i))
<1> DEFINE o   == st.outbox[i]
           Q   == PlansFor(st, o.turn, o.rev)
           q   == LatestAttempted(st, o.turn)
           I   == UNION {JobRows(st.plans[x]) : x \in Q}
           s1  == DeleteRows(st, I)
           gen == Max({1, o.gen} \cup {st.plans[x].gen : x \in Q}) + 1
           F   == {o.foot} \cup {st.plans[x].parts : x \in Q}
           aft == IF q = 0 THEN o.after ELSE q
           row == [o EXCEPT !.kind = Opening(o.rev).kind, !.status = Opening(o.rev).status,
                            !.due = FALSE, !.used = 0, !.gen = gen, !.foot = Max(F), !.after = aft]
           s2  == [s1 EXCEPT !.plans = [x \in DOMAIN @ \ Q |-> @[x]]]
           e   == [s1 EXCEPT !.plans = [x \in DOMAIN @ \ Q |-> @[x]], !.outbox[i] = row]
<1>1. Reactivate(st, i) = e
  BY DEF Reactivate
<1>2. Shaped(st) /\ DOMAIN o = RowFields
  BY DEF Shaped
<1>3. i \notin I
  BY DEF Linked, IsPartOf, PlansFor
<1>4. /\ \A x \in I \cap DOMAIN st.outbox : st.outbox[x].kind = "part"
      /\ \A x \in DOMAIN st.plans \ Q : JobRows(st.plans[x]) \cap I = {}
  BY DEF Linked, IsPartOf, PlansFor
<1> HIDE DEF Q, q, I, F, gen, aft
<1>5. /\ row.kind # "part" /\ row.turn = o.turn /\ row.rev = o.rev /\ row.gen = gen
      /\ row.status \in {"dead_letter", "queued"}
  <2>1. Opening(o.rev).kind # "part" /\ Opening(o.rev).status \in {"dead_letter", "queued"}
    BY OpeningIs
  <2> HIDE DEF o
  <2> QED
    BY <1>2, <2>1 DEF RowFields
<1> HIDE DEF row
<1>6. /\ DOMAIN s1 = {"outbox", "leases", "plans"} /\ s1.plans = st.plans
      /\ DOMAIN s1.outbox = DOMAIN st.outbox \ I
      /\ \A x \in DOMAIN s1.outbox : s1.outbox[x] = st.outbox[x]
  BY <1>2 DEF DeleteRows, Shaped
<1> HIDE DEF s1
<1>7. /\ DOMAIN s2 = {"outbox", "leases", "plans"} /\ s2.outbox = s1.outbox
      /\ DOMAIN s2.plans = DOMAIN st.plans \ Q
      /\ \A x \in DOMAIN s2.plans : s2.plans[x] = st.plans[x]
      /\ DOMAIN e = {"outbox", "leases", "plans"} /\ e.plans = s2.plans
      /\ e.outbox = [s2.outbox EXCEPT ![i] = row]
  BY <1>6
<1> HIDE DEF s2, e
<1>8. /\ DOMAIN e.outbox = DOMAIN st.outbox \ I /\ i \in DOMAIN e.outbox /\ e.outbox[i] = row
      /\ \A x \in DOMAIN e.outbox \ {i} : e.outbox[x] = st.outbox[x]
      /\ DOMAIN e.plans = DOMAIN st.plans \ Q
      /\ \A x \in DOMAIN e.plans : e.plans[x] = st.plans[x]
  BY <1>3, <1>6, <1>7
<1>9. \A t, r : RootsOf(e, t, r) = RootsOf(st, t, r)
  <2>1. /\ e.outbox[i].turn = st.outbox[i].turn /\ e.outbox[i].rev = st.outbox[i].rev
        /\ e.outbox[i].kind # "part"
    BY <1>5, <1>8
  <2>2. \A x \in DOMAIN st.outbox \ DOMAIN e.outbox : st.outbox[x].kind = "part"
    BY <1>4, <1>8
  <2> QED
    BY <1>8, <2>1, <2>2 DEF RootsOf
<1>10. \A x \in DOMAIN e.plans : JobRows(st.plans[x]) \subseteq DOMAIN e.outbox \ {i}
  <2>1. \A x \in DOMAIN st.plans : JobRows(st.plans[x]) \subseteq DOMAIN st.outbox \ {i}
    BY DEF Linked, IsPartOf
  <2> QED
    BY <1>4, <1>8, <2>1
<1> QED
  BY <1>1, <1>5, <1>8, <1>9, <1>10 DEF Reactivated, Q, I, gen

\* What refers to what is in order afterwards.
LEMMA ReactivateIntact ==
    ASSUME NEW st, Orderly(st), NEW S, Intact(st, S),
           NEW i \in DOMAIN st.outbox, st.outbox[i].kind # "part"
    PROVE  Intact(Reactivate(st, i), S)
<1> DEFINE e == Reactivate(st, i)
<1>1. Reactivated(st, i, e)
  BY OrderlyIsShaped, ReactivateIs DEF Intact
<1> HIDE DEF e
<1>2. /\ DOMAIN e.outbox \subseteq DOMAIN st.outbox
      /\ \A x \in DOMAIN e.outbox \ {i} : e.outbox[x] = st.outbox[x]
      /\ e.outbox[i].turn = st.outbox[i].turn /\ e.outbox[i].rev = st.outbox[i].rev
      /\ DOMAIN e.plans \subseteq DOMAIN st.plans
      /\ \A x \in DOMAIN e.plans : e.plans[x] = st.plans[x]
      /\ \A t, r : RootsOf(e, t, r) = RootsOf(st, t, r)
      /\ \A x \in DOMAIN e.plans : JobRows(st.plans[x]) \subseteq DOMAIN e.outbox \ {i}
  BY <1>1 DEF Reactivated
<1>3. Linked(e)
  <2>1. \E n \in Nat : DOMAIN e.plans \subseteq 1 .. n
    BY <1>2 DEF Intact, Linked
  <2>2. \A x \in DOMAIN e.plans : \A j \in JobRows(e.plans[x]) : IsPartOf(e, j, e.plans[x])
    BY <1>2 DEF Intact, Linked, IsPartOf
  <2>3. \A x \in DOMAIN e.plans :
           e.plans[x].sourced => RootsOf(e, e.plans[x].turn, e.plans[x].rev) # {}
    BY <1>2 DEF Intact, Linked
  <2>4. \A x, y \in DOMAIN e.plans : x # y => JobRows(e.plans[x]) \cap JobRows(e.plans[y]) = {}
    BY <1>2 DEF Intact, Linked
  <2> QED
    BY <2>1, <2>2, <2>3, <2>4 DEF Linked
<1>4. Readable(e, S)
  <2>1. \A x \in DOMAIN e.outbox : e.outbox[x].turn = st.outbox[x].turn /\ e.outbox[x].rev = st.outbox[x].rev
    BY <1>2
  <2> QED
    BY <1>2, <2>1 DEF Intact, Readable
<1> QED
  BY <1>3, <1>4 DEF Intact, e

\* _ensure_final_ready_anchor_conn: the text was stored before.
LEMMA EnsureAnchorIntact ==
    ASSUME NEW st, Orderly(st), NEW S, Intact(st, S), NEW t, NEW r, <<t, r>> \in S
    PROVE  Intact(EnsureAnchor(st, t, r), S)
<1>1. CASE RootsOf(st, t, r) = {}
  <2> DEFINE s1  == SupersedeStale(st, t, r)
             row == NewRoot(t, r)
  <2>1. EnsureAnchor(st, t, r) = WithRow(s1, Highest(DOMAIN s1.outbox) + 1, row)
    BY <1>1 DEF EnsureAnchor
  <2>2. Orderly(s1)
    BY SupersedeStaleKeeps
  <2>3. Intact(s1, S)
    BY OrderlyIsShaped, SupersedeStaleAlike, AlikeIsIntact
  <2>4. row.turn = t /\ row.rev = r
    BY DEF NewRoot
  <2> HIDE DEF s1, row
  <2> QED
    BY <2>1, <2>2, <2>3, <2>4, WithRootLinks DEF Intact
<1>2. CASE RootsOf(st, t, r) # {}
  <2> DEFINE i == Root(st, t, r)
             e == IF MustReactivate(st, i) THEN Reactivate(st, i) ELSE st
  <2>1. EnsureAnchor(st, t, r) = SupersedeStale(e, t, r)
    BY <1>2 DEF EnsureAnchor
  <2>2. i \in RootsOf(st, t, r)
    BY <1>2 DEF Root
  <2>3. i \in DOMAIN st.outbox /\ st.outbox[i].kind # "part"
    BY <2>2 DEF RootsOf
  <2> HIDE DEF i
  <2>4. Orderly(e) /\ Intact(e, S)
    BY <2>3, ReactivateKeeps, ReactivateIntact
  <2> HIDE DEF e
  <2> QED
    BY <2>1, <2>4, OrderlyIsShaped, SupersedeStaleAlike, AlikeIsIntact
<1> QED
  BY <1>1, <1>2

\* prepare_connector_plan_recover, step by step: a plan of the next generation, its rows,
\* and what is left of the plan that it recovers.
Recovering(q, S, n, new, ops, s1) ==
    LET p  == db.plans[q]
        s2 == Materialize(s1, n, ops)
    IN  /\ new.turn = p.turn /\ new.rev = p.rev /\ new.ver = p.ver
        /\ new.gen = p.gen + 1 /\ new.sourced = p.sourced /\ new.jobs = <<>>
        /\ new.state = "active" /\ new.recovers = TRUE /\ new.recovered = FALSE
        /\ n \notin DOMAIN db.plans
        /\ Orderly(s1) /\ Linked(s1) /\ s1.outbox = db.outbox
        /\ DOMAIN s1.plans = DOMAIN db.plans \cup {n} /\ s1.plans[n] = new
        /\ \A x \in DOMAIN db.plans : s1.plans[x] = db.plans[x]
        /\ Steps(ops) /\ Orderly(s2) /\ Intact(s2, S) /\ Failing(s2, q)
        /\ db' = FinalizeRecovery(s2, q)

\* A recovery is made of these steps.
LEMMA RecoverIs ==
    ASSUME Orderly(db), NEW S, Intact(db, S), NEW q \in DOMAIN db.plans, Recover(q)
    PROVE  \E n, new, ops, s1 : Recovering(q, S, n, new, ops, s1)
<1> DEFINE p   == db.plans[q]
           n   == Highest(DOMAIN db.plans) + 1
           new == [NewPlan(p.turn, p.rev, p.ver, p.gen + 1, p.parts, p.sourced) EXCEPT
                      !.staged = p.parts, !.state = "active", !.activated = TRUE, !.recovers = TRUE]
           ops == SubSeq(p.jobs, Min(Suffix(db, p)), Len(p.jobs))
           s1  == WithPlan(db, n, new)
           s2  == Materialize(s1, n, ops)
<1>1. db' = FinalizeRecovery(s2, q)
  BY DEF Recover
<1>2. Steps(ops)
  BY RecoveredSteps
<1>3. PlanFits(p) /\ p.jobs \in Seq(Jobs) /\ Suffix(db, p) # {}
  BY DEF Orderly, StoreFits, PlanFits, Recover, MayRecover
<1>4. /\ PlanFits(new) /\ DOMAIN new = PlanFields /\ new.jobs = <<>>
      /\ new.turn = p.turn /\ new.rev = p.rev /\ new.ver = p.ver /\ new.gen = p.gen + 1
      /\ new.sourced = p.sourced /\ new.state = "active" /\ new.recovers = TRUE /\ new.recovered = FALSE
  <2> HIDE DEF p
  <2> QED
    BY <1>3, EmptySeq DEF NewPlan, PlanFits, PlanFields
<1>5. /\ <<p.turn, p.rev>> \in S
      /\ p.sourced => RootsOf(db, p.turn, p.rev) # {}
      /\ JobRows(p) \subseteq DOMAIN db.outbox
  BY DEF Intact, Linked, Readable, IsPartOf
<1>6. n \notin DOMAIN db.plans
  BY NextPlan DEF Intact
<1> HIDE DEF new, ops
<1>7. /\ Orderly(s1) /\ s1.outbox = db.outbox /\ DOMAIN s1.plans = DOMAIN db.plans \cup {n}
      /\ s1.plans[n] = new /\ \A x \in DOMAIN db.plans : s1.plans[x] = db.plans[x]
  BY <1>4, <1>6, WithPlanIs
<1>8. Linked(s1) /\ Readable(s1, S)
  <2> HIDE DEF p
  <2> QED
    BY <1>4, <1>5, OrderlyIsShaped, WithPlanLinks DEF Intact
<1> HIDE DEF s1, n
<1>9. /\ Orderly(s2) /\ DOMAIN s1.outbox \subseteq DOMAIN s2.outbox
      /\ \A i \in DOMAIN s1.outbox : s2.outbox[i] = s1.outbox[i]
  BY <1>2, <1>7, MaterializeIs
<1>10. /\ Linked(s2) /\ Readable(s2, S) /\ DOMAIN s2.plans = DOMAIN s1.plans
       /\ \A x \in DOMAIN s1.plans \ {n} : s2.plans[x] = s1.plans[x]
  BY <1>2, <1>7, <1>8, MaterializeLinks
<1> HIDE DEF s2
<1>11. q \in DOMAIN s2.plans /\ s2.plans[q] = p
  BY <1>6, <1>7, <1>10
<1>12. Suffix(s2, p) = Suffix(db, p)
  <2>1. \A k \in DOMAIN p.jobs : p.jobs[k].row \in DOMAIN db.outbox
    BY <1>5 DEF JobRows
  <2>2. \A k \in DOMAIN p.jobs : StatusOf(s2, p, k) = StatusOf(db, p, k)
    BY <1>7, <1>9, <2>1 DEF StatusOf
  <2>3. \A k \in DOMAIN p.jobs : 1 .. k \subseteq DOMAIN p.jobs
    BY <1>3
  <2> QED
    BY <2>2, <2>3 DEF Suffix
<1>13. Shaped(s2)
  BY <1>9, OrderlyIsShaped
<1> HIDE DEF p
<1>14. Failing(s2, q)
  BY <1>3, <1>10, <1>11, <1>12, <1>13 DEF Failing
<1> HIDE DEF s2
<1> WITNESS n, new, ops, s1
<1> QED
  BY <1>1, <1>2, <1>4, <1>6, <1>7, <1>8, <1>9, <1>10, <1>14 DEF Intact, s2, p, Recovering

\* What refers to what is in order afterwards.
LEMMA RecoverIntact ==
    ASSUME Orderly(db), NEW S, Intact(db, S), NEW q \in DOMAIN db.plans, Recover(q)
    PROVE  Intact(db', S)
<1>1. PICK n, new, ops, s1 : Recovering(q, S, n, new, ops, s1)
  BY RecoverIs
<1> QED
  BY <1>1, FinalizeRecoveryLinks DEF Intact, Recovering

\* Every operation but a sweep keeps the queue intact; the text of a turn that is
\* observed is stored with it.
LEMMA IntactStep ==
    ASSUME Orderly(db), NEW S, Intact(db, S),
           Planning \/ Delivering \/ Operator \/ Maintenance \/ Time
    PROVE  Intact(db', S)
<1>1. CASE Planning
  BY <1>1, BeginsIntact, PartIntact, CommitIntact, CommitSourceLessIntact DEF Planning
<1>2. CASE Delivering
  <2>1. ASSUME NEW c \in Connectors, Apply(c) PROVE Intact(db', S)
    BY <2>1 DEF Apply
  <2>2. ASSUME NEW c \in Connectors, Poll(c) PROVE Intact(db', S)
    BY <2>2, PollAlike, AlikeIsIntact
  <2>3. ASSUME NEW c \in Connectors, Ack(c) \/ Fail(c) \/ Defer(c) \/ Release(c) PROVE Intact(db', S)
    <3>1. Ack(c) \/ \E action \in {"fail", "defer", "release"} : GiveBack(c, action)
      BY <2>3 DEF Fail, Defer, Release
    <3> QED
      BY <3>1, EndsAlike, AlikeIsIntact
  <2>4. ASSUME NEW c \in Connectors, Stop(c) PROVE Intact(db', S)
    BY <2>4, LeasesIntact
  <2> QED
    BY <1>2, <2>1, <2>2, <2>3, <2>4 DEF Delivering
<1>3. CASE Operator
  BY <1>3, RecoverIntact, RowEditsAlike, AlikeIsIntact DEF Operator
<1>4. CASE Maintenance
  BY <1>4, MaintenanceAlike, AlikeIsIntact
<1>5. CASE Time
  BY <1>5, LeasesIntact, RowEditsAlike, AlikeIsIntact DEF Time
<1> QED
  BY <1>1, <1>2, <1>3, <1>4, <1>5

\* More texts do no harm.
LEMMA IntactGrows ==
    ASSUME NEW st, NEW S, Intact(st, S), NEW T, S \subseteq T
    PROVE  Intact(st, T)
BY DEF Intact, Readable

\* A turn is observed.
LEMMA ObserveFinalIntact ==
    ASSUME Orderly(db), Intact(db, stored), NEW t, NEW r, ObserveFinal(t, r)
    PROVE  Orderly(db') /\ Intact(db', stored')
<1>1. /\ db' = IF r \in Finals THEN EnsureAnchor(db, t, r) ELSE db
      /\ stored' = stored \cup {<<t, r>>}
  BY DEF ObserveFinal, Observe
<1>2. Intact(db, stored')
  BY <1>1, IntactGrows
<1>3. <<t, r>> \in stored'
  BY <1>1
<1> QED
  BY <1>1, <1>2, <1>3, EnsureAnchorKeeps, EnsureAnchorIntact

-----------------------------------------------------------------------------
(* The sweeps                                                              *)

\* The store inside the transaction of a sweep
Whole(s) == DOMAIN s = {"db", "stored"} /\ Orderly(s.db) /\ Intact(s.db, s.stored)

\* A sweep deletes and changes no row that stays.
Lessens(a, b) ==
    /\ b.stored \subseteq a.stored /\ DOMAIN b.db.outbox \subseteq DOMAIN a.db.outbox
    /\ \A i \in DOMAIN b.db.outbox : b.db.outbox[i] = a.db.outbox[i]

\* _delete_terminal_source_anchor_conn: no plan made with the root's ref is left.
LEMMA DropRootIsSafe ==
    ASSUME NEW s, Whole(s), NEW i \in DOMAIN s.db.outbox, s.db.outbox[i].kind # "part",
           NEW status, NEW young
    PROVE  LET e == DropRoot(s, i, status, young) IN Whole(e) /\ Lessens(s, e)
<1> DEFINE a == s.db
           b == DeleteRows(a, {i})
           e == [s EXCEPT !.db = b]
<1>1. \/ DropRoot(s, i, status, young) = s
      \/ SourcedFrom(a, i) = {} /\ DropRoot(s, i, status, young) = e
  BY DEF DropRoot
<1>2. ASSUME SourcedFrom(a, i) = {} PROVE Whole(e) /\ Lessens(s, e)
  <2>1. Orderly(a) /\ Linked(a) /\ Readable(a, s.stored) /\ DOMAIN s = {"db", "stored"}
    BY DEF Whole, Intact
  <2>2. a.outbox[i].kind # "part" /\ i \in DOMAIN a.outbox
    OBVIOUS
  <2>3. e.db = b /\ e.stored = s.stored /\ DOMAIN e = {"db", "stored"}
    BY <2>1
  <2> HIDE DEF e, a
  <2>4. /\ Orderly(b) /\ b.plans = a.plans /\ DOMAIN b.outbox = DOMAIN a.outbox \ {i}
        /\ \A x \in DOMAIN b.outbox : b.outbox[x] = a.outbox[x]
    BY <2>1, DeleteRowsIs
  <2> HIDE DEF b
  <2>5. Remains(a, b)
    BY <2>4 DEF Remains
  <2>6. \A q \in DOMAIN b.plans : JobRows(b.plans[q]) \subseteq DOMAIN b.outbox
    BY <2>1, <2>2, <2>4 DEF Linked, IsPartOf
  <2>7. ASSUME NEW q \in DOMAIN b.plans, b.plans[q].sourced
        PROVE  RootsOf(b, b.plans[q].turn, b.plans[q].rev) # {}
    <3> DEFINE t == a.plans[q].turn
               r == a.plans[q].rev
    <3>1. PICK x \in RootsOf(a, t, r) : TRUE
      BY <2>1, <2>4, <2>7 DEF Linked
    <3>2. x # i
      BY <1>2, <2>4, <2>7, <3>1 DEF SourcedFrom, PlansFor, RootsOf
    <3>3. x \in RootsOf(b, t, r)
      BY <2>4, <3>1, <3>2 DEF RootsOf
    <3> QED
      BY <2>4, <3>3
  <2>8. Linked(b) /\ Readable(b, s.stored)
    BY <2>1, <2>5, <2>6, <2>7, RemainsLinks
  <2> QED
    BY <2>3, <2>4, <2>8 DEF Whole, Intact, Lessens, a
<1>3. Lessens(s, s)
  BY DEF Lessens
<1> QED
  BY <1>1, <1>2, <1>3

\* _delete_superseded_revision_conn: no row and no plan needs the text.
LEMMA DropRevisionIsSafe ==
    ASSUME NEW s, Whole(s), NEW k, NEW young
    PROVE  LET e == DropRevision(s, k, young) IN Whole(e) /\ Lessens(s, e)
<1> DEFINE e == [s EXCEPT !.stored = @ \ {k}]
<1>1. \/ DropRevision(s, k, young) = s
      \/ ~IsNeeded(s, k[1], k[2]) /\ DropRevision(s, k, young) = e
  BY DEF DropRevision
<1>2. ASSUME ~IsNeeded(s, k[1], k[2]) PROVE Whole(e) /\ Lessens(s, e)
  <2>1. e.db = s.db /\ e.stored = s.stored \ {k} /\ DOMAIN e = {"db", "stored"}
    BY DEF Whole
  <2> HIDE DEF e
  <2>2. \A i \in DOMAIN s.db.outbox : <<s.db.outbox[i].turn, s.db.outbox[i].rev>> # k
    BY <1>2 DEF IsNeeded
  <2>3. \A q \in DOMAIN s.db.plans : <<s.db.plans[q].turn, s.db.plans[q].rev>> # k
    BY <1>2 DEF IsNeeded, PlansFor
  <2>4. Readable(s.db, s.stored \ {k})
    BY <2>2, <2>3 DEF Whole, Intact, Readable
  <2> QED
    BY <2>1, <2>4 DEF Whole, Intact, Lessens
<1>3. Lessens(s, s)
  BY DEF Lessens
<1> QED
  BY <1>1, <1>2, <1>3

\* It is the same plan, whatever it recovers.
Recalls(o, n) ==
    /\ n.turn = o.turn /\ n.rev = o.rev /\ n.sourced = o.sourced /\ n.jobs = o.jobs
    /\ n.parts = o.parts /\ n.activated = o.activated

\* The recovery that names a deleted plan is forgotten: nothing else changes.
LEMMA ForgetRecoveryIs ==
    ASSUME NEW st, Orderly(st), NEW q
    PROVE  LET e == ForgetRecovery(st, q)
           IN  /\ Orderly(e) /\ e.outbox = st.outbox /\ DOMAIN e.plans = DOMAIN st.plans
               /\ \A x \in DOMAIN st.plans : Recalls(st.plans[x], e.plans[x])
<1> DEFINE p == st.plans[q]
           same(x, g) == /\ x \in PlansFor(st, p.turn, p.rev)
                         /\ st.plans[x].ver = p.ver /\ st.plans[x].gen = g
           A(x) == p.recovers /\ same(x, p.gen - 1)
           B(x) == p.recovered /\ same(x, p.gen + 1)
           f(x) == CASE A(x) -> [st.plans[x] EXCEPT !.recovered = FALSE, !.staged = Len(st.plans[x].jobs)]
                     [] B(x) -> [st.plans[x] EXCEPT !.recovers = FALSE]
                     [] OTHER -> st.plans[x]
           e == ForgetRecovery(st, q)
<1>1. Shaped(st) /\ \A x \in DOMAIN st.plans : PlanFits(st.plans[x])
  BY OrderlyIsShaped DEF Orderly, StoreFits
<1>2. e = [st EXCEPT !.plans = [x \in DOMAIN st.plans |-> f(x)]]
  BY <1>1 DEF ForgetRecovery, Shaped
<1>3. \A x : \/ f(x) = [st.plans[x] EXCEPT !.recovered = FALSE, !.staged = Len(st.plans[x].jobs)]
             \/ f(x) = [st.plans[x] EXCEPT !.recovers = FALSE]
             \/ f(x) = st.plans[x]
  <2> SUFFICES ASSUME NEW x
               PROVE  \/ f(x) = [st.plans[x] EXCEPT !.recovered = FALSE, !.staged = Len(st.plans[x].jobs)]
                      \/ f(x) = [st.plans[x] EXCEPT !.recovers = FALSE]
                      \/ f(x) = st.plans[x]
    OBVIOUS
  <2> DEFINE n1 == [st.plans[x] EXCEPT !.recovered = FALSE, !.staged = Len(st.plans[x].jobs)]
             n2 == [st.plans[x] EXCEPT !.recovers = FALSE]
             n3 == st.plans[x]
  <2>1. f(x) = CASE A(x) -> n1 [] B(x) -> n2 [] OTHER -> n3
    OBVIOUS
  <2> HIDE DEF A, B, f, n1, n2, n3
  <2>2. f(x) = n1 \/ f(x) = n2 \/ f(x) = n3
    BY <2>1, Zenon
  <2> QED
    BY <2>2 DEF n1, n2, n3
<1> HIDE DEF e, f
<1>4. /\ DOMAIN e = {"outbox", "leases", "plans"} /\ e.outbox = st.outbox /\ e.leases = st.leases
      /\ DOMAIN e.plans = DOMAIN st.plans
      /\ \A x \in DOMAIN st.plans : e.plans[x] = f(x)
  BY <1>1, <1>2 DEF Shaped
<1>5. ASSUME NEW x \in DOMAIN st.plans
      PROVE  PlanFits(f(x)) /\ Recalls(st.plans[x], f(x))
  <2> DEFINE o  == st.plans[x]
             n1 == [o EXCEPT !.recovered = FALSE, !.staged = Len(o.jobs)]
             n2 == [o EXCEPT !.recovers = FALSE]
  <2>1. PlanFits(o) /\ (f(x) = n1 \/ f(x) = n2 \/ f(x) = o)
    BY <1>1, <1>3
  <2> HIDE DEF o
  <2>2. PlanFits(n1) /\ Recalls(o, n1)
    BY <2>1 DEF PlanFits, Recalls, PlanFields
  <2>3. PlanFits(n2) /\ Recalls(o, n2)
    BY <2>1 DEF PlanFits, Recalls, PlanFields
  <2>4. Recalls(o, o)
    BY DEF Recalls
  <2> HIDE DEF n1, n2
  <2> QED
    BY <2>1, <2>2, <2>3, <2>4 DEF o
<1>6. Orderly(e)
  BY <1>4, <1>5, PlansMove
<1> QED
  BY <1>4, <1>5, <1>6 DEF e

\* Plans go.
LEMMA DropPlansIs ==
    ASSUME NEW st, Orderly(st), NEW Q
    PROVE  LET e == DropPlans(st, Q)
           IN  /\ Orderly(e) /\ e.outbox = st.outbox /\ DOMAIN e.plans = DOMAIN st.plans \ Q
               /\ \A x \in DOMAIN e.plans : e.plans[x] = st.plans[x]
<1> DEFINE e == DropPlans(st, Q)
<1>1. DOMAIN st = {"outbox", "leases", "plans"} /\ \A x \in DOMAIN st.plans : PlanFits(st.plans[x])
  BY DEF Orderly, StoreFits
<1>2. /\ DOMAIN e = {"outbox", "leases", "plans"} /\ e.outbox = st.outbox /\ e.leases = st.leases
      /\ DOMAIN e.plans = DOMAIN st.plans \ Q
      /\ \A x \in DOMAIN e.plans : e.plans[x] = st.plans[x]
  BY <1>1 DEF DropPlans
<1> HIDE DEF e
<1>3. \A x \in DOMAIN e.plans : PlanFits(e.plans[x])
  BY <1>1, <1>2
<1>4. Orderly(e)
  BY <1>2, <1>3, PlansMove
<1> QED
  BY <1>2, <1>4 DEF e

\* The number of parts that a summary remembers is that of a plan.
LEMMA SummaryPartsIs ==
    ASSUME NEW s, Orderly(s.db), \E n \in Nat : DOMAIN s.db.plans \subseteq 1 .. n,
           NEW q \in DOMAIN s.db.plans, s.db.plans[q].activated
    PROVE  SummaryParts(s, q) \in 1 .. MaxParts
<1> DEFINE plans == s.db.plans
           B     == {x \in Siblings(s.db, q) : x < q /\ plans[x].state = "completed"}
           base  == Highest(B)
           N     == {plans[x].parts : x \in {x \in Siblings(s.db, q) : plans[x].activated /\ x >= base}}
<1>1. SummaryParts(s, q) = Max(N)
  BY DEF SummaryParts
<1>2. PICK n \in Nat : DOMAIN plans \subseteq 1 .. n
  OBVIOUS
<1>3. q \in 1 .. n /\ q \in Siblings(s.db, q) /\ Siblings(s.db, q) \subseteq DOMAIN plans
  BY <1>2 DEF Siblings
<1>4. B \subseteq 0 .. n /\ \A x \in B : x < q
  BY <1>2, <1>3
<1>5. base <= q
  <2> HIDE DEF B
  <2>1. CASE B = {}
    BY <1>3, <2>1 DEF Highest
  <2>2. CASE B # {}
    <3>1. Max(B) \in B
      BY <1>4, <2>2, GreatestOf
    <3>2. base = Max(B)
      BY <2>2 DEF Highest
    <3>3. Max(B) \in 0 .. n /\ Max(B) < q
      BY <1>4, <3>1
    <3> HIDE DEF base
    <3> QED
      BY <1>3, <1>4, <3>2, <3>3
  <2> QED
    BY <2>1, <2>2
<1>6. base \in 0 .. n
  BY <1>4, HighestIs
<1> HIDE DEF base
<1>7. q >= base
  BY <1>3, <1>5, <1>6
<1>8. N # {}
  BY <1>3, <1>7
<1>9. N \subseteq 1 .. MaxParts /\ N \subseteq 0 .. MaxParts
  <2>1. \A x \in DOMAIN plans : plans[x].parts \in 1 .. MaxParts
    BY DEF Orderly, StoreFits, PlanFits
  <2>2. N \subseteq 1 .. MaxParts
    BY <1>3, <2>1
  <2> HIDE DEF N
  <2> QED
    BY <2>2, DeliveryAssumption
<1> HIDE DEF N
<1>10. Max(N) \in N
  BY <1>8, <1>9, GreatestOf, DeliveryAssumption
<1> QED
  BY <1>1, <1>9, <1>10

\* A plan becomes a summary; older summaries go.
LEMMA SummarizedIs ==
    ASSUME NEW s, DOMAIN s = {"db", "stored"}, Orderly(s.db),
           \E n \in Nat : DOMAIN s.db.plans \subseteq 1 .. n,
           NEW q \in DOMAIN s.db.plans, s.db.plans[q].activated
    PROVE  LET e == Summarized(s, q)
           IN  /\ DOMAIN e = {"db", "stored"} /\ e.stored = s.stored
               /\ Orderly(e.db) /\ e.db.outbox = s.db.outbox
               /\ DOMAIN e.db.plans \subseteq DOMAIN s.db.plans
               /\ \A x \in DOMAIN e.db.plans : x # q => e.db.plans[x] = s.db.plans[x]
               /\ q \in DOMAIN e.db.plans =>
                      LET p == e.db.plans[q]
                      IN  /\ p.turn = s.db.plans[q].turn /\ p.rev = s.db.plans[q].rev
                          /\ p.sourced = FALSE /\ p.jobs = <<>>
<1> DEFINE a == s.db
           o == a.plans[q]
           n == [o EXCEPT !.sourced = FALSE, !.parts = SummaryParts(s, q), !.staged = 0, !.jobs = <<>>,
                          !.recovers = FALSE, !.recovered = FALSE]
           b == [a EXCEPT !.plans[q] = n]
           c == DropPlans(b, Collapsed(s, q))
           e == Summarized(s, q)
<1>1. e = [s EXCEPT !.db = c]
  BY DEF Summarized
<1>2. DOMAIN a = {"outbox", "leases", "plans"} /\ \A x \in DOMAIN a.plans : PlanFits(a.plans[x])
  BY DEF Orderly, StoreFits
<1>3. PlanFits(o) /\ SummaryParts(s, q) \in 1 .. MaxParts
  BY <1>2, SummaryPartsIs
<1>4. PlanFits(n) /\ n.turn = o.turn /\ n.rev = o.rev /\ n.sourced = FALSE /\ n.jobs = <<>>
  <2> HIDE DEF o
  <2>1. PlanFits(n) /\ n.turn = o.turn /\ n.rev = o.rev /\ n.sourced = FALSE /\ n.jobs = <<>>
    BY <1>3, EmptySeq DEF PlanFits, PlanFields
  <2> QED
    BY <2>1
<1> HIDE DEF n
<1>5. /\ DOMAIN b = {"outbox", "leases", "plans"} /\ b.outbox = a.outbox /\ b.leases = a.leases
      /\ DOMAIN b.plans = DOMAIN a.plans
      /\ \A x \in DOMAIN a.plans : b.plans[x] = IF x = q THEN n ELSE a.plans[x]
  BY <1>2
<1> HIDE DEF b
<1>6. \A x \in DOMAIN b.plans : PlanFits(b.plans[x])
  BY <1>2, <1>4, <1>5
<1>7. Orderly(b)
  BY <1>5, <1>6, PlansMove
<1>8. /\ Orderly(c) /\ c.outbox = b.outbox /\ DOMAIN c.plans \subseteq DOMAIN b.plans
      /\ \A x \in DOMAIN c.plans : c.plans[x] = b.plans[x]
  BY <1>7, DropPlansIs
<1> HIDE DEF c
<1>9. DOMAIN e = {"db", "stored"} /\ e.stored = s.stored /\ e.db = c
  BY <1>1
<1> HIDE DEF e
<1>10. /\ Orderly(c) /\ c.outbox = a.outbox /\ DOMAIN c.plans \subseteq DOMAIN a.plans
       /\ \A x \in DOMAIN c.plans : x # q => c.plans[x] = a.plans[x]
       /\ q \in DOMAIN c.plans => c.plans[q] = n
  BY <1>5, <1>8
<1> QED
  BY <1>4, <1>9, <1>10 DEF e

\* _delete_retained_plan_conn: a plan goes with its parts and its root, or becomes a
\* summary without them.
LEMMA DeletePlanIsSafe ==
    ASSUME NEW s, Whole(s), NEW q \in DOMAIN s.db.plans
    PROVE  LET e == DeletePlan(s, q) IN Whole(e) /\ Lessens(s, e)
<1> DEFINE a     == s.db
           p     == a.plans[q]
           young == AllowYoung(s, q)
           i     == Source(a, q)
           status == IF WasCompleted(p) THEN "delivered" ELSE "superseded"
           f     == ForgetRecovery(a, q)
           b     == DeleteRows(f, JobRows(p))
           s1    == [s EXCEPT !.db = b]
           s2    == IF RetainsSummary(s, q) THEN Summarized(s1, q)
                    ELSE [s1 EXCEPT !.db = DropPlans(@, {q})]
           s3    == IF p.sourced THEN DropRoot(s2, i, status, young) ELSE s2
           e     == DropRevision(s3, <<p.turn, p.rev>>, young)
<1>1. DeletePlan(s, q) = e
  BY DEF DeletePlan
<1>2. DOMAIN s = {"db", "stored"} /\ Orderly(a) /\ Linked(a) /\ Readable(a, s.stored)
  BY DEF Whole, Intact
<1>3. /\ \A x \in JobRows(p) : x \in DOMAIN a.outbox /\ a.outbox[x].kind = "part"
      /\ \A x \in DOMAIN a.plans \ {q} : JobRows(a.plans[x]) \cap JobRows(p) = {}
  BY <1>2 DEF Linked, IsPartOf
<1>4. p.sourced => i \in DOMAIN a.outbox /\ a.outbox[i].kind # "part"
  <2>1. p.sourced => RootsOf(a, p.turn, p.rev) # {}
    BY <1>2 DEF Linked
  <2>2. p.sourced => i \in RootsOf(a, p.turn, p.rev)
    BY <2>1 DEF Source, Root
  <2> HIDE DEF i, p
  <2> QED
    BY <2>2 DEF RootsOf
<1>5. RetainsSummary(s, q) => p.activated
  BY DEF RetainsSummary
<1> HIDE DEF young, i, status
<1>6. /\ Orderly(f) /\ f.outbox = a.outbox
      /\ DOMAIN f.plans = DOMAIN a.plans /\ \A x \in DOMAIN a.plans : Recalls(a.plans[x], f.plans[x])
      /\ f.plans[q].activated = p.activated
  BY <1>2, ForgetRecoveryIs DEF Recalls
<1> HIDE DEF f
<1>7. Linked(f) /\ Readable(f, s.stored)
  <2>1. Remains(a, f)
    BY <1>6 DEF Remains, Recalls, JobRows
  <2>2. \A x \in DOMAIN f.plans : /\ JobRows(f.plans[x]) \subseteq DOMAIN f.outbox
                                  /\ f.plans[x].sourced => RootsOf(f, f.plans[x].turn, f.plans[x].rev) # {}
    BY <1>2, <1>6 DEF Linked, IsPartOf, Recalls, JobRows, RootsOf
  <2> QED
    BY <1>2, <2>1, <2>2, RemainsLinks
<1>8. /\ DOMAIN f.plans = DOMAIN a.plans
      /\ \A x \in DOMAIN a.plans : JobRows(f.plans[x]) = JobRows(a.plans[x])
  BY <1>6 DEF Recalls, JobRows
<1>9. /\ Orderly(b) /\ b.plans = f.plans /\ DOMAIN b.outbox = DOMAIN f.outbox \ JobRows(p)
      /\ \A x \in DOMAIN b.outbox : b.outbox[x] = f.outbox[x]
  BY <1>6, DeleteRowsIs
<1> HIDE DEF b, p
<1>10. DOMAIN s1 = {"db", "stored"} /\ s1.db = b /\ s1.stored = s.stored
  BY <1>2
<1> HIDE DEF s1
<1> DEFINE d == s2.db
<1>11. /\ DOMAIN s2 = {"db", "stored"} /\ s2.stored = s.stored
       /\ Orderly(d) /\ d.outbox = b.outbox /\ DOMAIN d.plans \subseteq DOMAIN b.plans
       /\ \A x \in DOMAIN d.plans : x # q => d.plans[x] = b.plans[x]
       /\ q \in DOMAIN d.plans =>
              /\ d.plans[q].turn = b.plans[q].turn /\ d.plans[q].rev = b.plans[q].rev
              /\ d.plans[q].sourced = FALSE /\ d.plans[q].jobs = <<>>
  <2>1. CASE RetainsSummary(s, q)
    <3>1. q \in DOMAIN s1.db.plans /\ s1.db.plans[q].activated
      BY <1>5, <1>6, <1>8, <1>9, <1>10, <2>1 DEF p
    <3>2. \E n \in Nat : DOMAIN s1.db.plans \subseteq 1 .. n
      BY <1>7, <1>9, <1>10 DEF Linked
    <3> DEFINE w == Summarized(s1, q)
    <3>3. /\ DOMAIN w = {"db", "stored"} /\ w.stored = s1.stored
          /\ Orderly(w.db) /\ w.db.outbox = s1.db.outbox
          /\ DOMAIN w.db.plans \subseteq DOMAIN s1.db.plans
          /\ \A x \in DOMAIN w.db.plans : x # q => w.db.plans[x] = s1.db.plans[x]
          /\ q \in DOMAIN w.db.plans =>
                 /\ w.db.plans[q].turn = s1.db.plans[q].turn /\ w.db.plans[q].rev = s1.db.plans[q].rev
                 /\ w.db.plans[q].sourced = FALSE /\ w.db.plans[q].jobs = <<>>
      BY <1>9, <1>10, <3>1, <3>2, SummarizedIs
    <3>4. s2 = w
      BY <2>1
    <3> HIDE DEF w, s2
    <3> QED
      BY <1>10, <3>3, <3>4
  <2>2. CASE ~RetainsSummary(s, q)
    <3> DEFINE c == DropPlans(b, {q})
    <3>1. /\ Orderly(c) /\ c.outbox = b.outbox /\ DOMAIN c.plans = DOMAIN b.plans \ {q}
          /\ \A x \in DOMAIN c.plans : c.plans[x] = b.plans[x]
      BY <1>9, DropPlansIs
    <3> HIDE DEF c
    <3>2. s2 = [s1 EXCEPT !.db = c]
      BY <1>10, <2>2 DEF c
    <3> HIDE DEF s2
    <3>3. DOMAIN s2 = {"db", "stored"} /\ s2.db = c /\ s2.stored = s.stored
      BY <1>10, <3>2
    <3> QED
      BY <3>1, <3>3
  <2> QED
    BY <2>1, <2>2
<1> HIDE DEF s2
<1>12. \A x \in DOMAIN d.plans : x # q => JobRows(d.plans[x]) \cap JobRows(p) = {}
  BY <1>3, <1>8, <1>9, <1>11 DEF p
<1>13. q \in DOMAIN d.plans => JobRows(d.plans[q]) = {}
  BY <1>11 DEF JobRows
<1>14. Remains(f, d)
  <2>1. \A x \in DOMAIN d.plans : /\ d.plans[x].turn = f.plans[x].turn /\ d.plans[x].rev = f.plans[x].rev
                                  /\ JobRows(d.plans[x]) \subseteq JobRows(f.plans[x])
    BY <1>9, <1>11, <1>13
  <2> QED
    BY <1>9, <1>11, <2>1 DEF Remains
<1>15. \A x \in DOMAIN d.plans : JobRows(d.plans[x]) \subseteq DOMAIN d.outbox
  <2>1. \A x \in DOMAIN f.plans : JobRows(f.plans[x]) \subseteq DOMAIN f.outbox
    BY <1>7 DEF Linked, IsPartOf
  <2> QED
    BY <1>9, <1>11, <1>12, <1>13, <2>1
<1>16. \A t, r : RootsOf(d, t, r) = RootsOf(f, t, r)
  <2>1. \A x \in DOMAIN f.outbox \ DOMAIN d.outbox : f.outbox[x].kind = "part"
    BY <1>3, <1>6, <1>9, <1>11
  <2>2. DOMAIN d.outbox \subseteq DOMAIN f.outbox /\ \A x \in DOMAIN d.outbox : d.outbox[x] = f.outbox[x]
    BY <1>9, <1>11
  <2> HIDE DEF d
  <2> QED
    BY <2>1, <2>2, RootsStay
<1>17. ASSUME NEW x \in DOMAIN d.plans, d.plans[x].sourced
       PROVE  RootsOf(d, d.plans[x].turn, d.plans[x].rev) # {}
  <2>1. x # q /\ x \in DOMAIN f.plans /\ d.plans[x] = f.plans[x]
    BY <1>9, <1>11, <1>17
  <2>2. RootsOf(f, f.plans[x].turn, f.plans[x].rev) # {}
    BY <1>7, <1>17, <2>1 DEF Linked
  <2> QED
    BY <1>16, <2>1, <2>2
<1>18. Linked(d) /\ Readable(d, s.stored)
  <2> HIDE DEF d
  <2> QED
    BY <1>7, <1>14, <1>15, <1>17, RemainsLinks
<1>19. Whole(s2) /\ Lessens(s, s2)
  BY <1>6, <1>9, <1>11, <1>18 DEF Whole, Intact, Lessens
<1>20. p.sourced => i \in DOMAIN d.outbox /\ d.outbox[i].kind # "part"
  BY <1>3, <1>4, <1>6, <1>9, <1>11
<1> HIDE DEF d
<1>21. Whole(s3) /\ Lessens(s2, s3)
  <2>1. CASE p.sourced
    BY <1>19, <1>20, <2>1, DropRootIsSafe DEF d
  <2>2. CASE ~p.sourced
    BY <1>19, <2>2 DEF Lessens
  <2> QED
    BY <2>1, <2>2
<1> HIDE DEF s3
<1>22. Whole(e) /\ Lessens(s3, e)
  BY <1>21, DropRevisionIsSafe
<1> HIDE DEF e
<1>23. Lessens(s, e)
  BY <1>19, <1>21, <1>22 DEF Lessens
<1> QED
  BY <1>1, <1>22, <1>23

\* What a sweep does with a candidate, its turn in the batch having come
LEMMA SweepOneIsSafe ==
    ASSUME NEW s, Whole(s), Lessens(Store, s), NEW c \in ContentCandidates(Store)
    PROVE  Whole(SweepOne(s, c)) /\ Lessens(Store, SweepOne(s, c))
<1> DEFINE e == SweepOne(s, c)
<1>1. Lessens(s, s)
  BY DEF Lessens
<1>2. ASSUME NEW q, c = <<"plan", q>> PROVE Whole(e) /\ Lessens(s, e)
  <2>1. c[1] = "plan" /\ c[2] = q
    BY <1>2
  <2>2. e = IF q \in DOMAIN s.db.plans /\ PlanMayGo(s, q) THEN DeletePlan(s, q) ELSE s
    BY <2>1 DEF SweepOne
  <2> HIDE DEF e
  <2> QED
    BY <1>1, <2>2, DeletePlanIsSafe
<1>3. ASSUME NEW i, c = <<"source", i>>, i \in StaleRoots(Store) PROVE Whole(e) /\ Lessens(s, e)
  <2>1. c[1] = "source" /\ c[2] = i
    BY <1>3
  <2>2. e = IF i \in DOMAIN s.db.outbox THEN DropRoot(s, i, "superseded", FALSE) ELSE s
    BY <2>1 DEF SweepOne
  <2>3. i \in DOMAIN s.db.outbox => s.db.outbox[i].kind # "part"
    BY <1>3 DEF StaleRoots, Lessens
  <2> HIDE DEF e
  <2> QED
    BY <1>1, <2>2, <2>3, DropRootIsSafe
<1>4. ASSUME NEW k, c = <<"revision", k>> PROVE Whole(e) /\ Lessens(s, e)
  <2>1. c[1] = "revision" /\ c[2] = k
    BY <1>4
  <2>2. e = DropRevision(s, k, FALSE)
    BY <2>1 DEF SweepOne
  <2> HIDE DEF e
  <2> QED
    BY <2>2, DropRevisionIsSafe
<1>5. Whole(e) /\ Lessens(s, e)
  <2> HIDE DEF e
  <2> QED
    BY <1>2, <1>3, <1>4 DEF ContentCandidates
<1> HIDE DEF e
<1>6. Lessens(Store, e)
  BY <1>5 DEF Lessens
<1> QED
  BY <1>5, <1>6 DEF e

\* f carries the candidates of seq out, one by one, from w.
FoldsSweeps(f, w, seq, D) ==
    f = [s \in D |-> IF s = {} THEN w ELSE SweepOne(f[s \ {Max(s)}], seq[Max(s)])]

\* A sweep is the last value of a fold.
LEMMA SweepsFold ==
    ASSUME NEW w, NEW seq
    PROVE  FoldLeft(SweepOne, w, seq)
              = (CHOOSE f : FoldsSweeps(f, w, seq, SUBSET DOMAIN seq))[DOMAIN seq]
BY DEF FoldLeft, MapThenFoldSet, FoldsSweeps

\* The places up to the k-th have k as the last one, or end before it.
LEMMA LastPlace ==
    ASSUME NEW k \in Nat \ {0}, NEW s \in SUBSET (1 .. k), s # {}
    PROVE  /\ Max(s) \in s
           /\ s \in SUBSET (1 .. (k - 1)) => s \ {Max(s)} \in SUBSET (1 .. (k - 1))
           /\ s \notin SUBSET (1 .. (k - 1)) => Max(s) = k /\ s \ {k} \in SUBSET (1 .. (k - 1))
<1> DEFINE m == Max(s)
<1>1. s \subseteq 0 .. k
  OBVIOUS
<1>2. m \in s /\ \A y \in s : y <= m
  BY <1>1, GreatestOf
<1> HIDE DEF m
<1>3. s \notin SUBSET (1 .. (k - 1)) => k \in s
  OBVIOUS
<1>4. s \notin SUBSET (1 .. (k - 1)) => m = k
  BY <1>2, <1>3
<1>5. s \ {k} \in SUBSET (1 .. (k - 1))
  OBVIOUS
<1>6. \A x : s \in SUBSET (1 .. (k - 1)) => s \ {x} \in SUBSET (1 .. (k - 1))
  OBVIOUS
<1> QED
  BY <1>2, <1>4, <1>5, <1>6 DEF m

\* The equation of such a fold has a solution.
LEMMA SweepsExist ==
    ASSUME NEW w, NEW seq, NEW n \in Nat
    PROVE  \E f : FoldsSweeps(f, w, seq, SUBSET (1 .. n))
<1> DEFINE step(f, s) == IF s = {} THEN w ELSE SweepOne(f[s \ {Max(s)}], seq[Max(s)])
           Bad == {k \in Nat : ~ \E f : FoldsSweeps(f, w, seq, SUBSET (1 .. k))}
<1>1. Bad = {}
  <2> SUFFICES ASSUME Bad # {} PROVE FALSE
    OBVIOUS
  <2> DEFINE k == Min(Bad)
  <2>1. Bad \subseteq Nat
    OBVIOUS
  <2>2. k \in Bad /\ \A y \in Bad : k <= y
    <3> HIDE DEF Bad
    <3> QED
      BY <2>1, LeastOf
  <2> HIDE DEF k
  <2>3. k \in Nat
    BY <2>2
  <2>4. CASE k = 0
    <3> DEFINE f == [s \in SUBSET (1 .. 0) |-> w]
    <3>1. \A s \in SUBSET (1 .. 0) : s = {}
      OBVIOUS
    <3>2. f = [s \in SUBSET (1 .. 0) |-> step(f, s)]
      BY <3>1
    <3>3. FoldsSweeps(f, w, seq, SUBSET (1 .. 0))
      BY <3>2 DEF FoldsSweeps
    <3> QED
      BY <2>2, <2>4, <3>3
  <2>5. CASE k # 0
    <3>1. k - 1 \in Nat /\ k - 1 \notin Bad
      <4> HIDE DEF Bad
      <4> QED
        BY <2>2, <2>3, <2>5
    <3> DEFINE A == SUBSET (1 .. (k - 1))
               B == SUBSET (1 .. k)
    <3>2. PICK h : FoldsSweeps(h, w, seq, A)
      BY <3>1
    <3>3. A \subseteq B
      BY <2>3
    <3>4. ASSUME NEW s \in B, s # {} PROVE s \ {Max(s)} \in A
      <4>1. \/ s \in A /\ s \ {Max(s)} \in A
            \/ Max(s) = k /\ s \ {k} \in A
        BY <2>3, <2>5, <3>4, LastPlace
      <4> QED
        BY <4>1
    <3> DEFINE f == [s \in B |-> IF s \in A THEN h[s] ELSE step(h, s)]
    <3>5. \A s \in A : h[s] = step(h, s)
      BY <3>2 DEF FoldsSweeps
    <3> HIDE DEF A, B
    <3>6. \A s \in A : f[s] = h[s]
      BY <3>3
    <3>7. ASSUME NEW s \in B PROVE f[s] = step(f, s)
      <4>1. f[s] = step(h, s)
        BY <3>5
      <4>2. CASE s = {}
        BY <4>1, <4>2
      <4>3. CASE s # {}
        <5>1. f[s \ {Max(s)}] = h[s \ {Max(s)}]
          BY <3>4, <3>6, <4>3
        <5> HIDE DEF f
        <5> QED
          BY <4>1, <4>3, <5>1
      <4> QED
        BY <4>2, <4>3
    <3>8. f = [s \in B |-> step(f, s)]
      <4>1. f = [s \in B |-> f[s]]
        OBVIOUS
      <4> HIDE DEF f
      <4> QED
        BY <3>7, <4>1
    <3>9. FoldsSweeps(f, w, seq, SUBSET (1 .. k))
      BY <3>8 DEF FoldsSweeps, B
    <3> QED
      BY <2>2, <3>9
  <2> QED
    BY <2>4, <2>5
<1> QED
  BY <1>1

\* A sweep of any batch of candidates leaves a whole store.
LEMMA SweepsAreSafe ==
    ASSUME Whole(Store), NEW C, C = ContentCandidates(Store), NEW seq \in Seq(C)
    PROVE  LET s == FoldLeft(SweepOne, Store, seq) IN Whole(s) /\ Lessens(Store, s)
<1> DEFINE n   == Len(seq)
           sol == CHOOSE f : FoldsSweeps(f, Store, seq, SUBSET (1 .. n))
           Safe(x) == Whole(x) /\ Lessens(Store, x)
           Bad == {k \in 0 .. n : ~Safe(sol[1 .. k])}
<1>1. n \in Nat /\ DOMAIN seq = 1 .. n /\ \A k \in 1 .. n : seq[k] \in C
  OBVIOUS
<1>2. FoldLeft(SweepOne, Store, seq) = sol[1 .. n]
  BY <1>1, SweepsFold
<1> HIDE DEF n
<1>3. FoldsSweeps(sol, Store, seq, SUBSET (1 .. n))
  BY <1>1, SweepsExist
<1> HIDE DEF sol
<1>4. \A s \in SUBSET (1 .. n) :
          sol[s] = IF s = {} THEN Store ELSE SweepOne(sol[s \ {Max(s)}], seq[Max(s)])
  BY <1>3 DEF FoldsSweeps
<1>5. Safe(Store)
  BY DEF Lessens
<1>6. Bad = {}
  <2> SUFFICES ASSUME Bad # {} PROVE FALSE
    OBVIOUS
  <2> DEFINE k == Min(Bad)
  <2>1. Bad \subseteq Nat
    BY <1>1
  <2>2. k \in Bad /\ \A y \in Bad : k <= y
    <3> HIDE DEF Bad
    <3> QED
      BY <2>1, LeastOf
  <2> HIDE DEF k
  <2>3. k \in 0 .. n /\ ~Safe(sol[1 .. k])
    BY <2>2
  <2>4. CASE k = 0
    <3>1. 1 .. k = {} /\ 1 .. k \in SUBSET (1 .. n)
      BY <1>1, <2>4
    <3> HIDE DEF Safe
    <3> QED
      BY <1>4, <1>5, <2>3, <3>1
  <2>5. CASE k # 0
    <3> DEFINE s == 1 .. k
    <3>1. /\ k \in Nat \ {0} /\ k - 1 \in 0 .. n /\ k \in 1 .. n
          /\ s \in SUBSET (1 .. n) /\ s # {} /\ k \in s
      <4>1. k \in 0 .. n
        BY <2>3
      <4> HIDE DEF Bad, Safe
      <4>2. k \in Nat \ {0} /\ k - 1 \in 0 .. n /\ k \in 1 .. n
        BY <1>1, <2>5, <4>1
      <4>3. k \in s /\ \A y \in s : y \in 1 .. n
        BY <1>1, <4>2
      <4> QED
        BY <4>2, <4>3
    <3>2. Max(s) = k
      <4>1. s \in SUBSET (1 .. k) /\ s \notin SUBSET (1 .. (k - 1))
        BY <3>1
      <4> HIDE DEF s
      <4> QED
        BY <3>1, <4>1, LastPlace
    <3>3. s \ {k} = 1 .. (k - 1)
      BY <3>1
    <3>4. sol[s] = SweepOne(sol[1 .. (k - 1)], seq[k])
      <4> HIDE DEF s
      <4> QED
        BY <1>4, <3>1, <3>2, <3>3
    <3>5. k - 1 \notin Bad
      <4> HIDE DEF Bad
      <4> QED
        BY <2>2, <3>1
    <3>6. Safe(sol[1 .. (k - 1)])
      BY <3>1, <3>5
    <3> DEFINE x == sol[1 .. (k - 1)]
    <3> HIDE DEF x
    <3>7. Whole(x) /\ Lessens(Store, x)
      BY <3>6 DEF x
    <3>8. Safe(SweepOne(x, seq[k]))
      BY <1>1, <3>1, <3>7, SweepOneIsSafe
    <3> QED
      BY <2>3, <3>4, <3>8 DEF x
  <2> QED
    BY <2>4, <2>5
<1>7. n \in 0 .. n
  BY <1>1
<1>8. Safe(sol[1 .. n])
  BY <1>6, <1>7
<1> QED
  BY <1>2, <1>8

\* Tags leave a finite set finite.
LEMMA TaggedFinite ==
    ASSUME NEW S, IsFiniteSet(S), NEW k
    PROVE  IsFiniteSet({<<k, x>> : x \in S})
<1> DEFINE T == {<<k, x>> : x \in S}
           f == [x \in S |-> <<k, x>>]
<1>1. f \in Surjection(S, T)
  <2>1. f \in [S -> T] /\ \A y \in T : \E x \in S : f[x] = y
    OBVIOUS
  <2> HIDE DEF f, T
  <2> QED
    BY <2>1 DEF Surjection
<1> HIDE DEF f, T
<1>2. IsFiniteSet(T)
  BY <1>1, FS_Surjection
<1> QED
  BY <1>2 DEF T

\* There are finitely many candidates.
LEMMA CandidatesFinite ==
    ASSUME Whole(Store), IsFiniteSet(stored)
    PROVE  IsFiniteSet(ContentCandidates(Store))
<1>1. IsFiniteSet(DOMAIN db.plans) /\ IsFiniteSet(DOMAIN db.outbox)
  <2>1. PICK m \in Nat : DOMAIN db.plans \subseteq 1 .. m
    BY DEF Whole, Store, Intact, Linked
  <2>2. PICK n \in Nat : DOMAIN db.outbox \subseteq 1 .. n
    BY DEF Whole, Store, Orderly, StoreFits
  <2>3. IsFiniteSet(1 .. m) /\ IsFiniteSet(1 .. n)
    BY FS_Interval
  <2> QED
    BY <2>1, <2>2, <2>3, FS_Subset
<1> DEFINE P == LoosePlans(Store) \cup ReplacedPlans(Store) \cup ShownPlans(Store)
           R == StaleRoots(Store)
           K == StaleRevisions(Store)
<1>2. P \subseteq DOMAIN db.plans /\ R \subseteq DOMAIN db.outbox /\ K \subseteq stored
  BY DEF LoosePlans, ReplacedPlans, ShownPlans, StaleRoots, StaleRevisions, Store
<1>3. ContentCandidates(Store) = {<<"plan", q>> : q \in P} \cup {<<"source", i>> : i \in R}
                                     \cup {<<"revision", k>> : k \in K}
  BY DEF ContentCandidates
<1> HIDE DEF P, R, K
<1>4. IsFiniteSet(P) /\ IsFiniteSet(R) /\ IsFiniteSet(K)
  BY <1>1, <1>2, FS_Subset
<1> DEFINE A == {<<"plan", q>> : q \in P}
           B == {<<"source", i>> : i \in R}
           C == {<<"revision", k>> : k \in K}
<1>5. IsFiniteSet(A) /\ IsFiniteSet(B) /\ IsFiniteSet(C)
  BY <1>4, TaggedFinite
<1>6. ContentCandidates(Store) = A \cup B \cup C
  BY <1>3
<1> HIDE DEF A, B, C
<1> QED
  BY <1>5, <1>6, FS_Union

\* cleanup_turn_content_retention
LEMMA CleanupContentIsSafe ==
    ASSUME Whole(Store), IsFiniteSet(stored), CleanupContent
    PROVE  /\ Orderly(db') /\ Intact(db', stored') /\ stored' \subseteq stored
           /\ \A i \in DOMAIN db'.outbox : i \in DOMAIN db.outbox /\ db'.outbox[i] = db.outbox[i]
<1> DEFINE C == ContentCandidates(Store)
<1>1. PICK order \in SetToSeqs(C) :
         LET s == FoldLeft(SweepOne, Store, SubSeq(order, 1, Min({Batch, Len(order)})))
         IN  db' = s.db /\ stored' = s.stored
  BY DEF CleanupContent
<1>2. IsFiniteSet(C)
  BY CandidatesFinite
<1> HIDE DEF C
<1>3. order \in Seq(C)
  <2>1. Cardinality(C) \in Nat
    BY <1>2, FS_CardinalityType
  <2>2. order \in [1 .. Cardinality(C) -> C]
    BY DEF SetToSeqs
  <2> QED
    BY <2>1, <2>2
<1> DEFINE n == Len(order)
           m == Min({Batch, n})
           seq == SubSeq(order, 1, m)
           s == FoldLeft(SweepOne, Store, seq)
<1>4. n \in Nat /\ m \in 0 .. n
  <2>1. n \in Nat /\ Batch \in Nat
    BY <1>3, RetentionAssumption
  <2>2. {Batch, n} \subseteq Nat /\ {Batch, n} # {} /\ n \in {Batch, n}
    BY <2>1
  <2>3. m \in {Batch, n} /\ m <= n
    BY <2>2, LeastOf
  <2> HIDE DEF m, n
  <2> QED
    BY <2>1, <2>3
<1>5. seq \in Seq(C)
  <2> HIDE DEF m
  <2> QED
    BY <1>3, <1>4, SubSeqProperties
<1>6. db' = s.db /\ stored' = s.stored
  BY <1>1
<1> HIDE DEF seq
<1>7. Whole(s) /\ Lessens(Store, s)
  BY <1>5, SweepsAreSafe DEF C
<1> HIDE DEF s
<1> QED
  BY <1>6, <1>7 DEF Whole, Lessens, Store

\* cleanup_acknowledged_final_retention: turns go as a whole.
LEMMA CleanupAcknowledgedIsSafe ==
    ASSUME Orderly(db), Intact(db, stored), CleanupAcknowledged
    PROVE  /\ Orderly(db') /\ Intact(db', stored') /\ stored' \subseteq stored
           /\ \A i \in DOMAIN db'.outbox : i \in DOMAIN db.outbox /\ db'.outbox[i] = db.outbox[i]
<1>1. PICK T : db' = ForgetTurns(db, T) /\ stored' = {k \in stored : k[1] \notin T}
  BY DEF CleanupAcknowledged
<1> DEFINE I == {i \in DOMAIN db.outbox : db.outbox[i].turn \in T}
           Q == {q \in DOMAIN db.plans : db.plans[q].turn \in T}
           a == DeleteRows(db, I)
           b == DropPlans(a, Q)
<1>2. db' = b
  BY <1>1 DEF ForgetTurns
<1>3. /\ \A i \in I : db.outbox[i].turn \in T
      /\ \A i \in DOMAIN db.outbox \ I : db.outbox[i].turn \notin T
      /\ \A q \in DOMAIN db.plans \ Q : db.plans[q].turn \notin T
  OBVIOUS
<1> HIDE DEF I, Q
<1>4. /\ Orderly(a) /\ a.plans = db.plans /\ DOMAIN a.outbox = DOMAIN db.outbox \ I
      /\ \A i \in DOMAIN a.outbox : a.outbox[i] = db.outbox[i]
  BY DeleteRowsIs
<1> HIDE DEF a
<1>5. /\ Orderly(b) /\ b.outbox = a.outbox /\ DOMAIN b.plans = DOMAIN a.plans \ Q
      /\ \A q \in DOMAIN b.plans : b.plans[q] = a.plans[q]
  BY <1>4, DropPlansIs
<1> HIDE DEF b
<1>6. Remains(db, b)
  BY <1>4, <1>5 DEF Remains
<1>7. \A q \in DOMAIN b.plans : q \in DOMAIN db.plans /\ b.plans[q] = db.plans[q] /\ b.plans[q].turn \notin T
  BY <1>3, <1>4, <1>5
<1>8. Linked(db) /\ Readable(db, stored)
  BY DEF Intact
<1>9. ASSUME NEW q \in DOMAIN b.plans PROVE JobRows(b.plans[q]) \subseteq DOMAIN b.outbox
  <2>1. \A i \in JobRows(db.plans[q]) : i \in DOMAIN db.outbox /\ db.outbox[i].turn = db.plans[q].turn
    BY <1>7, <1>8, <1>9 DEF Linked, IsPartOf
  <2>2. \A i \in JobRows(b.plans[q]) : i \in DOMAIN db.outbox /\ db.outbox[i].turn \notin T
    BY <1>7, <1>9, <2>1
  <2> QED
    BY <1>3, <1>4, <1>5, <2>2
<1>10. ASSUME NEW q \in DOMAIN b.plans, b.plans[q].sourced
       PROVE  RootsOf(b, b.plans[q].turn, b.plans[q].rev) # {}
  <2> DEFINE t == b.plans[q].turn
             r == b.plans[q].rev
  <2>1. q \in DOMAIN db.plans /\ b.plans[q] = db.plans[q] /\ t \notin T
    BY <1>7, <1>10
  <2>2. RootsOf(db, t, r) # {}
    BY <1>8, <1>10, <2>1 DEF Linked
  <2>3. RootsOf(db, t, r) \subseteq RootsOf(b, t, r)
    BY <1>3, <1>4, <1>5, <2>1 DEF RootsOf
  <2> QED
    BY <2>2, <2>3
<1>11. Linked(b)
  BY <1>6, <1>8, <1>9, <1>10, RemainsLinks
<1>12. Readable(b, stored')
  BY <1>1, <1>3, <1>4, <1>5, <1>7, <1>8 DEF Readable
<1> QED
  BY <1>1, <1>2, <1>4, <1>5, <1>11, <1>12 DEF Intact

-----------------------------------------------------------------------------
(* How plans descend from each other                                       *)

Open == {"preparing", "waiting_predecessor", "active", "failed"}

\* Plans of one cut of one revision; their generations tell them apart.
Akin(p, x) == p.turn = x.turn /\ p.rev = x.rev /\ p.ver = x.ver

\* A revision has one root.
Rooted(st) ==
    /\ \A i, j \in DOMAIN st.outbox :
          /\ st.outbox[i].kind # "part" /\ st.outbox[j].kind # "part"
          /\ st.outbox[i].turn = st.outbox[j].turn /\ st.outbox[i].rev = st.outbox[j].rev
          => i = j
    /\ \A i \in DOMAIN st.outbox : st.outbox[i].kind # "part" => st.outbox[i].gen \in Nat \ {0}

\* A version that is planned with a ref and without one
Shared(v) == v \in Versions \cap FreeVersions

\* Any other version is planned in one way.
Keyed(st) ==
    /\ \A q \in DOMAIN st.plans :
          /\ st.plans[q].gen \in Nat \ {0}
          /\ ~Shared(st.plans[q].ver) => (st.plans[q].sourced <=> st.plans[q].ver \in Versions)
    /\ \A q, x \in DOMAIN st.plans :
          Akin(st.plans[q], st.plans[x]) /\ st.plans[q].gen = st.plans[x].gen => q = x

\* A plan recovers one of the generation before, which is kept; any other plan is
\* of a generation that its root has reached.
Descends(st) ==
    \A q \in DOMAIN st.plans :
        LET p == st.plans[q] IN
        /\ p.recovers => \E x \in DOMAIN st.plans :
               Akin(p, st.plans[x]) /\ st.plans[x].gen + 1 = p.gen /\ st.plans[x].recovered
        /\ p.recovered => p.state = "superseded"
        /\ ~p.recovers => IF p.sourced THEN \A i \in RootsOf(st, p.turn, p.rev) : p.gen <= st.outbox[i].gen
                                       ELSE p.gen = 1

\* The parts of a later generation are later parts, unless generations of plans with
\* a ref and without one mix.
GensInOrder(st) ==
    \A q, x \in DOMAIN st.plans :
        /\ Akin(st.plans[q], st.plans[x]) /\ st.plans[q].gen < st.plans[x].gen
        /\ ~Shared(st.plans[q].ver)
        => \A i \in JobRows(st.plans[q]), j \in JobRows(st.plans[x]) : i < j

\* Before a part that was ever attempted every part of its stream is closed.
PartsTried(st) ==
    \A i, j \in DOMAIN st.outbox :
        /\ st.outbox[i].kind = "part" /\ st.outbox[i].used # 0
        /\ st.outbox[j].kind = "part" /\ Same(st, i, j) /\ j < i
        => st.outbox[j].status \in Terminal

InDescent(st) == Rooted(st) /\ Keyed(st) /\ Descends(st) /\ GensInOrder(st) /\ PartsTried(st)

\* A plan is prepared for the generation of its root.
FreshPlan(st, q) ==
    LET p == st.plans[q] IN
    p.state = "preparing" =>
        /\ JobRows(p) = {} /\ ~p.recovers
        /\ p.sourced => \A i \in RootsOf(st, p.turn, p.rev) :
               st.outbox[i].status # "awaiting_ack" /\ st.outbox[i].gen = p.gen
AllFresh(st) == \A q \in DOMAIN st.plans : FreshPlan(st, q)

\* Plans that are not done are of the final that the turn has now.
OneText(st, cur) ==
    \A q \in DOMAIN st.plans : st.plans[q].state \in Open =>
        /\ cur[st.plans[q].turn] \in Finals => st.plans[q].rev = cur[st.plans[q].turn]
        /\ \A x \in DOMAIN st.plans :
              st.plans[x].state \in Open /\ st.plans[x].turn = st.plans[q].turn
                  => st.plans[x].rev = st.plans[q].rev

\* A part of another plan of the turn is leased.
Justified(st, q) ==
    \E x \in DOMAIN st.plans \ {q} :
        /\ st.plans[x].turn = st.plans[q].turn
        /\ \E i \in JobRows(st.plans[x]) : st.outbox[i].status = "leased"

\* A plan of a shared version was recovered, and may have been what others waited for.
Excused(st, t) ==
    \E x \in DOMAIN st.plans :
        st.plans[x].turn = t /\ st.plans[x].recovered /\ Shared(st.plans[x].ver)

MayWait(st, q) == Justified(st, q) \/ Excused(st, st.plans[q].turn)
Waits(st) ==
    \A q \in DOMAIN st.plans : st.plans[q].state = "waiting_predecessor" => MayWait(st, q)

Sound(st, cur) == InDescent(st) /\ AllFresh(st) /\ OneText(st, cur) /\ Waits(st)

-----------------------------------------------------------------------------
(* What most steps of a transaction do to rows and plans                   *)

RowGoes(o, n) ==
    /\ o.kind = "part" /\ o.status \in Terminal => n.status \in Terminal
    /\ n.status = "awaiting_ack" => o.status = "awaiting_ack"
    /\ \/ n.gen = o.gen
       \/ o.status = "awaiting_ack" /\ o.gen \in Nat /\ n.gen \in Nat /\ o.gen <= n.gen

PlanGoes(p, n) ==
    \/ n.state = p.state
    \/ n.state = "superseded"
    \/ /\ p.state \in {"waiting_predecessor", "active", "failed"}
       /\ n.state \in {"active", "failed", "completed"}

Goes(a, b) ==
    /\ Alike(a, b)
    /\ \A i \in DOMAIN a.outbox : RowGoes(a.outbox[i], b.outbox[i])
    /\ \A q \in DOMAIN a.plans : PlanGoes(a.plans[q], b.plans[q])

\* No part is attempted.
Moves(a, b) ==
    /\ Goes(a, b)
    /\ \A i \in DOMAIN a.outbox :
          a.outbox[i].kind = "part" /\ b.outbox[i].used # 0 => a.outbox[i].used # 0

\* Two such steps are one.
LEMMA GoesTwice ==
    ASSUME NEW a, NEW b, NEW c, Goes(a, b), Goes(b, c)
    PROVE  Goes(a, c)
<1>1. Alike(a, c)
  BY AlikeTwice DEF Goes
<1>2. ASSUME NEW o, NEW m, NEW n, o.kind = "part" <=> m.kind = "part", RowGoes(o, m), RowGoes(m, n)
      PROVE  RowGoes(o, n)
  BY <1>2 DEF RowGoes
<1>3. \A i \in DOMAIN a.outbox : RowGoes(a.outbox[i], c.outbox[i])
  BY <1>2 DEF Goes, Alike, RowStays
<1>4. ASSUME NEW o, NEW m, NEW n, PlanGoes(o, m), PlanGoes(m, n)
      PROVE  PlanGoes(o, n)
  BY <1>4 DEF PlanGoes
<1>5. \A q \in DOMAIN a.plans : PlanGoes(a.plans[q], c.plans[q])
  BY <1>4 DEF Goes, Alike
<1> QED
  BY <1>1, <1>3, <1>5 DEF Goes

\* also when nothing is attempted
LEMMA MovesTwice ==
    ASSUME NEW a, NEW b, NEW c, Moves(a, b), Moves(b, c)
    PROVE  Moves(a, c)
<1>1. Goes(a, c)
  BY GoesTwice DEF Moves
<1>2. \A i \in DOMAIN a.outbox :
          a.outbox[i].kind = "part" /\ c.outbox[i].used # 0 => a.outbox[i].used # 0
  BY DEF Moves, Goes, Alike, RowStays
<1> QED
  BY <1>1, <1>2 DEF Moves

\* A store that does not change
LEMMA MovesSelf ==
    ASSUME NEW a, Shaped(a)
    PROVE  Moves(a, a)
BY AlikeSelf DEF Moves, Goes, RowGoes, PlanGoes

\* Such steps keep the descent of the plans.
LEMMA GoesLineage ==
    ASSUME NEW a, NEW b, Goes(a, b), InDescent(a), Orderly(b),
           \A i \in DOMAIN a.outbox :
               a.outbox[i].kind = "part" /\ b.outbox[i].used # 0
                   => a.outbox[i].used # 0 \/ b.outbox[i].status = "leased"
    PROVE  InDescent(b)
<1>1. /\ DOMAIN b.outbox = DOMAIN a.outbox /\ DOMAIN b.plans = DOMAIN a.plans
      /\ \A i \in DOMAIN a.outbox : RowStays(a.outbox[i], b.outbox[i]) /\ RowGoes(a.outbox[i], b.outbox[i])
      /\ \A q \in DOMAIN a.plans : PlanStays(a.plans[q], b.plans[q]) /\ PlanGoes(a.plans[q], b.plans[q])
  BY DEF Goes, Alike
<1>2. \A q \in DOMAIN a.plans : JobRows(b.plans[q]) = JobRows(a.plans[q])
  BY <1>1 DEF PlanStays, JobRows
<1>3. \A t, r : RootsOf(b, t, r) = RootsOf(a, t, r)
  BY <1>1 DEF RowStays, RootsOf
<1>4. \A q, x \in DOMAIN a.plans : Akin(b.plans[q], b.plans[x]) <=> Akin(a.plans[q], a.plans[x])
  BY <1>1 DEF PlanStays, Akin
<1>5. Rooted(b)
  BY <1>1 DEF InDescent, Rooted, RowStays, RowGoes
<1>6. Keyed(b)
  BY <1>1, <1>4 DEF InDescent, Keyed, PlanStays
<1>7. Descends(b)
  <2> SUFFICES ASSUME NEW q \in DOMAIN b.plans
               PROVE  LET n == b.plans[q] IN
                      /\ n.recovers => \E x \in DOMAIN b.plans :
                             Akin(n, b.plans[x]) /\ b.plans[x].gen + 1 = n.gen /\ b.plans[x].recovered
                      /\ n.recovered => n.state = "superseded"
                      /\ ~n.recovers => IF n.sourced THEN \A i \in RootsOf(b, n.turn, n.rev) : n.gen <= b.outbox[i].gen
                                                     ELSE n.gen = 1
    BY DEF Descends
  <2> DEFINE p == a.plans[q]
             n == b.plans[q]
  <2>1. /\ p.recovers => \E x \in DOMAIN a.plans :
               Akin(p, a.plans[x]) /\ a.plans[x].gen + 1 = p.gen /\ a.plans[x].recovered
        /\ p.recovered => p.state = "superseded"
        /\ ~p.recovers => IF p.sourced THEN \A i \in RootsOf(a, p.turn, p.rev) : p.gen <= a.outbox[i].gen
                                       ELSE p.gen = 1
    BY <1>1 DEF InDescent, Descends
  <2>2. PlanStays(p, n) /\ PlanGoes(p, n) /\ p.gen \in Nat
    BY <1>1 DEF InDescent, Keyed
  <2>3. n.recovers => \E x \in DOMAIN b.plans :
            Akin(n, b.plans[x]) /\ b.plans[x].gen + 1 = n.gen /\ b.plans[x].recovered
    <3> SUFFICES ASSUME n.recovers
                 PROVE  \E x \in DOMAIN b.plans :
                            Akin(n, b.plans[x]) /\ b.plans[x].gen + 1 = n.gen /\ b.plans[x].recovered
      OBVIOUS
    <3>1. PICK x \in DOMAIN a.plans :
              Akin(p, a.plans[x]) /\ a.plans[x].gen + 1 = p.gen /\ a.plans[x].recovered
      BY <2>1, <2>2 DEF PlanStays
    <3>2. PlanStays(a.plans[x], b.plans[x]) /\ Akin(n, b.plans[x])
      BY <1>1, <1>4, <3>1
    <3> QED
      BY <1>1, <2>2, <3>1, <3>2 DEF PlanStays
  <2>4. n.recovered => n.state = "superseded"
    BY <2>1, <2>2 DEF PlanStays, PlanGoes
  <2>5. \A i \in RootsOf(a, p.turn, p.rev) : p.gen <= a.outbox[i].gen => p.gen <= b.outbox[i].gen
    <3> SUFFICES ASSUME NEW i \in RootsOf(a, p.turn, p.rev), p.gen <= a.outbox[i].gen
                 PROVE  p.gen <= b.outbox[i].gen
      OBVIOUS
    <3>1. RowGoes(a.outbox[i], b.outbox[i])
      BY <1>1 DEF RootsOf
    <3> HIDE DEF p
    <3> QED
      BY <2>2, <3>1 DEF RowGoes
  <2>6. ~n.recovers => IF n.sourced THEN \A i \in RootsOf(b, n.turn, n.rev) : n.gen <= b.outbox[i].gen
                                    ELSE n.gen = 1
    <3>1. /\ n.recovers = p.recovers /\ n.sourced = p.sourced /\ n.turn = p.turn /\ n.rev = p.rev
          /\ n.gen = p.gen
      BY <2>2 DEF PlanStays
    <3> HIDE DEF n, p
    <3> QED
      BY <1>3, <2>1, <2>5, <3>1
  <2> QED
    BY <2>3, <2>4, <2>6
<1>8. GensInOrder(b)
  <2>1. \A q \in DOMAIN a.plans : b.plans[q].gen = a.plans[q].gen /\ b.plans[q].ver = a.plans[q].ver
    BY <1>1 DEF PlanStays
  <2> QED
    BY <1>1, <1>2, <1>4, <2>1 DEF InDescent, GensInOrder
<1>9. PartsTried(b)
  <2> SUFFICES ASSUME NEW i \in DOMAIN b.outbox, NEW j \in DOMAIN b.outbox,
                      b.outbox[i].kind = "part", b.outbox[i].used # 0,
                      b.outbox[j].kind = "part", Same(b, i, j), j < i
               PROVE  b.outbox[j].status \in Terminal
    BY DEF PartsTried
  <2>1. a.outbox[i].kind = "part" /\ a.outbox[j].kind = "part" /\ Same(a, i, j)
    BY <1>1 DEF RowStays, Same
  <2>2. CASE a.outbox[i].used # 0
    BY <1>1, <2>1, <2>2 DEF InDescent, PartsTried, RowGoes
  <2>3. CASE b.outbox[i].status = "leased"
    BY <2>3 DEF Orderly, PartsInOrder
  <2> QED
    BY <1>1, <2>1, <2>2, <2>3
<1> QED
  BY <1>5, <1>6, <1>7, <1>8, <1>9 DEF InDescent

\* They keep a plan that is prepared fresh.
LEMMA GoesFresh ==
    ASSUME NEW a, NEW b, Goes(a, b), NEW q \in DOMAIN a.plans, FreshPlan(a, q)
    PROVE  FreshPlan(b, q)
<1> DEFINE p == a.plans[q]
           n == b.plans[q]
<1>1. PlanStays(p, n) /\ PlanGoes(p, n)
  BY DEF Goes, Alike
<1>2. RootsOf(b, n.turn, n.rev) = RootsOf(a, p.turn, p.rev)
  BY <1>1 DEF Goes, Alike, RowStays, PlanStays, RootsOf
<1>3. JobRows(n) = JobRows(p) /\ n.recovers = p.recovers /\ n.sourced = p.sourced /\ n.gen = p.gen
  BY <1>1 DEF PlanStays, JobRows
<1>4. n.state = "preparing" => p.state = "preparing"
  BY <1>1 DEF PlanGoes
<1>5. \A i \in RootsOf(a, p.turn, p.rev) : RowGoes(a.outbox[i], b.outbox[i])
  BY DEF Goes, RootsOf
<1>6. ASSUME n.state = "preparing", p.sourced, NEW i \in RootsOf(a, p.turn, p.rev)
      PROVE  b.outbox[i].status # "awaiting_ack" /\ b.outbox[i].gen = p.gen
  BY <1>4, <1>5, <1>6 DEF FreshPlan, RowGoes
<1>7. n.state = "preparing" => JobRows(p) = {} /\ ~p.recovers
  BY <1>4 DEF FreshPlan
<1> QED
  BY <1>2, <1>3, <1>6, <1>7 DEF FreshPlan

\* They begin no plan.
LEMMA GoesText ==
    ASSUME NEW a, NEW b, Goes(a, b), NEW cur, OneText(a, cur)
    PROVE  OneText(b, cur)
<1>1. /\ DOMAIN b.plans = DOMAIN a.plans
      /\ \A q \in DOMAIN a.plans : PlanStays(a.plans[q], b.plans[q]) /\ PlanGoes(a.plans[q], b.plans[q])
  BY DEF Goes, Alike
<1>2. \A q \in DOMAIN a.plans :
         /\ b.plans[q].turn = a.plans[q].turn /\ b.plans[q].rev = a.plans[q].rev
         /\ b.plans[q].state \in Open => a.plans[q].state \in Open
  BY <1>1 DEF PlanStays, PlanGoes, Open
<1> QED
  BY <1>1, <1>2 DEF OneText

\* What was recovered excuses a wait as long as it is kept.
LEMMA ExcuseStays ==
    ASSUME NEW a, NEW b, NEW t, Excused(a, t),
           \A x \in DOMAIN a.plans : a.plans[x].recovered =>
               /\ x \in DOMAIN b.plans /\ b.plans[x].recovered
               /\ b.plans[x].turn = a.plans[x].turn /\ b.plans[x].ver = a.plans[x].ver
    PROVE  Excused(b, t)
BY DEF Excused

\* A plan may wait as long as what is leased stays leased.
LEMMA WaitsStay ==
    ASSUME NEW a, NEW b, Goes(a, b), Waits(a),
           \A x \in DOMAIN a.plans : \A i \in JobRows(a.plans[x]) :
               a.outbox[i].status = "leased" => b.outbox[i].status = "leased"
    PROVE  Waits(b)
<1>1. /\ DOMAIN b.plans = DOMAIN a.plans
      /\ \A q \in DOMAIN a.plans : PlanStays(a.plans[q], b.plans[q]) /\ PlanGoes(a.plans[q], b.plans[q])
  BY DEF Goes, Alike
<1>2. \A q \in DOMAIN a.plans :
         /\ b.plans[q].turn = a.plans[q].turn /\ JobRows(b.plans[q]) = JobRows(a.plans[q])
         /\ b.plans[q].state = "waiting_predecessor" => a.plans[q].state = "waiting_predecessor"
         /\ b.plans[q].recovered = a.plans[q].recovered /\ b.plans[q].ver = a.plans[q].ver
  BY <1>1 DEF PlanStays, PlanGoes, JobRows
<1>3. \A q \in DOMAIN a.plans : Justified(a, q) => Justified(b, q)
  BY <1>1, <1>2 DEF Justified
<1>4. \A t : Excused(a, t) => Excused(b, t)
  BY <1>1, <1>2, ExcuseStays
<1> QED
  BY <1>1, <1>2, <1>3, <1>4 DEF Waits, MayWait

Steady(a, b) == Moves(a, b) /\ (Waits(a) => Waits(b))

\* All in all
LEMMA SteadySound ==
    ASSUME NEW a, NEW b, Steady(a, b), Orderly(b), NEW cur, Sound(a, cur)
    PROVE  Sound(b, cur)
<1>1. Goes(a, b) /\ DOMAIN b.plans = DOMAIN a.plans
  BY DEF Steady, Moves, Goes, Alike
<1>2. InDescent(b)
  BY <1>1, GoesLineage DEF Steady, Moves, Sound
<1>3. AllFresh(b)
  BY <1>1, GoesFresh DEF Sound, AllFresh
<1> QED
  BY <1>1, <1>2, <1>3, GoesText DEF Sound, Steady

\* Rows change.
LEMMA RowsGo ==
    ASSUME NEW a, Shaped(a), NEW b, DOMAIN b = {"outbox", "leases", "plans"},
           b.plans = a.plans, DOMAIN b.outbox = DOMAIN a.outbox,
           \A i \in DOMAIN a.outbox :
               \/ b.outbox[i] = a.outbox[i]
               \/ /\ RowStays(a.outbox[i], b.outbox[i]) /\ RowGoes(a.outbox[i], b.outbox[i])
                  /\ a.outbox[i].kind = "part" /\ b.outbox[i].used # 0 => a.outbox[i].used # 0
    PROVE  Moves(a, b)
<1>1. Alike(a, b)
  BY RowsAlike
<1>2. \A i \in DOMAIN a.outbox : RowGoes(a.outbox[i], b.outbox[i])
  BY DEF RowGoes
<1> QED
  BY <1>1, <1>2 DEF Moves, Goes, PlanGoes

\* Plans change.
LEMMA PlansGo ==
    ASSUME NEW a, Shaped(a), NEW b, DOMAIN b = {"outbox", "leases", "plans"},
           b.outbox = a.outbox, DOMAIN b.plans = DOMAIN a.plans,
           \A q \in DOMAIN a.plans :
               \/ b.plans[q] = a.plans[q]
               \/ PlanStays(a.plans[q], b.plans[q]) /\ PlanGoes(a.plans[q], b.plans[q])
    PROVE  Moves(a, b)
<1>1. Alike(a, b)
  BY PlansAlike
<1>2. \A q \in DOMAIN a.plans : PlanGoes(a.plans[q], b.plans[q])
  BY DEF PlanGoes
<1> QED
  BY <1>1, <1>2 DEF Moves, Goes, RowGoes

\* Plans fail or are superseded.
LEMMA SetPlanStateMoves ==
    ASSUME NEW st, Shaped(st), NEW Q, NEW s \in {"failed", "superseded"},
           s = "failed" => \A q \in Q \cap DOMAIN st.plans :
                               st.plans[q].state \in {"waiting_predecessor", "active", "failed"}
    PROVE  Steady(st, SetPlanState(st, Q, s))
<1> DEFINE e == SetPlanState(st, Q, s)
<1>1. /\ DOMAIN e = {"outbox", "leases", "plans"} /\ e.outbox = st.outbox
      /\ DOMAIN e.plans = DOMAIN st.plans
      /\ \A q \in DOMAIN st.plans :
            e.plans[q] = IF q \in Q THEN [st.plans[q] EXCEPT !.state = s] ELSE st.plans[q]
  BY DEF SetPlanState, Shaped
<1> HIDE DEF e
<1>2. ASSUME NEW q \in DOMAIN st.plans, q \in Q
      PROVE  PlanStays(st.plans[q], e.plans[q]) /\ PlanGoes(st.plans[q], e.plans[q])
  <2> DEFINE p == st.plans[q]
             n == [p EXCEPT !.state = s]
  <2>1. /\ DOMAIN p = PlanFields /\ e.plans[q] = n
        /\ s = "failed" => p.state \in {"waiting_predecessor", "active", "failed"}
    BY <1>1, <1>2 DEF Shaped
  <2> HIDE DEF p
  <2>2. PlanStays(p, n) /\ n.state = s
    BY <2>1 DEF PlanStays, PlanFields
  <2> HIDE DEF n
  <2>3. PlanGoes(p, n)
    BY <2>1, <2>2 DEF PlanGoes
  <2> QED
    BY <2>1, <2>2, <2>3 DEF p
<1>3. Moves(st, e)
  BY <1>1, <1>2, PlansGo
<1>4. Waits(st) => Waits(e)
  BY <1>1, <1>3, WaitsStay DEF Moves
<1> QED
  BY <1>3, <1>4 DEF e, Steady

\* A plan whose predecessors have ended is activated; the others wait for a reason.
LEMMA ActivateWaitingMoves ==
    ASSUME NEW st, Shaped(st)
    PROVE  Moves(st, ActivateWaiting(st)) /\ Waits(ActivateWaiting(st))
<1> DEFINE free(q) == \A o \in DOMAIN st.plans \ {q} :
                         st.plans[o].turn = st.plans[q].turn =>
                             \A k \in DOMAIN st.plans[o].jobs :
                                 StatusOf(st, st.plans[o], k) # "leased"
           e == ActivateWaiting(st)
<1>1. e = [st EXCEPT !.plans = [q \in DOMAIN @ |->
              IF @[q].state = "waiting_predecessor" /\ free(q)
              THEN [@[q] EXCEPT !.state = "active", !.activated = TRUE] ELSE @[q]]]
  BY DEF ActivateWaiting
<1> HIDE DEF e, free
<1>2. /\ DOMAIN e = {"outbox", "leases", "plans"} /\ e.outbox = st.outbox
      /\ DOMAIN e.plans = DOMAIN st.plans
      /\ \A q \in DOMAIN st.plans :
            e.plans[q] = IF st.plans[q].state = "waiting_predecessor" /\ free(q)
                         THEN [st.plans[q] EXCEPT !.state = "active", !.activated = TRUE]
                         ELSE st.plans[q]
  BY <1>1 DEF Shaped
<1>3. ASSUME NEW q \in DOMAIN st.plans, st.plans[q].state = "waiting_predecessor", free(q)
      PROVE  /\ PlanStays(st.plans[q], e.plans[q]) /\ PlanGoes(st.plans[q], e.plans[q])
             /\ e.plans[q].state = "active"
  <2> DEFINE p == st.plans[q]
             n == [p EXCEPT !.state = "active", !.activated = TRUE]
  <2>1. DOMAIN p = PlanFields /\ e.plans[q] = n /\ p.state = "waiting_predecessor"
    BY <1>2, <1>3 DEF Shaped
  <2> HIDE DEF p
  <2>2. PlanStays(p, n) /\ n.state = "active"
    BY <2>1 DEF PlanStays, PlanFields
  <2> HIDE DEF n
  <2>3. PlanGoes(p, n)
    BY <2>1, <2>2 DEF PlanGoes
  <2> QED
    BY <2>1, <2>2, <2>3 DEF p
<1>4. Moves(st, e)
  <2>1. \A q \in DOMAIN st.plans :
           \/ e.plans[q] = st.plans[q]
           \/ PlanStays(st.plans[q], e.plans[q]) /\ PlanGoes(st.plans[q], e.plans[q])
    BY <1>2, <1>3
  <2> QED
    BY <1>2, <2>1, PlansGo
<1>5. Waits(e)
  <2> SUFFICES ASSUME NEW q \in DOMAIN e.plans, e.plans[q].state = "waiting_predecessor"
               PROVE  Justified(e, q)
    BY DEF Waits, MayWait
  <2>1. st.plans[q].state = "waiting_predecessor" /\ ~free(q)
    BY <1>2, <1>3
  <2>2. PICK o \in DOMAIN st.plans \ {q} :
           /\ st.plans[o].turn = st.plans[q].turn
           /\ \E k \in DOMAIN st.plans[o].jobs : StatusOf(st, st.plans[o], k) = "leased"
    BY <2>1 DEF free
  <2>3. \E i \in JobRows(st.plans[o]) : st.outbox[i].status = "leased"
    BY <2>2 DEF JobRows, StatusOf
  <2>4. \A x \in DOMAIN st.plans : e.plans[x].turn = st.plans[x].turn /\ JobRows(e.plans[x]) = JobRows(st.plans[x])
    BY <1>4 DEF Moves, Goes, Alike, PlanStays, JobRows
  <2> QED
    BY <1>2, <2>2, <2>3, <2>4 DEF Justified
<1> QED
  BY <1>4, <1>5 DEF e

\* Rows are closed or given back.
LEMMA CloseMoves ==
    ASSUME NEW st, Shaped(st), NEW I, NEW s, s # "awaiting_ack",
           \A i \in I \cap DOMAIN st.outbox :
               st.outbox[i].kind = "part" /\ st.outbox[i].status \in Terminal => s \in Terminal
    PROVE  LET e == Close(st, I, s)
           IN  /\ Moves(st, e) /\ e.plans = st.plans
               /\ \A i \in DOMAIN st.outbox \ I : e.outbox[i] = st.outbox[i]
<1> DEFINE e == Close(st, I, s)
<1>1. /\ DOMAIN e = {"outbox", "leases", "plans"} /\ e.plans = st.plans
      /\ DOMAIN e.outbox = DOMAIN st.outbox
      /\ \A i \in DOMAIN st.outbox :
            e.outbox[i] = IF i \in I THEN [st.outbox[i] EXCEPT !.status = s, !.due = FALSE] ELSE st.outbox[i]
  BY DEF Close, Shaped
<1> HIDE DEF e
<1>2. ASSUME NEW i \in DOMAIN st.outbox, i \in I
      PROVE  /\ RowStays(st.outbox[i], e.outbox[i]) /\ RowGoes(st.outbox[i], e.outbox[i])
             /\ e.outbox[i].used = st.outbox[i].used
  <2> DEFINE o == st.outbox[i]
             n == [o EXCEPT !.status = s, !.due = FALSE]
  <2>1. /\ DOMAIN o = RowFields /\ e.outbox[i] = n
        /\ o.kind = "part" /\ o.status \in Terminal => s \in Terminal
    BY <1>1, <1>2 DEF Shaped
  <2> HIDE DEF o
  <2>2. RowStays(o, n) /\ n.status = s /\ n.used = o.used /\ n.gen = o.gen
    BY <2>1 DEF RowStays, RowFields
  <2> HIDE DEF n
  <2>3. RowGoes(o, n)
    BY <2>1, <2>2 DEF RowGoes
  <2> QED
    BY <2>1, <2>2, <2>3 DEF o
<1>3. \A i \in DOMAIN st.outbox :
         \/ e.outbox[i] = st.outbox[i]
         \/ /\ RowStays(st.outbox[i], e.outbox[i]) /\ RowGoes(st.outbox[i], e.outbox[i])
            /\ st.outbox[i].kind = "part" /\ e.outbox[i].used # 0 => st.outbox[i].used # 0
  BY <1>1, <1>2
<1>4. /\ DOMAIN e = {"outbox", "leases", "plans"} /\ e.plans = st.plans
      /\ DOMAIN e.outbox = DOMAIN st.outbox
      /\ \A i \in DOMAIN st.outbox \ I : e.outbox[i] = st.outbox[i]
  BY <1>1
<1>5. Moves(st, e)
  BY <1>3, <1>4, RowsGo
<1> QED
  BY <1>4, <1>5 DEF e

\* One row is edited, and stays as it was in what counts here.
LEMMA OneRowMoves ==
    ASSUME NEW st, Shaped(st), NEW i \in DOMAIN st.outbox,
           NEW n, RowStays(st.outbox[i], n), RowGoes(st.outbox[i], n),
           st.outbox[i].kind = "part" /\ n.used # 0 => st.outbox[i].used # 0,
           NEW e, DOMAIN e = {"outbox", "leases", "plans"}, e.plans = st.plans,
           e.outbox = [st.outbox EXCEPT ![i] = n]
    PROVE  Moves(st, e)
<1>1. DOMAIN e.outbox = DOMAIN st.outbox
      /\ \A x \in DOMAIN st.outbox : e.outbox[x] = IF x = i THEN n ELSE st.outbox[x]
  OBVIOUS
<1> QED
  BY <1>1, RowsGo

\* The acknowledgement of a part ends its plan at most.
LEMMA PartDeliveredMoves ==
    ASSUME NEW st, Shaped(st), NEW q, st.plans[q].state = "active"
    PROVE  Moves(st, PartDelivered(st, q))
<1> DEFINE p    == st.plans[q]
           src  == {i \in RootsOf(st, p.turn, p.rev) :
                       p.sourced /\ st.outbox[i].status = "awaiting_ack"}
           done == AllDelivered(st, p)
           s    == IF done THEN "delivered" ELSE "awaiting_ack"
           s1   == [st EXCEPT !.outbox = [i \in DOMAIN @ |->
                       IF i \in src THEN [@[i] EXCEPT !.due = FALSE, !.status = s] ELSE @[i]]]
           s2   == [s1 EXCEPT !.plans[q] = [@ EXCEPT !.state = "completed", !.completed = TRUE]]
<1>1. PartDelivered(st, q) = IF done THEN s2 ELSE s1
  BY DEF PartDelivered
<1>2. \A i \in src : st.outbox[i].status = "awaiting_ack"
  OBVIOUS
<1> HIDE DEF src, done
<1>3. s \notin Terminal => s = "awaiting_ack"
  BY DEF Terminal
<1> HIDE DEF s
<1>4. /\ DOMAIN s1 = {"outbox", "leases", "plans"} /\ s1.plans = st.plans
      /\ DOMAIN s1.outbox = DOMAIN st.outbox
      /\ \A i \in DOMAIN st.outbox :
            s1.outbox[i] = IF i \in src THEN [st.outbox[i] EXCEPT !.due = FALSE, !.status = s]
                           ELSE st.outbox[i]
  BY DEF Shaped
<1> HIDE DEF s1
<1>5. ASSUME NEW i \in DOMAIN st.outbox, i \in src
      PROVE  /\ RowStays(st.outbox[i], s1.outbox[i]) /\ RowGoes(st.outbox[i], s1.outbox[i])
             /\ s1.outbox[i].used = st.outbox[i].used
  <2> DEFINE o == st.outbox[i]
             n == [o EXCEPT !.due = FALSE, !.status = s]
  <2>1. DOMAIN o = RowFields /\ s1.outbox[i] = n /\ o.status = "awaiting_ack"
    BY <1>2, <1>4, <1>5 DEF Shaped
  <2> HIDE DEF o
  <2>2. RowStays(o, n) /\ n.status = s /\ n.used = o.used /\ n.gen = o.gen
    BY <2>1 DEF RowStays, RowFields
  <2> HIDE DEF n
  <2>3. RowGoes(o, n)
    BY <2>1, <2>2 DEF RowGoes, Terminal
  <2> QED
    BY <2>1, <2>2, <2>3 DEF o
<1>6. Moves(st, s1)
  <2>1. \A i \in DOMAIN st.outbox :
           \/ s1.outbox[i] = st.outbox[i]
           \/ /\ RowStays(st.outbox[i], s1.outbox[i]) /\ RowGoes(st.outbox[i], s1.outbox[i])
              /\ st.outbox[i].kind = "part" /\ s1.outbox[i].used # 0 => st.outbox[i].used # 0
    BY <1>4, <1>5
  <2>2. /\ DOMAIN s1 = {"outbox", "leases", "plans"} /\ s1.plans = st.plans
        /\ DOMAIN s1.outbox = DOMAIN st.outbox
    BY <1>4
  <2> QED
    BY <2>1, <2>2, RowsGo
<1>7. Shaped(s1)
  BY <1>6, AlikeIsShaped DEF Moves, Goes
<1>8. /\ DOMAIN s2 = {"outbox", "leases", "plans"} /\ s2.outbox = s1.outbox
      /\ DOMAIN s2.plans = DOMAIN s1.plans
      /\ \A x \in DOMAIN s1.plans :
            s2.plans[x] = IF x = q THEN [s1.plans[x] EXCEPT !.state = "completed", !.completed = TRUE]
                          ELSE s1.plans[x]
  BY <1>4
<1> HIDE DEF s2
<1>9. ASSUME q \in DOMAIN s1.plans
      PROVE  PlanStays(s1.plans[q], s2.plans[q]) /\ PlanGoes(s1.plans[q], s2.plans[q])
  <2> DEFINE r == s1.plans[q]
             n == [r EXCEPT !.state = "completed", !.completed = TRUE]
  <2>1. DOMAIN r = PlanFields /\ s2.plans[q] = n /\ r.state = "active"
    BY <1>4, <1>7, <1>8, <1>9 DEF Shaped
  <2> HIDE DEF r
  <2>2. PlanStays(r, n) /\ n.state = "completed"
    BY <2>1 DEF PlanStays, PlanFields
  <2> HIDE DEF n
  <2>3. PlanGoes(r, n)
    BY <2>1, <2>2 DEF PlanGoes
  <2> QED
    BY <2>1, <2>2, <2>3 DEF r
<1>10. Moves(s1, s2)
  <2>1. \A x \in DOMAIN s1.plans :
           \/ s2.plans[x] = s1.plans[x]
           \/ PlanStays(s1.plans[x], s2.plans[x]) /\ PlanGoes(s1.plans[x], s2.plans[x])
    BY <1>8, <1>9
  <2> QED
    BY <1>7, <1>8, <2>1, PlansGo
<1> QED
  BY <1>1, <1>6, <1>10, MovesTwice

\* An attempt ends; a plan that waited for this part waits no longer.
LEMMA FinishMoves ==
    ASSUME NEW st, Shaped(st), Linked(st),
           NEW i, NEW s, s # "awaiting_ack", st.outbox[i].status = "leased"
    PROVE  Steady(st, Finish(st, i, s))
<1> DEFINE a == Close(st, {i}, s)
           q == CHOOSE q \in PlansOf(a, i) : TRUE
           state == a.plans[q].state
           e == IF s = "dead_letter" /\ state \in {"active", "waiting_predecessor"}
                THEN SetPlanState(a, {q}, "failed")
                ELSE IF s = "delivered" /\ state = "active" THEN PartDelivered(a, q)
                ELSE a
<1>1. Finish(st, i, s) = IF PlansOf(a, i) = {} THEN a ELSE ActivateWaiting(e)
  BY DEF Finish, AfterOutbox
<1>2. /\ Moves(st, a) /\ a.plans = st.plans
      /\ \A x \in DOMAIN st.outbox \ {i} : a.outbox[x] = st.outbox[x]
  BY CloseMoves DEF Terminal
<1>3. Shaped(a)
  BY <1>2, AlikeIsShaped DEF Moves, Goes
<1> HIDE DEF a, q
<1>4. Moves(a, e)
  <2>1. CASE state \in {"active", "waiting_predecessor"}
    <3>1. Steady(a, SetPlanState(a, {q}, "failed"))
      BY <1>3, <2>1, SetPlanStateMoves
    <3>2. state = "active" => Moves(a, PartDelivered(a, q))
      BY <1>3, PartDeliveredMoves
    <3> QED
      BY <1>3, <3>1, <3>2, MovesSelf DEF Steady
  <2>2. CASE state \notin {"active", "waiting_predecessor"}
    BY <1>3, <2>2, MovesSelf
  <2> QED
    BY <2>1, <2>2
<1> HIDE DEF e
<1>5. Shaped(e)
  BY <1>4, AlikeIsShaped DEF Moves, Goes
<1>6. CASE PlansOf(a, i) = {}
  <2>1. \A x \in DOMAIN st.plans : i \notin JobRows(st.plans[x])
    BY <1>2, <1>6 DEF PlansOf
  <2>2. \A x \in DOMAIN st.plans : \A j \in JobRows(st.plans[x]) :
           st.outbox[j].status = "leased" => a.outbox[j].status = "leased"
    BY <1>2, <2>1 DEF Linked, IsPartOf
  <2> QED
    BY <1>1, <1>2, <1>6, <2>2, WaitsStay DEF Steady, Moves
<1>7. CASE PlansOf(a, i) # {}
  <2>1. Moves(e, ActivateWaiting(e)) /\ Waits(ActivateWaiting(e))
    BY <1>5, ActivateWaitingMoves
  <2>2. Moves(st, ActivateWaiting(e))
    BY <1>2, <1>4, <2>1, MovesTwice
  <2> QED
    BY <1>1, <1>7, <2>1, <2>2 DEF Steady
<1> QED
  BY <1>6, <1>7

\* Expired leases return their rows.
LEMMA ReclaimLeasesMoves ==
    ASSUME NEW st, Orderly(st), Linked(st)
    PROVE  Steady(st, ReclaimLeases(st))
<1> DEFINE I  == ExpiredRows(st)
           s1 == [st EXCEPT !.leases = {l \in @ : ~l.due},
                            !.outbox = [i \in DOMAIN @ |->
                                IF i \in I THEN Returned(@[i]) ELSE @[i]]]
<1>1. ReclaimLeases(st) = IF \E i \in I : PlansOf(s1, i) # {} THEN ActivateWaiting(s1) ELSE s1
  BY DEF ReclaimLeases
<1>2. \A i \in I : i \in DOMAIN st.outbox /\ st.outbox[i].status = "leased"
  BY DEF Orderly, LeasesFit, ExpiredRows
<1>3. Shaped(st)
  BY OrderlyIsShaped
<1> HIDE DEF I
<1>4. /\ DOMAIN s1 = {"outbox", "leases", "plans"} /\ s1.plans = st.plans
      /\ DOMAIN s1.outbox = DOMAIN st.outbox
      /\ \A i \in DOMAIN st.outbox : s1.outbox[i] = IF i \in I THEN Returned(st.outbox[i]) ELSE st.outbox[i]
  BY <1>3 DEF Shaped
<1> HIDE DEF s1
<1>5. ASSUME NEW i \in I
      PROVE  /\ RowStays(st.outbox[i], s1.outbox[i]) /\ RowGoes(st.outbox[i], s1.outbox[i])
             /\ s1.outbox[i].used = st.outbox[i].used
  <2> DEFINE o == st.outbox[i]
             n == Returned(o)
  <2>1. DOMAIN o = RowFields /\ s1.outbox[i] = n /\ o.status = "leased"
    BY <1>2, <1>3, <1>4 DEF Shaped
  <2> HIDE DEF o
  <2>2. RowStays(o, n) /\ n.status \in {"superseded", "queued"} /\ n.used = o.used /\ n.gen = o.gen
    BY <2>1 DEF RowStays, RowFields, Returned
  <2> HIDE DEF n
  <2>3. RowGoes(o, n)
    BY <2>1, <2>2 DEF RowGoes, Terminal
  <2> QED
    BY <2>1, <2>2, <2>3 DEF o
<1>6. Moves(st, s1)
  <2>1. \A i \in DOMAIN st.outbox :
           \/ s1.outbox[i] = st.outbox[i]
           \/ /\ RowStays(st.outbox[i], s1.outbox[i]) /\ RowGoes(st.outbox[i], s1.outbox[i])
              /\ st.outbox[i].kind = "part" /\ s1.outbox[i].used # 0 => st.outbox[i].used # 0
    BY <1>4, <1>5
  <2> QED
    BY <1>3, <1>4, <2>1, RowsGo
<1>7. CASE \E i \in I : PlansOf(s1, i) # {}
  <2>1. Moves(s1, ActivateWaiting(s1)) /\ Waits(ActivateWaiting(s1))
    BY <1>6, AlikeIsShaped, ActivateWaitingMoves DEF Moves, Goes
  <2>2. Moves(st, ActivateWaiting(s1))
    BY <1>6, <2>1, MovesTwice
  <2> QED
    BY <1>1, <1>7, <2>1, <2>2 DEF Steady
<1>8. CASE ~ \E i \in I : PlansOf(s1, i) # {}
  <2>1. \A x \in DOMAIN st.plans : JobRows(st.plans[x]) \cap I = {}
    BY <1>4, <1>8 DEF PlansOf
  <2>2. \A x \in DOMAIN st.plans : \A j \in JobRows(st.plans[x]) :
           s1.outbox[j] = st.outbox[j]
    BY <1>4, <2>1 DEF Linked, IsPartOf
  <2> QED
    BY <1>1, <1>6, <1>8, <2>2, WaitsStay DEF Steady, Moves
<1> QED
  BY <1>7, <1>8

\* The greater of two numbers
LEMMA MaxOfTwo ==
    ASSUME NEW m \in Nat, NEW n \in Nat
    PROVE  Max({m, n}) \in Nat /\ m <= Max({m, n}) /\ n <= Max({m, n}) /\ Max({m, n}) \in {m, n}
<1>1. m + n \in Nat /\ {m, n} \subseteq 0 .. (m + n) /\ {m, n} # {}
  OBVIOUS
<1> DEFINE S == {m, n}
<1> HIDE DEF S
<1>2. Max(S) \in S /\ \A y \in S : y <= Max(S)
  BY <1>1, GreatestOf DEF S
<1> QED
  BY <1>2 DEF S

\* The last plan made with a ref is one of the plans.
LEMMA LatestPlanIs ==
    ASSUME NEW st, Linked(st), NEW i, LatestPlan(st, i) # 0
    PROVE  LatestPlan(st, i) \in DOMAIN st.plans
<1> DEFINE S == {q \in PlansFor(st, st.outbox[i].turn, st.outbox[i].rev) : st.plans[q].sourced}
<1>1. PICK n \in Nat : DOMAIN st.plans \subseteq 1 .. n
  BY DEF Linked
<1>2. S \subseteq DOMAIN st.plans /\ S \subseteq 0 .. n
  BY <1>1 DEF PlansFor
<1>3. LatestPlan(st, i) = IF S = {} THEN 0 ELSE Max(S)
  BY DEF LatestPlan, Highest
<1> HIDE DEF S
<1> QED
  BY <1>2, <1>3, GreatestOf

\* An acknowledgement deadline fails plans and schedules roots again, in a later
\* generation.
LEMMA ReclaimAwaitingMoves ==
    ASSUME NEW st, Orderly(st), Linked(st), InDescent(st)
    PROVE  Steady(st, ReclaimAwaiting(st))
<1> DEFINE expired == {i \in DOMAIN st.outbox : st.outbox[i].status = "awaiting_ack" /\ st.outbox[i].due}
           done    == {i \in expired : LatestState(st, i) = "completed"}
           begun   == {i \in expired : LatestState(st, i) \in {"active", "waiting_predecessor", "failed"}}
           again   == {i \in begun : ~HasLiveJobLease(st, LatestPlan(st, i))}
           lost    == expired \ (done \cup begun)
           failed  == {LatestPlan(st, i) : i \in again}
           open    == OpenRows(st, failed)
           s0      == SetPlanState(st, failed, "failed")
           sd      == Close(s0, done, "delivered")
           s1      == Close(sd, lost \cup open, "dead_letter")
           g(i)    == st.plans[LatestPlan(st, i)].gen
           s2      == [s1 EXCEPT !.outbox = [i \in DOMAIN @ |-> IF i \in again THEN Replanned(@[i], g(i)) ELSE @[i]]]
<1>1. ReclaimAwaiting(st) = IF again \cup lost # {} THEN ActivateWaiting(s2) ELSE s2
  BY DEF ReclaimAwaiting
<1>2. ASSUME NEW i \in again
      PROVE  /\ i \in DOMAIN st.outbox /\ st.outbox[i].status = "awaiting_ack"
             /\ st.outbox[i].kind # "part" /\ st.outbox[i].gen \in Nat
             /\ LatestPlan(st, i) \in DOMAIN st.plans /\ g(i) \in Nat
             /\ st.plans[LatestPlan(st, i)].state \in {"waiting_predecessor", "active", "failed"}
             /\ i \notin done /\ i \notin lost
  <2>1. /\ i \in DOMAIN st.outbox /\ st.outbox[i].status = "awaiting_ack"
        /\ LatestState(st, i) \in {"active", "waiting_predecessor", "failed"}
        /\ i \notin done /\ i \notin lost
    OBVIOUS
  <2>2. st.outbox[i].kind # "part"
    BY <2>1 DEF Orderly, StoreFits, RowFits
  <2>3. st.outbox[i].gen \in Nat
    BY <2>1, <2>2 DEF InDescent, Rooted
  <2>4. LatestPlan(st, i) \in DOMAIN st.plans
    BY <2>1, LatestPlanIs DEF LatestState
  <2>5. g(i) \in Nat
    BY <2>4 DEF InDescent, Keyed
  <2>6. st.plans[LatestPlan(st, i)].state \in {"waiting_predecessor", "active", "failed"}
    BY <2>1 DEF LatestState
  <2> QED
    BY <2>1, <2>2, <2>3, <2>4, <2>5, <2>6
<1>3. \A q \in failed : st.plans[q].state \in {"waiting_predecessor", "active", "failed"}
  BY <1>2
<1>4. \A i \in open : st.outbox[i].kind = "part"
  <2>1. \A q \in failed : q \in DOMAIN st.plans
    BY <1>2
  <2> QED
    BY <2>1 DEF OpenRows, Linked, IsPartOf
<1>5. \A i \in done \cup lost : st.outbox[i].status = "awaiting_ack"
  OBVIOUS
<1>6. again \cup lost = {} => failed = {} /\ open = {}
  BY DEF OpenRows
<1> HIDE DEF again, lost, done, failed, open, g
<1>7. Moves(st, s0) /\ Shaped(s0) /\ s0.outbox = st.outbox
  <2>1. Steady(st, s0)
    BY <1>3, OrderlyIsShaped, SetPlanStateMoves
  <2>2. s0.outbox = st.outbox
    BY OrderlyIsShaped DEF SetPlanState, Shaped
  <2> HIDE DEF s0
  <2> QED
    BY <2>1, <2>2, AlikeIsShaped DEF Steady, Moves, Goes
<1> HIDE DEF s0
<1>8. /\ Moves(st, sd) /\ Shaped(sd) /\ DOMAIN sd.outbox = DOMAIN st.outbox
      /\ \A i \in DOMAIN st.outbox \ done : sd.outbox[i] = st.outbox[i]
  <2>1. Moves(s0, sd) /\ \A i \in DOMAIN s0.outbox \ done : sd.outbox[i] = s0.outbox[i]
    BY <1>7, CloseMoves DEF Terminal
  <2> QED
    BY <1>7, <2>1, MovesTwice, AlikeIsShaped DEF Moves, Goes, Alike
<1> HIDE DEF sd
<1>9. /\ Moves(st, s1) /\ Shaped(s1) /\ DOMAIN s1.outbox = DOMAIN st.outbox
      /\ \A i \in DOMAIN st.outbox \ (done \cup lost \cup open) : s1.outbox[i] = st.outbox[i]
  <2>1. Moves(sd, s1) /\ \A i \in DOMAIN sd.outbox \ (lost \cup open) : s1.outbox[i] = sd.outbox[i]
    BY <1>8, CloseMoves DEF Terminal
  <2>2. Moves(st, s1)
    BY <1>8, <2>1, MovesTwice
  <2>3. Shaped(s1) /\ DOMAIN s1.outbox = DOMAIN st.outbox
    BY <2>2, AlikeIsShaped DEF Moves, Goes, Alike
  <2> HIDE DEF s1
  <2> QED
    BY <1>8, <2>1, <2>2, <2>3
<1> HIDE DEF s1
<1>10. /\ DOMAIN s2 = {"outbox", "leases", "plans"} /\ s2.plans = s1.plans
       /\ DOMAIN s2.outbox = DOMAIN s1.outbox
       /\ \A i \in DOMAIN s1.outbox : s2.outbox[i] = IF i \in again THEN Replanned(s1.outbox[i], g(i)) ELSE s1.outbox[i]
  BY <1>9 DEF Shaped
<1> HIDE DEF s2
<1>11. ASSUME NEW i \in again
       PROVE  /\ RowStays(s1.outbox[i], s2.outbox[i]) /\ RowGoes(s1.outbox[i], s2.outbox[i])
              /\ s1.outbox[i].kind # "part"
  <2> DEFINE o == s1.outbox[i]
             n == Replanned(o, g(i))
  <2>1. i \notin done \cup lost \cup open
    BY <1>2, <1>4
  <2>2. o = st.outbox[i] /\ s2.outbox[i] = n
    BY <1>2, <1>9, <1>10, <2>1
  <2>3. DOMAIN o = RowFields /\ o.status = "awaiting_ack" /\ o.gen \in Nat /\ g(i) \in Nat /\ o.kind # "part"
    BY <1>2, <1>9, <2>2 DEF Shaped
  <2> HIDE DEF o
  <2>4. RowStays(o, n) /\ n.status = "retry" /\ n.gen = Max({o.gen, g(i) + 1})
    BY <2>3 DEF RowStays, RowFields, Replanned
  <2> HIDE DEF n
  <2>5. n.gen \in Nat /\ o.gen <= n.gen
    BY <2>3, <2>4, MaxOfTwo
  <2>6. RowGoes(o, n)
    BY <2>3, <2>4, <2>5 DEF RowGoes
  <2> QED
    BY <2>2, <2>3, <2>4, <2>6 DEF o
<1>12. Moves(st, s2)
  <2>1. \A i \in DOMAIN s1.outbox :
           \/ s2.outbox[i] = s1.outbox[i]
           \/ /\ RowStays(s1.outbox[i], s2.outbox[i]) /\ RowGoes(s1.outbox[i], s2.outbox[i])
              /\ s1.outbox[i].kind = "part" /\ s2.outbox[i].used # 0 => s1.outbox[i].used # 0
    BY <1>10, <1>11
  <2>2. /\ DOMAIN s2 = {"outbox", "leases", "plans"} /\ s2.plans = s1.plans
        /\ DOMAIN s2.outbox = DOMAIN s1.outbox
    BY <1>10
  <2>3. Moves(s1, s2)
    BY <1>9, <2>1, <2>2, RowsGo
  <2> QED
    BY <1>9, <2>3, MovesTwice
<1>13. CASE again \cup lost # {}
  <2>1. Moves(s2, ActivateWaiting(s2)) /\ Waits(ActivateWaiting(s2))
    BY <1>12, AlikeIsShaped, ActivateWaitingMoves DEF Moves, Goes
  <2>2. Moves(st, ActivateWaiting(s2))
    BY <1>12, <2>1, MovesTwice
  <2> QED
    BY <1>1, <1>13, <2>1, <2>2 DEF Steady
<1>14. CASE again \cup lost = {}
  <2>1. \A i \in DOMAIN st.outbox : st.outbox[i].status = "leased" => s2.outbox[i] = st.outbox[i]
    BY <1>5, <1>6, <1>9, <1>10, <1>14
  <2>2. \A x \in DOMAIN st.plans : \A i \in JobRows(st.plans[x]) :
           st.outbox[i].status = "leased" => s2.outbox[i].status = "leased"
    BY <2>1 DEF Linked, IsPartOf
  <2> QED
    BY <1>1, <1>12, <1>14, <2>2, WaitsStay DEF Steady, Moves
<1> QED
  BY <1>13, <1>14

\* Two such steps
LEMMA SteadyTwice ==
    ASSUME NEW a, NEW b, NEW c, Steady(a, b), Steady(b, c)
    PROVE  Steady(a, c)
BY MovesTwice DEF Steady

\* What most operations start with
LEMMA ReclaimedMoves ==
    ASSUME NEW st, Orderly(st), Linked(st), InDescent(st)
    PROVE  Steady(st, Reclaimed(st))
<1> DEFINE a == ReclaimLeases(st)
<1>1. Steady(st, a) /\ Orderly(a)
  BY ReclaimLeasesMoves, ReclaimLeasesKeeps
<1>2. Reclaimed(st) = ReclaimAwaiting(a)
  BY DEF Reclaimed
<1> HIDE DEF a
<1>3. Linked(a) /\ InDescent(a)
  BY <1>1, AlikeLinks, GoesLineage DEF Steady, Moves, Goes
<1>4. Steady(a, ReclaimAwaiting(a))
  BY <1>1, <1>3, ReclaimAwaitingMoves
<1> QED
  BY <1>1, <1>2, <1>4, SteadyTwice

\* Spent rows are closed, and their plans fail.
LEMMA ExhaustedMoves ==
    ASSUME NEW st, Shaped(st), Linked(st)
    PROVE  Steady(st, Exhausted(st))
<1> DEFINE I  == {i \in DOMAIN st.outbox : st.outbox[i].status \in Waiting /\ Spent(st.outbox[i])}
           s1 == Close(st, I, "dead_letter")
           Q  == {q \in DOMAIN s1.plans :
                     /\ s1.plans[q].state \in {"active", "waiting_predecessor"}
                     /\ \E k \in DOMAIN s1.plans[q].jobs : StatusOf(s1, s1.plans[q], k) = "dead_letter"}
<1>1. Exhausted(st) = SetPlanState(s1, Q, "failed")
  BY DEF Exhausted
<1>2. \A i \in I : st.outbox[i].status # "leased"
  BY DEF Waiting
<1>3. \A q \in Q : s1.plans[q].state \in {"waiting_predecessor", "active", "failed"}
  OBVIOUS
<1> HIDE DEF I
<1>4. Moves(st, s1) /\ \A i \in DOMAIN st.outbox \ I : s1.outbox[i] = st.outbox[i]
  BY CloseMoves DEF Terminal
<1> HIDE DEF s1, Q
<1>5. \A x \in DOMAIN st.plans : \A i \in JobRows(st.plans[x]) :
         st.outbox[i].status = "leased" => s1.outbox[i].status = "leased"
  BY <1>2, <1>4 DEF Linked, IsPartOf
<1>6. Steady(st, s1)
  BY <1>4, <1>5, WaitsStay DEF Steady, Moves
<1>7. Steady(s1, SetPlanState(s1, Q, "failed"))
  BY <1>3, <1>4, AlikeIsShaped, SetPlanStateMoves DEF Moves, Goes
<1> QED
  BY <1>1, <1>6, <1>7, SteadyTwice

\* A row is leased.
LEMMA LeaseRowSound ==
    ASSUME NEW st, Orderly(st), Linked(st), NEW cur, Sound(st, cur),
           NEW i \in DOMAIN st.outbox, st.outbox[i].status \in Waiting,
           NEW c, Orderly(LeaseRow(st, i, c))
    PROVE  Sound(LeaseRow(st, i, c), cur)
<1> DEFINE o == st.outbox[i]
           n == Attempted(o)
           e == LeaseRow(st, i, c)
<1>1. Shaped(st)
  BY OrderlyIsShaped
<1>2. /\ DOMAIN e = {"outbox", "leases", "plans"} /\ e.plans = st.plans
      /\ e.outbox = [st.outbox EXCEPT ![i] = n] /\ DOMAIN o = RowFields /\ o.status \in Waiting
  BY <1>1 DEF LeaseRow, Shaped
<1>3. Alike(st, e)
  BY <1>1, LeaseRowAlike
<1> HIDE DEF e, o
<1>4. n.status = "leased" /\ n.gen = o.gen
  BY <1>2 DEF RowFields, Attempted
<1> HIDE DEF n
<1>5. \A x \in DOMAIN st.outbox : e.outbox[x] = IF x = i THEN n ELSE st.outbox[x]
  BY <1>2
<1>6. RowGoes(o, n)
  BY <1>2, <1>4 DEF RowGoes, Waiting, Terminal
<1>7. \A x \in DOMAIN st.outbox : RowGoes(st.outbox[x], e.outbox[x])
  BY <1>5, <1>6 DEF o, RowGoes
<1>8. Goes(st, e)
  BY <1>2, <1>3, <1>7 DEF Goes, PlanGoes
<1>9. InDescent(e)
  <2>1. \A x \in DOMAIN st.outbox :
           st.outbox[x].kind = "part" /\ e.outbox[x].used # 0
               => st.outbox[x].used # 0 \/ e.outbox[x].status = "leased"
    BY <1>4, <1>5
  <2> QED
    BY <1>8, <2>1, GoesLineage DEF Sound, e
<1>10. AllFresh(e)
  BY <1>2, <1>8, GoesFresh DEF Sound, AllFresh
<1>11. Waits(e)
  <2>1. \A x \in DOMAIN st.plans : \A j \in JobRows(st.plans[x]) :
           st.outbox[j].status = "leased" => e.outbox[j].status = "leased"
    BY <1>4, <1>5 DEF Linked, IsPartOf
  <2> QED
    BY <1>8, <2>1, WaitsStay DEF Sound
<1> QED
  BY <1>8, <1>9, <1>10, <1>11, GoesText DEF Sound, e

\* The parts of other plans are closed or doomed; what is leased stays leased.
LEMMA MarkObsoleteMoves ==
    ASSUME NEW st, Shaped(st), Linked(st), NEW q
    PROVE  LET e == MarkObsolete(st, q)
           IN  /\ Moves(st, e)
               /\ \A i \in DOMAIN st.outbox :
                     st.outbox[i].status = "leased" => e.outbox[i].status = "leased"
               /\ \A x \in DOMAIN st.plans \ {q} :
                     st.plans[x].turn = st.plans[q].turn
                         => e.plans[x].state \notin {"preparing", "waiting_predecessor", "active"}
<1> DEFINE Q  == Obsolete(st, q)
           I  == ObsoleteRows(st, q, Waiting)
           L  == ObsoleteRows(st, q, {"leased"})
           s0 == SetPlanState(st, Q, "superseded")
           s1 == Close(s0, I, "superseded")
           e  == [s1 EXCEPT !.outbox = [i \in DOMAIN @ |->
                     IF i \in L THEN [@[i] EXCEPT !.doomed = TRUE] ELSE @[i]]]
<1>1. MarkObsolete(st, q) = e
  BY DEF MarkObsolete
<1>2. \A i \in I : st.outbox[i].status # "leased"
  BY DEF ObsoleteRows, Waiting
<1>3. \A x \in DOMAIN st.plans \ {q} :
         st.plans[x].turn = st.plans[q].turn /\ x \notin Q
             => st.plans[x].state \notin {"preparing", "waiting_predecessor", "active"}
  BY DEF Obsolete
<1> HIDE DEF Q, I, L
<1>4. /\ Moves(st, s0) /\ Shaped(s0) /\ s0.outbox = st.outbox
      /\ \A x \in DOMAIN st.plans :
            /\ x \in Q => s0.plans[x].state = "superseded"
            /\ x \notin Q => s0.plans[x] = st.plans[x]
  <2>1. Moves(st, s0)
    BY SetPlanStateMoves DEF Steady
  <2>2. /\ s0.outbox = st.outbox
        /\ \A x \in DOMAIN st.plans :
              s0.plans[x] = IF x \in Q THEN [st.plans[x] EXCEPT !.state = "superseded"] ELSE st.plans[x]
    BY DEF SetPlanState, Shaped
  <2>3. \A x \in DOMAIN st.plans : [st.plans[x] EXCEPT !.state = "superseded"].state = "superseded"
    BY DEF Shaped, PlanFields
  <2> HIDE DEF s0
  <2> QED
    BY <2>1, <2>2, <2>3, AlikeIsShaped DEF Moves, Goes
<1> HIDE DEF s0
<1>5. Moves(s0, s1) /\ s1.plans = s0.plans /\ \A i \in DOMAIN s0.outbox \ I : s1.outbox[i] = s0.outbox[i]
  BY <1>4, CloseMoves DEF Terminal
<1>6. Moves(st, s1) /\ Shaped(s1) /\ DOMAIN s1.outbox = DOMAIN st.outbox
  <2> HIDE DEF s1
  <2>1. Moves(st, s1)
    BY <1>4, <1>5, MovesTwice
  <2> QED
    BY <2>1, AlikeIsShaped DEF Moves, Goes, Alike
<1> HIDE DEF s1
<1>7. /\ DOMAIN e = {"outbox", "leases", "plans"} /\ e.plans = s1.plans
      /\ DOMAIN e.outbox = DOMAIN s1.outbox
  BY <1>6 DEF Shaped
<1>8. \A i \in DOMAIN s1.outbox :
         e.outbox[i] = IF i \in L THEN [s1.outbox[i] EXCEPT !.doomed = TRUE] ELSE s1.outbox[i]
  BY <1>6 DEF Shaped
<1> HIDE DEF e
<1>9. ASSUME NEW i \in DOMAIN s1.outbox
      PROVE  /\ RowStays(s1.outbox[i], e.outbox[i]) /\ RowGoes(s1.outbox[i], e.outbox[i])
             /\ e.outbox[i].used = s1.outbox[i].used /\ e.outbox[i].status = s1.outbox[i].status
  <2> DEFINE o == s1.outbox[i]
             n == [o EXCEPT !.doomed = TRUE]
  <2>1. DOMAIN o = RowFields /\ (e.outbox[i] = o \/ e.outbox[i] = n)
    BY <1>6, <1>8 DEF Shaped
  <2> HIDE DEF o
  <2>2. RowStays(o, n) /\ n.status = o.status /\ n.used = o.used /\ n.gen = o.gen
    BY <2>1 DEF RowStays, RowFields
  <2> HIDE DEF n
  <2>3. RowGoes(o, n) /\ RowGoes(o, o) /\ RowStays(o, o)
    BY <2>1, <2>2 DEF RowGoes, RowStays
  <2> QED
    BY <2>1, <2>2, <2>3 DEF o
<1>10. Moves(st, e)
  <2>1. \A i \in DOMAIN s1.outbox :
           \/ e.outbox[i] = s1.outbox[i]
           \/ /\ RowStays(s1.outbox[i], e.outbox[i]) /\ RowGoes(s1.outbox[i], e.outbox[i])
              /\ s1.outbox[i].kind = "part" /\ e.outbox[i].used # 0 => s1.outbox[i].used # 0
    BY <1>9
  <2>2. Moves(s1, e)
    BY <1>6, <1>7, <2>1, RowsGo
  <2> QED
    BY <1>6, <2>2, MovesTwice
<1>11. \A i \in DOMAIN st.outbox :
          st.outbox[i].status = "leased" => e.outbox[i].status = "leased"
  BY <1>2, <1>4, <1>5, <1>6, <1>9
<1>12. \A x \in DOMAIN st.plans \ {q} :
          st.plans[x].turn = st.plans[q].turn
              => e.plans[x].state \notin {"preparing", "waiting_predecessor", "active"}
  BY <1>3, <1>4, <1>5, <1>7
<1> QED
  BY <1>1, <1>10, <1>11, <1>12

\* Plans of other revisions of the turn are superseded, with their rows.
LEMMA SupersedeStaleMoves ==
    ASSUME NEW st, Shaped(st), Linked(st), NEW t, NEW r
    PROVE  LET e == SupersedeStale(st, t, r)
           IN  /\ Moves(st, e)
               /\ \A x \in DOMAIN st.plans :
                     st.plans[x].turn = t /\ st.plans[x].rev # r => e.plans[x].state \notin Open
               /\ \A i \in DOMAIN st.outbox :
                     \/ e.outbox[i] = st.outbox[i]
                     \/ /\ st.outbox[i].turn = t
                        /\ st.outbox[i].kind = "part" => \E x \in DOMAIN st.plans :
                               /\ st.plans[x].state \in Open /\ st.plans[x].turn = t
                               /\ st.plans[x].rev # r
<1> DEFINE Q == {q \in DOMAIN st.plans :
                    /\ st.plans[q].turn = t /\ st.plans[q].rev # r
                    /\ st.plans[q].state \in {"preparing", "waiting_predecessor", "active", "failed"}}
           roots == {i \in DOMAIN st.outbox :
                        /\ st.outbox[i].kind # "part"
                        /\ st.outbox[i].turn = t /\ st.outbox[i].rev # r}
           jobs  == UNION {JobRows(st.plans[q]) : q \in Q}
           I     == {i \in roots \cup jobs : st.outbox[i].status \notin {"delivered", "superseded"}}
           s0    == SetPlanState(st, Q, "superseded")
           e     == Close(s0, I, "superseded")
<1>1. SupersedeStale(st, t, r) = e
  BY DEF SupersedeStale
<1>2. \A i \in I : /\ st.outbox[i].turn = t
                   /\ st.outbox[i].kind = "part" => Q # {}
  BY DEF Linked, IsPartOf
<1>3. \A q \in Q : st.plans[q].state \in Open /\ st.plans[q].turn = t /\ st.plans[q].rev # r
  BY DEF Open
<1>4. \A x \in DOMAIN st.plans : st.plans[x].turn = t /\ st.plans[x].rev # r /\ x \notin Q => st.plans[x].state \notin Open
  BY DEF Open
<1>5. Q \subseteq DOMAIN st.plans
  OBVIOUS
<1> HIDE DEF Q, I
<1>6. Moves(st, s0)
  BY SetPlanStateMoves DEF Steady
<1>7. /\ s0.outbox = st.outbox
      /\ \A x \in DOMAIN st.plans :
            s0.plans[x] = IF x \in Q THEN [st.plans[x] EXCEPT !.state = "superseded"] ELSE st.plans[x]
  BY DEF SetPlanState, Shaped
<1>8. \A x \in DOMAIN st.plans : [st.plans[x] EXCEPT !.state = "superseded"].state = "superseded"
  BY DEF Shaped, PlanFields
<1> HIDE DEF s0
<1>9. \A x \in DOMAIN st.plans :
         st.plans[x].turn = t /\ st.plans[x].rev # r => s0.plans[x].state \notin Open
  <2> SUFFICES ASSUME NEW x \in DOMAIN st.plans, st.plans[x].turn = t, st.plans[x].rev # r
               PROVE  s0.plans[x].state \notin Open
    OBVIOUS
  <2>1. CASE x \in Q
    BY <1>7, <1>8, <2>1 DEF Open
  <2>2. CASE x \notin Q
    BY <1>4, <1>7, <2>2
  <2> QED
    BY <2>1, <2>2
<1>10. Moves(s0, e) /\ e.plans = s0.plans /\ \A i \in DOMAIN s0.outbox \ I : e.outbox[i] = s0.outbox[i]
  <2>1. Shaped(s0)
    BY <1>6, AlikeIsShaped DEF Moves, Goes
  <2> QED
    BY <2>1, CloseMoves DEF Terminal
<1> HIDE DEF e
<1>11. Moves(st, e)
  BY <1>6, <1>10, MovesTwice
<1>12. \A i \in DOMAIN st.outbox :
         \/ e.outbox[i] = st.outbox[i]
         \/ /\ st.outbox[i].turn = t
            /\ st.outbox[i].kind = "part" => Q # {}
  <2>1. DOMAIN s0.outbox = DOMAIN st.outbox
    BY <1>7
  <2>2. \A i \in DOMAIN st.outbox \ I : e.outbox[i] = st.outbox[i]
    BY <1>7, <1>10, <2>1
  <2> QED
    BY <1>2, <2>2
<1> QED
  BY <1>1, <1>3, <1>5, <1>9, <1>10, <1>11, <1>12

-----------------------------------------------------------------------------
(* A plan waits for a reason: the operations                               *)

\* poll_connector_outbox
LEMMA PollSound ==
    ASSUME Orderly(db), Linked(db), NEW cur, Sound(db, cur), NEW c, Poll(c)
    PROVE  Sound(db', cur)
<1> DEFINE s0 == Reclaimed(db)
           st == Exhausted(s0)
           i  == First(st)
<1>1. Steady(db, s0) /\ Orderly(s0)
  BY ReclaimedMoves, ReclaimedKeeps DEF Sound
<1>2. Shaped(s0) /\ Linked(s0)
  BY <1>1, AlikeLinks, AlikeIsShaped DEF Steady, Moves, Goes
<1>3. db' = IF Candidates(st) = {} THEN st ELSE LeaseRow(st, i, c)
  BY DEF Poll
<1>4. Orderly(db')
  BY PollKeeps
<1> HIDE DEF s0
<1>5. Steady(s0, st) /\ Orderly(st)
  BY <1>1, <1>2, ExhaustedMoves, ExhaustedIs
<1>6. Linked(st) /\ Sound(st, cur)
  <2> HIDE DEF st
  <2> QED
    BY <1>1, <1>2, <1>5, AlikeLinks, SteadySound DEF Steady, Moves, Goes
<1> HIDE DEF st
<1>7. CASE Candidates(st) # {}
  <2> DEFINE parts == {x \in Candidates(st) : st.outbox[x].kind = "part"}
  <2>1. Candidates(st) \subseteq Nat /\ parts \subseteq Nat
    BY <1>5, NextRow DEF Candidates
  <2>2. i \in Candidates(st)
    BY <1>7, <2>1, LeastOf DEF First
  <2>3. i \in DOMAIN st.outbox /\ st.outbox[i].status \in Waiting
    BY <2>2 DEF Candidates
  <2> HIDE DEF i
  <2> QED
    BY <1>3, <1>4, <1>5, <1>6, <1>7, <2>3, LeaseRowSound
<1> QED
  BY <1>3, <1>6, <1>7

\* The operations on a ref
LEMMA EndsSound ==
    ASSUME Orderly(db), Linked(db), NEW cur, Sound(db, cur), NEW c,
           Ack(c) \/ \E action \in {"fail", "defer", "release"} : GiveBack(c, action)
    PROVE  Sound(db', cur)
<1> DEFINE st == Reclaimed(db)
<1>1. PICK i \in HeldRows(st, c) : \E s : db' = Finish(st, i, s) /\ s # "awaiting_ack"
  <2>1. CASE Ack(c)
    BY <2>1 DEF Ack
  <2>2. ASSUME NEW action \in {"fail", "defer", "release"}, GiveBack(c, action)
        PROVE  \E i \in HeldRows(st, c) : \E s : db' = Finish(st, i, s) /\ s # "awaiting_ack"
    <3>1. PICK i \in HeldRows(st, c) : db' = Finish(st, i, ResultStatus(st.outbox[i], action))
      BY <2>2 DEF GiveBack
    <3> DEFINE row == st.outbox[i]
    <3>2. ResultStatus(row, action) \in {"superseded", "dead_letter", "retry", "deferred", "queued"}
      <4> HIDE DEF row
      <4> QED
        BY DEF ResultStatus
    <3> HIDE DEF st
    <3> QED
      BY <3>1, <3>2
  <2> QED
    BY <2>1, <2>2
<1>2. Steady(db, st) /\ Orderly(st)
  BY ReclaimedMoves, ReclaimedKeeps DEF Sound
<1>3. Shaped(st) /\ Linked(st)
  BY <1>2, AlikeLinks, AlikeIsShaped DEF Steady, Moves, Goes
<1> HIDE DEF st
<1>4. st.outbox[i].status = "leased"
  BY DEF HeldRows, LiveLeases
<1>5. Steady(st, db')
  BY <1>1, <1>3, <1>4, FinishMoves
<1>6. Orderly(db')
  BY AckKeeps, GiveBackKeeps
<1> QED
  BY <1>2, <1>5, <1>6, SteadyTwice, SteadySound

\* reclaim_expired_connector_leases and exhaust_connector_retries
LEMMA MaintenanceSound ==
    ASSUME Orderly(db), Linked(db), NEW cur, Sound(db, cur), Maintenance
    PROVE  Sound(db', cur)
<1>1. CASE Reclaim
  <2>1. db' = Reclaimed(db)
    BY <1>1 DEF Reclaim, Reclaimed
  <2>2. Steady(db, db') /\ Orderly(db')
    BY <2>1, ReclaimedMoves, ReclaimedKeeps DEF Sound
  <2> QED
    BY <2>2, SteadySound
<1>2. CASE ExhaustRetries
  <2> DEFINE st == Reclaimed(db)
  <2>1. db' = Exhausted(st)
    BY <1>2 DEF ExhaustRetries
  <2>2. Steady(db, st) /\ Orderly(st)
    BY ReclaimedMoves, ReclaimedKeeps DEF Sound
  <2> HIDE DEF st
  <2>3. Shaped(st) /\ Linked(st)
    BY <2>2, AlikeLinks, AlikeIsShaped DEF Steady, Moves, Goes
  <2>4. Steady(st, db') /\ Orderly(db')
    BY <2>1, <2>2, <2>3, ExhaustedMoves, ExhaustedIs
  <2> QED
    BY <2>2, <2>4, SteadyTwice, SteadySound
<1> QED
  BY <1>1, <1>2 DEF Maintenance

\* retry_final_ready_delivery of a root, and a deadline that passes
LEMMA RowEditsSound ==
    ASSUME Orderly(db), Linked(db), NEW cur, Sound(db, cur), NEW i \in DOMAIN db.outbox,
           RetryStale(i) \/ RetryDeadLetter(i) \/ RowDue(i)
    PROVE  Sound(db', cur)
<1> DEFINE o == db.outbox[i]
<1>1. Shaped(db) /\ DOMAIN o = RowFields
  BY OrderlyIsShaped DEF Shaped
<1>2. Orderly(db')
  BY RetryStaleKeeps, RetryDeadLetterKeeps, RowDueKeeps
<1>3. CASE RetryStale(i)
  <2>1. db' = Close(db, {i}, "superseded") /\ o.kind # "part"
    BY <1>3 DEF RetryStale
  <2>2. /\ Moves(db, db') /\ db'.plans = db.plans
        /\ \A x \in DOMAIN db.outbox \ {i} : db'.outbox[x] = db.outbox[x]
    BY <1>1, <2>1, CloseMoves DEF Terminal
  <2>3. \A x \in DOMAIN db.plans : \A j \in JobRows(db.plans[x]) :
           db.outbox[j].status = "leased" => db'.outbox[j].status = "leased"
    BY <2>1, <2>2 DEF Linked, IsPartOf
  <2>4. Steady(db, db')
    BY <2>2, <2>3, WaitsStay DEF Steady, Moves
  <2> QED
    BY <1>2, <2>4, SteadySound
<1>4. ASSUME NEW n, RowStays(o, n), RowGoes(o, n), o.kind = "part" /\ n.used # 0 => o.used # 0,
             o.status = "leased" => n.status = "leased", db' = [db EXCEPT !.outbox[i] = n]
      PROVE  Sound(db', cur)
  <2>1. /\ DOMAIN db' = {"outbox", "leases", "plans"} /\ db'.plans = db.plans
        /\ db'.outbox = [db.outbox EXCEPT ![i] = n]
    BY <1>1, <1>4 DEF Shaped
  <2>2. Moves(db, db')
    BY <1>1, <1>4, <2>1, OneRowMoves
  <2>3. \A j \in DOMAIN db.outbox : db'.outbox[j] = IF j = i THEN n ELSE db.outbox[j]
    BY <2>1
  <2>4. \A x \in DOMAIN db.plans : \A j \in JobRows(db.plans[x]) :
           db.outbox[j].status = "leased" => db'.outbox[j].status = "leased"
    BY <1>4, <2>3 DEF Linked, IsPartOf
  <2>5. Steady(db, db')
    BY <2>2, <2>4, WaitsStay DEF Steady, Moves
  <2> QED
    BY <1>2, <2>5, SteadySound
<1>5. CASE RetryDeadLetter(i)
  <2> DEFINE n == [o EXCEPT !.status = "queued", !.used = 0]
  <2>1. db' = [db EXCEPT !.outbox[i] = n] /\ o.kind # "part" /\ o.status = "dead_letter"
    BY <1>5 DEF RetryDeadLetter
  <2> HIDE DEF o
  <2>2. RowStays(o, n) /\ n.status = "queued" /\ n.gen = o.gen
    BY <1>1 DEF RowStays, RowFields
  <2> HIDE DEF n
  <2>3. RowGoes(o, n)
    BY <2>1, <2>2 DEF RowGoes
  <2> QED
    BY <1>4, <2>1, <2>2, <2>3
<1>6. CASE RowDue(i)
  <2> DEFINE n == [o EXCEPT !.due = TRUE]
  <2>1. db' = [db EXCEPT !.outbox[i] = n]
    BY <1>6 DEF RowDue
  <2> HIDE DEF o
  <2>2. RowStays(o, n) /\ n.status = o.status /\ n.gen = o.gen /\ n.used = o.used
    BY <1>1 DEF RowStays, RowFields
  <2> HIDE DEF n
  <2>3. RowGoes(o, n)
    BY <2>2 DEF RowGoes
  <2> QED
    BY <1>4, <2>1, <2>2, <2>3
<1> QED
  BY <1>3, <1>5, <1>6

\* Leases say nothing of this, and hands neither.
LEMMA SameIsSound ==
    ASSUME NEW a, NEW b, b.outbox = a.outbox, b.plans = a.plans, NEW cur, Sound(a, cur)
    PROVE  Sound(b, cur)
<1>1. InDescent(b)
  <2>1. \A t, r : RootsOf(b, t, r) = RootsOf(a, t, r)
    BY DEF RootsOf
  <2> QED
    BY <2>1 DEF Sound, InDescent, Rooted, Keyed, Descends, GensInOrder, PartsTried, Same
<1>2. AllFresh(b)
  BY DEF Sound, AllFresh, FreshPlan, RootsOf
<1> QED
  BY <1>1, <1>2 DEF Sound, OneText, Waits, MayWait, Justified, Excused

\* A connector stops, a lease expires.
LEMMA LeasesSound ==
    ASSUME Orderly(db), NEW cur, Sound(db, cur),
           \/ \E c : Stop(c)
           \/ \E l \in db.leases : LeaseExpires(l)
    PROVE  Sound(db', cur)
<1>1. DOMAIN db = {"outbox", "leases", "plans"}
  BY DEF Orderly, StoreFits
<1>2. db'.outbox = db.outbox /\ db'.plans = db.plans
  BY <1>1 DEF Stop, LeaseExpires
<1> QED
  BY <1>2, SameIsSound

\* prepare_connector_plan_part
LEMMA PartSound ==
    ASSUME Orderly(db), NEW cur, Sound(db, cur), NEW q \in DOMAIN db.plans, Part(q)
    PROVE  Sound(db', cur)
<1> DEFINE p == db.plans[q]
           n == [p EXCEPT !.staged = @ + 1]
<1>1. Shaped(db)
  BY OrderlyIsShaped
<1>2. DOMAIN p = PlanFields
  BY <1>1 DEF Shaped
<1>3. /\ DOMAIN db' = {"outbox", "leases", "plans"} /\ db'.outbox = db.outbox
      /\ DOMAIN db'.plans = DOMAIN db.plans
      /\ \A x \in DOMAIN db.plans : db'.plans[x] = IF x = q THEN n ELSE db.plans[x]
  BY <1>1 DEF Part, Shaped
<1> HIDE DEF p
<1>4. PlanStays(p, n) /\ n.state = p.state
  BY <1>2 DEF PlanStays, PlanFields
<1> HIDE DEF n
<1>5. \A x \in DOMAIN db.plans :
         \/ db'.plans[x] = db.plans[x]
         \/ PlanStays(db.plans[x], db'.plans[x]) /\ PlanGoes(db.plans[x], db'.plans[x])
  BY <1>3, <1>4 DEF p, PlanGoes
<1>6. Moves(db, db')
  BY <1>1, <1>3, <1>5, PlansGo
<1>7. Steady(db, db')
  BY <1>3, <1>6, WaitsStay DEF Steady, Moves
<1> QED
  BY <1>7, PartKeeps, SteadySound

\* prepare_connector_plan_begin: a plan of the turn's final is added, for the
\* generation of its root.
LEMMA BeginSound ==
    ASSUME Orderly(db), Linked(db), NEW cur, Sound(db, cur),
           NEW t, NEW r \in Finals, cur[t] = r, NEW v, NEW g \in Nat \ {0},
           NEW n \in 1 .. MaxParts, NEW src \in BOOLEAN,
           SamePlan(db, t, r, v, g) = {}, ~Shared(v) => (src <=> v \in Versions),
           src => \A i \in RootsOf(db, t, r) :
                     db.outbox[i].status # "awaiting_ack" /\ db.outbox[i].gen = g,
           ~src => g = 1,
           db' = WithPlan(db, Highest(DOMAIN db.plans) + 1, NewPlan(t, r, v, g, n, src))
    PROVE  Sound(db', cur)
<1> DEFINE p == NewPlan(t, r, v, g, n, src)
           m == Highest(DOMAIN db.plans) + 1
<1>1. PlanFits(p) /\ m \notin DOMAIN db.plans
  BY NewPlanFits, NextPlan
<1>2. /\ p.turn = t /\ p.rev = r /\ p.ver = v /\ p.gen = g /\ p.sourced = src /\ p.jobs = <<>>
      /\ p.state = "preparing" /\ ~p.recovers /\ ~p.recovered
  BY DEF NewPlan
<1> HIDE DEF p, m
<1>3. /\ Orderly(db') /\ db'.outbox = db.outbox
      /\ DOMAIN db'.plans = DOMAIN db.plans \cup {m} /\ db'.plans[m] = p
      /\ \A x \in DOMAIN db.plans : db'.plans[x] = db.plans[x]
  <2>1. db' = WithPlan(db, m, p)
    BY DEF m, p
  <2> QED
    BY <1>1, <2>1, WithPlanIs
<1>4. JobRows(p) = {}
  BY <1>2 DEF JobRows
<1>5. \A a, b : RootsOf(db', a, b) = RootsOf(db, a, b)
  BY <1>3 DEF RootsOf
<1>6. \A x \in DOMAIN db.plans : ~(Akin(p, db.plans[x]) /\ db.plans[x].gen = g)
  BY <1>2 DEF SamePlan, PlansFor, Akin
<1>7. Rooted(db') /\ PartsTried(db')
  BY <1>3 DEF Sound, InDescent, Rooted, PartsTried, Same
<1>8. Keyed(db')
  <2>1. \A q \in DOMAIN db'.plans :
           /\ db'.plans[q].gen \in Nat \ {0}
           /\ ~Shared(db'.plans[q].ver) => (db'.plans[q].sourced <=> db'.plans[q].ver \in Versions)
    BY <1>2, <1>3 DEF Sound, InDescent, Keyed
  <2>2. ASSUME NEW q \in DOMAIN db'.plans, NEW x \in DOMAIN db'.plans,
               Akin(db'.plans[q], db'.plans[x]), db'.plans[q].gen = db'.plans[x].gen, q # x
        PROVE  FALSE
    <3>1. CASE q = m
      BY <1>2, <1>3, <1>6, <2>2, <3>1
    <3>2. CASE x = m
      BY <1>2, <1>3, <1>6, <2>2, <3>2 DEF Akin
    <3>3. CASE q # m /\ x # m
      BY <1>3, <2>2, <3>3 DEF Sound, InDescent, Keyed
    <3> QED
      BY <3>1, <3>2, <3>3
  <2> QED
    BY <2>1, <2>2 DEF Keyed
<1>9. Descends(db')
  <2> SUFFICES ASSUME NEW q \in DOMAIN db'.plans
               PROVE  LET o == db'.plans[q] IN
                      /\ o.recovers => \E x \in DOMAIN db'.plans :
                             Akin(o, db'.plans[x]) /\ db'.plans[x].gen + 1 = o.gen /\ db'.plans[x].recovered
                      /\ o.recovered => o.state = "superseded"
                      /\ ~o.recovers => IF o.sourced THEN \A i \in RootsOf(db', o.turn, o.rev) : o.gen <= db'.outbox[i].gen
                                                     ELSE o.gen = 1
    BY DEF Descends
  <2>1. CASE q = m
    BY <1>2, <1>3, <1>5, <2>1
  <2>2. CASE q # m
    BY <1>3, <1>5, <2>2 DEF Sound, InDescent, Descends
  <2> QED
    BY <2>1, <2>2
<1>10. GensInOrder(db')
  <2> SUFFICES ASSUME NEW q \in DOMAIN db'.plans, NEW x \in DOMAIN db'.plans,
                      Akin(db'.plans[q], db'.plans[x]), db'.plans[q].gen < db'.plans[x].gen,
                      ~Shared(db'.plans[q].ver),
                      NEW i \in JobRows(db'.plans[q]), NEW j \in JobRows(db'.plans[x])
               PROVE  i < j
    BY DEF GensInOrder
  <2>1. q # m /\ x # m
    BY <1>3, <1>4
  <2> QED
    BY <1>3, <2>1 DEF Sound, InDescent, GensInOrder
<1>11. AllFresh(db')
  <2>1. FreshPlan(db', m)
    BY <1>2, <1>3, <1>4, <1>5 DEF FreshPlan
  <2>2. \A q \in DOMAIN db.plans : FreshPlan(db', q)
    BY <1>3, <1>5 DEF Sound, AllFresh, FreshPlan
  <2> QED
    BY <1>3, <2>1, <2>2 DEF AllFresh
<1>12. OneText(db', cur)
  <2>1. \A q \in DOMAIN db'.plans :
            db'.plans[q].state \in Open /\ cur[db'.plans[q].turn] \in Finals
                => db'.plans[q].rev = cur[db'.plans[q].turn]
    BY <1>2, <1>3 DEF Sound, OneText
  <2>2. ASSUME NEW q \in DOMAIN db'.plans, NEW x \in DOMAIN db'.plans,
               db'.plans[q].state \in Open, db'.plans[x].state \in Open,
               db'.plans[x].turn = db'.plans[q].turn
        PROVE  db'.plans[x].rev = db'.plans[q].rev
    <3>1. CASE db'.plans[q].turn = t
      BY <2>1, <2>2, <3>1
    <3>2. CASE db'.plans[q].turn # t
      BY <1>2, <1>3, <2>2, <3>2 DEF Sound, OneText
    <3> QED
      BY <3>1, <3>2
  <2> QED
    BY <2>1, <2>2 DEF OneText
<1>13. Waits(db')
  <2> SUFFICES ASSUME NEW q \in DOMAIN db'.plans, db'.plans[q].state = "waiting_predecessor"
               PROVE  MayWait(db', q)
    BY DEF Waits
  <2>1. q \in DOMAIN db.plans /\ db.plans[q].state = "waiting_predecessor"
    BY <1>2, <1>3
  <2>2. MayWait(db, q)
    BY <2>1 DEF Sound, Waits
  <2>3. CASE Justified(db, q)
    BY <1>3, <2>1, <2>3 DEF Justified, MayWait
  <2>4. CASE Excused(db, db.plans[q].turn)
    BY <1>3, <2>1, <2>4, ExcuseStays DEF MayWait
  <2> QED
    BY <2>2, <2>3, <2>4 DEF MayWait
<1> QED
  BY <1>7, <1>8, <1>9, <1>10, <1>11, <1>12, <1>13 DEF Sound, InDescent

\* With a ref the root is leased, so it awaits nothing and has a generation.
LEMMA BeginsSound ==
    ASSUME Orderly(db), Linked(db), Sound(db, current),
           NEW n \in 1 .. MaxParts,
           \/ \E c \in Connectors, v \in Versions : Begin(c, v, n)
           \/ \E t \in Turns, v \in FreeVersions : BeginSourceLess(t, v, n)
    PROVE  Sound(db', current)
<1>1. ASSUME NEW c \in Connectors, NEW v \in Versions, Begin(c, v, n) PROVE Sound(db', current)
  <2>1. PICK l \in LiveLeases(db, c) :
           LET o == db.outbox[l.row]
               g == Max({1, o.gen})
           IN  /\ o.kind = "ready" /\ IsCurrent(o.turn, o.rev) /\ SamePlan(db, o.turn, o.rev, v, g) = {}
               /\ db' = WithPlan(db, Highest(DOMAIN db.plans) + 1, NewPlan(o.turn, o.rev, v, g, n, TRUE))
    BY <1>1 DEF Begin
  <2> DEFINE o == db.outbox[l.row]
             t == o.turn
             r == o.rev
  <2>2. l.row \in DOMAIN db.outbox /\ o.status = "leased"
    BY DEF LiveLeases, Orderly, LeasesFit
  <2>3. o.gen \in Nat \ {0} /\ \A i \in RootsOf(db, t, r) : i = l.row
    BY <2>1, <2>2 DEF Sound, InDescent, Rooted, RootsOf
  <2>4. Max({1, o.gen}) = o.gen
    BY <2>3, MaxOfTwo
  <2> DEFINE g == o.gen
  <2>5. /\ SamePlan(db, t, r, v, g) = {} /\ IsCurrent(t, r)
        /\ db' = WithPlan(db, Highest(DOMAIN db.plans) + 1, NewPlan(t, r, v, g, n, TRUE))
    BY <2>1, <2>4
  <2>6. \A i \in RootsOf(db, t, r) : db.outbox[i].status # "awaiting_ack" /\ db.outbox[i].gen = g
    BY <2>2, <2>3
  <2>7. r \in Finals /\ current[t] = r
    BY <2>5 DEF IsCurrent
  <2> HIDE DEF o, t, r, g
  <2>8. g \in Nat \ {0}
    BY <2>3 DEF g
  <2> QED
    BY <2>5, <2>6, <2>7, <2>8, BeginSound
<1>2. ASSUME NEW t, NEW v \in FreeVersions, BeginSourceLess(t, v, n) PROVE Sound(db', current)
  <2> DEFINE r == current[t]
  <2>1. /\ SamePlan(db, t, r, v, 1) = {} /\ IsCurrent(t, r)
        /\ db' = WithPlan(db, Highest(DOMAIN db.plans) + 1, NewPlan(t, r, v, 1, n, FALSE))
    BY <1>2 DEF BeginSourceLess
  <2>2. r \in Finals /\ (~Shared(v) => v \notin Versions)
    BY <2>1 DEF IsCurrent, Shared
  <2> HIDE DEF r
  <2>3. current[t] = r
    BY DEF r
  <2>4. 1 \in Nat \ {0} /\ FALSE \in BOOLEAN /\ (~Shared(v) => (FALSE <=> v \in Versions))
    BY <2>2
  <2> QED
    BY <2>1, <2>2, <2>3, <2>4, BeginSound
<1> QED
  BY <1>1, <1>2

\* What a plan is given: rows of its own, behind all others.
LEMMA MaterializedIs ==
    ASSUME NEW st, Orderly(st), NEW q \in DOMAIN st.plans, NEW ops, Steps(ops)
    PROVE  LET e == Materialize(st, q, ops)
               p == st.plans[q]
               n == e.plans[q]
           IN  /\ DOMAIN e = {"outbox", "leases", "plans"}
               /\ DOMAIN st.outbox \subseteq DOMAIN e.outbox
               /\ \A i \in DOMAIN st.outbox : e.outbox[i] = st.outbox[i]
               /\ \A i \in DOMAIN e.outbox \ DOMAIN st.outbox :
                     /\ e.outbox[i].kind = "part" /\ e.outbox[i].used = 0
                     /\ e.outbox[i].status = "queued"
                     /\ \A j \in DOMAIN st.outbox : j < i
               /\ DOMAIN e.plans = DOMAIN st.plans
               /\ \A x \in DOMAIN st.plans \ {q} : e.plans[x] = st.plans[x]
               /\ n.turn = p.turn /\ n.rev = p.rev /\ n.ver = p.ver /\ n.gen = p.gen
               /\ n.sourced = p.sourced /\ n.state = p.state
               /\ n.recovers = p.recovers /\ n.recovered = p.recovered
               /\ JobRows(n) \subseteq DOMAIN e.outbox \ DOMAIN st.outbox
<1> DEFINE base == Highest(DOMAIN st.outbox)
           new  == (base + 1) .. (base + Len(ops))
           p    == st.plans[q]
           row  == [kind |-> "part", turn |-> st.plans[q].turn, rev |-> st.plans[q].rev,
                    status |-> "queued", due |-> FALSE, used |-> 0, doomed |-> FALSE,
                    gen |-> 0, foot |-> 0, after |-> 0]
           jobs == [k \in DOMAIN ops |-> [op |-> ops[k].op, ord |-> ops[k].ord, row |-> base + k]]
           e    == Materialize(st, q, ops)
<1>1. base \in Nat /\ Len(ops) \in Nat /\ DOMAIN ops = 1 .. Len(ops)
  BY NextRow DEF Steps
<1>2. \A i \in DOMAIN st.outbox : i \in Nat \ {0} /\ i <= base
  BY NextRow
<1>3. DOMAIN st = {"outbox", "leases", "plans"} /\ DOMAIN p = PlanFields
  BY OrderlyIsShaped DEF Shaped
<1>4. row.kind = "part" /\ row.used = 0 /\ row.status = "queued"
  OBVIOUS
<1>5. e = [st EXCEPT !.outbox = [i \in DOMAIN @ \cup new |-> IF i \in new THEN row ELSE @[i]],
                     !.plans[q].jobs = jobs]
  BY DEF Materialize
<1> HIDE DEF base
<1>6. \A k \in DOMAIN jobs : jobs[k].row \in new
  BY <1>1
<1>7. new \cap DOMAIN st.outbox = {} /\ \A i \in new, j \in DOMAIN st.outbox : j < i
  BY <1>1, <1>2
<1> HIDE DEF new, row, jobs, e
<1>8. /\ DOMAIN e = {"outbox", "leases", "plans"}
      /\ DOMAIN e.outbox = DOMAIN st.outbox \cup new
      /\ \A i \in new : e.outbox[i] = row
      /\ \A i \in DOMAIN st.outbox : e.outbox[i] = st.outbox[i]
      /\ DOMAIN e.plans = DOMAIN st.plans
      /\ \A x \in DOMAIN st.plans \ {q} : e.plans[x] = st.plans[x]
      /\ e.plans[q] = [p EXCEPT !.jobs = jobs]
  BY <1>3, <1>5, <1>7
<1> HIDE DEF p
<1> DEFINE n == e.plans[q]
<1>9. /\ n.turn = p.turn /\ n.rev = p.rev /\ n.ver = p.ver /\ n.gen = p.gen
      /\ n.sourced = p.sourced /\ n.state = p.state
      /\ n.recovers = p.recovers /\ n.recovered = p.recovered
  BY <1>3, <1>8 DEF PlanFields
<1>10. JobRows(n) \subseteq new
  <2>1. n.jobs = jobs
    BY <1>3, <1>8 DEF PlanFields
  <2> HIDE DEF n
  <2> QED
    BY <1>6, <2>1 DEF JobRows
<1> HIDE DEF n
<1>11. new \subseteq DOMAIN e.outbox \ DOMAIN st.outbox
  BY <1>7, <1>8
<1>12. \A i \in DOMAIN e.outbox \ DOMAIN st.outbox :
          /\ e.outbox[i].kind = "part" /\ e.outbox[i].used = 0
          /\ e.outbox[i].status = "queued"
          /\ \A j \in DOMAIN st.outbox : j < i
  BY <1>4, <1>7, <1>8
<1> QED
  BY <1>8, <1>9, <1>10, <1>11, <1>12 DEF e, n, p

\* Rows behind all others may be given to a plan of the last generation, and to any of
\* a version that is shared.
LEMMA MaterializeSound ==
    ASSUME NEW st, Orderly(st), Linked(st), NEW q \in DOMAIN st.plans, NEW ops, Steps(ops),
           Rooted(st), Keyed(st), GensInOrder(st), PartsTried(st),
           ~Shared(st.plans[q].ver) => \A x \in DOMAIN st.plans :
               Akin(st.plans[q], st.plans[x]) => ~(st.plans[q].gen < st.plans[x].gen)
    PROVE  LET e == Materialize(st, q, ops)
           IN  /\ Rooted(e) /\ Keyed(e) /\ GensInOrder(e) /\ PartsTried(e)
               /\ \A t, r : RootsOf(e, t, r) = RootsOf(st, t, r)
<1> DEFINE e == Materialize(st, q, ops)
<1>1. /\ DOMAIN st.outbox \subseteq DOMAIN e.outbox
      /\ \A i \in DOMAIN st.outbox : e.outbox[i] = st.outbox[i]
      /\ \A i \in DOMAIN e.outbox \ DOMAIN st.outbox :
            /\ e.outbox[i].kind = "part" /\ e.outbox[i].used = 0
            /\ \A j \in DOMAIN st.outbox : j < i
      /\ DOMAIN e.plans = DOMAIN st.plans
      /\ JobRows(e.plans[q]) \subseteq DOMAIN e.outbox \ DOMAIN st.outbox
  BY MaterializedIs
<1>2. \A x \in DOMAIN st.plans :
         /\ e.plans[x].turn = st.plans[x].turn /\ e.plans[x].rev = st.plans[x].rev
         /\ e.plans[x].ver = st.plans[x].ver /\ e.plans[x].gen = st.plans[x].gen
         /\ e.plans[x].sourced = st.plans[x].sourced
         /\ x # q => e.plans[x] = st.plans[x]
  BY MaterializedIs
<1> HIDE DEF e
<1>3. \A x, y \in DOMAIN st.plans : Akin(e.plans[x], e.plans[y]) <=> Akin(st.plans[x], st.plans[y])
  BY <1>2 DEF Akin
<1>4. Rooted(e)
  BY <1>1 DEF Rooted
<1>5. Keyed(e)
  BY <1>1, <1>2, <1>3 DEF Keyed
<1>6. GensInOrder(e)
  <2> SUFFICES ASSUME NEW x \in DOMAIN e.plans, NEW y \in DOMAIN e.plans,
                      Akin(e.plans[x], e.plans[y]), e.plans[x].gen < e.plans[y].gen,
                      ~Shared(e.plans[x].ver),
                      NEW i \in JobRows(e.plans[x]), NEW j \in JobRows(e.plans[y])
               PROVE  i < j
    BY DEF GensInOrder
  <2>1. Akin(st.plans[x], st.plans[y]) /\ st.plans[x].gen < st.plans[y].gen /\ ~Shared(st.plans[x].ver)
    BY <1>1, <1>2, <1>3
  <2>2. x # q
    BY <1>1, <2>1
  <2>3. i \in JobRows(st.plans[x]) /\ i \in DOMAIN st.outbox
    BY <1>1, <1>2, <2>2 DEF Linked, IsPartOf
  <2>4. CASE y = q
    BY <1>1, <2>3, <2>4
  <2>5. CASE y # q
    BY <1>1, <1>2, <2>1, <2>3, <2>5 DEF GensInOrder
  <2> QED
    BY <2>4, <2>5
<1>7. PartsTried(e)
  <2> SUFFICES ASSUME NEW i \in DOMAIN e.outbox, NEW j \in DOMAIN e.outbox,
                      e.outbox[i].kind = "part", e.outbox[i].used # 0,
                      e.outbox[j].kind = "part", Same(e, i, j), j < i
               PROVE  e.outbox[j].status \in Terminal
    BY DEF PartsTried
  <2>1. i \in DOMAIN st.outbox /\ i \in Nat
    BY <1>1, NextRow
  <2>2. j \in DOMAIN st.outbox
    <3>1. ASSUME j \notin DOMAIN st.outbox PROVE FALSE
      <4>1. i < j
        BY <1>1, <2>1, <3>1
      <4>2. j \in Nat
        BY MaterializeIs, NextRow DEF e
      <4> QED
        BY <2>1, <4>1, <4>2
    <3> QED
      BY <3>1
  <2>3. Same(st, i, j)
    BY <1>1, <2>1, <2>2 DEF Same
  <2> QED
    BY <1>1, <2>1, <2>2, <2>3 DEF PartsTried
<1>8. \A t, r : RootsOf(e, t, r) = RootsOf(st, t, r)
  BY <1>1 DEF RootsOf
<1> QED
  BY <1>4, <1>5, <1>6, <1>7, <1>8 DEF e

\* A plan that is prepared is of the last generation: any later one would begin in
\* it, with a plan that was recovered.
LEMMA PreparedIsLast ==
    ASSUME NEW st, Linked(st), InDescent(st), NEW q \in DOMAIN st.plans, FreshPlan(st, q),
           st.plans[q].state = "preparing", ~Shared(st.plans[q].ver),
           NEW z \in DOMAIN st.plans, Akin(st.plans[q], st.plans[z])
    PROVE  ~(st.plans[q].gen < st.plans[z].gen)
<1> DEFINE p == st.plans[q]
           S == {g \in Nat : \E x \in DOMAIN st.plans :
                    Akin(p, st.plans[x]) /\ p.gen < g /\ st.plans[x].gen = g}
           m == Min(S)
<1> SUFFICES ASSUME p.gen < st.plans[z].gen PROVE FALSE
  OBVIOUS
<1>1. \A x \in DOMAIN st.plans : st.plans[x].gen \in Nat \ {0}
  BY DEF InDescent, Keyed
<1>2. m \in S /\ \A g \in S : m <= g
  <2>1. S \subseteq Nat
    OBVIOUS
  <2>2. st.plans[z].gen \in S
    BY <1>1
  <2> HIDE DEF S
  <2> QED
    BY <2>1, <2>2, LeastOf
<1> HIDE DEF m
<1>3. PICK x \in DOMAIN st.plans : Akin(p, st.plans[x]) /\ p.gen < m /\ st.plans[x].gen = m
  BY <1>2
<1> DEFINE n == st.plans[x]
<1>4. m \in Nat /\ p.gen \in Nat \ {0}
  BY <1>1, <1>2
<1>5. CASE ~n.recovers
  <2>1. IF n.sourced THEN \A i \in RootsOf(st, n.turn, n.rev) : n.gen <= st.outbox[i].gen ELSE n.gen = 1
    BY <1>5 DEF InDescent, Descends
  <2>2. n.sourced
    BY <1>3, <1>4, <2>1
  <2>3. p.sourced
    BY <1>3, <2>2 DEF InDescent, Keyed, Akin
  <2>4. PICK i \in RootsOf(st, p.turn, p.rev) : TRUE
    BY <2>3 DEF Linked
  <2>5. st.outbox[i].gen = p.gen
    BY <2>3 DEF FreshPlan
  <2>6. n.turn = p.turn /\ n.rev = p.rev
    BY <1>3 DEF Akin
  <2> HIDE DEF p, n
  <2> QED
    BY <1>3, <1>4, <2>1, <2>2, <2>4, <2>5, <2>6 DEF n
<1>6. CASE n.recovers
  <2>1. PICK y \in DOMAIN st.plans : Akin(n, st.plans[y]) /\ st.plans[y].gen + 1 = n.gen /\ st.plans[y].recovered
    BY <1>6 DEF InDescent, Descends
  <2>2. Akin(p, st.plans[y]) /\ st.plans[y].gen \in Nat /\ st.plans[y].gen + 1 = m
    BY <1>1, <1>3, <2>1 DEF Akin
  <2>3. CASE st.plans[y].gen = p.gen
    <3>1. y = q
      BY <2>2, <2>3 DEF InDescent, Keyed
    <3> QED
      BY <2>1, <3>1 DEF InDescent, Descends
  <2>4. CASE st.plans[y].gen # p.gen
    <3>1. p.gen < st.plans[y].gen
      BY <1>3, <1>4, <2>2, <2>4
    <3>2. st.plans[y].gen \in S
      BY <2>2, <3>1
    <3> HIDE DEF S
    <3> QED
      BY <1>2, <1>4, <2>2, <3>2
  <2> QED
    BY <2>3, <2>4
<1> QED
  BY <1>5, <1>6

\* Only the state of plans changes, and what was recovered stays superseded.
LEMMA StatesLineage ==
    ASSUME NEW a, NEW b, Alike(a, b), b.outbox = a.outbox, InDescent(a),
           \A q \in DOMAIN a.plans : a.plans[q].recovered => b.plans[q].state = "superseded"
    PROVE  InDescent(b)
<1>1. /\ DOMAIN b.plans = DOMAIN a.plans
      /\ \A q \in DOMAIN a.plans : PlanStays(a.plans[q], b.plans[q])
  BY DEF Alike
<1>2. \A q \in DOMAIN a.plans :
         /\ b.plans[q].turn = a.plans[q].turn /\ b.plans[q].rev = a.plans[q].rev
         /\ b.plans[q].ver = a.plans[q].ver /\ b.plans[q].gen = a.plans[q].gen
         /\ b.plans[q].sourced = a.plans[q].sourced /\ b.plans[q].recovers = a.plans[q].recovers
         /\ b.plans[q].recovered = a.plans[q].recovered
         /\ JobRows(b.plans[q]) = JobRows(a.plans[q])
  BY <1>1 DEF PlanStays, JobRows
<1>3. \A q, x \in DOMAIN a.plans : Akin(b.plans[q], b.plans[x]) <=> Akin(a.plans[q], a.plans[x])
  BY <1>2 DEF Akin
<1>4. \A t, r : RootsOf(b, t, r) = RootsOf(a, t, r)
  BY DEF RootsOf
<1>5. Rooted(b) /\ PartsTried(b)
  BY DEF InDescent, Rooted, PartsTried, Same
<1>6. Keyed(b) /\ GensInOrder(b)
  BY <1>1, <1>2, <1>3 DEF InDescent, Keyed, GensInOrder
<1>7. Descends(b)
  <2> SUFFICES ASSUME NEW q \in DOMAIN b.plans
               PROVE  LET n == b.plans[q] IN
                      /\ n.recovers => \E x \in DOMAIN b.plans :
                             Akin(n, b.plans[x]) /\ b.plans[x].gen + 1 = n.gen /\ b.plans[x].recovered
                      /\ n.recovered => n.state = "superseded"
                      /\ ~n.recovers => IF n.sourced THEN \A i \in RootsOf(b, n.turn, n.rev) : n.gen <= b.outbox[i].gen
                                                     ELSE n.gen = 1
    BY DEF Descends
  <2> DEFINE p == a.plans[q]
             n == b.plans[q]
  <2>1. /\ p.recovers => \E x \in DOMAIN a.plans :
               Akin(p, a.plans[x]) /\ a.plans[x].gen + 1 = p.gen /\ a.plans[x].recovered
        /\ ~p.recovers => IF p.sourced THEN \A i \in RootsOf(a, p.turn, p.rev) : p.gen <= a.outbox[i].gen
                                       ELSE p.gen = 1
    BY <1>1 DEF InDescent, Descends
  <2>2. /\ n.recovers = p.recovers /\ n.sourced = p.sourced /\ n.turn = p.turn /\ n.rev = p.rev
        /\ n.gen = p.gen /\ n.recovered = p.recovered
    BY <1>1, <1>2
  <2>3. n.recovers => \E x \in DOMAIN b.plans :
            Akin(n, b.plans[x]) /\ b.plans[x].gen + 1 = n.gen /\ b.plans[x].recovered
    BY <1>1, <1>2, <1>3, <2>1, <2>2
  <2>4. n.recovered => n.state = "superseded"
    BY <1>1, <2>2
  <2> HIDE DEF n, p
  <2> QED
    BY <1>4, <2>1, <2>2, <2>3, <2>4 DEF n
<1> QED
  BY <1>5, <1>6, <1>7 DEF InDescent

\* _activate_waiting_presentation_plans_conn for a committed plan: it waits only if
\* a part of the plans that it replaces is leased.
LEMMA ActivateSound ==
    ASSUME NEW st, Orderly(st), Linked(st), NEW cur, Sound(st, cur),
           NEW S, Readable(st, S),
           NEW q \in DOMAIN st.plans, st.plans[q].state = "preparing"
    PROVE  LET e == Activate(st, q)
           IN  /\ Sound(e, cur) /\ DOMAIN e.plans = DOMAIN st.plans
               /\ \A x \in DOMAIN e.plans :
                     e.plans[x].turn = st.plans[q].turn => e.plans[x].state # "preparing"
               /\ DOMAIN st.outbox \subseteq DOMAIN e.outbox
               /\ \A i \in DOMAIN st.outbox : RowGoes(st.outbox[i], e.outbox[i])
               /\ \A t, r : RootsOf(e, t, r) = RootsOf(st, t, r)
<1> DEFINE p     == st.plans[q]
           ops   == Operations(p.parts, PriorParts(st, q))
           s0    == Materialize(st, q, ops)
           s1    == MarkObsolete(s0, q)
           waits == ObsoleteRows(st, q, {"leased"}) # {}
           s     == IF waits THEN "waiting_predecessor" ELSE "active"
           e     == [s1 EXCEPT !.plans[q] = [@ EXCEPT !.state = s, !.activated = ~waits]]
<1>1. Activate(st, q) = e
  BY DEF Activate
<1>2. Steps(ops)
  <2>1. p.parts \in 1 .. MaxParts
    BY DEF Orderly, StoreFits, PlanFits
  <2> HIDE DEF p
  <2> QED
    BY <2>1, PriorPartsIs, OperationsFit
<1>3. FreshPlan(st, q)
  BY DEF Sound, AllFresh
<1>4. waits => \E x \in DOMAIN st.plans \ {q} :
                  /\ st.plans[x].turn = p.turn
                  /\ \E i \in JobRows(st.plans[x]) : st.outbox[i].status = "leased"
  BY DEF ObsoleteRows, Obsolete
<1>5. /\ s = "waiting_predecessor" => waits
      /\ s \in {"waiting_predecessor", "active"}
  OBVIOUS
<1> HIDE DEF ops, waits, s
<1>6. /\ DOMAIN s0 = {"outbox", "leases", "plans"} /\ DOMAIN st.outbox \subseteq DOMAIN s0.outbox
      /\ \A i \in DOMAIN st.outbox : s0.outbox[i] = st.outbox[i]
      /\ DOMAIN s0.plans = DOMAIN st.plans
      /\ \A x \in DOMAIN st.plans \ {q} : s0.plans[x] = st.plans[x]
      /\ LET n == s0.plans[q]
         IN  /\ n.turn = p.turn /\ n.rev = p.rev /\ n.ver = p.ver /\ n.gen = p.gen
             /\ n.sourced = p.sourced /\ n.state = p.state
             /\ n.recovers = p.recovers /\ n.recovered = p.recovered
  BY <1>2, MaterializedIs
<1>7. Orderly(s0) /\ Linked(s0) /\ Shaped(s0)
  BY <1>2, MaterializeIs, MaterializeLinks, OrderlyIsShaped
<1>8. ~Shared(p.ver) => \A x \in DOMAIN st.plans : Akin(p, st.plans[x]) => ~(p.gen < st.plans[x].gen)
  BY <1>3, PreparedIsLast DEF Sound
<1>9. /\ Rooted(s0) /\ Keyed(s0) /\ GensInOrder(s0) /\ PartsTried(s0)
      /\ \A t, r : RootsOf(s0, t, r) = RootsOf(st, t, r)
  BY <1>2, <1>8, MaterializeSound DEF Sound, InDescent
<1> HIDE DEF s0
<1>10. \A x \in DOMAIN st.plans :
          LET o == st.plans[x]
              n == s0.plans[x]
          IN  /\ n.turn = o.turn /\ n.rev = o.rev /\ n.ver = o.ver /\ n.gen = o.gen
              /\ n.sourced = o.sourced /\ n.state = o.state
              /\ n.recovers = o.recovers /\ n.recovered = o.recovered
  BY <1>6
<1>11. InDescent(s0)
  <2>1. \A x, y \in DOMAIN st.plans : Akin(s0.plans[x], s0.plans[y]) <=> Akin(st.plans[x], st.plans[y])
    BY <1>10 DEF Akin
  <2>2. \A t, r : \A i \in RootsOf(st, t, r) : s0.outbox[i].gen = st.outbox[i].gen
    BY <1>6 DEF RootsOf
  <2>3. ASSUME NEW x \in DOMAIN st.plans
        PROVE  LET n == s0.plans[x] IN
               /\ n.recovers => \E y \in DOMAIN s0.plans :
                      Akin(n, s0.plans[y]) /\ s0.plans[y].gen + 1 = n.gen /\ s0.plans[y].recovered
               /\ n.recovered => n.state = "superseded"
               /\ ~n.recovers => IF n.sourced THEN \A i \in RootsOf(s0, n.turn, n.rev) : n.gen <= s0.outbox[i].gen
                                              ELSE n.gen = 1
    <3> DEFINE o == st.plans[x]
               n == s0.plans[x]
    <3>1. /\ o.recovers => \E y \in DOMAIN st.plans :
                 Akin(o, st.plans[y]) /\ st.plans[y].gen + 1 = o.gen /\ st.plans[y].recovered
          /\ o.recovered => o.state = "superseded"
          /\ ~o.recovers => IF o.sourced THEN \A i \in RootsOf(st, o.turn, o.rev) : o.gen <= st.outbox[i].gen
                                         ELSE o.gen = 1
      BY DEF Sound, InDescent, Descends
    <3>2. /\ n.turn = o.turn /\ n.rev = o.rev /\ n.gen = o.gen
          /\ n.sourced = o.sourced /\ n.state = o.state
          /\ n.recovers = o.recovers /\ n.recovered = o.recovered
      BY <1>10
    <3>3. n.recovers => \E y \in DOMAIN s0.plans :
                      Akin(n, s0.plans[y]) /\ s0.plans[y].gen + 1 = n.gen /\ s0.plans[y].recovered
      BY <1>6, <1>10, <2>1, <3>1, <3>2
    <3> HIDE DEF n, o
    <3> QED
      BY <1>9, <2>2, <3>1, <3>2, <3>3 DEF n
  <2>4. Descends(s0)
    BY <1>6, <2>3 DEF Descends
  <2> QED
    BY <1>9, <2>4 DEF InDescent
<1>12. /\ Moves(s0, s1) /\ Orderly(s1)
       /\ \A i \in DOMAIN s0.outbox :
             s0.outbox[i].status = "leased" => s1.outbox[i].status = "leased"
       /\ \A x \in DOMAIN s0.plans \ {q} :
             s0.plans[x].turn = s0.plans[q].turn
                 => s1.plans[x].state \notin {"preparing", "waiting_predecessor", "active"}
       /\ s1.plans[q] = s0.plans[q]
  BY <1>6, <1>7, MarkObsoleteMoves, MarkObsoleteIs
<1> HIDE DEF s1
<1>13. /\ Goes(s0, s1) /\ Alike(s0, s1) /\ Shaped(s1)
       /\ DOMAIN s1.outbox = DOMAIN s0.outbox /\ DOMAIN s1.plans = DOMAIN s0.plans
       /\ \A x \in DOMAIN s0.plans : PlanStays(s0.plans[x], s1.plans[x]) /\ PlanGoes(s0.plans[x], s1.plans[x])
       /\ \A i \in DOMAIN s0.outbox : RowGoes(s0.outbox[i], s1.outbox[i]) /\ RowStays(s0.outbox[i], s1.outbox[i])
  BY <1>12, AlikeIsShaped DEF Moves, Goes, Alike
<1>14. InDescent(s1)
  BY <1>11, <1>12, <1>13, GoesLineage DEF Moves
<1>15. /\ DOMAIN e = {"outbox", "leases", "plans"} /\ e.outbox = s1.outbox
       /\ DOMAIN e.plans = DOMAIN s1.plans
       /\ \A x \in DOMAIN s1.plans \ {q} : e.plans[x] = s1.plans[x]
       /\ e.plans[q] = [s1.plans[q] EXCEPT !.state = s, !.activated = ~waits]
  BY <1>6, <1>13 DEF Shaped
<1> HIDE DEF e
<1>16. PlanStays(s1.plans[q], e.plans[q]) /\ e.plans[q].state = s
  <2> DEFINE o == s1.plans[q]
             n == [o EXCEPT !.state = s, !.activated = ~waits]
  <2>1. DOMAIN o = PlanFields /\ e.plans[q] = n
    BY <1>6, <1>13, <1>15 DEF Shaped
  <2> HIDE DEF o
  <2>2. PlanStays(o, n) /\ n.state = s
    BY <2>1 DEF PlanStays, PlanFields
  <2> HIDE DEF n
  <2> QED
    BY <2>1, <2>2 DEF o
<1>17. Alike(s1, e)
  <2>1. \A x \in DOMAIN s1.plans : e.plans[x] = s1.plans[x] \/ PlanStays(s1.plans[x], e.plans[x])
    BY <1>15, <1>16
  <2> QED
    BY <1>13, <1>15, <2>1, PlansAlike
<1>18. InDescent(e)
  <2>1. \A x \in DOMAIN s1.plans : s1.plans[x].recovered => s1.plans[x].state = "superseded"
    BY <1>14 DEF InDescent, Descends
  <2>2. ~s1.plans[q].recovered
    <3>1. s1.plans[q].state = "preparing" /\ q \in DOMAIN s1.plans
      BY <1>6, <1>12, <1>13
    <3> QED
      BY <2>1, <3>1
  <2>3. \A x \in DOMAIN s1.plans : s1.plans[x].recovered => e.plans[x].state = "superseded"
    BY <1>15, <2>1, <2>2
  <2> QED
    BY <1>14, <1>15, <1>17, <2>3, StatesLineage
<1>19. \A t, r : RootsOf(e, t, r) = RootsOf(st, t, r)
  <2>1. \A t, r : RootsOf(e, t, r) = RootsOf(s0, t, r)
    BY <1>13, <1>15 DEF RowStays, RootsOf
  <2> QED
    BY <1>9, <2>1
<1>20. AllFresh(e)
  <2> SUFFICES ASSUME NEW x \in DOMAIN e.plans, e.plans[x].state = "preparing"
               PROVE  FreshPlan(e, x)
    BY DEF AllFresh, FreshPlan
  <2>1. x # q
    BY <1>5, <1>16
  <2>2. FreshPlan(st, x) /\ s0.plans[x] = st.plans[x] /\ x \in DOMAIN s0.plans
    BY <1>6, <1>13, <1>15, <2>1 DEF Sound, AllFresh
  <2>3. FreshPlan(s0, x)
    BY <1>6, <1>9, <2>2 DEF FreshPlan, RootsOf
  <2>4. FreshPlan(s1, x)
    BY <1>13, <2>2, <2>3, GoesFresh
  <2>5. \A t, r : RootsOf(e, t, r) = RootsOf(s1, t, r)
    BY <1>15 DEF RootsOf
  <2> QED
    BY <1>13, <1>15, <2>1, <2>2, <2>4, <2>5 DEF FreshPlan
<1>21. OneText(e, cur)
  <2>1. OneText(s0, cur)
    <3>1. \A x \in DOMAIN st.plans :
             /\ s0.plans[x].turn = st.plans[x].turn /\ s0.plans[x].rev = st.plans[x].rev
             /\ s0.plans[x].state = st.plans[x].state
      BY <1>10
    <3> QED
      BY <1>6, <3>1 DEF Sound, OneText
  <2>2. OneText(s1, cur)
    BY <1>13, <2>1, GoesText
  <2>3. \A x \in DOMAIN s1.plans :
           /\ e.plans[x].turn = s1.plans[x].turn /\ e.plans[x].rev = s1.plans[x].rev
           /\ e.plans[x].state \in Open => s1.plans[x].state \in Open
    <3>1. s1.plans[q].state \in Open
      BY <1>6, <1>12 DEF Open
    <3> QED
      BY <1>15, <1>16, <3>1 DEF PlanStays
  <2> QED
    BY <1>15, <2>2, <2>3 DEF OneText
<1>22. \A x \in DOMAIN st.plans :
          /\ e.plans[x].turn = st.plans[x].turn
          /\ x # q => JobRows(e.plans[x]) = JobRows(st.plans[x])
  <2>1. \A x \in DOMAIN st.plans :
           /\ e.plans[x].turn = s1.plans[x].turn /\ e.plans[x].jobs = s1.plans[x].jobs
           /\ s1.plans[x].turn = s0.plans[x].turn /\ s1.plans[x].jobs = s0.plans[x].jobs
    BY <1>6, <1>13, <1>15, <1>16 DEF PlanStays
  <2> QED
    BY <1>6, <1>10, <2>1 DEF JobRows
<1>23. \A i \in DOMAIN st.outbox : st.outbox[i].status = "leased" => e.outbox[i].status = "leased"
  BY <1>6, <1>12, <1>15
<1>24. ASSUME NEW x \in DOMAIN e.plans, x # q, e.plans[x].turn = p.turn
       PROVE  e.plans[x].state \notin {"preparing", "waiting_predecessor", "active"}
  <2>1. x \in DOMAIN s0.plans \ {q} /\ s0.plans[x].turn = s0.plans[q].turn
    BY <1>6, <1>10, <1>13, <1>15, <1>22, <1>24
  <2>2. s1.plans[x].state \notin {"preparing", "waiting_predecessor", "active"}
    BY <1>12, <2>1
  <2>3. e.plans[x] = s1.plans[x]
    BY <1>13, <1>15, <2>1
  <2> QED
    BY <2>2, <2>3
<1>25. DOMAIN e.plans = DOMAIN st.plans
  BY <1>6, <1>13, <1>15
<1>26. Waits(e)
  <2> SUFFICES ASSUME NEW x \in DOMAIN e.plans, e.plans[x].state = "waiting_predecessor"
               PROVE  MayWait(e, x)
    BY DEF Waits
  <2>1. CASE x = q
    <3>1. PICK y \in DOMAIN st.plans \ {q} :
             /\ st.plans[y].turn = p.turn
             /\ \E i \in JobRows(st.plans[y]) : st.outbox[i].status = "leased"
      BY <1>4, <1>5, <1>16, <2>1
    <3>2. PICK i \in JobRows(st.plans[y]) : st.outbox[i].status = "leased"
      BY <3>1
    <3>3. i \in DOMAIN st.outbox
      BY <3>2 DEF Linked, IsPartOf
    <3>4. i \in JobRows(e.plans[y]) /\ e.outbox[i].status = "leased"
      BY <1>22, <1>23, <3>1, <3>2, <3>3
    <3>5. e.plans[y].turn = e.plans[x].turn /\ y \in DOMAIN e.plans \ {x}
      BY <1>22, <1>25, <2>1, <3>1
    <3> QED
      BY <3>4, <3>5 DEF Justified, MayWait
  <2>2. CASE x # q
    <3>1. e.plans[x].turn # p.turn
      BY <1>24, <2>2
    <3>2. st.plans[x].state = "waiting_predecessor"
      <4>1. s1.plans[x].state = "waiting_predecessor" /\ PlanGoes(s0.plans[x], s1.plans[x])
        BY <1>13, <1>15, <2>2
      <4> QED
        BY <1>10, <1>25, <4>1 DEF PlanGoes
    <3>3. MayWait(st, x)
      BY <1>25, <3>2 DEF Sound, Waits
    <3>4. CASE Justified(st, x)
      <4>1. PICK y \in DOMAIN st.plans \ {x} :
               /\ st.plans[y].turn = st.plans[x].turn
               /\ \E i \in JobRows(st.plans[y]) : st.outbox[i].status = "leased"
        BY <3>4 DEF Justified
      <4>2. PICK i \in JobRows(st.plans[y]) : st.outbox[i].status = "leased"
        BY <4>1
      <4>3. i \in DOMAIN st.outbox /\ y # q
        BY <1>22, <1>25, <3>1, <4>1, <4>2 DEF Linked, IsPartOf
      <4>4. i \in JobRows(e.plans[y]) /\ e.outbox[i].status = "leased"
        BY <1>22, <1>23, <4>1, <4>2, <4>3
      <4>5. e.plans[y].turn = e.plans[x].turn /\ y \in DOMAIN e.plans \ {x}
        BY <1>22, <1>25, <4>1
      <4> QED
        BY <4>4, <4>5 DEF Justified, MayWait
    <3>5. CASE Excused(st, st.plans[x].turn)
      <4>1. \A y \in DOMAIN st.plans :
               /\ y \in DOMAIN e.plans
               /\ e.plans[y].turn = st.plans[y].turn /\ e.plans[y].ver = st.plans[y].ver
               /\ e.plans[y].recovered = st.plans[y].recovered
        <5>1. \A y \in DOMAIN st.plans :
                 /\ s1.plans[y].turn = s0.plans[y].turn /\ s1.plans[y].ver = s0.plans[y].ver
                 /\ s1.plans[y].recovered = s0.plans[y].recovered
          BY <1>6, <1>13 DEF PlanStays
        <5>2. \A y \in DOMAIN s1.plans :
                 /\ e.plans[y].turn = s1.plans[y].turn /\ e.plans[y].ver = s1.plans[y].ver
                 /\ e.plans[y].recovered = s1.plans[y].recovered
          BY <1>15, <1>16 DEF PlanStays
        <5> QED
          BY <1>6, <1>10, <1>13, <1>25, <5>1, <5>2
      <4> QED
        BY <1>25, <3>5, <4>1, ExcuseStays DEF MayWait
    <3> QED
      BY <3>3, <3>4, <3>5 DEF MayWait
  <2> QED
    BY <2>1, <2>2
<1>27. Sound(e, cur)
  BY <1>18, <1>20, <1>21, <1>26 DEF Sound
<1>28. \A x \in DOMAIN e.plans : e.plans[x].turn = p.turn => e.plans[x].state # "preparing"
  <2>1. e.plans[q].state # "preparing"
    BY <1>5, <1>16
  <2> QED
    BY <1>24, <2>1
<1>29. /\ DOMAIN st.outbox \subseteq DOMAIN e.outbox
       /\ \A i \in DOMAIN st.outbox : RowGoes(st.outbox[i], e.outbox[i])
  BY <1>6, <1>13, <1>15
<1> QED
  BY <1>1, <1>19, <1>25, <1>27, <1>28, <1>29 DEF p

\* prepare_connector_plan_commit without a ref
LEMMA CommitSourceLessSound ==
    ASSUME Orderly(db), NEW S, Intact(db, S), NEW cur, Sound(db, cur),
           NEW q \in DOMAIN db.plans, CommitSourceLess(q)
    PROVE  Sound(db', cur)
<1>1. db.plans[q].state = "preparing" /\ db' = Activate(db, q)
  BY DEF CommitSourceLess, MayCommit
<1> QED
  BY <1>1, ActivateSound DEF Intact

\* and with a ref: the root awaits the parts, in the generation that it has.
LEMMA CommitSound ==
    ASSUME Orderly(db), NEW S, Intact(db, S), NEW cur, Sound(db, cur),
           NEW c, NEW q \in DOMAIN db.plans, Commit(c, q)
    PROVE  Sound(db', cur)
<1> DEFINE p  == db.plans[q]
           N  == {PriorParts(db, q), p.parts}
           s0 == Activate(db, q)
<1>1. PICK l \in LiveLeases(db, c) :
         /\ l.row \in RootsOf(db, p.turn, p.rev)
         /\ db' = [Close(s0, {l.row}, "awaiting_ack") EXCEPT !.outbox[l.row] = Committed(@, p.gen, N)]
  BY DEF Commit
<1>2. p.state = "preparing" /\ p.sourced
  BY DEF Commit, MayCommit
<1> DEFINE i == l.row
<1>3. i \in DOMAIN db.outbox /\ db.outbox[i].status = "leased" /\ db.outbox[i].gen = p.gen
  <2>1. FreshPlan(db, q)
    BY DEF Sound, AllFresh
  <2> QED
    BY <1>1, <1>2, <2>1 DEF LiveLeases, RootsOf, FreshPlan
<1>4. /\ Sound(s0, cur) /\ DOMAIN s0.plans = DOMAIN db.plans
      /\ \A x \in DOMAIN s0.plans : s0.plans[x].turn = p.turn => s0.plans[x].state # "preparing"
      /\ DOMAIN db.outbox \subseteq DOMAIN s0.outbox
      /\ \A x \in DOMAIN db.outbox : RowGoes(db.outbox[x], s0.outbox[x])
      /\ \A t, r : RootsOf(s0, t, r) = RootsOf(db, t, r)
  BY <1>2, ActivateSound DEF Intact
<1>5. Linked(s0) /\ Shaped(s0)
  BY <1>2, ActivateLinks DEF Intact
<1> HIDE DEF s0, N
<1> DEFINE s1 == Close(s0, {i}, "awaiting_ack")
           e  == [s1 EXCEPT !.outbox[i] = Committed(@, p.gen, N)]
<1>6. db' = e
  BY <1>1
<1>7. /\ DOMAIN s1 = {"outbox", "leases", "plans"} /\ s1.plans = s0.plans
      /\ DOMAIN s1.outbox = DOMAIN s0.outbox
      /\ \A x \in DOMAIN s0.outbox :
            s1.outbox[x] = IF x \in {i} THEN Closed(s0.outbox[x], "awaiting_ack") ELSE s0.outbox[x]
  BY <1>5 DEF Close, Closed, Shaped
<1> HIDE DEF s1, i
<1>8. i \in RootsOf(s0, p.turn, p.rev) /\ s0.outbox[i].gen = p.gen
  <2>1. RowGoes(db.outbox[i], s0.outbox[i])
    BY <1>3, <1>4
  <2>2. s0.outbox[i].gen = db.outbox[i].gen
    BY <1>3, <2>1 DEF RowGoes
  <2> QED
    BY <1>1, <1>3, <1>4, <2>2 DEF i
<1>9. /\ e.plans = s0.plans /\ DOMAIN e.outbox = DOMAIN s0.outbox
      /\ \A x \in DOMAIN s0.outbox \ {i} : e.outbox[x] = s0.outbox[x]
      /\ e.outbox[i] = Committed(Closed(s0.outbox[i], "awaiting_ack"), p.gen, N)
  BY <1>7, <1>8 DEF RootsOf
<1> HIDE DEF e, p
<1>10. LET o == s0.outbox[i]
           n == e.outbox[i]
       IN  n.kind = o.kind /\ n.turn = o.turn /\ n.rev = o.rev /\ n.gen = o.gen
  <2> DEFINE o == s0.outbox[i]
  <2>1. DOMAIN o = RowFields /\ o.gen = p.gen
    BY <1>5, <1>8 DEF Shaped, RootsOf
  <2>2. e.outbox[i] = Committed(Closed(o, "awaiting_ack"), p.gen, N)
    BY <1>9
  <2> HIDE DEF o
  <2> QED
    BY <2>1, <2>2 DEF Committed, Closed, RowFields, o
<1>11. \A t, r : RootsOf(e, t, r) = RootsOf(s0, t, r)
  BY <1>8, <1>9, <1>10 DEF RootsOf
<1>12. s0.outbox[i].kind # "part" /\ s0.outbox[i].turn = p.turn /\ s0.outbox[i].rev = p.rev
  BY <1>8 DEF RootsOf
<1>13. InDescent(e)
  <2>1. Rooted(e)
    <3>1. \A x \in DOMAIN s0.outbox :
             /\ e.outbox[x].kind = s0.outbox[x].kind /\ e.outbox[x].turn = s0.outbox[x].turn
             /\ e.outbox[x].rev = s0.outbox[x].rev /\ e.outbox[x].gen = s0.outbox[x].gen
      BY <1>9, <1>10
    <3> QED
      BY <1>4, <1>9, <3>1 DEF Sound, InDescent, Rooted
  <2>2. Keyed(e) /\ GensInOrder(e)
    BY <1>4, <1>9 DEF Sound, InDescent, Keyed, GensInOrder
  <2>3. PartsTried(e)
    BY <1>4, <1>9, <1>10, <1>12 DEF Sound, InDescent, PartsTried, Same
  <2>4. \A x \in DOMAIN e.outbox : e.outbox[x].gen = s0.outbox[x].gen
    BY <1>9, <1>10
  <2>5. Descends(e)
    BY <1>4, <1>9, <1>11, <2>4 DEF Sound, InDescent, Descends, RootsOf
  <2> QED
    BY <2>1, <2>2, <2>3, <2>5 DEF InDescent
<1>14. AllFresh(e)
  <2> SUFFICES ASSUME NEW x \in DOMAIN e.plans, e.plans[x].state = "preparing"
               PROVE  FreshPlan(e, x)
    BY DEF AllFresh, FreshPlan
  <2>1. FreshPlan(s0, x) /\ s0.plans[x].turn # p.turn
    BY <1>4, <1>9 DEF Sound, AllFresh
  <2>2. i \notin RootsOf(s0, s0.plans[x].turn, s0.plans[x].rev)
    BY <1>12, <2>1 DEF RootsOf
  <2>3. \A j \in RootsOf(s0, s0.plans[x].turn, s0.plans[x].rev) : e.outbox[j] = s0.outbox[j]
    BY <1>9, <2>2 DEF RootsOf
  <2> QED
    BY <1>9, <1>11, <2>1, <2>3 DEF FreshPlan
<1>15. OneText(e, cur)
  BY <1>4, <1>9 DEF Sound, OneText
<1>16. Waits(e)
  <2>1. \A x \in DOMAIN s0.plans : \A j \in JobRows(s0.plans[x]) : e.outbox[j] = s0.outbox[j]
    BY <1>5, <1>9, <1>12 DEF Linked, IsPartOf
  <2>2. \A x \in DOMAIN s0.plans : Justified(s0, x) => Justified(e, x)
    BY <1>9, <2>1 DEF Justified
  <2>3. \A t : Excused(s0, t) => Excused(e, t)
    BY <1>9 DEF Excused
  <2> QED
    BY <1>4, <1>9, <2>2, <2>3 DEF Sound, Waits, MayWait
<1> QED
  BY <1>6, <1>13, <1>14, <1>15, <1>16 DEF Sound

\* prepare_connector_plan_recover: the new plan descends from the failed one; no plan
\* waits for a part that is deleted, or for a plan that is.
LEMMA RecoverSound ==
    ASSUME Orderly(db), NEW S, Intact(db, S), Sound(db, current),
           NEW q \in DOMAIN db.plans, Recover(q)
    PROVE  Sound(db', current)
<1> DEFINE p == db.plans[q]
<1>1. PICK n, new, ops, s1 : Recovering(q, S, n, new, ops, s1)
  BY RecoverIs
<1>2. /\ new.turn = p.turn /\ new.rev = p.rev /\ new.ver = p.ver
      /\ new.gen = p.gen + 1 /\ new.sourced = p.sourced /\ new.jobs = <<>>
      /\ new.state = "active" /\ new.recovers = TRUE /\ new.recovered = FALSE
      /\ n \notin DOMAIN db.plans
      /\ Orderly(s1) /\ Linked(s1) /\ s1.outbox = db.outbox
      /\ DOMAIN s1.plans = DOMAIN db.plans \cup {n} /\ s1.plans[n] = new
      /\ \A x \in DOMAIN db.plans : s1.plans[x] = db.plans[x]
      /\ Steps(ops)
  BY <1>1 DEF Recovering
<1> DEFINE s2 == Materialize(s1, n, ops)
           e  == db'
<1>3. Orderly(s2) /\ Linked(s2) /\ Recovered(s2, q, e)
  BY <1>1, FinalizeRecoveryIs DEF Recovering, Intact
<1>4. /\ p.state = "failed" /\ ~p.recovered /\ current[p.turn] = p.rev /\ p.rev \in Finals
      /\ \A x \in DOMAIN db.plans : Akin(p, db.plans[x]) => db.plans[x].gen <= p.gen
  BY DEF Recover, MayRecover, IsCurrent, PlansFor, Akin
<1>5. \E i \in JobRows(p) : db.outbox[i].used # 0
  <2>1. PICK i \in JobRows(p) : db.outbox[i].used > 0
    BY DEF Recover, MayRecover
  <2> QED
    BY <2>1
<1>6. \A i \in JobRows(p) : db.outbox[i].status # "leased"
  <2> SUFFICES ASSUME NEW k \in DOMAIN p.jobs PROVE StatusOf(db, p, k) # "leased"
    BY DEF JobRows, StatusOf
  <2>1. CASE k \in Suffix(db, p)
    BY <2>1 DEF Recover, MayRecover
  <2>2. CASE k \notin Suffix(db, p)
    <3>1. p.jobs \in Seq(Jobs)
      BY <1>4 DEF Orderly, StoreFits, PlanFits
    <3>2. k \in Nat \ {0}
      BY <3>1
    <3>3. k \in 1 .. k
      BY <3>2
    <3>4. StatusOf(db, p, k) = "delivered"
      BY <2>2, <3>3 DEF Suffix
    <3> QED
      BY <3>4
  <2> QED
    BY <2>1, <2>2
<1>7. \A x \in DOMAIN db.plans : db.plans[x].gen \in Nat \ {0}
  BY DEF Sound, InDescent, Keyed
<1> HIDE DEF e
<1>8. \A x \in DOMAIN s1.plans : Akin(new, s1.plans[x]) => ~(new.gen < s1.plans[x].gen)
  <2> SUFFICES ASSUME NEW x \in DOMAIN s1.plans, Akin(new, s1.plans[x])
               PROVE  ~(new.gen < s1.plans[x].gen)
    OBVIOUS
  <2>1. CASE x = n
    BY <1>2, <1>7, <2>1
  <2>2. CASE x # n
    <3>1. Akin(p, db.plans[x]) /\ x \in DOMAIN db.plans /\ s1.plans[x] = db.plans[x]
      BY <1>2, <2>2 DEF Akin
    <3> QED
      BY <1>2, <1>4, <1>7, <3>1
  <2> QED
    BY <2>1, <2>2
<1>9. Rooted(s1) /\ PartsTried(s1)
  BY <1>2 DEF Sound, InDescent, Rooted, PartsTried, Same
<1>10. Keyed(s1)
  <2>1. \A x \in DOMAIN s1.plans :
           /\ s1.plans[x].gen \in Nat \ {0}
           /\ ~Shared(s1.plans[x].ver) => (s1.plans[x].sourced <=> s1.plans[x].ver \in Versions)
    BY <1>2, <1>7 DEF Sound, InDescent, Keyed
  <2>2. ASSUME NEW x \in DOMAIN db.plans, Akin(new, db.plans[x]), db.plans[x].gen = new.gen
        PROVE  FALSE
    <3>1. db.plans[x].gen <= p.gen
      BY <1>2, <1>4, <2>2 DEF Akin
    <3> QED
      BY <1>2, <1>7, <2>2, <3>1
  <2>3. ASSUME NEW x \in DOMAIN s1.plans, NEW y \in DOMAIN s1.plans,
               Akin(s1.plans[x], s1.plans[y]), s1.plans[x].gen = s1.plans[y].gen, x # y
        PROVE  FALSE
    <3>1. CASE x = n
      BY <1>2, <2>2, <2>3, <3>1
    <3>2. CASE y = n
      BY <1>2, <2>2, <2>3, <3>2 DEF Akin
    <3>3. CASE x # n /\ y # n
      BY <1>2, <2>3, <3>3 DEF Sound, InDescent, Keyed
    <3> QED
      BY <3>1, <3>2, <3>3
  <2> QED
    BY <2>1, <2>3 DEF Keyed
<1>11. GensInOrder(s1)
  <2>1. JobRows(new) = {}
    BY <1>2 DEF JobRows
  <2> SUFFICES ASSUME NEW x \in DOMAIN s1.plans, NEW y \in DOMAIN s1.plans,
                      Akin(s1.plans[x], s1.plans[y]), s1.plans[x].gen < s1.plans[y].gen,
                      ~Shared(s1.plans[x].ver),
                      NEW i \in JobRows(s1.plans[x]), NEW j \in JobRows(s1.plans[y])
               PROVE  i < j
    BY DEF GensInOrder
  <2>2. x # n /\ y # n
    BY <1>2, <2>1
  <2> QED
    BY <1>2, <2>2 DEF Sound, InDescent, GensInOrder
<1>12. /\ Rooted(s2) /\ Keyed(s2) /\ GensInOrder(s2) /\ PartsTried(s2)
       /\ \A t, r : RootsOf(s2, t, r) = RootsOf(db, t, r)
  <2>1. \A t, r : RootsOf(s1, t, r) = RootsOf(db, t, r)
    BY <1>2 DEF RootsOf
  <2> QED
    BY <1>2, <1>8, <1>9, <1>10, <1>11, <2>1, MaterializeSound
<1>13. /\ DOMAIN s2.plans = DOMAIN db.plans \cup {n} /\ q # n
       /\ \A i \in DOMAIN db.outbox : i \in DOMAIN s2.outbox /\ s2.outbox[i] = db.outbox[i]
       /\ \A x \in DOMAIN db.plans : s2.plans[x] = db.plans[x]
       /\ LET o == s2.plans[n]
          IN  /\ o.turn = p.turn /\ o.rev = p.rev /\ o.ver = p.ver /\ o.gen = p.gen + 1
              /\ o.sourced = p.sourced /\ o.state = "active"
              /\ o.recovers = TRUE /\ o.recovered = FALSE
  <2>1. /\ \A i \in DOMAIN s1.outbox : i \in DOMAIN s2.outbox /\ s2.outbox[i] = s1.outbox[i]
        /\ DOMAIN s2.plans = DOMAIN s1.plans
        /\ \A x \in DOMAIN s1.plans \ {n} : s2.plans[x] = s1.plans[x]
        /\ LET o == s2.plans[n]
           IN  /\ o.turn = new.turn /\ o.rev = new.rev /\ o.ver = new.ver /\ o.gen = new.gen
               /\ o.sourced = new.sourced /\ o.state = new.state
               /\ o.recovers = new.recovers /\ o.recovered = new.recovered
    BY <1>2, MaterializedIs
  <2> HIDE DEF s2
  <2> QED
    BY <1>2, <2>1
<1> HIDE DEF s2
<1>14. /\ DOMAIN e.outbox \subseteq DOMAIN s2.outbox
       /\ DOMAIN s2.outbox \ DOMAIN e.outbox \subseteq JobRows(p)
       /\ \A i \in DOMAIN e.outbox : e.outbox[i] = s2.outbox[i]
       /\ \A t, r : RootsOf(e, t, r) = RootsOf(db, t, r)
       /\ q \in DOMAIN e.plans /\ DOMAIN e.plans \subseteq DOMAIN s2.plans
       /\ \A x \in DOMAIN s2.plans \ DOMAIN e.plans :
             Akin(p, db.plans[x]) /\ ~db.plans[x].recovered /\ x \in DOMAIN db.plans
       /\ \A x \in DOMAIN e.plans \ {q} : e.plans[x] = s2.plans[x]
       /\ n \in DOMAIN e.plans
  BY <1>3, <1>12, <1>13 DEF Recovered, Akin
<1>15. LET o == e.plans[q]
       IN  /\ o.turn = p.turn /\ o.rev = p.rev /\ o.ver = p.ver /\ o.gen = p.gen
           /\ o.sourced = p.sourced /\ o.recovers = p.recovers
           /\ o.recovered = TRUE /\ o.state = "superseded"
           /\ JobRows(o) \subseteq JobRows(p)
  BY <1>3, <1>13 DEF Recovered
<1>16. \A x \in DOMAIN e.plans :
          LET o == e.plans[x]
              m == s2.plans[x]
          IN  /\ x \in DOMAIN s2.plans
              /\ o.turn = m.turn /\ o.rev = m.rev /\ o.ver = m.ver /\ o.gen = m.gen
              /\ o.sourced = m.sourced /\ o.recovers = m.recovers
              /\ JobRows(o) \subseteq JobRows(m)
  <2>1. s2.plans[q] = p
    BY <1>13
  <2> HIDE DEF p
  <2> QED
    BY <1>14, <1>15, <2>1
<1>17. Rooted(e) /\ PartsTried(e)
  BY <1>12, <1>14 DEF Rooted, PartsTried, Same
<1>18. \A x, y \in DOMAIN e.plans : Akin(e.plans[x], e.plans[y]) <=> Akin(s2.plans[x], s2.plans[y])
  BY <1>16 DEF Akin
<1>19. Keyed(e) /\ GensInOrder(e)
  <2>1. Keyed(e)
    BY <1>12, <1>16, <1>18 DEF Keyed
  <2>2. GensInOrder(e)
    BY <1>12, <1>16, <1>18 DEF GensInOrder
  <2> QED
    BY <2>1, <2>2
<1>20. \A t, r : \A i \in RootsOf(e, t, r) : e.outbox[i] = db.outbox[i] /\ i \in RootsOf(db, t, r)
  <2>1. \A t, r : \A i \in RootsOf(e, t, r) : i \in DOMAIN e.outbox /\ i \in DOMAIN db.outbox /\ i \in RootsOf(db, t, r)
    BY <1>14 DEF RootsOf
  <2> QED
    BY <1>13, <1>14, <2>1
<1>21. Descends(e)
  <2> SUFFICES ASSUME NEW x \in DOMAIN e.plans
               PROVE  LET o == e.plans[x] IN
                      /\ o.recovers => \E y \in DOMAIN e.plans :
                             Akin(o, e.plans[y]) /\ e.plans[y].gen + 1 = o.gen /\ e.plans[y].recovered
                      /\ o.recovered => o.state = "superseded"
                      /\ ~o.recovers => IF o.sourced THEN \A i \in RootsOf(e, o.turn, o.rev) : o.gen <= e.outbox[i].gen
                                                     ELSE o.gen = 1
    BY DEF Descends
  <2>1. CASE x = n
    <3>1. Akin(e.plans[n], e.plans[q]) /\ e.plans[q].gen + 1 = e.plans[n].gen /\ e.plans[q].recovered
      BY <1>13, <1>14, <1>15 DEF Akin
    <3> QED
      BY <1>13, <1>14, <2>1, <3>1
  <2>2. CASE x # n
    <3> DEFINE o == e.plans[x]
               m == db.plans[x]
    <3>1. x \in DOMAIN db.plans /\ s2.plans[x] = m
      BY <1>13, <1>14, <2>2
    <3>2. /\ m.recovers => \E y \in DOMAIN db.plans :
                 Akin(m, db.plans[y]) /\ db.plans[y].gen + 1 = m.gen /\ db.plans[y].recovered
          /\ m.recovered => m.state = "superseded"
          /\ ~m.recovers => IF m.sourced THEN \A i \in RootsOf(db, m.turn, m.rev) : m.gen <= db.outbox[i].gen
                                         ELSE m.gen = 1
      BY <3>1 DEF Sound, InDescent, Descends
    <3>3. /\ o.turn = m.turn /\ o.rev = m.rev /\ o.ver = m.ver /\ o.gen = m.gen
          /\ o.sourced = m.sourced /\ o.recovers = m.recovers
      BY <1>16, <3>1
    <3>4. o.recovered => o.state = "superseded"
      BY <1>14, <1>15, <3>1, <3>2
    <3>5. o.recovers => \E y \in DOMAIN e.plans :
             Akin(o, e.plans[y]) /\ e.plans[y].gen + 1 = o.gen /\ e.plans[y].recovered
      <4> SUFFICES ASSUME o.recovers
                   PROVE  \E y \in DOMAIN e.plans :
                             Akin(o, e.plans[y]) /\ e.plans[y].gen + 1 = o.gen /\ e.plans[y].recovered
        OBVIOUS
      <4>1. PICK y \in DOMAIN db.plans :
               Akin(m, db.plans[y]) /\ db.plans[y].gen + 1 = m.gen /\ db.plans[y].recovered
        BY <3>2, <3>3
      <4>2. y # q /\ y \in DOMAIN e.plans
        BY <1>4, <1>13, <1>14, <4>1
      <4>3. e.plans[y] = db.plans[y]
        BY <1>13, <1>14, <4>1, <4>2
      <4>4. Akin(o, e.plans[y])
        BY <3>3, <4>1, <4>3 DEF Akin
      <4> QED
        BY <3>3, <4>1, <4>2, <4>3, <4>4
    <3>6. \A i \in RootsOf(e, m.turn, m.rev) : i \in RootsOf(db, m.turn, m.rev) /\ e.outbox[i].gen = db.outbox[i].gen
      BY <1>20
    <3> HIDE DEF o, m
    <3>7. ~o.recovers => IF o.sourced THEN \A i \in RootsOf(e, o.turn, o.rev) : o.gen <= e.outbox[i].gen
                                      ELSE o.gen = 1
      BY <3>2, <3>3, <3>6
    <3> QED
      BY <3>4, <3>5, <3>7 DEF o
  <2> QED
    BY <2>1, <2>2
<1>22. AllFresh(e)
  <2> SUFFICES ASSUME NEW x \in DOMAIN e.plans, e.plans[x].state = "preparing"
               PROVE  FreshPlan(e, x)
    BY DEF AllFresh, FreshPlan
  <2>1. x # n /\ x # q
    BY <1>13, <1>14, <1>15
  <2>2. x \in DOMAIN db.plans /\ e.plans[x] = db.plans[x]
    BY <1>13, <1>14, <2>1
  <2>3. FreshPlan(db, x)
    BY <2>2 DEF Sound, AllFresh
  <2> QED
    BY <1>20, <2>2, <2>3 DEF FreshPlan
<1>23. OneText(e, current)
  <2>1. \A x \in DOMAIN db.plans :
           db.plans[x].state \in Open /\ db.plans[x].turn = p.turn => db.plans[x].rev = p.rev
    BY <1>4 DEF Sound, OneText
  <2>2. \A x \in DOMAIN e.plans \ {n} :
           /\ x \in DOMAIN db.plans
           /\ e.plans[x].turn = db.plans[x].turn /\ e.plans[x].rev = db.plans[x].rev
           /\ e.plans[x].state \in Open => db.plans[x].state \in Open
    <3>1. \A x \in DOMAIN e.plans \ {n} : x \in DOMAIN db.plans /\ s2.plans[x] = db.plans[x]
      BY <1>13, <1>14
    <3>2. "superseded" \notin Open
      BY DEF Open
    <3> QED
      BY <1>14, <1>15, <1>16, <3>1, <3>2
  <2>3. e.plans[n].turn = p.turn /\ e.plans[n].rev = p.rev
    BY <1>13, <1>14
  <2> SUFFICES ASSUME NEW x \in DOMAIN e.plans, e.plans[x].state \in Open
               PROVE  /\ current[e.plans[x].turn] \in Finals => e.plans[x].rev = current[e.plans[x].turn]
                      /\ \A y \in DOMAIN e.plans :
                            e.plans[y].state \in Open /\ e.plans[y].turn = e.plans[x].turn
                                => e.plans[y].rev = e.plans[x].rev
    BY DEF OneText
  <2>4. CASE e.plans[x].turn = p.turn
    <3>1. \A y \in DOMAIN e.plans :
             e.plans[y].state \in Open /\ e.plans[y].turn = p.turn => e.plans[y].rev = p.rev
      BY <2>1, <2>2, <2>3
    <3> HIDE DEF p
    <3> QED
      BY <1>4, <2>4, <3>1
  <2>5. CASE e.plans[x].turn # p.turn
    <3>1. x # n /\ \A y \in DOMAIN e.plans : e.plans[y].turn = e.plans[x].turn => y # n
      BY <2>3, <2>5
    <3> HIDE DEF p
    <3> QED
      BY <2>2, <3>1 DEF Sound, OneText
  <2> QED
    BY <2>4, <2>5
<1>24. ~Shared(p.ver) => \A x \in DOMAIN db.plans \ DOMAIN e.plans :
          \A i \in JobRows(db.plans[x]) : db.outbox[i].status # "leased"
  <2> SUFFICES ASSUME ~Shared(p.ver), NEW x \in DOMAIN db.plans \ DOMAIN e.plans,
                      NEW i \in JobRows(db.plans[x]), db.outbox[i].status = "leased"
               PROVE  FALSE
    OBVIOUS
  <2>1. Akin(p, db.plans[x]) /\ x # q
    BY <1>13, <1>14
  <2>2. db.plans[x].gen <= p.gen /\ db.plans[x].gen # p.gen
    BY <1>4, <2>1 DEF Sound, InDescent, Keyed
  <2>3. Akin(db.plans[x], p) /\ db.plans[x].gen < p.gen /\ ~Shared(db.plans[x].ver)
    BY <1>7, <2>1, <2>2 DEF Akin
  <2>4. PICK j \in JobRows(p) : db.outbox[j].used # 0
    BY <1>5
  <2>5. i < j
    BY <2>3 DEF Sound, InDescent, GensInOrder
  <2>6. IsPartOf(db, i, db.plans[x]) /\ IsPartOf(db, j, p)
    BY DEF Intact, Linked
  <2>7. Same(db, j, i)
    BY <2>1, <2>6 DEF IsPartOf, Akin, Same
  <2>8. db.outbox[i].status \in Terminal
    BY <2>4, <2>5, <2>6, <2>7 DEF Sound, InDescent, PartsTried, IsPartOf
  <2> QED
    BY <2>8 DEF Terminal
<1>25. Waits(e)
  <2> SUFFICES ASSUME NEW x \in DOMAIN e.plans, e.plans[x].state = "waiting_predecessor"
               PROVE  MayWait(e, x)
    BY DEF Waits
  <2>1. x # n /\ x # q
    BY <1>13, <1>14, <1>15
  <2>2. x \in DOMAIN db.plans /\ e.plans[x] = db.plans[x]
    BY <1>13, <1>14, <2>1
  <2>3. MayWait(db, x)
    BY <2>2 DEF Sound, Waits
  <2>4. CASE Justified(db, x)
    <3>1. PICK y \in DOMAIN db.plans \ {x} :
             /\ db.plans[y].turn = db.plans[x].turn
             /\ \E i \in JobRows(db.plans[y]) : db.outbox[i].status = "leased"
      BY <2>4 DEF Justified
    <3>2. PICK i \in JobRows(db.plans[y]) : db.outbox[i].status = "leased"
      BY <3>1
    <3>3. y # q
      BY <1>6, <3>2
    <3>4. CASE y \in DOMAIN e.plans
      <4>1. e.plans[y] = db.plans[y]
        BY <1>13, <1>14, <3>3, <3>4
      <4>2. i \in DOMAIN e.outbox /\ e.outbox[i].status = "leased"
        <5>1. i \in DOMAIN db.outbox
          BY <3>1, <3>2 DEF Intact, Linked, IsPartOf
        <5>2. i \notin JobRows(p)
          BY <1>6, <3>2
        <5>3. i \in DOMAIN s2.outbox /\ s2.outbox[i] = db.outbox[i]
          BY <1>13, <5>1
        <5> QED
          BY <1>14, <3>2, <5>2, <5>3
      <4> QED
        BY <2>2, <3>1, <3>2, <3>4, <4>1, <4>2 DEF Justified, MayWait
    <3>5. CASE y \notin DOMAIN e.plans
      <4>1. Shared(p.ver)
        BY <1>24, <3>1, <3>2, <3>5
      <4>2. db.plans[y].turn = p.turn
        BY <1>13, <1>14, <3>1, <3>5 DEF Akin
      <4>3. Excused(e, p.turn)
        BY <1>14, <1>15, <4>1 DEF Excused
      <4> QED
        BY <2>2, <3>1, <4>2, <4>3 DEF MayWait
    <3> QED
      BY <3>4, <3>5
  <2>5. CASE Excused(db, db.plans[x].turn)
    <3>1. ASSUME NEW y \in DOMAIN db.plans, db.plans[y].recovered
          PROVE  y \in DOMAIN e.plans /\ e.plans[y] = db.plans[y]
      <4>1. y # q /\ y \in DOMAIN s2.plans /\ s2.plans[y] = db.plans[y]
        BY <1>4, <1>13, <3>1
      <4>2. y \in DOMAIN e.plans
        BY <1>14, <3>1, <4>1
      <4> QED
        BY <1>14, <4>1, <4>2
    <3> QED
      BY <2>2, <2>5, <3>1, ExcuseStays DEF MayWait
  <2> QED
    BY <2>3, <2>4, <2>5 DEF MayWait
<1> QED
  BY <1>17, <1>19, <1>21, <1>22, <1>23, <1>25 DEF Sound, InDescent, e

\* A function from a bounded set to the natural numbers is bounded.
LEMMA BoundOf ==
    ASSUME NEW n \in Nat, NEW S, S \subseteq 1 .. n, NEW f, \A x \in S : f[x] \in Nat
    PROVE  \E m \in Nat : \A x \in S : f[x] <= m
<1> DEFINE C == {k \in 0 .. n : ~ \E m \in Nat : \A x \in S : x <= k => f[x] <= m}
           c == Min(C)
<1>1. CASE n \notin C
  <2>1. PICK m \in Nat : \A x \in S : x <= n => f[x] <= m
    BY <1>1
  <2> QED
    BY <2>1
<1>2. CASE n \in C
  <2>1. c \in C /\ \A k \in C : c <= k
    <3>1. C \subseteq Nat
      OBVIOUS
    <3> HIDE DEF C
    <3> QED
      BY <1>2, <3>1, LeastOf
  <2> HIDE DEF c
  <2>2. c \in 0 .. n /\ ~ \E m \in Nat : \A x \in S : x <= c => f[x] <= m
    BY <2>1
  <2>3. c # 0
    <3>1. \A x \in S : ~(x <= 0)
      OBVIOUS
    <3> QED
      BY <2>2, <3>1
  <2>4. c - 1 \in 0 .. n /\ c - 1 \notin C
    <3>1. c - 1 \in 0 .. n /\ ~(c <= c - 1)
      BY <2>2, <2>3
    <3> HIDE DEF C
    <3> QED
      BY <2>1, <3>1
  <2>5. PICK m \in Nat : \A x \in S : x <= c - 1 => f[x] <= m
    BY <2>4
  <2> DEFINE b == IF c \in S THEN m + f[c] ELSE m
  <2>6. b \in Nat /\ m <= b /\ (c \in S => f[c] <= b)
    <3>1. CASE c \in S
      <4>1. f[c] \in Nat
        BY <3>1
      <4> QED
        BY <3>1, <4>1
    <3>2. CASE c \notin S
      BY <3>2
    <3> QED
      BY <3>1, <3>2
  <2> HIDE DEF b
  <2>7. ASSUME NEW x \in S, x <= c PROVE f[x] <= b
    <3>1. CASE x = c
      BY <2>6, <3>1
    <3>2. CASE x # c
      <4>1. x <= c - 1
        BY <2>2, <2>7, <3>2
      <4> QED
        BY <2>5, <2>6, <4>1
    <3> QED
      BY <3>1, <3>2
  <2> QED
    BY <2>2, <2>6, <2>7
<1> QED
  BY <1>1, <1>2

\* _reactivate_final_root_conn: what descends from what stays in order; plans of other
\* turns still wait for a reason.
LEMMA ReactivateSound ==
    ASSUME NEW st, Orderly(st), Linked(st), NEW cur, Sound(st, cur),
           NEW i \in DOMAIN st.outbox, st.outbox[i].kind # "part"
    PROVE  LET e == Reactivate(st, i)
               o == st.outbox[i]
           IN  /\ InDescent(e) /\ AllFresh(e) /\ OneText(e, cur)
               /\ \A q \in DOMAIN e.plans :
                     /\ e.plans[q].state = "waiting_predecessor"
                     /\ e.plans[q].turn # o.turn \/ e.plans[q].rev = o.rev
                     => MayWait(e, q)
<1> DEFINE e == Reactivate(st, i)
           o == st.outbox[i]
           Q == PlansFor(st, o.turn, o.rev)
           G == {1, o.gen} \cup {st.plans[x].gen : x \in Q}
<1>1. Reactivated(st, i, e)
  BY OrderlyIsShaped, ReactivateIs
<1> HIDE DEF e
<1>2. Max(G) + 1 \in Nat \ {0}
  <2>1. o.gen \in Nat /\ \A x \in DOMAIN st.plans : st.plans[x].gen \in Nat
    BY DEF Sound, InDescent, Rooted, Keyed
  <2>2. PICK n \in Nat : DOMAIN st.plans \subseteq 1 .. n
    BY DEF Linked
  <2> DEFINE f == [x \in DOMAIN st.plans |-> st.plans[x].gen]
  <2>3. PICK m \in Nat : \A x \in DOMAIN st.plans : f[x] <= m
    <3>1. \A x \in DOMAIN st.plans : f[x] \in Nat
      BY <2>1
    <3> HIDE DEF f
    <3> QED
      BY <2>2, <3>1, BoundOf
  <2>4. \A x \in DOMAIN st.plans : st.plans[x].gen <= m
    BY <2>3
  <2>5. m + o.gen + 1 \in Nat /\ G \subseteq 0 .. (m + o.gen + 1) /\ G # {}
    <3>1. Q \subseteq DOMAIN st.plans
      BY DEF PlansFor
    <3> HIDE DEF o, Q
    <3> QED
      BY <2>1, <2>4, <3>1 DEF o
  <2> HIDE DEF G
  <2>6. Max(G) \in Nat
    <3> DEFINE k == m + o.gen + 1
    <3>1. k \in Nat /\ G \subseteq 0 .. k /\ G # {}
      BY <2>5
    <3> HIDE DEF k
    <3>2. Max(G) \in G
      BY <3>1, GreatestOf
    <3> DEFINE g == Max(G)
    <3>3. g \in 0 .. k
      BY <3>1, <3>2
    <3> HIDE DEF g
    <3>4. g \in Nat
      BY <3>1, <3>3
    <3> QED
      BY <3>4 DEF g
  <2> DEFINE g == Max(G)
  <2>7. g \in Nat
    BY <2>6
  <2> HIDE DEF g
  <2>8. g + 1 \in Nat \ {0}
    BY <2>7
  <2> QED
    BY <2>8 DEF g
<1>3. /\ DOMAIN e.outbox \subseteq DOMAIN st.outbox /\ i \in DOMAIN e.outbox
      /\ \A x \in DOMAIN e.outbox \ {i} : e.outbox[x] = st.outbox[x]
      /\ e.outbox[i].kind # "part" /\ e.outbox[i].turn = o.turn /\ e.outbox[i].rev = o.rev
      /\ e.outbox[i].gen \in Nat \ {0}
      /\ DOMAIN e.plans = DOMAIN st.plans \ Q
      /\ \A x \in DOMAIN e.plans : e.plans[x] = st.plans[x]
      /\ \A t, r : RootsOf(e, t, r) = RootsOf(st, t, r)
      /\ \A x \in DOMAIN e.plans : JobRows(st.plans[x]) \subseteq DOMAIN e.outbox \ {i}
  BY <1>1, <1>2 DEF Reactivated
<1>4. \A x \in DOMAIN st.plans : x \in Q <=> st.plans[x].turn = o.turn /\ st.plans[x].rev = o.rev
  BY DEF PlansFor
<1> HIDE DEF Q, G
<1>5. \A x \in DOMAIN e.plans : \A j \in RootsOf(st, st.plans[x].turn, st.plans[x].rev) :
         e.outbox[j] = st.outbox[j]
  <2> SUFFICES ASSUME NEW x \in DOMAIN e.plans, NEW j \in RootsOf(st, st.plans[x].turn, st.plans[x].rev)
               PROVE  e.outbox[j] = st.outbox[j]
    OBVIOUS
  <2>1. j # i
    BY <1>3, <1>4 DEF RootsOf
  <2>2. j \in RootsOf(e, st.plans[x].turn, st.plans[x].rev)
    BY <1>3
  <2> QED
    BY <1>3, <2>1, <2>2 DEF RootsOf
<1>6. Rooted(e)
  <2>1. \A x \in DOMAIN e.outbox :
           /\ x \in DOMAIN st.outbox
           /\ e.outbox[x].turn = st.outbox[x].turn /\ e.outbox[x].rev = st.outbox[x].rev
           /\ e.outbox[x].kind # "part" => st.outbox[x].kind # "part" /\ e.outbox[x].gen \in Nat \ {0}
    BY <1>3 DEF Sound, InDescent, Rooted
  <2> QED
    BY <2>1 DEF Sound, InDescent, Rooted
<1>7. PartsTried(e)
  BY <1>3 DEF Sound, InDescent, PartsTried, Same
<1>8. Keyed(e) /\ GensInOrder(e)
  BY <1>3 DEF Sound, InDescent, Keyed, GensInOrder
<1>9. Descends(e)
  <2> SUFFICES ASSUME NEW x \in DOMAIN e.plans
               PROVE  LET p == e.plans[x] IN
                      /\ p.recovers => \E y \in DOMAIN e.plans :
                             Akin(p, e.plans[y]) /\ e.plans[y].gen + 1 = p.gen /\ e.plans[y].recovered
                      /\ p.recovered => p.state = "superseded"
                      /\ ~p.recovers => IF p.sourced THEN \A j \in RootsOf(e, p.turn, p.rev) : p.gen <= e.outbox[j].gen
                                                     ELSE p.gen = 1
    BY DEF Descends
  <2> DEFINE p == st.plans[x]
  <2>1. x \in DOMAIN st.plans /\ e.plans[x] = p /\ ~(p.turn = o.turn /\ p.rev = o.rev)
    BY <1>3, <1>4
  <2>2. /\ p.recovers => \E y \in DOMAIN st.plans :
               Akin(p, st.plans[y]) /\ st.plans[y].gen + 1 = p.gen /\ st.plans[y].recovered
        /\ p.recovered => p.state = "superseded"
        /\ ~p.recovers => IF p.sourced THEN \A j \in RootsOf(st, p.turn, p.rev) : p.gen <= st.outbox[j].gen
                                       ELSE p.gen = 1
    BY <2>1 DEF Sound, InDescent, Descends
  <2>3. \A y \in DOMAIN st.plans : Akin(p, st.plans[y]) => y \in DOMAIN e.plans /\ e.plans[y] = st.plans[y]
    BY <1>3, <1>4, <2>1 DEF Akin
  <2>4. \A j \in RootsOf(e, p.turn, p.rev) : j \in RootsOf(st, p.turn, p.rev) /\ e.outbox[j] = st.outbox[j]
    BY <1>3, <1>5
  <2> HIDE DEF p
  <2> QED
    BY <2>1, <2>2, <2>3, <2>4
<1>10. InDescent(e)
  BY <1>6, <1>7, <1>8, <1>9 DEF InDescent
<1>11. AllFresh(e)
  <2>1. \A x \in DOMAIN e.plans : FreshPlan(st, x)
    BY <1>3 DEF Sound, AllFresh
  <2>2. \A x \in DOMAIN e.plans : FreshPlan(e, x)
    BY <1>3, <1>5, <2>1 DEF FreshPlan
  <2> QED
    BY <2>2 DEF AllFresh
<1>12. OneText(e, cur)
  BY <1>3 DEF Sound, OneText
<1>13. ASSUME NEW q \in DOMAIN e.plans, e.plans[q].state = "waiting_predecessor",
              e.plans[q].turn # o.turn \/ e.plans[q].rev = o.rev
       PROVE  MayWait(e, q)
  <2>1. st.plans[q].turn # o.turn /\ e.plans[q] = st.plans[q] /\ q \in DOMAIN st.plans
    BY <1>3, <1>4, <1>13
  <2>2. MayWait(st, q)
    BY <1>13, <2>1 DEF Sound, Waits
  <2>3. \A y \in DOMAIN st.plans : st.plans[y].turn = st.plans[q].turn
           => y \in DOMAIN e.plans /\ e.plans[y] = st.plans[y]
    BY <1>3, <1>4, <2>1
  <2>4. CASE Justified(st, q)
    <3>1. PICK y \in DOMAIN st.plans \ {q} :
             /\ st.plans[y].turn = st.plans[q].turn
             /\ \E j \in JobRows(st.plans[y]) : st.outbox[j].status = "leased"
      BY <2>4 DEF Justified
    <3>2. y \in DOMAIN e.plans /\ e.plans[y] = st.plans[y]
      BY <2>3, <3>1
    <3> QED
      BY <1>3, <2>1, <3>1, <3>2 DEF Justified, MayWait
  <2>5. CASE Excused(st, st.plans[q].turn)
    BY <2>1, <2>3, <2>5 DEF Excused, MayWait
  <2> QED
    BY <2>2, <2>4, <2>5 DEF MayWait
<1> QED
  BY <1>10, <1>11, <1>12, <1>13 DEF e, o

\* _supersede_stale_final_work_conn: only plans of the new revision stay open, and what
\* they wait for is not touched.
LEMMA SupersedeStaleSound ==
    ASSUME NEW st, Orderly(st), Linked(st), InDescent(st), AllFresh(st),
           NEW cur, OneText(st, cur), NEW t, NEW r,
           \A q \in DOMAIN st.plans :
              /\ st.plans[q].state = "waiting_predecessor"
              /\ st.plans[q].turn # t \/ st.plans[q].rev = r
              => MayWait(st, q),
           NEW new, new[t] = r,
           \A q \in DOMAIN st.plans : st.plans[q].turn # t => new[st.plans[q].turn] = cur[st.plans[q].turn]
    PROVE  Sound(SupersedeStale(st, t, r), new)
<1> DEFINE e == SupersedeStale(st, t, r)
<1>1. Orderly(e)
  BY SupersedeStaleKeeps
<1>2. /\ Moves(st, e)
      /\ \A x \in DOMAIN st.plans :
            st.plans[x].turn = t /\ st.plans[x].rev # r => e.plans[x].state \notin Open
      /\ \A i \in DOMAIN st.outbox :
            \/ e.outbox[i] = st.outbox[i]
            \/ /\ st.outbox[i].turn = t
               /\ st.outbox[i].kind = "part" => \E x \in DOMAIN st.plans :
                      st.plans[x].state \in Open /\ st.plans[x].turn = t /\ st.plans[x].rev # r
  BY OrderlyIsShaped, SupersedeStaleMoves
<1> HIDE DEF e
<1>3. /\ Goes(st, e) /\ DOMAIN e.plans = DOMAIN st.plans
      /\ \A q \in DOMAIN st.plans :
            PlanStays(st.plans[q], e.plans[q]) /\ PlanGoes(st.plans[q], e.plans[q])
  BY <1>2 DEF Moves, Goes, Alike
<1>4. InDescent(e)
  BY <1>1, <1>2, <1>3, GoesLineage DEF Moves
<1>5. AllFresh(e)
  BY <1>3, GoesFresh DEF AllFresh
<1>6. \A q \in DOMAIN st.plans :
         /\ e.plans[q].turn = st.plans[q].turn /\ e.plans[q].rev = st.plans[q].rev
         /\ JobRows(e.plans[q]) = JobRows(st.plans[q])
         /\ e.plans[q].state \in Open => st.plans[q].state \in Open
         /\ e.plans[q].state = "waiting_predecessor" => st.plans[q].state = "waiting_predecessor"
         /\ e.plans[q].state \in Open /\ st.plans[q].turn = t => st.plans[q].rev = r
  BY <1>2, <1>3 DEF PlanStays, PlanGoes, JobRows, Open
<1>7. OneText(e, new)
  <2> SUFFICES ASSUME NEW q \in DOMAIN e.plans, e.plans[q].state \in Open
               PROVE  /\ new[e.plans[q].turn] \in Finals => e.plans[q].rev = new[e.plans[q].turn]
                      /\ \A x \in DOMAIN e.plans :
                            e.plans[x].state \in Open /\ e.plans[x].turn = e.plans[q].turn
                               => e.plans[x].rev = e.plans[q].rev
    BY DEF OneText
  <2>1. CASE st.plans[q].turn = t
    BY <1>3, <1>6, <2>1
  <2>2. CASE st.plans[q].turn # t
    BY <1>3, <1>6, <2>2 DEF OneText
  <2> QED
    BY <2>1, <2>2
<1>8. ASSUME NEW q \in DOMAIN e.plans, e.plans[q].state = "waiting_predecessor"
      PROVE  MayWait(e, q)
  <2>1. /\ q \in DOMAIN st.plans /\ st.plans[q].state = "waiting_predecessor"
        /\ e.plans[q].turn = st.plans[q].turn
        /\ st.plans[q].turn = t => st.plans[q].rev = r
    BY <1>3, <1>6, <1>8 DEF Open
  <2>2. MayWait(st, q)
    BY <2>1
  <2>3. CASE Justified(st, q)
    <3>1. PICK y \in DOMAIN st.plans \ {q} :
             /\ st.plans[y].turn = st.plans[q].turn
             /\ \E j \in JobRows(st.plans[y]) : st.outbox[j].status = "leased"
      BY <2>3 DEF Justified
    <3>2. PICK j \in JobRows(st.plans[y]) : st.outbox[j].status = "leased"
      BY <3>1
    <3>3. j \in DOMAIN st.outbox /\ st.outbox[j].kind = "part" /\ st.outbox[j].turn = st.plans[y].turn
      BY <3>1, <3>2 DEF Linked, IsPartOf
    <3>4. e.outbox[j] = st.outbox[j]
      <4>1. CASE st.plans[q].turn # t
        BY <1>2, <3>1, <3>3, <4>1
      <4>2. CASE st.plans[q].turn = t
        <5>1. st.plans[q].state \in Open /\ st.plans[q].rev = r
          BY <2>1, <4>2 DEF Open
        <5>2. ~ \E x \in DOMAIN st.plans :
                   st.plans[x].state \in Open /\ st.plans[x].turn = t /\ st.plans[x].rev # r
          BY <2>1, <4>2, <5>1 DEF OneText
        <5> QED
          BY <1>2, <3>3, <5>2
      <4> QED
        BY <4>1, <4>2
    <3> QED
      BY <1>3, <1>6, <2>1, <3>1, <3>2, <3>4 DEF Justified, MayWait
  <2>4. CASE Excused(st, st.plans[q].turn)
    <3>1. \A x \in DOMAIN st.plans :
             /\ x \in DOMAIN e.plans
             /\ e.plans[x].turn = st.plans[x].turn /\ e.plans[x].ver = st.plans[x].ver
             /\ e.plans[x].recovered = st.plans[x].recovered
      BY <1>3 DEF PlanStays
    <3> QED
      BY <2>1, <2>4, <3>1, ExcuseStays DEF MayWait
  <2> QED
    BY <2>2, <2>3, <2>4 DEF MayWait
<1> QED
  BY <1>4, <1>5, <1>7, <1>8 DEF Sound, Waits, e

\* A revision gets its root: no plan of it was made with a ref before.
LEMMA WithRootSound ==
    ASSUME NEW st, Orderly(st), Linked(st), NEW cur, Sound(st, cur),
           NEW t, NEW r, RootsOf(st, t, r) = {}
    PROVE  Sound(WithRow(st, Highest(DOMAIN st.outbox) + 1, NewRoot(t, r)), cur)
<1> DEFINE i   == Highest(DOMAIN st.outbox) + 1
           row == NewRoot(t, r)
           e   == WithRow(st, i, row)
<1>1. i \notin DOMAIN st.outbox
  BY NextRow
<1>2. row.kind # "part" /\ row.turn = t /\ row.rev = r /\ row.gen = 1
  BY OpeningIs DEF NewRoot
<1> HIDE DEF i, row
<1>3. /\ e.plans = st.plans /\ DOMAIN e.outbox = DOMAIN st.outbox \cup {i} /\ e.outbox[i] = row
      /\ \A x \in DOMAIN st.outbox : e.outbox[x] = st.outbox[x]
  BY <1>1, OrderlyIsShaped DEF WithRow, Shaped
<1> HIDE DEF e
<1>4. \A x \in DOMAIN st.plans : st.plans[x].sourced =>
         RootsOf(e, st.plans[x].turn, st.plans[x].rev) = RootsOf(st, st.plans[x].turn, st.plans[x].rev)
  <2> SUFFICES ASSUME NEW x \in DOMAIN st.plans, st.plans[x].sourced
               PROVE  RootsOf(e, st.plans[x].turn, st.plans[x].rev) = RootsOf(st, st.plans[x].turn, st.plans[x].rev)
    OBVIOUS
  <2>1. ~(st.plans[x].turn = t /\ st.plans[x].rev = r)
    BY DEF Linked
  <2> QED
    BY <1>2, <1>3, <2>1 DEF RootsOf
<1>5. Rooted(e)
  <2>1. \A x \in DOMAIN st.outbox : st.outbox[x].kind # "part"
           => ~(st.outbox[x].turn = t /\ st.outbox[x].rev = r)
    BY DEF RootsOf
  <2> QED
    BY <1>2, <1>3, <2>1 DEF Sound, InDescent, Rooted
<1>6. Keyed(e)
  BY <1>3 DEF Sound, InDescent, Keyed
<1>7. Descends(e)
  BY <1>3, <1>4 DEF Sound, InDescent, Descends, RootsOf
<1>8. GensInOrder(e)
  BY <1>3 DEF Sound, InDescent, GensInOrder
<1>9. PartsTried(e)
  BY <1>2, <1>3 DEF Sound, InDescent, PartsTried, Same
<1>10. AllFresh(e)
  BY <1>3, <1>4 DEF Sound, AllFresh, FreshPlan, RootsOf
<1>11. OneText(e, cur)
  BY <1>3 DEF Sound, OneText
<1>12. Waits(e)
  <2>1. \A x \in DOMAIN st.plans : \A j \in JobRows(st.plans[x]) : e.outbox[j] = st.outbox[j]
    BY <1>3 DEF Linked, IsPartOf
  <2>2. \A x \in DOMAIN st.plans : Justified(st, x) => Justified(e, x)
    BY <1>3, <2>1 DEF Justified
  <2>3. \A u : Excused(st, u) => Excused(e, u)
    BY <1>3 DEF Excused
  <2> QED
    BY <1>3, <2>2, <2>3 DEF Sound, Waits, MayWait
<1> QED
  BY <1>5, <1>6, <1>7, <1>8, <1>9, <1>10, <1>11, <1>12 DEF Sound, InDescent, e, i, row

\* r becomes the content of t; S holds the texts that turns have.
Becomes(cur, new, S, t, r) == new[t] = r /\ \A u, s : <<u, s>> \in S /\ u # t => new[u] = cur[u]

\* _ensure_final_ready_anchor_conn, for what the turn's content has become.
LEMMA EnsureAnchorSound ==
    ASSUME NEW st, Orderly(st), NEW S, Intact(st, S), NEW cur, Sound(st, cur),
           NEW t, NEW r, <<t, r>> \in S,
           NEW new, Becomes(cur, new, S, t, r)
    PROVE  Sound(EnsureAnchor(st, t, r), new)
<1>0. new[t] = r
  BY DEF Becomes
<1>1. ASSUME NEW x, Intact(x, S), NEW q \in DOMAIN x.plans, x.plans[q].turn # t
      PROVE  new[x.plans[q].turn] = cur[x.plans[q].turn]
  BY <1>1 DEF Intact, Readable, Becomes
<1>2. CASE RootsOf(st, t, r) = {}
  <2> DEFINE s1 == SupersedeStale(st, t, r)
  <2>1. EnsureAnchor(st, t, r) = WithRow(s1, Highest(DOMAIN s1.outbox) + 1, NewRoot(t, r))
    BY <1>2 DEF EnsureAnchor
  <2>2. Orderly(s1) /\ Alike(st, s1)
    BY SupersedeStaleKeeps, OrderlyIsShaped, SupersedeStaleAlike
  <2>3. Sound(s1, new)
    BY <1>0, <1>1, SupersedeStaleSound DEF Sound, Waits, Intact
  <2> HIDE DEF s1
  <2>4. Linked(s1)
    BY <2>2, AlikeIsIntact DEF Intact
  <2>5. RootsOf(s1, t, r) = {}
    BY <1>2, <2>2 DEF RootsOf, Alike, RowStays
  <2> QED
    BY <2>1, <2>2, <2>3, <2>4, <2>5, WithRootSound
<1>3. CASE RootsOf(st, t, r) # {}
  <2> DEFINE i == Root(st, t, r)
             e == Reactivate(st, i)
  <2>1. EnsureAnchor(st, t, r) = SupersedeStale(IF MustReactivate(st, i) THEN e ELSE st, t, r)
    BY <1>3 DEF EnsureAnchor
  <2>2. i \in RootsOf(st, t, r)
    BY <1>3 DEF Root
  <2>3. /\ i \in DOMAIN st.outbox /\ st.outbox[i].kind # "part"
        /\ st.outbox[i].turn = t /\ st.outbox[i].rev = r
    BY <2>2 DEF RootsOf
  <2> HIDE DEF i
  <2>4. CASE MustReactivate(st, i)
    <3>1. Orderly(e) /\ Intact(e, S)
      BY <2>3, <2>4, ReactivateKeeps, ReactivateIntact
    <3>2. /\ InDescent(e) /\ AllFresh(e) /\ OneText(e, cur)
          /\ \A q \in DOMAIN e.plans :
                /\ e.plans[q].state = "waiting_predecessor"
                /\ e.plans[q].turn # t \/ e.plans[q].rev = r
                => MayWait(e, q)
      BY <2>3, ReactivateSound DEF Intact
    <3> HIDE DEF e
    <3>3. Sound(SupersedeStale(e, t, r), new)
      BY <1>0, <1>1, <3>1, <3>2, SupersedeStaleSound DEF Intact
    <3> QED
      BY <2>1, <2>4, <3>3
  <2>5. CASE ~MustReactivate(st, i)
    <3>1. Sound(SupersedeStale(st, t, r), new)
      BY <1>0, <1>1, SupersedeStaleSound DEF Sound, Waits, Intact
    <3> QED
      BY <2>1, <2>5, <3>1
  <2> QED
    BY <2>4, <2>5
<1> QED
  BY <1>2, <1>3

\* The rows and plans of a store whose plans have an order
Descended == Intact(db, Turns \X Revs) /\ Sound(db, current) /\ DOMAIN current = Turns

\* A turn is observed; a text that is not final leaves the plans alone.
LEMMA ObserveSound ==
    ASSUME Orderly(db), Descended, NEW t \in Turns, NEW r \in Revs, Observe(t, r)
    PROVE  Descended'
<1> DEFINE S == Turns \X Revs
           new == [current EXCEPT ![t] = r]
<1>1. current' = new /\ db' = IF r \in Finals THEN EnsureAnchor(db, t, r) ELSE db
  BY DEF Observe
<1>2. <<t, r>> \in S
  OBVIOUS
<1>3. DOMAIN new = Turns /\ new[t] = r /\ \A u \in Turns : u # t => new[u] = current[u]
  BY DEF Descended
<1>4. \A u, s : <<u, s>> \in S /\ u # t => new[u] = current[u]
  <2>1. \A u, s : <<u, s>> \in S => u \in Turns
    OBVIOUS
  <2> QED
    BY <1>3, <2>1
<1> HIDE DEF S, new
<1>5. Intact(db, S) /\ Sound(db, current)
  BY DEF Descended, S
<1>6. CASE r \in Finals
  <2>1. db' = EnsureAnchor(db, t, r)
    BY <1>1, <1>6
  <2>2. Sound(EnsureAnchor(db, t, r), new)
    <3>1. Becomes(current, new, S, t, r)
      BY <1>3, <1>4 DEF Becomes
    <3> QED
      BY <1>2, <1>5, <3>1, EnsureAnchorSound
  <2>3. Intact(EnsureAnchor(db, t, r), S)
    BY <1>2, <1>5, EnsureAnchorIntact
  <2> QED
    BY <1>1, <1>3, <2>1, <2>2, <2>3 DEF Descended, S
<1>7. CASE r \notin Finals
  <2>1. \A q \in DOMAIN db.plans : <<db.plans[q].turn, db.plans[q].rev>> \in S
    BY <1>5 DEF Intact, Readable
  <2>2. \A q \in DOMAIN db.plans :
           new[db.plans[q].turn] \in Finals => new[db.plans[q].turn] = current[db.plans[q].turn]
    BY <1>3, <1>4, <1>7, <2>1
  <2>3. OneText(db, new)
    BY <1>5, <2>2 DEF Sound, OneText
  <2>4. Sound(db, new)
    BY <1>5, <2>3 DEF Sound
  <2>5. db' = db
    BY <1>1, <1>7
  <2> QED
    BY <1>1, <1>3, <1>5, <2>4, <2>5 DEF Descended, S
<1> QED
  BY <1>6, <1>7

\* In an empty store nothing waits.
LEMMA DescendedInit ==
    Init => Descended
<1> SUFFICES ASSUME Init PROVE Descended
  OBVIOUS
<1>1. DOMAIN db.outbox = {} /\ DOMAIN db.plans = {}
  BY DEF Init
<1>2. DOMAIN db.plans \subseteq 1 .. 0
  BY <1>1
<1>3. Intact(db, Turns \X Revs)
  BY <1>1, <1>2 DEF Intact, Linked, Readable
<1>4. Sound(db, current)
  BY <1>1 DEF Sound, InDescent, Rooted, Keyed, Descends, GensInOrder, PartsTried, AllFresh, OneText, Waits
<1>5. DOMAIN current = Turns
  BY DEF Init
<1> QED
  BY <1>3, <1>4, <1>5 DEF Descended

\* Every operation but the observation of a turn leaves current alone.
LEMMA CurrentStays ==
    ASSUME Planning \/ Delivering \/ Operator \/ Maintenance \/ Time
    PROVE  UNCHANGED current
<1>1. CASE Planning
  BY <1>1 DEF Planning, Begin, BeginSourceLess, Part, Commit, CommitSourceLess
<1>2. CASE Delivering
  BY <1>2 DEF Delivering, Poll, Ack, Fail, Defer, Release, GiveBack, Apply, Stop
<1>3. CASE Operator \/ Maintenance \/ Time
  BY <1>3 DEF Operator, Recover, RetryStale, RetryDeadLetter, Maintenance, Reclaim, ExhaustRetries,
              Time, LeaseExpires, RowDue
<1> QED
  BY <1>1, <1>2, <1>3

\* Every operation keeps the order of the plans.
LEMMA SoundStep ==
    ASSUME Orderly(db), NEW S, Intact(db, S), Sound(db, current),
           Planning \/ Delivering \/ Operator \/ Maintenance \/ Time
    PROVE  Sound(db', current)
<1>1. Linked(db)
  BY DEF Intact
<1>2. CASE Planning
  <2>1. ASSUME NEW n \in 1 .. MaxParts,
               \/ \E c \in Connectors, v \in Versions : Begin(c, v, n)
               \/ \E t \in Turns, v \in FreeVersions : BeginSourceLess(t, v, n)
        PROVE  Sound(db', current)
    BY <1>1, <2>1, BeginsSound
  <2>2. ASSUME NEW q \in DOMAIN db.plans, Part(q) PROVE Sound(db', current)
    BY <2>2, PartSound
  <2>3. ASSUME NEW q \in DOMAIN db.plans, NEW c \in Connectors, Commit(c, q) PROVE Sound(db', current)
    BY <2>3, CommitSound
  <2>4. ASSUME NEW q \in DOMAIN db.plans, CommitSourceLess(q) PROVE Sound(db', current)
    BY <2>4, CommitSourceLessSound
  <2> QED
    BY <1>2, <2>1, <2>2, <2>3, <2>4 DEF Planning
<1>3. CASE Delivering
  <2>1. ASSUME NEW c \in Connectors, Apply(c) PROVE Sound(db', current)
    BY <2>1 DEF Apply
  <2>2. ASSUME NEW c \in Connectors, Poll(c) PROVE Sound(db', current)
    BY <1>1, <2>2, PollSound
  <2>3. ASSUME NEW c \in Connectors, Ack(c) \/ Fail(c) \/ Defer(c) \/ Release(c) PROVE Sound(db', current)
    <3>1. Ack(c) \/ \E action \in {"fail", "defer", "release"} : GiveBack(c, action)
      BY <2>3 DEF Fail, Defer, Release
    <3> QED
      BY <1>1, <3>1, EndsSound
  <2>4. ASSUME NEW c \in Connectors, Stop(c) PROVE Sound(db', current)
    BY <2>4, LeasesSound
  <2> QED
    BY <1>3, <2>1, <2>2, <2>3, <2>4 DEF Delivering
<1>4. CASE Operator
  BY <1>1, <1>4, RecoverSound, RowEditsSound DEF Operator
<1>5. CASE Maintenance
  BY <1>1, <1>5, MaintenanceSound
<1>6. CASE Time
  BY <1>1, <1>6, LeasesSound, RowEditsSound DEF Time
<1> QED
  BY <1>2, <1>3, <1>4, <1>5, <1>6

\* so does every step.
LEMMA DescendedNext ==
    ASSUME Orderly(db), Descended, [Next]_vars
    PROVE  Descended'
<1>1. CASE \E t \in Turns, r \in Revs : Observe(t, r)
  BY <1>1, ObserveSound
<1>2. CASE Planning \/ Delivering \/ Operator \/ Maintenance \/ Time
  <2>1. Intact(db, Turns \X Revs) /\ Sound(db, current)
    BY DEF Descended
  <2>2. Intact(db', Turns \X Revs) /\ Sound(db', current)
    BY <1>2, <2>1, IntactStep, SoundStep
  <2> QED
    BY <1>2, <2>2, CurrentStays DEF Descended
<1>3. CASE UNCHANGED vars
  BY <1>3 DEF vars, Descended
<1> QED
  BY <1>1, <1>2, <1>3 DEF Next

\* A leased row has its lease.
LEMMA WaitingForALease ==
    Orderly(db) /\ Descended => WaitingIsJustified
<1> SUFFICES ASSUME Orderly(db), Descended,
                    NEW q \in DOMAIN db.plans, db.plans[q].state = "waiting_predecessor"
             PROVE  \/ \E l \in db.leases, x \in DOMAIN db.plans \ {q} :
                          db.plans[x].turn = db.plans[q].turn /\ l.row \in JobRows(db.plans[x])
                    \/ Excused(db, db.plans[q].turn)
  BY DEF WaitingIsJustified, Excused, Shared
<1>1. MayWait(db, q)
  BY DEF Descended, Sound, Waits
<1>2. CASE Justified(db, q)
  <2>1. PICK x \in DOMAIN db.plans \ {q} :
           /\ db.plans[x].turn = db.plans[q].turn
           /\ \E i \in JobRows(db.plans[x]) : db.outbox[i].status = "leased"
    BY <1>2 DEF Justified
  <2>2. PICK i \in JobRows(db.plans[x]) : db.outbox[i].status = "leased"
    BY <2>1
  <2>3. i \in DOMAIN db.outbox
    BY <2>1 DEF Descended, Intact, Linked, IsPartOf
  <2>4. PICK l \in db.leases : l.row = i
    BY <2>2, <2>3 DEF Orderly, LeasesFit
  <2> QED
    BY <2>1, <2>2, <2>4
<1> QED
  BY <1>1, <1>2 DEF MayWait

-----------------------------------------------------------------------------
(* The theorems                                                            *)

\* An empty store is in order.
LEMMA OrderlyInit ==
    Init => Orderly(db)
<1> SUFFICES ASSUME Init PROVE Orderly(db)
  OBVIOUS
<1>1. DOMAIN db = {"outbox", "leases", "plans"} /\ db.leases = {} /\ db.outbox = <<>> /\ db.plans = <<>>
  BY DEF Init
<1>2. DOMAIN db.outbox = {} /\ DOMAIN db.plans = {}
  BY <1>1
<1>3. DOMAIN db.outbox \subseteq 1 .. 0
  BY <1>2
<1> QED
  BY <1>1, <1>2, <1>3 DEF Orderly, StoreFits, LeasesFit, PartsInOrder

\* Every operation keeps the store in order.
LEMMA OrderlyNext ==
    Orderly(db) /\ [Next]_vars => Orderly(db')
<1> SUFFICES ASSUME Orderly(db), [Next]_vars PROVE Orderly(db')
  OBVIOUS
<1>1. ASSUME NEW t \in Turns, NEW r \in Revs, Observe(t, r) PROVE Orderly(db')
  BY <1>1, EnsureAnchorKeeps DEF Observe
<1>2. CASE Planning
  <2>1. ASSUME NEW c \in Connectors, NEW v \in Versions, NEW n \in 1 .. MaxParts, Begin(c, v, n)
        PROVE  Orderly(db')
    BY <2>1, BeginKeeps
  <2>2. ASSUME NEW t \in Turns, NEW v \in FreeVersions, NEW n \in 1 .. MaxParts, BeginSourceLess(t, v, n)
        PROVE  Orderly(db')
    BY <2>2, BeginSourceLessKeeps
  <2>3. ASSUME NEW q \in DOMAIN db.plans, Part(q) PROVE Orderly(db')
    BY <2>3, PartKeeps
  <2>4. ASSUME NEW q \in DOMAIN db.plans, NEW c \in Connectors, Commit(c, q) PROVE Orderly(db')
    BY <2>4, CommitKeeps
  <2>5. ASSUME NEW q \in DOMAIN db.plans, CommitSourceLess(q) PROVE Orderly(db')
    BY <2>5, CommitSourceLessKeeps
  <2> QED
    BY <1>2, <2>1, <2>2, <2>3, <2>4, <2>5 DEF Planning
<1>3. CASE Delivering
  <2>1. ASSUME NEW c \in Connectors, Poll(c) PROVE Orderly(db')
    BY <2>1, PollKeeps
  <2>2. ASSUME NEW c \in Connectors, Ack(c) PROVE Orderly(db')
    BY <2>2, AckKeeps
  <2>3. ASSUME NEW c \in Connectors, Fail(c) \/ Defer(c) \/ Release(c) PROVE Orderly(db')
    BY <2>3, GiveBackKeeps DEF Fail, Defer, Release
  <2>4. ASSUME NEW c \in Connectors, Apply(c) PROVE Orderly(db')
    BY <2>4 DEF Apply
  <2>5. ASSUME NEW c \in Connectors, Stop(c) PROVE Orderly(db')
    BY <2>5, StopKeeps
  <2> QED
    BY <1>3, <2>1, <2>2, <2>3, <2>4, <2>5 DEF Delivering
<1>4. CASE Operator
  <2>1. ASSUME NEW q \in DOMAIN db.plans, Recover(q) PROVE Orderly(db')
    BY <2>1, RecoverKeeps
  <2>2. ASSUME NEW i \in DOMAIN db.outbox, RetryStale(i) PROVE Orderly(db')
    BY <2>2, RetryStaleKeeps
  <2>3. ASSUME NEW i \in DOMAIN db.outbox, RetryDeadLetter(i) PROVE Orderly(db')
    BY <2>3, RetryDeadLetterKeeps
  <2> QED
    BY <1>4, <2>1, <2>2, <2>3 DEF Operator
<1>5. CASE Maintenance
  <2>1. CASE Reclaim
    <3>1. db' = ReclaimAwaiting(ReclaimLeases(db))
      BY <2>1 DEF Reclaim
    <3> QED
      BY <3>1, ReclaimLeasesKeeps, ReclaimAwaitingKeeps
  <2>2. CASE ExhaustRetries
    BY <2>2, ReclaimedKeeps, ExhaustedIs DEF ExhaustRetries
  <2> QED
    BY <1>5, <2>1, <2>2 DEF Maintenance
<1>6. CASE Time
  <2>1. ASSUME NEW l \in db.leases, LeaseExpires(l) PROVE Orderly(db')
    BY <2>1, LeaseExpiresKeeps
  <2>2. ASSUME NEW i \in DOMAIN db.outbox, RowDue(i) PROVE Orderly(db')
    BY <2>2, RowDueKeeps
  <2> QED
    BY <1>6, <2>1, <2>2 DEF Time
<1>7. CASE UNCHANGED vars
  BY <1>7 DEF vars
<1> QED
  BY <1>1, <1>2, <1>3, <1>4, <1>5, <1>6, <1>7 DEF Next

\* A live lease on a part outlasts every operation but its connector's own and those
\* that make the part obsolete.
LEMMA LeasesNext ==
    ASSUME Orderly(db), DOMAIN hand = Connectors, Next
    PROVE  \/ LeasesKept(db, db')
           \/ \E c \in Connectors : hand' = [hand EXCEPT ![c] = {}] /\ Returns(db, db', c)
<1>1. ASSUME NEW t \in Turns, NEW r \in Revs, Observe(t, r) PROVE LeasesKept(db, db')
  BY <1>1, EnsureAnchorKeeps, KeptByRows DEF Observe
<1>2. CASE Planning
  BY <1>2, BeginKeeps, BeginSourceLessKeeps, PartKeeps, CommitKeeps, CommitSourceLessKeeps DEF Planning
<1>3. ASSUME NEW c \in Connectors, Poll(c) \/ Stop(c) \/ Apply(c) PROVE LeasesKept(db, db')
  BY <1>3, PollKeeps, StopKeeps, KeptByRows DEF Apply
<1>4. ASSUME NEW c \in Connectors, Ack(c) \/ Fail(c) \/ Defer(c) \/ Release(c)
      PROVE  hand' = [hand EXCEPT ![c] = {}] /\ Returns(db, db', c)
  <2>1. CASE Ack(c)
    <3>1. hand' = [hand EXCEPT ![c] = {}]
      BY <2>1 DEF Ack
    <3> QED
      BY <2>1, <3>1, AckKeeps
  <2>2. ASSUME NEW action \in {"fail", "defer", "release"}, GiveBack(c, action)
        PROVE  hand' = [hand EXCEPT ![c] = {}] /\ Returns(db, db', c)
    <3>1. hand' = [hand EXCEPT ![c] = {}]
      BY <2>2 DEF GiveBack
    <3> QED
      BY <2>2, <3>1, GiveBackKeeps
  <2> QED
    BY <1>4, <2>1, <2>2 DEF Fail, Defer, Release
<1>5. CASE Operator
  BY <1>5, RecoverKeeps, RetryStaleKeeps, RetryDeadLetterKeeps DEF Operator
<1>6. CASE Maintenance
  <2>1. CASE Reclaim
    <3> DEFINE st == ReclaimLeases(db)
    <3>1. db' = ReclaimAwaiting(st)
      BY <2>1 DEF Reclaim
    <3>2. Orderly(st) /\ LiveParts(db) \subseteq LiveParts(st)
      BY ReclaimLeasesKeeps
    <3> HIDE DEF st
    <3>3. Orderly(db') /\ LiveParts(st) \subseteq LiveParts(db')
      BY <3>1, <3>2, ReclaimAwaitingKeeps
    <3> QED
      BY <3>2, <3>3, KeptByLeases
  <2>2. CASE ExhaustRetries
    <3> DEFINE st == Reclaimed(db)
    <3>1. db' = Exhausted(st)
      BY <2>2 DEF ExhaustRetries
    <3>2. Orderly(st) /\ LiveParts(db) \subseteq LiveParts(st)
      BY ReclaimedKeeps
    <3> HIDE DEF st
    <3>3. Orderly(db') /\ LiveParts(st) \subseteq LiveParts(db')
      BY <3>1, <3>2, ExhaustedIs
    <3> QED
      BY <3>2, <3>3, KeptByLeases
  <2> QED
    BY <1>6, <2>1, <2>2 DEF Maintenance
<1>7. CASE Time
  BY <1>7, LeaseExpiresKeeps, RowDueKeeps DEF Time
<1> QED
  BY <1>1, <1>2, <1>3, <1>4, <1>5, <1>6, <1>7 DEF Next, Delivering

\* Every connector has a hand.
LEMMA HandsInit == Init => DOMAIN hand = Connectors
BY DEF Init

\* Hands come and go with nobody.
LEMMA HandsNext ==
    DOMAIN hand = Connectors /\ [Next]_vars => DOMAIN hand' = Connectors
<1> SUFFICES ASSUME DOMAIN hand = Connectors, [Next]_vars PROVE DOMAIN hand' = Connectors
  OBVIOUS
<1>1. CASE UNCHANGED hand
  BY <1>1
<1>2. ASSUME NEW c, NEW S, hand' = [hand EXCEPT ![c] = S] PROVE DOMAIN hand' = Connectors
  BY <1>2
<1>3. CASE Planning \/ Operator \/ Maintenance \/ Time
  <2>1. UNCHANGED hand
    BY <1>3 DEF Planning, Operator, Maintenance, Time, Begin, BeginSourceLess, Part, Commit,
                CommitSourceLess, Recover, RetryStale, RetryDeadLetter, Reclaim, ExhaustRetries,
                LeaseExpires, RowDue
  <2> QED
    BY <1>1, <2>1
<1>4. ASSUME NEW c \in Connectors, Poll(c) PROVE DOMAIN hand' = Connectors
  BY <1>2, <1>4 DEF Poll
<1>5. ASSUME NEW c \in Connectors, Ack(c) PROVE DOMAIN hand' = Connectors
  BY <1>2, <1>5 DEF Ack
<1>6. ASSUME NEW c \in Connectors, NEW action, GiveBack(c, action) PROVE DOMAIN hand' = Connectors
  BY <1>2, <1>6 DEF GiveBack
<1>7. ASSUME NEW c \in Connectors, Apply(c) \/ Stop(c) PROVE DOMAIN hand' = Connectors
  BY <1>2, <1>7 DEF Apply, Stop
<1>8. CASE Delivering
  BY <1>4, <1>5, <1>6, <1>7, <1>8 DEF Delivering, Fail, Defer, Release
<1>9. CASE \E t \in Turns, r \in Revs : Observe(t, r)
  BY <1>1, <1>9 DEF Observe
<1>10. CASE UNCHANGED vars
  BY <1>1, <1>10 DEF vars
<1> QED
  BY <1>3, <1>8, <1>9, <1>10 DEF Next

\* A row is leased once, and the parts of a stream one at a time.
LEMMA OrderlyStream ==
    Orderly(db) => StreamIsOrdered
<1> SUFFICES ASSUME Orderly(db) PROVE StreamIsOrdered
  OBVIOUS
<1>1. OnePartInFlight
  <2> SUFFICES ASSUME NEW l \in db.leases, NEW m \in db.leases,
                      db.outbox[l.row].kind = "part", db.outbox[m.row].kind = "part",
                      Same(db, l.row, m.row)
               PROVE  l = m
    BY DEF OnePartInFlight
  <2>1. /\ l.row \in DOMAIN db.outbox /\ db.outbox[l.row].status = "leased"
        /\ m.row \in DOMAIN db.outbox /\ db.outbox[m.row].status = "leased"
    BY DEF Orderly, LeasesFit
  <2>2. l.row \in Nat /\ m.row \in Nat
    BY <2>1 DEF Orderly, StoreFits
  <2>3. "leased" \notin Terminal /\ Same(db, m.row, l.row)
    BY DEF Terminal, Same
  <2>4. ~(l.row < m.row) /\ ~(m.row < l.row)
    BY <2>1, <2>3 DEF Orderly, PartsInOrder
  <2>5. l.row = m.row
    BY <2>2, <2>4
  <2> QED
    BY <2>5 DEF Orderly, LeasesFit
<1>2. LeasesAgree
  <2> SUFFICES ASSUME NEW i \in DOMAIN db.outbox \cup {l.row : l \in db.leases}
               PROVE  IF i \in DOMAIN db.outbox /\ db.outbox[i].status = "leased"
                      THEN Cardinality({l \in db.leases : l.row = i}) = 1
                      ELSE \A l \in db.leases : l.row # i
    BY DEF LeasesAgree
  <2>1. CASE i \in DOMAIN db.outbox /\ db.outbox[i].status = "leased"
    <3>1. PICK l \in db.leases : l.row = i
      BY <2>1 DEF Orderly, LeasesFit
    <3>2. {m \in db.leases : m.row = i} = {l}
      BY <3>1 DEF Orderly, LeasesFit
    <3> QED
      BY <2>1, <3>2, FS_Singleton
  <2>2. CASE ~(i \in DOMAIN db.outbox /\ db.outbox[i].status = "leased")
    BY <2>2 DEF Orderly, LeasesFit
  <2> QED
    BY <2>1, <2>2
<1>3. AttemptsBounded
  BY DEF Orderly, StoreFits, RowFits, AttemptsBounded
<1> QED
  BY <1>1, <1>2, <1>3 DEF StreamIsOrdered

\* Of one worker's finals at most one part is in the hands of a connector, and every
\* leased row has exactly one lease, whatever is replaced, recovered, reactivated or
\* expires meanwhile (poll_connector_outbox and all that reclaims and closes rows).
THEOREM StreamOrdered == Spec => []StreamIsOrdered
<1>1. Init => Orderly(db)
  BY OrderlyInit
<1>2. Orderly(db) /\ [Next]_vars => Orderly(db)'
  BY OrderlyNext
<1>3. Orderly(db) => StreamIsOrdered
  BY OrderlyStream
<1> QED
  BY <1>1, <1>2, <1>3, PTL DEF Spec

\* A plan that waits for its predecessor (waiting_predecessor, activated by
\* _activate_waiting_presentation_plans_conn only when something else happens to the
\* turn's parts) waits for a part of another plan of its turn that is leased: the end
\* of that lease activates it, and no reclaim, reactivation or supersession leaves it
\* behind.  A recovery may, of a plan whose version was planned with a ref and without
\* one: it deletes the superseded plans of its version, and only then is it not so that
\* their parts precede the recovered plan's and are closed.
THEOREM WaitingEndsForAReason == Spec => []WaitingIsJustified
<1> DEFINE Inv == Orderly(db) /\ Descended
<1>1. Init => Inv
  BY OrderlyInit, DescendedInit
<1>2. Inv /\ [Next]_vars => Inv'
  BY OrderlyNext, DescendedNext
<1>3. Inv => WaitingIsJustified
  BY WaitingForALease
<1> QED
  BY <1>1, <1>2, <1>3, PTL DEF Spec

\* A live lease on a part ends by the hand of its connector, or because the part is
\* obsolete: no deadline, poll or sweep takes it away, although most operations start
\* with a reclaim of what has expired.
THEOREM LiveLeasesAreKept == Spec => LiveLeaseIsKept
<1> DEFINE Inv == Orderly(db) /\ DOMAIN hand = Connectors
           Kept == \A l \in db.leases :
                     /\ ~l.due /\ db.outbox[l.row].kind = "part"
                     /\ l.row \in DOMAIN db'.outbox /\ db'.outbox[l.row].status \notin {"leased", "superseded"}
                     => l.owner # Nobody /\ hand'[l.owner] = {}
<1>1. Init => Inv
  BY OrderlyInit, HandsInit
<1>2. Inv /\ [Next]_vars => Inv'
  BY OrderlyNext, HandsNext
<1>3. Inv /\ [Next]_vars => [Kept]_vars
  <2> SUFFICES ASSUME Inv, Next PROVE Kept
    OBVIOUS
  <2>1. CASE LeasesKept(db, db')
    BY <2>1 DEF LeasesKept, LiveParts
  <2>2. ASSUME NEW c \in Connectors, hand' = [hand EXCEPT ![c] = {}], Returns(db, db', c) PROVE Kept
    BY <2>2, DeliveryAssumption DEF Returns, LiveParts
  <2> QED
    BY <2>1, <2>2, LeasesNext
<1> QED
  BY <1>1, <1>2, <1>3, PTL DEF Spec, LiveLeaseIsKept

-----------------------------------------------------------------------------
(* The theorems about retention                                            *)

\* The queue is intact; finitely many texts are stored.
Retained == Orderly(db) /\ Intact(db, stored) /\ IsFiniteSet(stored)

\* An empty store is in order, and nothing is stored.
LEMMA RetainedInit ==
    RetentionInit => Retained
<1> SUFFICES ASSUME RetentionInit PROVE Retained
  OBVIOUS
<1>1. Orderly(db) /\ IsFiniteSet(stored)
  BY OrderlyInit, FS_EmptySet DEF RetentionInit
<1>2. DOMAIN db.outbox = {} /\ DOMAIN db.plans = {}
  <2>1. db.outbox = <<>> /\ db.plans = <<>>
    BY DEF RetentionInit, Init
  <2> QED
    BY <2>1
<1>3. DOMAIN db.plans \subseteq 1 .. 0
  BY <1>2
<1> QED
  BY <1>1, <1>2, <1>3 DEF Retained, Intact, Linked, Readable

\* Every step keeps it so.
LEMMA RetainedNext ==
    Retained /\ [RetentionNext]_rvars => Retained'
<1> SUFFICES ASSUME Retained, [RetentionNext]_rvars PROVE Retained'
  OBVIOUS
<1>1. ASSUME NEW t \in Turns, NEW r \in Revs, ObserveFinal(t, r) PROVE Retained'
  <2>1. Orderly(db') /\ Intact(db', stored')
    BY <1>1, ObserveFinalIntact DEF Retained
  <2>2. stored' = stored \cup {<<t, r>>}
    BY <1>1 DEF ObserveFinal
  <2>3. IsFiniteSet(stored')
    BY <2>2, FS_AddElement DEF Retained
  <2> QED
    BY <2>1, <2>3 DEF Retained
<1>2. CASE Delivery
  <2>1. Planning \/ Delivering \/ Operator \/ Maintenance \/ Time
    BY <1>2 DEF Delivery
  <2>2. Orderly(db')
    BY <2>1, OrderlyNext DEF Next, Retained
  <2>3. Intact(db', stored)
    BY <2>1, IntactStep DEF Retained
  <2> QED
    BY <1>2, <2>2, <2>3 DEF Delivery, Retained
<1>3. CASE CleanupContent \/ CleanupAcknowledged
  <2>1. Whole(Store)
    BY DEF Whole, Store, Retained
  <2>2. Orderly(db') /\ Intact(db', stored') /\ stored' \subseteq stored
    BY <1>3, <2>1, CleanupContentIsSafe, CleanupAcknowledgedIsSafe DEF Retained
  <2> QED
    BY <2>2, FS_Subset DEF Retained
<1>4. CASE Tick \/ UNCHANGED rvars \/ \E t \in Turns, r \in Revs : DiscardReplay(t, r)
  BY <1>4 DEF Tick, DiscardReplay, rvars, vars, kept, Retained
<1> QED
  BY <1>1, <1>2, <1>3, <1>4 DEF RetentionNext

\* Whatever the two sweeps delete, and whenever they run: a row and a plan in the queue
\* have the text of their revision, a plan its root and its parts
\* (_delete_retained_plan_conn and all that guards it, _delete_acknowledged_final_turn_conn).
THEOREM QueueStaysReadable == RetentionSpec => []QueueIsReadable
<1>1. Retained => QueueIsReadable
  <2> SUFFICES ASSUME Retained PROVE QueueIsReadable
    OBVIOUS
  <2>1. \A q \in DOMAIN db.plans : JobRows(db.plans[q]) \subseteq DOMAIN db.outbox
    BY DEF Retained, Intact, Linked, IsPartOf
  <2> QED
    BY <2>1 DEF QueueIsReadable, Retained, Intact, Linked, Readable
<1> QED
  BY <1>1, RetainedInit, RetainedNext, PTL DEF RetentionSpec

\* The sweeps do not disturb the order of a stream: they leave no row leased without its
\* lease, and no lease without its row.
THEOREM StreamOrderedUnderRetention == RetentionSpec => []StreamIsOrdered
<1>1. Retained => StreamIsOrdered
  BY OrderlyStream DEF Retained
<1> QED
  BY <1>1, RetainedInit, RetainedNext, PTL DEF RetentionSpec

\* Nor do they end a live lease on a part that stays.
THEOREM LiveLeasesAreKeptUnderRetention == RetentionSpec => LiveLeaseIsKept
<1> DEFINE Inv == Retained /\ DOMAIN hand = Connectors
           Kept == \A l \in db.leases :
                     /\ ~l.due /\ db.outbox[l.row].kind = "part"
                     /\ l.row \in DOMAIN db'.outbox /\ db'.outbox[l.row].status \notin {"leased", "superseded"}
                     => l.owner # Nobody /\ hand'[l.owner] = {}
<1>1. RetentionInit => Inv
  BY RetainedInit, HandsInit DEF RetentionInit
<1>2. [RetentionNext]_rvars => [Next]_vars \/ CleanupContent \/ CleanupAcknowledged
  BY DEF RetentionNext, ObserveFinal, DiscardReplay, Delivery, Tick, Next, rvars
<1>3. Inv /\ [RetentionNext]_rvars => Inv'
  <2>1. CleanupContent \/ CleanupAcknowledged => UNCHANGED hand
    BY DEF CleanupContent, CleanupAcknowledged
  <2> QED
    BY <1>2, <2>1, RetainedNext, HandsNext
<1>4. Inv /\ [RetentionNext]_rvars => [Kept]_vars
  <2> SUFFICES ASSUME Inv, [RetentionNext]_rvars PROVE [Kept]_vars
    OBVIOUS
  <2>1. ASSUME LeasesKept(db, db') PROVE Kept
    BY <2>1 DEF LeasesKept, LiveParts
  <2>2. ASSUME NEW c \in Connectors, hand' = [hand EXCEPT ![c] = {}], Returns(db, db', c) PROVE Kept
    BY <2>2, DeliveryAssumption DEF Returns, LiveParts
  <2>3. CASE Next
    BY <2>1, <2>2, <2>3, LeasesNext DEF Retained
  <2>4. CASE CleanupContent \/ CleanupAcknowledged
    <3>1. Whole(Store)
      BY DEF Whole, Store, Retained
    <3>2. \A i \in DOMAIN db'.outbox : i \in DOMAIN db.outbox /\ db'.outbox[i] = db.outbox[i]
      BY <2>4, <3>1, CleanupContentIsSafe, CleanupAcknowledgedIsSafe DEF Retained
    <3> QED
      BY <2>1, <3>2, KeptByRows DEF Retained
  <2> QED
    BY <1>2, <2>3, <2>4
<1> QED
  BY <1>1, <1>3, <1>4, PTL DEF RetentionSpec, LiveLeaseIsKept
=============================================================================
