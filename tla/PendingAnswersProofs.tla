------------------------ MODULE PendingAnswersProofs ------------------------
(***************************************************************************)
(* Proofs about the answers to prompts (PendingAnswers.tla), for any       *)
(* number of requests, prompts and bindings.                               *)
(*                                                                         *)
(* PromptsInv is the inductive invariant.  A request that may have sent    *)
(* its answer still holds the claim of its revision, or that revision is   *)
(* Gone: no reader and no scan can make it an open prompt again, unless it *)
(* is doubtful.  The second half is about the order of the reads: of two   *)
(* reads of a binding that saw different things, the one that began later  *)
(* also looked later, or it is crossed.                                    *)
(***************************************************************************)
EXTENDS PendingAnswers, SequenceTheorems, TLAPS

\* Bindings are used in the order they were issued.
BindingsInOrder ==
    /\ binding \in {0, issued} /\ row.bind <= issued
    /\ \A i \in DOMAIN readers : readers[i].bind <= issued

\* The row knows a prompt that was shown, through a binding that was issued.
RowIsKnown ==
    /\ row.rev.prompt <= asked /\ row.rev.bind <= issued
    /\ row.state # "absent" => row.bind # 0
    /\ row.rev.bind # 0 => row.rev.prompt # 0
    /\ row.state = "open" => row.rev.bind # 0
    /\ row.state = "open" /\ row.fresh => row.rev.bind = row.bind

Found(x, b, p) == x.at = "read" /\ x.bind = b /\ x.saw = p

Contradicts(x, b, p) == x.at = "read" /\ x.bind = b /\ x.saw \notin {Failure, p}

\* After what reader i saw, prompt p of binding b is not seen any more.
ClosedAfter(i, b, p) ==
    /\ screen # p
    /\ \A j \in DOMAIN readers : i < j /\ Found(readers[j], b, p) => readers[j].crossed

\* Reader k found prompt p, and reader i, which began after it, did not.
Follows(i, k, b, p) ==
    k < i /\ Found(readers[k], b, p) /\ Contradicts(readers[i], b, p) /\ ~readers[i].crossed

ReadsInOrder ==
    \A k, i \in DOMAIN readers : \A b, p \in Nat :
        Follows(i, k, b, p) /\ p # 0 => ClosedAfter(i, b, p)

\* Reader i may still give the row something else than the prompt it knows.
Supersedes(i) ==
    /\ Contradicts(readers[i], row.rev.bind, row.rev.prompt)
    /\ ~readers[i].old /\ ~readers[i].crossed

\* A reader that saw something else than the row knows saw it later.
ReadersAreLater ==
    /\ \A i \in DOMAIN readers : readers[i].saw <= asked
    /\ \A i \in DOMAIN readers :
          Supersedes(i) => ClosedAfter(i, row.rev.bind, row.rev.prompt)

Shows(x, rev) == Found(x, rev.bind, rev.prompt) /\ ~x.old

\* The revision will never be the fresh open prompt again, unless it is doubtful.
Gone(rev) ==
    \/ rev \in doubtful
    \/ /\ ~(row.state = "open" /\ row.fresh /\ row.rev = rev)
       /\ \/ rev.bind # binding
          \/ /\ screen # rev.prompt
             /\ \A i \in DOMAIN readers : Shows(readers[i], rev) => readers[i].crossed

\* Request r may have sent its answer.
Engaged(r) == pc[r] \in {"send", "finish"} \/ sent[r] # "no"

Holds(r) == claim.state = "send_started" /\ claim.by = r /\ claim.rev = ref[r]

CallInOrder(r) ==
    /\ pc[r] \in {"claim", "mark"} => receipt[r] = "reserved"
    /\ pc[r] \in {"start", "send", "finish"} => receipt[r] = "send_started"
    /\ sent[r] # "no" => pc[r] \in {"finish", "left"} /\ receipt[r] \notin {"none", "reserved"}
    /\ pc[r] = "finish" => sent[r] # "no"
    /\ told[r] # "nothing" => sent[r] # "no"

\* A request answers a prompt that was shown, through a binding that the row has,
\* if there is a row, as long as it is the live one.
RefIsKnown(r) ==
    /\ ref[r].prompt <= asked /\ ref[r].bind <= issued
    /\ receipt[r] # "none" => ref[r].prompt # 0 /\ ref[r].bind # 0
    /\ ref[r].bind = binding /\ binding # 0 => row.bind = binding \/ row.state = "absent"

IsTakenOrGone(r) ==
    /\ Engaged(r) => Holds(r) \/ Gone(ref[r])
    /\ sent[r] = "confirmed" => screen # ref[r].prompt
    /\ sent[r] = "confirmed" /\ told[r] # "nothing" => Gone(ref[r])

CallsInOrder == \A r \in Requests : CallInOrder(r)
RefsAreKnown == \A r \in Requests : RefIsKnown(r)
AllTakenOrGone == \A r \in Requests : IsTakenOrGone(r)

RefsDiffer ==
    \A r, q \in Requests :
        r # q /\ Engaged(r) /\ Engaged(q) => ref[r] # ref[q] \/ ref[r] \in doubtful

PromptsInv ==
    /\ TypeOK
    /\ ClaimFitsPrompt
    /\ BindingsInOrder
    /\ RowIsKnown
    /\ ReadsInOrder
    /\ ReadersAreLater
    /\ CallsInOrder
    /\ RefsAreKnown
    /\ AllTakenOrGone
    /\ RefsDiffer

-----------------------------------------------------------------------------
(* The readers in flight.                                                  *)

\* Without its i-th element a sequence keeps the others in their order.
LEMMA WithoutOne ==
  ASSUME NEW S, NEW s \in Seq(S), NEW i \in DOMAIN s
  PROVE  /\ RemoveAt(s, i) \in Seq(S)
         /\ Len(RemoveAt(s, i)) = Len(s) - 1
         /\ \A j \in DOMAIN RemoveAt(s, i) :
               /\ j \in 1 .. Len(s) - 1
               /\ RemoveAt(s, i)[j] = s[IF j < i THEN j ELSE j + 1]
<1>1. i \in 1 .. Len(s) /\ Len(s) \in Nat
  BY LenProperties
<1> DEFINE a == SubSeq(s, 1, i - 1)  b == SubSeq(s, i + 1, Len(s))
<1>2. /\ a \in Seq(S) /\ Len(a) = i - 1
      /\ \A j \in 1 .. i - 1 : a[j] = s[j]
  BY <1>1, LenProperties, SubSeqProperties
<1>3. /\ b \in Seq(S) /\ Len(b) = Len(s) - i
      /\ \A j \in 1 .. Len(s) - i : b[j] = s[i + j]
  BY <1>1, LenProperties, SubSeqProperties
<1>4. RemoveAt(s, i) = a \o b
  BY DEF RemoveAt
<1> HIDE DEF a, b
<1>5. /\ a \o b \in Seq(S) /\ Len(a \o b) = Len(s) - 1
      /\ \A j \in 1 .. Len(s) - 1 : (a \o b)[j] = IF j <= i - 1 THEN a[j] ELSE b[j - (i - 1)]
  BY <1>1, <1>2, <1>3, ConcatProperties
<1>6. DOMAIN (a \o b) = 1 .. Len(s) - 1
  BY <1>5, LenProperties
<1>7. ASSUME NEW j \in 1 .. Len(s) - 1
      PROVE  (a \o b)[j] = s[IF j < i THEN j ELSE j + 1]
  <2>1. CASE j < i
    BY <1>1, <1>2, <1>5, <2>1
  <2>2. CASE ~(j < i)
    <3>1. j - (i - 1) \in 1 .. Len(s) - i /\ i + (j - (i - 1)) = j + 1
      BY <1>1, <2>2
    <3> QED BY <1>1, <1>3, <1>5, <2>2, <3>1
  <2> QED BY <2>1, <2>2
<1> QED BY <1>4, <1>5, <1>6, <1>7

\* A function on 1 .. n is a sequence.
LEMMA FunctionsAreSequences ==
  ASSUME NEW S, NEW n \in Nat, NEW f \in [1 .. n -> S]
  PROVE  f \in Seq(S) /\ Len(f) = n
<1> DEFINE e(k) == f[k]
<1>1. \A k \in 1 .. n : e(k) \in S
  OBVIOUS
<1>2. [k \in 1 .. n |-> e(k)] \in Seq(S)
  BY <1>1, IsASeq
<1>3. f = [k \in 1 .. n |-> e(k)]
  OBVIOUS
<1>4. f \in Seq(S)
  BY <1>2, <1>3
<1> QED BY <1>4, LenProperties

SameRead(x, y) == x.bind = y.bind /\ x.at = y.at /\ x.saw = y.saw

\* The readers s are those of t, some of them older than before.
Aged(s, t) ==
    /\ s \in Seq(Reader) /\ DOMAIN s = DOMAIN t
    /\ \A j \in DOMAIN t :
          SameRead(s[j], t[j]) /\ s[j].crossed = t[j].crossed /\ (t[j].old => s[j].old)

\* Readers are marked as old, and as not late.
LEMMA Marked ==
  ASSUME readers \in Seq(Reader), NEW i \in Int
  PROVE  Aged(readers, readers) /\ Aged(OutdatedBy(i), readers)
         /\ Aged(WithoutLate(OutdatedBy(i)), readers)
<1>1. Len(readers) \in Nat /\ DOMAIN readers = 1 .. Len(readers)
      /\ \A j \in DOMAIN readers : readers[j] \in Reader
  BY LenProperties, ElementOfSeq
<1>2. Aged(readers, readers)
  BY DEF Aged, SameRead
<1>3. Aged(OutdatedBy(i), readers)
  <2>1. OutdatedBy(i) \in [1 .. Len(readers) -> Reader]
    BY <1>1 DEF OutdatedBy, Reader
  <2> QED BY <1>1, <2>1, FunctionsAreSequences DEF Aged, SameRead, OutdatedBy, Reader
<1>4. Aged(WithoutLate(OutdatedBy(i)), readers)
  <2> DEFINE s == OutdatedBy(i)
  <2>1. s \in Seq(Reader) /\ DOMAIN s = 1 .. Len(readers)
        /\ \A j \in DOMAIN s : s[j] \in Reader
    BY <1>1, <1>3, ElementOfSeq, LenProperties DEF Aged
  <2> HIDE DEF s
  <2>2. WithoutLate(s) \in [1 .. Len(readers) -> Reader]
    BY <2>1 DEF WithoutLate, Reader
  <2>3. Aged(s, readers)
    BY <1>3 DEF s
  <2>4. \A j \in DOMAIN s : /\ SameRead(WithoutLate(s)[j], s[j])
                            /\ WithoutLate(s)[j].old = s[j].old
                            /\ WithoutLate(s)[j].crossed = s[j].crossed
    BY <2>1 DEF WithoutLate, SameRead, Reader
  <2>5. Aged(WithoutLate(s), readers)
    BY <1>1, <2>1, <2>2, <2>3, <2>4, FunctionsAreSequences DEF Aged, SameRead, WithoutLate
  <2> QED BY <2>5 DEF s
<1> QED BY <1>2, <1>3, <1>4

\* Where the j-th reader was before the i-th left
Before(i, j) == IF j < i THEN j ELSE j + 1

\* The readers are those that m maps them to, in the same order.
Kept(m) ==
    /\ \A j \in DOMAIN readers' :
          /\ m[j] \in DOMAIN readers
          /\ SameRead(readers'[j], readers[m[j]])
          /\ readers[m[j]].crossed => readers'[j].crossed
    /\ \A j, k \in DOMAIN readers' : j < k => m[j] < m[k]

\* The readers other than the i-th, some of them older than before
Others(i, m) ==
    /\ readers' \in Seq(Reader)
    /\ Kept(m)
    /\ \A j \in DOMAIN readers' :
          m[j] # i /\ m[j] \in Int /\ (readers[m[j]].old => readers'[j].old)

\* A read that is applied, or is out of date, takes its reader away; when it is
\* applied, the readers that began before it are old.
LEMMA OthersStay ==
  ASSUME readers \in Seq(Reader), NEW i \in DOMAIN readers, ApplyRead(i)
  PROVE  \E m : /\ Others(i, m)
                /\ readers[i].bind = binding /\ ~readers[i].old =>
                      \A j \in DOMAIN readers' : m[j] < i => readers'[j].old
<1> DEFINE applied == readers[i].bind = binding /\ ~readers[i].old
<1>1. PICK s : /\ Aged(s, readers) /\ readers' = RemoveAt(s, i)
               /\ applied => \A j \in DOMAIN readers : j < i => s[j].old
  <2>1. i \in Int
    BY LenProperties
  <2> DEFINE x == readers[i]
             failed == x.saw = Failure
             late == x.late /\ row.grace = "due"
             new == IF failed THEN FailedRow(row, x.bind, late) ELSE SeenRow(x.saw, x.bind)
             restarted == new.grace = "running" /\ row.grace # "running"
  <2>2. \/ applied /\ readers' \in {RemoveAt(OutdatedBy(i), i),
                                    RemoveAt(WithoutLate(OutdatedBy(i)), i)}
        \/ ~applied /\ readers' = RemoveAt(readers, i)
    BY DEF ApplyRead
  <2>3. \A j \in DOMAIN readers :
           j < i => OutdatedBy(i)[j].old /\ WithoutLate(OutdatedBy(i))[j].old
    <3>1. \A j \in DOMAIN readers : readers[j] \in Reader
      BY ElementOfSeq, LenProperties
    <3> QED BY <3>1 DEF OutdatedBy, WithoutLate, Reader
  <2> QED BY <2>1, <2>2, <2>3, Marked
<1>2. Len(readers) \in Nat /\ DOMAIN readers = 1 .. Len(readers)
  BY LenProperties
<1>3. s \in Seq(Reader) /\ i \in DOMAIN s /\ Len(s) = Len(readers)
  BY <1>1, <1>2, LenProperties DEF Aged
<1>4. readers' \in Seq(Reader)
      /\ \A j \in DOMAIN readers' :
            j \in 1 .. Len(s) - 1 /\ readers'[j] = s[IF j < i THEN j ELSE j + 1]
  BY <1>1, <1>3, WithoutOne
<1> DEFINE m == [j \in DOMAIN readers' |-> Before(i, j)]
<1>5. ASSUME NEW j \in DOMAIN readers'
      PROVE  /\ j \in Nat /\ m[j] = Before(i, j)
             /\ m[j] \in DOMAIN readers \ {i} /\ m[j] \in Int
             /\ readers'[j] = s[m[j]]
  BY <1>2, <1>3, <1>4 DEF Before
<1>6. \A j, k \in DOMAIN readers' : j < k => m[j] < m[k]
  <2>1. i \in Nat
    BY <1>2
  <2> QED BY <1>5, <2>1 DEF Before
<1> HIDE DEF m
<1>7. Others(i, m)
  BY <1>1, <1>4, <1>5, <1>6 DEF Others, Kept, Aged
<1>8. applied => \A j \in DOMAIN readers' : m[j] < i => readers'[j].old
  BY <1>1, <1>5
<1> QED BY <1>7, <1>8

-----------------------------------------------------------------------------
(* Rows and claims.                                                        *)

RowStates == {"absent", "none", "open", "failed", "invalid", "unsupported"}

IsRow(r) ==
    /\ r \in [state : RowStates, fresh : BOOLEAN, rev : Revision, bind : 0..MaxBindings,
              grace : {"no", "running", "due"}]
    /\ r.grace # "no" <=> r.state = "open" /\ ~r.fresh
    /\ r.state = "open" => r.rev # NoRevision

IsClaim(c) ==
    /\ c \in [state : {"none", "claimed", "send_started"}, by : Requests \cup {"nobody"},
              rev : Revision, lapsed : BOOLEAN]
    /\ c.state = "none" <=> c = NoClaim

StaleRow(st, v, b, g) ==
    [state |-> st, fresh |-> FALSE, rev |-> v, bind |-> b, grace |-> g]

FreshRow(st, v, b) ==
    [state |-> st, fresh |-> TRUE, rev |-> v, bind |-> b, grace |-> "no"]

\* A stale row is a row; only an open prompt has a grace period.
LEMMA StaleRows ==
  ASSUME NEW st \in RowStates, NEW v \in Revision,
         NEW b \in 0..MaxBindings, NEW g \in {"no", "running", "due"},
         g # "no" <=> st = "open",
         st = "open" => v # NoRevision
  PROVE  LET r == StaleRow(st, v, b, g)
         IN  IsRow(r) /\ r.state = st /\ ~r.fresh /\ r.rev = v /\ r.bind = b /\ r.grace = g
<1> DEFINE r == StaleRow(st, v, b, g)
<1>1. r.state = st /\ ~r.fresh /\ r.rev = v /\ r.bind = b /\ r.grace = g
  BY DEF StaleRow
<1>2. r \in [state : RowStates, fresh : BOOLEAN, rev : Revision, bind : 0..MaxBindings,
             grace : {"no", "running", "due"}]
  BY DEF StaleRow
<1> QED BY <1>1, <1>2 DEF IsRow

\* A fresh row is a row.
LEMMA FreshRows ==
  ASSUME NEW st \in RowStates, NEW v \in Revision, NEW b \in 0..MaxBindings,
         st = "open" => v # NoRevision
  PROVE  LET r == FreshRow(st, v, b)
         IN  IsRow(r) /\ r.state = st /\ r.fresh /\ r.rev = v /\ r.bind = b /\ r.grace = "no"
<1> DEFINE r == FreshRow(st, v, b)
<1>1. r.state = st /\ r.fresh /\ r.rev = v /\ r.bind = b /\ r.grace = "no"
  BY DEF FreshRow
<1>2. r \in [state : RowStates, fresh : BOOLEAN, rev : Revision, bind : 0..MaxBindings,
             grace : {"no", "running", "due"}]
  BY DEF FreshRow
<1> QED BY <1>1, <1>2 DEF IsRow

\* A failed read makes the row stale and keeps what it knows.
LEMMA FailedRows ==
  ASSUME NEW r, IsRow(r), NEW b \in 1..MaxBindings, NEW late \in BOOLEAN,
         late => r.grace = "due",
         NEW new, new = FailedRow(r, b, late)
  PROVE  /\ IsRow(new) /\ ~new.fresh /\ new.bind \in {r.bind, b}
         /\ new.bind = 0 => new.state = r.state
         /\ new.state = "open" => r.state = "open"
         /\ new.state # "absent"
         /\ r.state = "absent" => new.bind = b
         /\ r.state \in {"open", "failed"} =>
               new.state \in {"open", "failed"} /\ new.rev = r.rev
         /\ new.rev \in {r.rev, NoRevision}
         /\ r.state = "open" /\ r.fresh => new.grace # r.grace
         /\ r.grace = "due" => new.grace # "running"
<1>1. MaxPrompts \in Nat /\ MaxBindings \in Nat
  BY PromptAssumption DEF MaxPrompts, MaxBindings
<1>2. r.state \in RowStates /\ r.fresh \in BOOLEAN /\ r.rev \in Revision
      /\ r.bind \in 0..MaxBindings /\ r.grace \in {"no", "running", "due"}
  BY DEF IsRow
<1>3. CASE r.state = "absent"
  <2>1. new = [NoRow EXCEPT !.state = "failed", !.fresh = FALSE, !.bind = b]
    BY <1>3 DEF FailedRow
  <2>2. new = StaleRow("failed", NoRevision, b, "no")
    BY <2>1 DEF NoRow, StaleRow
  <2>3. /\ IsRow(new) /\ new.state = "failed" /\ ~new.fresh /\ new.rev = NoRevision
        /\ new.bind = b /\ new.grace = "no"
    <3>1. NoRevision \in Revision
      BY <1>1 DEF NoRevision, Revision
    <3> QED BY <1>1, <2>2, <3>1, StaleRows DEF RowStates
  <2> QED BY <1>2, <1>3, <2>3 DEF IsRow
<1>4. CASE r.state = "open" /\ late
  <2>1. new = [r EXCEPT !.state = "failed", !.fresh = FALSE, !.bind = b, !.grace = "no"]
    BY <1>4 DEF FailedRow
  <2>2. new = StaleRow("failed", r.rev, b, "no")
    BY <1>4, <2>1 DEF IsRow, StaleRow
  <2>3. /\ IsRow(new) /\ new.state = "failed" /\ ~new.fresh /\ new.rev = r.rev
        /\ new.bind = b /\ new.grace = "no"
    BY <1>1, <1>2, <2>2, StaleRows DEF RowStates
  <2>4. r.grace = "due" /\ ~r.fresh
    BY <1>4 DEF IsRow
  <2>5. r.state = "open" /\ b # 0
    BY <1>1, <1>4
  <2> QED BY <2>3, <2>4, <2>5
<1>5. CASE r.state = "open" /\ ~late /\ r.fresh
  <2>1. new = [r EXCEPT !.fresh = FALSE, !.bind = b, !.grace = "running"]
    BY <1>5 DEF FailedRow
  <2>2. new = StaleRow("open", r.rev, b, "running")
    BY <1>5, <2>1 DEF IsRow, StaleRow
  <2>3. /\ IsRow(new) /\ new.state = "open" /\ ~new.fresh /\ new.rev = r.rev
        /\ new.bind = b /\ new.grace = "running"
    BY <1>1, <1>2, <1>5, <2>2, StaleRows DEF IsRow, RowStates
  <2> QED BY <1>2, <1>5, <2>3 DEF IsRow
<1>6. CASE r.state \notin {"absent", "open"} /\ r.fresh
  <2>1. new = [r EXCEPT !.fresh = FALSE, !.bind = b]
    BY <1>6 DEF FailedRow
  <2>2. new = StaleRow(r.state, r.rev, b, r.grace)
    BY <1>6, <2>1 DEF IsRow, StaleRow
  <2>3. /\ IsRow(new) /\ new.state = r.state /\ ~new.fresh /\ new.rev = r.rev
        /\ new.bind = b /\ new.grace = r.grace
    BY <1>1, <1>2, <1>6, <2>2, StaleRows DEF IsRow, RowStates
  <2> QED BY <1>2, <1>6, <2>3 DEF IsRow
<1>7. CASE r.state # "absent" /\ ~r.fresh /\ ~(r.state = "open" /\ late)
  <2>1. new = r
    BY <1>7 DEF FailedRow
  <2> QED BY <1>1, <1>2, <1>7, <2>1 DEF IsRow, RowStates
<1> QED BY <1>2, <1>3, <1>4, <1>5, <1>6, <1>7

\* A read that succeeds gives the row its prompt.
LEMMA SeenRows ==
  ASSUME NEW p \in Unsupported..MaxPrompts, p # Failure, NEW b \in 1..MaxBindings,
         NEW new, new = SeenRow(p, b)
  PROVE  /\ IsRow(new) /\ new.bind = b /\ new.state # "absent" /\ new.state # "failed"
         /\ new.state = "open" => new.fresh /\ new.rev = [prompt |-> p, bind |-> b]
                                  /\ p \in 1..MaxPrompts
         /\ new.state # "open" => new.rev = NoRevision /\ p \notin 1..MaxPrompts
         /\ new.grace = "no"
<1>1. MaxPrompts \in Nat /\ MaxBindings \in Nat
  BY PromptAssumption DEF MaxPrompts, MaxBindings
<1>2. p \in {Nothing, Malformed, Unsupported} \/ p \in 1..MaxPrompts
  BY <1>1 DEF Nothing, Malformed, Unsupported, Failure
<1>3. CASE p \in 1..MaxPrompts
  <2>1. new = FreshRow("open", [prompt |-> p, bind |-> b], b)
    BY <1>1, <1>3 DEF SeenRow, FreshRow, Nothing, Malformed, Unsupported
  <2>2. [prompt |-> p, bind |-> b] \in Revision \ {NoRevision}
    BY <1>1, <1>3 DEF Revision, NoRevision
  <2> QED BY <1>1, <1>3, <2>1, <2>2, FreshRows DEF RowStates
<1>4. CASE p \in {Nothing, Malformed, Unsupported}
  <2>1. /\ p = Nothing => new = [NoRow EXCEPT !.state = "none", !.bind = b]
        /\ p = Malformed => new = [NoRow EXCEPT !.state = "invalid", !.fresh = FALSE, !.bind = b]
        /\ p = Unsupported => new = [NoRow EXCEPT !.state = "unsupported", !.bind = b]
    BY DEF SeenRow, Nothing, Malformed, Unsupported
  <2>3. \/ new = FreshRow("none", NoRevision, b)
        \/ new = StaleRow("invalid", NoRevision, b, "no")
        \/ new = FreshRow("unsupported", NoRevision, b)
    BY <1>4, <2>1 DEF NoRow, StaleRow, FreshRow
  <2>2. NoRevision \in Revision /\ p \notin 1..MaxPrompts
    BY <1>1, <1>4 DEF Revision, NoRevision, Nothing, Malformed, Unsupported
  <2>4. new.state # "open" /\ new.state # "absent" /\ new.state # "failed" /\ IsRow(new)
        /\ new.rev = NoRevision /\ new.bind = b /\ new.grace = "no"
    BY <1>1, <2>2, <2>3, StaleRows, FreshRows DEF RowStates
  <2> QED BY <2>2, <2>4
<1> QED BY <1>2, <1>3, <1>4

\* What an applied read does to the row and the claim.
ReadApplied(i) ==
    LET x == readers[i]
        late == x.late /\ row.grace = "due"
        failed == FailedRow(row, x.bind, late)
        seen == SeenRow(x.saw, x.bind)
    IN  /\ x.at = "read" /\ x.bind = binding /\ ~x.old
        /\ \/ /\ x.saw = Failure
              /\ row' = failed
              /\ claim' = IF failed.grace # row.grace THEN Released(claim) ELSE claim
              /\ doubtful' = doubtful
           \/ /\ x.saw # Failure
              /\ row' = seen
              /\ claim' = SeenClaim(claim, seen)
              /\ doubtful' = IF x.crossed THEN doubtful \cup {row.rev, row'.rev} ELSE doubtful

\* A read is applied, or it is out of date and changes nothing.
LEMMA ReadsApply ==
  ASSUME NEW i, ApplyRead(i)
  PROVE  /\ ReadApplied(i) \/ UNCHANGED <<row, claim, doubtful>>
         /\ UNCHANGED <<pane, bindings, completions, listed, scan, calls>>
BY DEF ApplyRead, ReadApplied

-----------------------------------------------------------------------------
(* Types.                                                                  *)

PaneTypes ==
    /\ screen \in {Malformed, Unsupported} \cup 0..asked /\ asked \in 0..MaxPrompts
    /\ binding \in 0..issued /\ issued \in 1..MaxBindings

ObservingTypes ==
    /\ readers \in Seq(Reader) /\ completions \in 0..MaxCompletions
    /\ doubtful \subseteq Revision
    /\ listed \in 0..MaxBindings /\ scan \in -1..MaxBindings

CallTypes ==
    /\ pc \in [Requests -> {"left", "claim", "mark", "start", "send", "finish"}]
    /\ receipt \in [Requests -> {"none", "reserved", "send_started", "accepted",
                                 "rejected", "uncertain"}]
    /\ ref \in [Requests -> Revision]
    /\ sent \in [Requests -> {"no", "unsure", "confirmed"}]
    /\ told \in [Requests -> {"nothing", "accepted", "uncertain", "in_progress"}]

Types == PaneTypes /\ IsRow(row) /\ IsClaim(claim) /\ ObservingTypes /\ CallTypes

\* TypeOK in parts.
LEMMA TypesAre == (TypeOK <=> Types) /\ (TypeOK' <=> Types')
BY DEF TypeOK, Types, PaneTypes, IsRow, RowStates, IsClaim, ObservingTypes, CallTypes

\* The bounds are numbers.
LEMMA Bounds ==
  /\ MaxPrompts \in Nat /\ MaxBindings \in Nat \ {0} /\ MaxBindings = MaxPrompts + 1
  /\ MaxCompletions \in Nat
BY PromptAssumption DEF MaxPrompts, MaxBindings

\* The constant rows, claims and revisions.
LEMMA ConstantsTyped ==
  NoRevision \in Revision /\ IsRow(NoRow) /\ IsClaim(NoClaim)
  /\ NoClaim.state = "none" /\ NoRow.state = "absent"
<1>1. NoRevision \in Revision
  BY Bounds DEF Revision, NoRevision
<1>2. NoRow = FreshRow("absent", NoRevision, 0)
  BY DEF NoRow, FreshRow
<1>3. IsRow(NoRow) /\ NoRow.state = "absent"
  BY <1>1, <1>2, FreshRows, Bounds DEF RowStates
<1>4. IsClaim(NoClaim) /\ NoClaim.state = "none"
  BY <1>1 DEF IsClaim, NoClaim
<1> QED BY <1>1, <1>3, <1>4

\* Claims that are released, kept or refused are claims.
LEMMA ClaimsTyped ==
  ASSUME NEW c, IsClaim(c), NEW new
  PROVE  IsClaim(Released(c)) /\ IsClaim(SeenClaim(c, new)) /\ IsClaim(UncertainClaim(c))
BY ConstantsTyped DEF Released, SeenClaim, UncertainClaim

\* The pane and the binding keep the types.
LEMMA PaneStepsTyped ==
  ASSUME Types, ShowPrompt \/ ClosePrompt \/ Rebind \/ Unbind
  PROVE  Types'
<1>1. PaneTypes'
  <2>1. CASE ShowPrompt
    BY <2>1, Bounds DEF Types, ShowPrompt, PaneTypes, bindings, MaxPrompts, MaxBindings,
                        Malformed, Unsupported
  <2>2. CASE ClosePrompt
    BY <2>2 DEF Types, ClosePrompt, PaneTypes, bindings, Nothing
  <2>3. CASE Rebind
    BY <2>3, Bounds DEF Types, Rebind, PaneTypes, pane, MaxPrompts, MaxBindings
  <2>4. CASE Unbind
    BY <2>4 DEF Types, Unbind, PaneTypes, pane
  <2> QED BY <2>1, <2>2, <2>3, <2>4
<1>2. UNCHANGED <<row, claim, observing, calls, doubtful>>
  BY DEF ShowPrompt, ClosePrompt, Rebind, Unbind
<1> QED BY <1>1, <1>2 DEF Types, IsRow, IsClaim, ObservingTypes, CallTypes, observing, calls

\* The readers and the scan keep the types.
LEMMA ObserveStepsTyped ==
  ASSUME Types, Observe
  PROVE  Types'
<1> USE DEF Types
<1>1. ASSUME NEW by \in {"scheduler", "completion"}, BeginRead(by)
      PROVE  Types'
  <2> DEFINE new == [bind |-> binding, by |-> by, at |-> "begun", saw |-> Nothing,
                     old |-> FALSE, late |-> row.grace = "due", crossed |-> FALSE]
  <2>1. new \in Reader
    BY <1>1, Bounds DEF BeginRead, PaneTypes, Reader, Nothing, Unsupported
  <2> HIDE DEF new
  <2>2. Append(readers, new) \in Seq(Reader)
    BY <2>1, AppendProperties DEF ObservingTypes
  <2>3. readers' = Append(readers, new)
    BY <1>1 DEF BeginRead, new
  <2>4. completions' \in 0..MaxCompletions
    <3>1. by = "completion" => completions < MaxCompletions
      BY <1>1 DEF BeginRead, MayBegin
    <3> QED BY <1>1, <3>1, Bounds DEF BeginRead, ObservingTypes
  <2> QED BY <1>1, <2>2, <2>3, <2>4
          DEF BeginRead, PaneTypes, CallTypes, ObservingTypes, pane, bindings, calls
<1>2. ASSUME NEW i \in DOMAIN readers, ReadPane(i)
      PROVE  Types'
  <2>1. PICK saw \in {screen, Failure} :
           readers' = [j \in DOMAIN readers |->
                         IF j = i THEN [readers[j] EXCEPT !.at = "read", !.saw = saw]
                         ELSE [readers[j] EXCEPT !.crossed = @ \/ Crosses(j, i, saw)]]
    BY <1>2 DEF ReadPane
  <2>2. /\ Len(readers) \in Nat /\ DOMAIN readers = 1 .. Len(readers)
        /\ \A j \in DOMAIN readers : readers[j] \in Reader
    BY LenProperties, ElementOfSeq DEF ObservingTypes
  <2>3. ASSUME NEW j \in DOMAIN readers
        PROVE  readers'[j] \in Reader
    <3>1. saw \in Unsupported..MaxPrompts
      <4>1. saw = screen \/ saw = Failure
        OBVIOUS
      <4> QED BY <4>1, Bounds DEF PaneTypes, Malformed, Unsupported, Failure
    <3>2. Crosses(j, i, saw) \in BOOLEAN
      BY DEF Crosses
    <3> DEFINE c == readers[j].crossed \/ Crosses(j, i, saw)
    <3>3. CASE j = i
      <4>1. readers'[j] = [readers[j] EXCEPT !.at = "read", !.saw = saw]
        BY <2>1, <3>3
      <4> QED BY <2>2, <3>1, <4>1 DEF Reader
    <3>4. CASE j # i
      <4>1. readers'[j] = [readers[j] EXCEPT !.crossed = c]
        BY <2>1, <3>4
      <4>2. c \in BOOLEAN
        BY <2>2, <3>2 DEF Reader
      <4> HIDE DEF c
      <4> QED BY <2>2, <4>1, <4>2 DEF Reader
    <3> QED BY <3>3, <3>4
  <2>4. readers' \in Seq(Reader)
    <3>1. readers' \in [1 .. Len(readers) -> Reader]
      BY <2>1, <2>2, <2>3
    <3> QED BY <2>2, <3>1, FunctionsAreSequences
  <2> QED BY <1>2, <2>4
          DEF ReadPane, PaneTypes, CallTypes, ObservingTypes, pane, bindings, calls
<1>3. ASSUME NEW i \in DOMAIN readers, ApplyRead(i)
      PROVE  Types'
  <2>1. readers[i] \in Reader /\ readers \in Seq(Reader)
    BY ElementOfSeq, LenProperties DEF ObservingTypes
  <2>2. readers' \in Seq(Reader)
    BY <1>3, <2>1, OthersStay DEF Others
  <2>4. row.rev \in Revision /\ (IsRow(row') => row'.rev \in Revision)
    BY DEF IsRow
  <2>3. IsRow(row') /\ IsClaim(claim')
    <3>1. CASE ReadApplied(i) /\ readers[i].saw = Failure
      <4> DEFINE x == readers[i]  late == x.late /\ row.grace = "due"
      <4>1. x.bind \in 1..MaxBindings /\ late \in BOOLEAN
        BY <2>1 DEF Reader
      <4>2. row' = FailedRow(row, x.bind, late) /\ claim' \in {claim, Released(claim)}
        BY <3>1 DEF ReadApplied
      <4>3. IsRow(row')
        BY <4>1, <4>2, FailedRows
      <4> QED BY <4>2, <4>3, ClaimsTyped
    <3>2. CASE ReadApplied(i) /\ readers[i].saw # Failure
      <4> DEFINE x == readers[i]
      <4>1. x.bind \in 1..MaxBindings /\ x.saw \in Unsupported..MaxPrompts
        BY <2>1 DEF Reader
      <4>2. row' = SeenRow(x.saw, x.bind) /\ claim' = SeenClaim(claim, SeenRow(x.saw, x.bind))
        BY <3>2 DEF ReadApplied
      <4>3. IsRow(row')
        BY <3>2, <4>1, <4>2, SeenRows
      <4> QED BY <4>2, <4>3, ClaimsTyped
    <3> QED BY <1>3, <3>1, <3>2, ReadsApply
  <2>5. doubtful' \subseteq Revision
    <3>1. doubtful' \subseteq doubtful \cup {row.rev, row'.rev}
      BY <1>3, ReadsApply DEF ReadApplied
    <3> QED BY <2>3, <2>4, <3>1 DEF ObservingTypes
  <2> QED BY <1>3, <2>2, <2>3, <2>5, ReadsApply
          DEF PaneTypes, CallTypes, ObservingTypes, pane, bindings, calls
<1>4. CASE ListBindings
  BY <1>4, Bounds DEF ListBindings, PaneTypes, CallTypes, ObservingTypes, pane, bindings, calls
<1>5. CASE Prune
  <2>1. readers' \in Seq(Reader)
    <3>1. Len(readers) \in Nat /\ DOMAIN readers = 1 .. Len(readers)
          /\ \A j \in DOMAIN readers : readers[j] \in Reader
      BY LenProperties, ElementOfSeq DEF ObservingTypes
    <3>2. [j \in DOMAIN readers |->
              [readers[j] EXCEPT !.old = FALSE, !.late = FALSE,
                                 !.crossed = @ \/ (row.bind = binding /\ readers[j].old)]]
             \in [1 .. Len(readers) -> Reader]
      <4>1. ASSUME NEW j \in DOMAIN readers, NEW c \in BOOLEAN
            PROVE  [readers[j] EXCEPT !.old = FALSE, !.late = FALSE, !.crossed = c] \in Reader
        BY <3>1 DEF Reader
      <4>2. \A j \in DOMAIN readers :
               (readers[j].crossed \/ (row.bind = binding /\ readers[j].old)) \in BOOLEAN
        OBVIOUS
      <4> QED BY <3>1, <4>1, <4>2
    <3>3. readers' = readers \/ readers' \in [1 .. Len(readers) -> Reader]
      BY <1>5, <3>2 DEF Prune
    <3> QED BY <3>1, <3>3, FunctionsAreSequences DEF ObservingTypes
  <2>2. (row' = row /\ claim' = claim) \/ (row' = NoRow /\ claim' = NoClaim)
    BY <1>5 DEF Prune
  <2>3. IsRow(row') /\ IsClaim(claim')
    BY <2>2, ConstantsTyped
  <2>4. scan' \in -1..MaxBindings
    <3>1. scan' = -1
      BY <1>5 DEF Prune
    <3> QED BY <3>1, Bounds
  <2>5. doubtful' \subseteq Revision
    BY <1>5 DEF Prune, ObservingTypes, IsRow
  <2> QED BY <1>5, <2>1, <2>3, <2>4, <2>5
          DEF Prune, PaneTypes, CallTypes, ObservingTypes, pane, bindings, calls
<1> QED BY <1>1, <1>2, <1>3, <1>4, <1>5 DEF Observe

\* An abandoned claim is released or kept.
LEMMA AbandonedTyped ==
  ASSUME IsClaim(claim), NEW r \in Requests, Abandoned(r)
  PROVE  IsClaim(claim') /\ claim' \in {claim, Released(claim)}
BY ClaimsTyped DEF Abandoned

\* The claim that a request takes is a claim.
LEMMA ClaimOfTyped ==
  ASSUME NEW r \in Requests, NEW rev \in Revision
  PROVE  IsClaim([state |-> "claimed", by |-> r, rev |-> rev, lapsed |-> FALSE])
BY PromptAssumption DEF IsClaim, NoClaim

\* A claim that is somebody's stays a claim when its state changes.
LEMMA ClaimMovedTyped ==
  ASSUME NEW c, IsClaim(c), c.by \in Requests
  PROVE  /\ IsClaim([c EXCEPT !.state = "send_started"])
         /\ IsClaim([c EXCEPT !.lapsed = TRUE])
<1>1. NoClaim.by \notin Requests
  BY PromptAssumption DEF NoClaim
<1>2. c.state # "none"
  BY <1>1 DEF IsClaim
<1>3. ASSUME NEW d \in {[c EXCEPT !.state = "send_started"], [c EXCEPT !.lapsed = TRUE]}
      PROVE  IsClaim(d)
  <2>1. d.by = c.by /\ d.state # "none"
    BY <1>2, <1>3 DEF IsClaim
  <2>2. d \in [state : {"none", "claimed", "send_started"}, by : Requests \cup {"nobody"},
               rev : Revision, lapsed : BOOLEAN]
    BY <1>3 DEF IsClaim
  <2> QED BY <1>1, <2>1, <2>2 DEF IsClaim
<1> QED BY <1>3

\* The row of a prompt that was answered is a row.
LEMMA ClosedRows ==
  ASSUME NEW b \in 0..MaxBindings, NEW new,
         new = [NoRow EXCEPT !.state = "none", !.bind = b]
  PROVE  IsRow(new) /\ new.state = "none" /\ new.fresh /\ new.rev = NoRevision /\ new.bind = b
<1>1. new = FreshRow("none", NoRevision, b)
  BY DEF NoRow, FreshRow
<1>2. "none" \in RowStates /\ NoRevision \in Revision
  BY ConstantsTyped DEF RowStates
<1>3. LET r == FreshRow("none", NoRevision, b)
      IN  IsRow(r) /\ r.state = "none" /\ r.fresh /\ r.rev = NoRevision /\ r.bind = b
  BY <1>2, FreshRows
<1> QED BY <1>1, <1>3

\* The calls of a request keep the types.
LEMMA AnswerStepsTyped ==
  ASSUME Types, NEW r \in Requests, Answer(r)
  PROVE  Types'
<1> USE DEF Types
<1>1. CASE Validate(r) \/ Redrive(r) \/ Crash(r)
  <2>1. UNCHANGED <<pane, bindings, row, claim, observing, sent, told, doubtful>>
    BY <1>1 DEF Validate, Redrive, Crash
  <2>2. pc' \in [Requests -> {"left", "claim", "mark", "start", "send", "finish"}]
        /\ receipt' \in [Requests -> {"none", "reserved", "send_started", "accepted",
                                      "rejected", "uncertain"}]
    BY <1>1 DEF Validate, Redrive, Crash, Leave, CallTypes
  <2>3. ref' \in [Requests -> Revision]
    BY <1>1 DEF Validate, Redrive, Crash, CallTypes, IsRow
  <2> QED BY <2>1, <2>2, <2>3
          DEF PaneTypes, CallTypes, ObservingTypes, pane, bindings, observing, IsRow, IsClaim
<1>2. CASE Claim(r) \/ MarkStarted(r) \/ StartSend(r)
  <2>1. UNCHANGED <<pane, bindings, row, observing, ref, sent, told, doubtful>>
    BY <1>2 DEF Claim, MarkStarted, StartSend
  <2>2. pc' \in [Requests -> {"left", "claim", "mark", "start", "send", "finish"}]
        /\ receipt' \in [Requests -> {"none", "reserved", "send_started", "accepted",
                                      "rejected", "uncertain"}]
    BY <1>2 DEF Claim, MarkStarted, StartSend, Leave, CallTypes
  <2>3. IsClaim(claim')
    <3>1. CASE Claim(r)
      BY <3>1, ClaimOfTyped DEF Claim, CallTypes
    <3>2. CASE MarkStarted(r)
      BY <3>2, AbandonedTyped DEF MarkStarted
    <3>3. CASE StartSend(r)
      BY <3>3, AbandonedTyped, ClaimMovedTyped DEF StartSend, MayStart, Mine
    <3> QED BY <1>2, <3>1, <3>2, <3>3
  <2> QED BY <2>1, <2>2, <2>3
          DEF PaneTypes, CallTypes, ObservingTypes, pane, bindings, observing, IsRow
<1>3. CASE Send(r)
  <2>1. screen' \in {screen, Nothing}
    BY <1>3 DEF Send
  <2>2. PaneTypes'
    BY <1>3, <2>1, Bounds DEF Send, PaneTypes, bindings, Nothing
  <2>3. CallTypes'
    BY <1>3 DEF Send, CallTypes
  <2> QED BY <1>3, <2>2, <2>3 DEF Send, ObservingTypes, observing, IsRow, IsClaim
<1>4. CASE Finish(r)
  <2>1. CallTypes'
    BY <1>4 DEF Finish, Leave, CallTypes
  <2>2. readers' \in Seq(Reader)
    <3>1. Len(readers) + 1 \in Int
      BY LenProperties DEF ObservingTypes
    <3>2. readers' \in {readers, OutdatedBy(Len(readers) + 1)}
      BY <1>4 DEF Finish, TombstoneDated
    <3> QED BY <3>1, <3>2, Marked DEF Aged, ObservingTypes
  <2>3. IsRow(row')
    <3>1. row.bind \in 0..MaxBindings
      BY DEF IsRow
    <3>3. IsRow([NoRow EXCEPT !.state = "none", !.bind = row.bind])
      BY <3>1, ClosedRows
    <3>4. row' \in {row, [NoRow EXCEPT !.state = "none", !.bind = row.bind]}
      BY <1>4 DEF Finish
    <3> QED BY <3>3, <3>4
  <2>4. IsClaim(claim')
    <3>1. claim' \in {claim, NoClaim}
      BY <1>4 DEF Finish, UncertainClaim
    <3> QED BY <3>1, ConstantsTyped
  <2> QED BY <1>4, <2>1, <2>2, <2>3, <2>4
          DEF Finish, PaneTypes, ObservingTypes, pane, bindings
<1> QED BY <1>1, <1>2, <1>3, <1>4 DEF Answer

\* Time keeps the types.
LEMMA TimeStepsTyped ==
  ASSUME Types, ClaimLapses \/ GraceEnds
  PROVE  Types'
<1> USE DEF Types
<1>1. IsClaim(claim')
  <2>1. claim.state = "claimed" => claim.by \in Requests \/ claim.by = "nobody"
    BY DEF IsClaim
  <2>2. CASE ClaimLapses
    BY <2>2 DEF ClaimLapses, IsClaim, NoClaim
  <2>3. CASE GraceEnds
    BY <2>3 DEF GraceEnds
  <2> QED BY <2>2, <2>3
<1>2. IsRow(row')
  <2>1. CASE ClaimLapses
    BY <2>1 DEF ClaimLapses
  <2>2. CASE GraceEnds
    <3>1. row.state = "open" /\ ~row.fresh /\ row.rev \in Revision \ {NoRevision}
          /\ row.bind \in 0..MaxBindings
      BY <2>2 DEF GraceEnds, IsRow
    <3>2. row' = StaleRow("open", row.rev, row.bind, "due")
      BY <2>2, <3>1 DEF GraceEnds, IsRow, StaleRow
    <3> QED BY <3>1, <3>2, StaleRows DEF RowStates
  <2> QED BY <2>1, <2>2
<1> QED BY <1>1, <1>2
        DEF ClaimLapses, GraceEnds, PaneTypes, ObservingTypes, CallTypes, pane, bindings,
            observing, calls

\* Every state has the types.
LEMMA TypesAlways == Spec => []TypeOK
<1>1. Init => Types
  <2> SUFFICES ASSUME Init PROVE Types
    OBVIOUS
  <2>1. PaneTypes
    BY Bounds DEF Init, PaneTypes, Nothing
  <2>2. ObservingTypes
    <3>1. <<>> \in Seq(Reader)
      BY EmptySeq
    <3> QED BY <3>1, Bounds DEF Init, ObservingTypes
  <2>3. CallTypes
    BY ConstantsTyped DEF Init, CallTypes
  <2> QED BY <2>1, <2>2, <2>3, ConstantsTyped DEF Init, Types
<1>2. Types /\ [Next]_vars => Types'
  <2>1. Types /\ Next => Types'
    BY PaneStepsTyped, ObserveStepsTyped, AnswerStepsTyped, TimeStepsTyped DEF Next
  <2>2. Types /\ UNCHANGED vars => Types'
    BY DEF vars, Types, PaneTypes, ObservingTypes, CallTypes, pane, bindings, observing, calls,
           IsRow, IsClaim
  <2> QED BY <2>1, <2>2
<1> QED BY <1>1, <1>2, TypesAre, PTL DEF Spec

\* A prompt that cannot be read any more is shown as stale for one fixed period: no
\* failed read, whenever it began, moves a deadline that has passed.
THEOREM GraceKept == Spec => GraceIsFixed
<1>1. TypeOK /\ [Next]_vars => [row.grace = "due" => row'.grace # "running"]_vars
  <2> SUFFICES ASSUME TypeOK, [Next]_vars, row.grace = "due", row'.grace = "running"
               PROVE  FALSE
    OBVIOUS
  <2>1. row' # row
    OBVIOUS
  <2>2. Types
    BY TypesAre
  <2>3. ~ \E i \in DOMAIN readers : ApplyRead(i)
    <3> SUFFICES ASSUME NEW i \in DOMAIN readers, ApplyRead(i) PROVE FALSE
      OBVIOUS
    <3> DEFINE x == readers[i]  late == x.late /\ row.grace = "due"
    <3>1. x \in Reader
      BY <2>2, ElementOfSeq, LenProperties DEF Types, ObservingTypes
    <3>2. x.bind \in 1..MaxBindings /\ late \in BOOLEAN /\ x.saw \in Unsupported..MaxPrompts
      BY <3>1 DEF Reader
    <3>3. ReadApplied(i)
      BY <2>1, ReadsApply
    <3>4. \/ row' = FailedRow(row, x.bind, late)
          \/ x.saw # Failure /\ row' = SeenRow(x.saw, x.bind)
      BY <3>3 DEF ReadApplied
    <3>5. CASE row' = FailedRow(row, x.bind, late)
      <4>1. IsRow(row) /\ (late => row.grace = "due")
        BY <2>2 DEF Types, late
      <4>2. \A b \in 1..MaxBindings, l \in BOOLEAN :
               (l => row.grace = "due") /\ row' = FailedRow(row, b, l) => row'.grace # "running"
        BY <4>1, FailedRows
      <4> QED BY <3>2, <3>5, <4>1, <4>2
    <3>6. CASE x.saw # Failure /\ row' = SeenRow(x.saw, x.bind)
      <4>1. \A p \in Unsupported..MaxPrompts, b \in 1..MaxBindings :
               p # Failure => SeenRow(p, b).grace = "no"
        BY SeenRows
      <4> QED BY <3>2, <3>6, <4>1
    <3> QED BY <3>4, <3>5, <3>6
  <2>4. row' # NoRow /\ row' # [NoRow EXCEPT !.state = "none", !.bind = row.bind]
    <3>1. NoRow.grace = "no" /\ [NoRow EXCEPT !.state = "none", !.bind = row.bind].grace = "no"
      BY DEF NoRow
    <3> QED BY <3>1
  <2>5. ~(ShowPrompt \/ ClosePrompt \/ Rebind \/ Unbind)
    BY <2>1 DEF ShowPrompt, ClosePrompt, Rebind, Unbind
  <2>6. ~(Observe \/ ClaimLapses \/ GraceEnds)
    BY <2>1, <2>3, <2>4 DEF Observe, BeginRead, ReadPane, ListBindings, Prune, ClaimLapses,
                            GraceEnds
  <2>7. ~ \E r \in Requests : Answer(r)
    BY <2>1, <2>4 DEF Answer, Validate, Redrive, Claim, MarkStarted, StartSend, Send, Finish,
                      Crash
  <2> QED BY <2>1, <2>5, <2>6, <2>7 DEF Next, vars
<1> QED BY <1>1, TypesAlways, PTL DEF Spec, GraceIsFixed

-----------------------------------------------------------------------------
(* One answer a prompt.                                                    *)

Rest ==
    /\ ClaimFitsPrompt /\ BindingsInOrder /\ RowIsKnown /\ ReadsInOrder /\ ReadersAreLater
    /\ CallsInOrder /\ RefsAreKnown /\ AllTakenOrGone /\ RefsDiffer

\* What the types say of the numbers.
LEMMA Numbers ==
  ASSUME Types
  PROVE  /\ asked \in Nat /\ screen \in Int /\ binding \in Nat /\ issued \in Nat \ {0}
         /\ listed \in Nat /\ scan \in Int /\ scan >= -1
         /\ row.rev \in Revision /\ row.rev.prompt \in Nat /\ row.rev.bind \in Nat
         /\ row.bind \in Nat /\ row.fresh \in BOOLEAN
         /\ \A i \in DOMAIN readers :
               /\ readers[i] \in Reader /\ i \in Nat
               /\ readers[i].bind \in Nat \ {0} /\ readers[i].saw \in Int
         /\ \A r \in Requests :
               ref[r] \in Revision /\ ref[r].prompt \in Nat /\ ref[r].bind \in Nat
<1>1. \A rev \in Revision : rev.prompt \in Nat /\ rev.bind \in Nat
  BY Bounds DEF Revision
<1>2. asked \in Nat /\ screen \in Int /\ binding \in Nat /\ issued \in Nat \ {0}
  BY Bounds DEF Types, PaneTypes, Malformed, Unsupported
<1>3. listed \in Nat /\ scan \in Int /\ scan >= -1
  BY Bounds DEF Types, ObservingTypes
<1>4. row.rev \in Revision /\ row.bind \in Nat /\ row.fresh \in BOOLEAN
  BY Bounds DEF Types, IsRow
<1>5. ASSUME NEW i \in DOMAIN readers
      PROVE  /\ readers[i] \in Reader /\ i \in Nat
             /\ readers[i].bind \in Nat \ {0} /\ readers[i].saw \in Int
  <2>1. readers[i] \in Reader /\ i \in Nat
    BY ElementOfSeq, LenProperties DEF Types, ObservingTypes
  <2> QED BY <2>1, Bounds DEF Reader, Unsupported
<1>6. \A r \in Requests : ref[r] \in Revision
  BY DEF Types, CallTypes
<1> QED BY <1>1, <1>2, <1>3, <1>4, <1>5, <1>6

\* A revision is its prompt and its binding.
LEMMA RevisionsDiffer ==
  ASSUME NEW v \in Revision, NEW w \in Revision
  PROVE  v = w <=> v.prompt = w.prompt /\ v.bind = w.bind
BY DEF Revision

\* What was answered was shown: its prompt and its binding have a number.
LEMMA EngagedIsKnown ==
  ASSUME CallsInOrder, RefsAreKnown, NEW r \in Requests, Engaged(r)
  PROVE  /\ receipt[r] \notin {"none", "reserved"}
         /\ ref[r].prompt # 0 /\ ref[r].bind # 0
         /\ pc[r] \in {"send", "finish", "left"}
BY DEF CallsInOrder, CallInOrder, RefsAreKnown, RefIsKnown, Engaged

\* No reader is older, and none has come back, than before.
OldKept(m) == \A j \in DOMAIN readers' : readers[m[j]].old => readers'[j].old

\* Readers that are not touched are kept.
LEMMA Unmoved ==
  ASSUME UNCHANGED readers
  PROVE  \E m : Kept(m) /\ OldKept(m)
<1> DEFINE m == [j \in DOMAIN readers |-> j]
<1>1. Kept(m) /\ OldKept(m)
  BY DEF Kept, OldKept, SameRead
<1> QED BY <1>1

\* What is closed stays closed among the readers that are kept.
LEMMA ClosedKept ==
  ASSUME NEW m, Kept(m), NEW i \in DOMAIN readers', NEW b, NEW p,
         ClosedAfter(m[i], b, p), screen' # p
  PROVE  ClosedAfter(i, b, p)'
BY DEF Kept, ClosedAfter, Found, SameRead

\* The readers that are kept are in order.
LEMMA OrderKept ==
  ASSUME Types, ReadsInOrder, ReadersAreLater, NEW m, Kept(m),
         \A p \in 1 .. asked : screen # p => screen' # p
  PROVE  ReadsInOrder'
<1> SUFFICES ASSUME NEW k \in DOMAIN readers', NEW i \in DOMAIN readers',
                    NEW b \in Nat, NEW p \in Nat, Follows(i, k, b, p)', p # 0
             PROVE  ClosedAfter(i, b, p)'
  BY DEF ReadsInOrder
<1>1. m[k] \in DOMAIN readers /\ m[i] \in DOMAIN readers /\ Follows(m[i], m[k], b, p)
  BY DEF Follows, Kept, Found, Contradicts, SameRead
<1>2. ClosedAfter(m[i], b, p)
  BY <1>1 DEF ReadsInOrder
<1>3. p \in 1 .. asked
  BY <1>1, Numbers DEF Follows, Found, ReadersAreLater
<1>4. screen' # p
  BY <1>2, <1>3 DEF ClosedAfter
<1> QED BY <1>2, <1>4, ClosedKept

\* They are later than the row that is kept.
LEMMA LaterKept ==
  ASSUME Types, ReadersAreLater, NEW m, Kept(m), OldKept(m), row'.rev = row.rev,
         asked' \in Nat, asked <= asked',
         row.rev.bind # 0 /\ screen # row.rev.prompt => screen' # row.rev.prompt
  PROVE  ReadersAreLater'
<1>1. ASSUME NEW j \in DOMAIN readers'
      PROVE  readers'[j].saw <= asked'
  <2>1. m[j] \in DOMAIN readers /\ readers'[j].saw = readers[m[j]].saw
    BY DEF Kept, SameRead
  <2> QED BY <2>1, Numbers DEF ReadersAreLater
<1>2. ASSUME NEW j \in DOMAIN readers', Supersedes(j)'
      PROVE  ClosedAfter(j, row.rev.bind, row.rev.prompt)'
  <2>1. m[j] \in DOMAIN readers /\ Supersedes(m[j])
    BY <1>2 DEF Kept, OldKept, Supersedes, Contradicts, SameRead
  <2>2. ClosedAfter(m[j], row.rev.bind, row.rev.prompt)
    BY <2>1 DEF ReadersAreLater
  <2>3. row.rev.bind # 0
    BY <2>1, Numbers DEF Supersedes, Contradicts
  <2>4. screen' # row.rev.prompt
    BY <2>2, <2>3 DEF ClosedAfter
  <2>5. \A b, p : ClosedAfter(m[j], b, p) /\ screen' # p => ClosedAfter(j, b, p)'
    BY ClosedKept
  <2>6. ClosedAfter(j, row.rev.bind, row.rev.prompt)' <=>
           /\ screen' # row.rev.prompt
           /\ \A i \in DOMAIN readers' :
                 j < i /\ Found(readers'[i], row.rev.bind, row.rev.prompt) => readers'[i].crossed
    BY DEF ClosedAfter
  <2> QED BY <2>2, <2>4, <2>5, <2>6 DEF ClosedAfter
<1> QED BY <1>1, <1>2 DEF ReadersAreLater

\* What is gone stays gone for the readers that are kept.
LEMMA GoneKept ==
  ASSUME NEW m, Kept(m), OldKept(m), NEW rev, Gone(rev), doubtful \subseteq doubtful',
         row'.state = "open" /\ row'.fresh /\ row'.rev = rev => rev \in doubtful',
         rev.bind # binding => rev.bind # binding',
         screen # rev.prompt => screen' # rev.prompt
  PROVE  Gone(rev)'
BY DEF Gone, Shows, Found, Kept, OldKept, SameRead

\* A step that leaves the calls alone keeps the answers apart, if what is gone
\* stays gone and a claim goes only with its revision.
LEMMA CallsUntouched ==
  ASSUME CallsInOrder, RefsAreKnown, AllTakenOrGone, RefsDiffer, UNCHANGED calls,
         asked <= asked', issued <= issued', Types, Types', doubtful \subseteq doubtful',
         \A r \in Requests :
            ref[r].bind = binding' /\ binding' # 0
               => row'.bind = binding' \/ row'.state = "absent",
         \A r \in Requests :
            Engaged(r) => /\ Gone(ref[r]) => Gone(ref[r])'
                          /\ Holds(r) => Holds(r)' \/ Gone(ref[r])'
                          /\ screen # ref[r].prompt => screen' # ref[r].prompt
  PROVE  CallsInOrder' /\ RefsAreKnown' /\ AllTakenOrGone' /\ RefsDiffer'
<1>1. CallsInOrder' /\ RefsDiffer'
  BY DEF CallsInOrder, CallInOrder, RefsDiffer, Engaged, calls
<1>2. RefsAreKnown'
  <2> SUFFICES ASSUME NEW r \in Requests PROVE RefIsKnown(r)'
    BY DEF RefsAreKnown
  <2>1. ref[r].prompt \in Nat /\ ref[r].bind \in Nat /\ asked \in Nat /\ issued \in Nat
    BY Numbers
  <2>2. asked' \in Nat /\ issued' \in Nat
    BY Bounds DEF Types, PaneTypes
  <2> QED BY <2>1, <2>2 DEF RefsAreKnown, RefIsKnown, calls
<1>3. AllTakenOrGone'
  <2> SUFFICES ASSUME NEW r \in Requests PROVE IsTakenOrGone(r)'
    BY DEF AllTakenOrGone
  <2>1. IsTakenOrGone(r) /\ (Engaged(r)' <=> Engaged(r))
        /\ ref'[r] = ref[r] /\ sent'[r] = sent[r] /\ told'[r] = told[r]
    BY DEF AllTakenOrGone, Engaged, calls
  <2>2. sent[r] = "confirmed" => Engaged(r)
    BY DEF Engaged
  <2> QED BY <2>1, <2>2 DEF IsTakenOrGone, Holds, Gone, Shows
<1> QED BY <1>1, <1>2, <1>3

\* A prompt is shown or closed.
LEMMA PaneSteps ==
  ASSUME Types, Types', Rest, ShowPrompt \/ ClosePrompt
  PROVE  Rest'
<1> USE DEF Rest
<1>1. UNCHANGED <<bindings, row, claim, observing, calls, doubtful>>
  BY DEF ShowPrompt, ClosePrompt
<1>2. asked' \in Nat /\ asked <= asked' /\ \A p \in 1 .. asked : screen' # p
  BY Numbers DEF ShowPrompt, ClosePrompt, Nothing, Malformed, Unsupported
<1>3. ClaimFitsPrompt' /\ BindingsInOrder'
  BY <1>1 DEF ClaimFitsPrompt, BindingsInOrder, bindings, observing
<1>4. RowIsKnown'
  BY <1>1, <1>2, Numbers DEF RowIsKnown, bindings
<1>5. PICK m : Kept(m) /\ OldKept(m)
  BY <1>1, Unmoved DEF observing
<1>6. ReadsInOrder' /\ ReadersAreLater'
  <2>1. row'.rev = row.rev /\ (row.rev.bind # 0 => screen' # row.rev.prompt)
    BY <1>1, <1>2, Numbers DEF RowIsKnown
  <2> QED BY <1>2, <1>5, <2>1, OrderKept, LaterKept
<1>7. ASSUME NEW r \in Requests, Engaged(r)
      PROVE  screen' # ref[r].prompt /\ (Gone(ref[r]) => Gone(ref[r])')
             /\ (Holds(r) => Holds(r)')
  <2>1. screen' # ref[r].prompt
    BY <1>2, <1>7, EngagedIsKnown, Numbers DEF RefsAreKnown, RefIsKnown
  <2> QED BY <1>1, <2>1 DEF Gone, Shows, Found, Holds, bindings, observing, calls
<1>8. issued <= issued' /\ \A r \in Requests :
         ref[r].bind = binding' /\ binding' # 0
            => row'.bind = binding' \/ row'.state = "absent"
  BY <1>1, Numbers DEF bindings, RefsAreKnown, RefIsKnown
<1>9. CallsInOrder' /\ RefsAreKnown' /\ AllTakenOrGone' /\ RefsDiffer'
  BY <1>1, <1>2, <1>7, <1>8, CallsUntouched
<1> QED BY <1>3, <1>4, <1>6, <1>9

\* The worker gets another binding, or loses it.
LEMMA BindingSteps ==
  ASSUME Types, Types', Rest, Rebind \/ Unbind
  PROVE  Rest'
<1> USE DEF Rest
<1>1. UNCHANGED <<pane, row, claim, observing, calls, doubtful>>
  BY DEF Rebind, Unbind
<1>2. /\ issued' \in Nat /\ issued <= issued'
      /\ binding' \in {0, issued'} /\ \A b \in 1 .. issued : binding' # b
  BY Numbers DEF Rebind, Unbind, BindingsInOrder
<1>3. ClaimFitsPrompt' /\ ReadsInOrder' /\ ReadersAreLater'
  <2>1. UNCHANGED <<screen, asked, readers, row>>
    BY <1>1 DEF pane, observing
  <2> QED BY <1>1, <2>1 DEF ClaimFitsPrompt, ReadsInOrder, ReadersAreLater, Follows,
                            ClosedAfter, Supersedes
<1>4. RowIsKnown'
  BY <1>1, <1>2, Numbers DEF RowIsKnown, pane
<1>5. BindingsInOrder'
  BY <1>1, <1>2, Numbers DEF BindingsInOrder, observing
<1>6. ASSUME NEW r \in Requests, Engaged(r)
      PROVE  /\ Gone(ref[r]) => Gone(ref[r])'
             /\ Holds(r) => Holds(r)'
             /\ screen # ref[r].prompt => screen' # ref[r].prompt
  <2>1. ref[r].bind # binding'
    BY <1>2, <1>6, EngagedIsKnown, Numbers DEF RefsAreKnown, RefIsKnown
  <2> QED BY <1>1, <2>1 DEF Gone, Holds, pane, observing, calls
<1>7. ASSUME NEW r \in Requests, ref[r].bind = binding', binding' # 0
      PROVE  FALSE
  BY <1>2, <1>7, Numbers DEF RefsAreKnown, RefIsKnown
<1>8. asked <= asked'
  BY <1>1, Numbers DEF pane
<1>9. CallsInOrder' /\ RefsAreKnown' /\ AllTakenOrGone' /\ RefsDiffer'
  BY <1>1, <1>2, <1>6, <1>7, <1>8, CallsUntouched
<1> QED BY <1>3, <1>4, <1>5, <1>9

\* A step that leaves the row and the claim alone, and readers that show what they
\* showed before.
LEMMA RowUntouched ==
  ASSUME Types, Types', Rest,
         UNCHANGED <<bindings, row, claim, screen, asked, calls, doubtful>>,
         \A r \in Requests : \A j \in DOMAIN readers' :
            (/\ Engaged(r) /\ screen # ref[r].prompt
             /\ Shows(readers'[j], ref[r]) /\ ~readers'[j].crossed)
            => \E k \in DOMAIN readers : Shows(readers[k], ref[r]) /\ ~readers[k].crossed
  PROVE  /\ ClaimFitsPrompt' /\ RowIsKnown'
         /\ CallsInOrder' /\ RefsAreKnown' /\ AllTakenOrGone' /\ RefsDiffer'
<1> USE DEF Rest
<1>1. ClaimFitsPrompt' /\ RowIsKnown'
  BY DEF ClaimFitsPrompt, RowIsKnown, bindings
<1>2. ASSUME NEW r \in Requests, Engaged(r)
      PROVE  /\ Gone(ref[r]) => Gone(ref[r])'
             /\ Holds(r) => Holds(r)'
             /\ screen # ref[r].prompt => screen' # ref[r].prompt
  BY <1>2 DEF Gone, Holds, bindings, calls
<1>3. /\ asked <= asked' /\ issued <= issued'
      /\ \A r \in Requests :
            ref[r].bind = binding' /\ binding' # 0
               => row'.bind = binding' \/ row'.state = "absent"
  BY Numbers DEF RefsAreKnown, RefIsKnown, bindings
<1>4. CallsInOrder' /\ RefsAreKnown' /\ AllTakenOrGone' /\ RefsDiffer'
  BY <1>2, <1>3, CallsUntouched
<1> QED BY <1>1, <1>4

\* The same, when the readers are kept.
LEMMA ReadersKept ==
  ASSUME Types, Types', Rest,
         UNCHANGED <<bindings, row, claim, screen, asked, calls, doubtful>>,
         NEW m, Kept(m), OldKept(m), \A j \in DOMAIN readers' : readers'[j].bind <= issued
  PROVE  Rest'
<1> USE DEF Rest
<1>1. ReadsInOrder' /\ ReadersAreLater'
  BY Numbers, OrderKept, LaterKept
<1>2. BindingsInOrder'
  BY DEF BindingsInOrder, bindings
<1>3. \A rev : \A j \in DOMAIN readers' :
         Shows(readers'[j], rev) /\ ~readers'[j].crossed
            => \E k \in DOMAIN readers : Shows(readers[k], rev) /\ ~readers[k].crossed
  BY DEF Shows, Found, Kept, OldKept, SameRead
<1> QED BY <1>1, <1>2, <1>3, RowUntouched

\* A reader that begins has seen nothing.
LEMMA BeginStep ==
  ASSUME Types, Types', Rest, NEW by, BeginRead(by)
  PROVE  Rest'
<1> USE DEF Rest
<1> DEFINE new == [bind |-> binding, by |-> by, at |-> "begun", saw |-> Nothing,
                   old |-> FALSE, late |-> row.grace = "due", crossed |-> FALSE]
           n == Len(readers) + 1
<1>1. UNCHANGED <<bindings, row, claim, screen, asked, calls, doubtful>>
      /\ readers' = Append(readers, new) /\ binding # 0
  BY DEF BeginRead, pane
<1>2. new.bind = binding /\ new.at = "begun" /\ new.saw = 0
  BY DEF Nothing
<1> HIDE DEF new
<1>3. /\ DOMAIN readers' = DOMAIN readers \cup {n}
      /\ readers'[n] = new /\ \A i \in DOMAIN readers : readers'[i] = readers[i]
  BY <1>1, LenProperties DEF Types, ObservingTypes
<1> HIDE DEF n
<1>4. \A b, p : ~Found(readers'[n], b, p) /\ ~Contradicts(readers'[n], b, p)
  BY <1>2, <1>3 DEF Found, Contradicts
<1>5. BindingsInOrder'
  BY <1>1, <1>2, <1>3, Numbers DEF BindingsInOrder, bindings
<1>6. ASSUME NEW i \in DOMAIN readers, NEW b, NEW p, ClosedAfter(i, b, p)
      PROVE  ClosedAfter(i, b, p)'
  BY <1>1, <1>3, <1>4, <1>6 DEF ClosedAfter
<1>7. ReadsInOrder'
  <2> SUFFICES ASSUME NEW k \in DOMAIN readers', NEW i \in DOMAIN readers',
                      NEW b \in Nat, NEW p \in Nat, Follows(i, k, b, p)', p # 0
               PROVE  ClosedAfter(i, b, p)'
    BY DEF ReadsInOrder
  <2>1. k \in DOMAIN readers /\ i \in DOMAIN readers
    BY <1>3, <1>4 DEF Follows
  <2>2. Follows(i, k, b, p)
    BY <1>3, <2>1 DEF Follows
  <2> QED BY <1>6, <2>1, <2>2 DEF ReadsInOrder
<1>8. ReadersAreLater'
  <2>1. ASSUME NEW i \in DOMAIN readers'
        PROVE  readers'[i].saw <= asked'
    BY <1>1, <1>2, <1>3, Numbers DEF ReadersAreLater
  <2>2. ASSUME NEW i \in DOMAIN readers', Supersedes(i)'
        PROVE  ClosedAfter(i, row.rev.bind, row.rev.prompt)'
    <3>1. i \in DOMAIN readers
      BY <1>3, <1>4, <2>2 DEF Supersedes
    <3>2. Supersedes(i)
      BY <1>1, <1>3, <2>2, <3>1 DEF Supersedes
    <3>3. ClosedAfter(i, row.rev.bind, row.rev.prompt)
      BY <3>1, <3>2 DEF ReadersAreLater
    <3> QED BY <1>1, <1>3, <1>4, <3>3 DEF ClosedAfter
  <2> QED BY <2>1, <2>2 DEF ReadersAreLater
<1>9. \A rev : \A j \in DOMAIN readers' :
         Shows(readers'[j], rev) => j \in DOMAIN readers /\ readers'[j] = readers[j]
  BY <1>3, <1>4 DEF Shows
<1> QED BY <1>1, <1>5, <1>7, <1>8, <1>9, RowUntouched

\* A reader that looks at the pane closes what it does not find, and crosses those
\* that began later and have found it.
LEMMA PaneIsRead ==
  ASSUME Types, NEW i \in DOMAIN readers, ReadPane(i)
  PROVE  /\ DOMAIN readers' = DOMAIN readers
         /\ \A j \in DOMAIN readers :
               /\ readers'[j].bind = readers[j].bind
               /\ readers'[j].old = readers[j].old
               /\ readers[j].crossed => readers'[j].crossed
               /\ j # i => SameRead(readers'[j], readers[j])
         /\ readers'[i].at = "read" /\ readers'[i].saw \in {screen, Failure}
         /\ readers'[i].crossed = readers[i].crossed
         /\ \A j \in DOMAIN readers :
               (/\ i < j /\ readers[j].bind = readers[i].bind /\ readers[j].at = "read"
                /\ Failure \notin {readers'[i].saw, readers[j].saw}
                /\ readers[j].saw # readers'[i].saw)
               => readers'[j].crossed
<1>1. PICK saw \in {screen, Failure} :
         readers' = [j \in DOMAIN readers |->
                       IF j = i THEN [readers[j] EXCEPT !.at = "read", !.saw = saw]
                       ELSE [readers[j] EXCEPT !.crossed = @ \/ Crosses(j, i, saw)]]
  BY DEF ReadPane
<1>2. \A j \in DOMAIN readers : j \in Nat /\ readers[j] \in Reader
  BY Numbers
<1>3. readers'[i] = [readers[i] EXCEPT !.at = "read", !.saw = saw]
  BY <1>1
<1>4. /\ readers'[i].at = "read" /\ readers'[i].saw = saw
      /\ readers'[i].bind = readers[i].bind /\ readers'[i].old = readers[i].old
      /\ readers'[i].crossed = readers[i].crossed
  BY <1>2, <1>3 DEF Reader
<1>5. ASSUME NEW j \in DOMAIN readers \ {i}
      PROVE  /\ SameRead(readers'[j], readers[j]) /\ readers'[j].old = readers[j].old
             /\ readers'[j].crossed = (readers[j].crossed \/ Crosses(j, i, saw))
  <2> DEFINE c == readers[j].crossed \/ Crosses(j, i, saw)
  <2>1. readers'[j] = [readers[j] EXCEPT !.crossed = c]
    BY <1>1
  <2> HIDE DEF c
  <2>2. /\ SameRead(readers'[j], readers[j]) /\ readers'[j].old = readers[j].old
        /\ readers'[j].crossed = c
    BY <1>2, <2>1 DEF Reader, SameRead
  <2> QED BY <2>2 DEF c
<1>6. ASSUME NEW j \in DOMAIN readers, i < j, readers[j].bind = readers[i].bind,
             readers[j].at = "read", Failure \notin {saw, readers[j].saw},
             readers[j].saw # saw
      PROVE  readers'[j].crossed
  <2>1. j # i /\ j > i
    BY <1>2, <1>6
  <2>2. Crosses(j, i, saw)
    BY <1>6, <2>1 DEF Crosses
  <2> QED BY <1>5, <2>1, <2>2
<1>7. DOMAIN readers' = DOMAIN readers
  BY <1>1
<1> QED BY <1>4, <1>5, <1>6, <1>7 DEF SameRead

\* A read of the pane.
LEMMA ReadPaneStep ==
  ASSUME Types, Types', Rest, NEW i \in DOMAIN readers, ReadPane(i)
  PROVE  Rest'
<1> USE DEF Rest
<1>1. UNCHANGED <<bindings, row, claim, screen, asked, calls, doubtful>>
      /\ readers[i].at = "begun"
  BY DEF ReadPane, pane
<1> DEFINE saw == readers'[i].saw
<1>2. /\ DOMAIN readers' = DOMAIN readers
      /\ \A j \in DOMAIN readers :
            /\ readers'[j].bind = readers[j].bind
            /\ readers'[j].old = readers[j].old
            /\ readers[j].crossed => readers'[j].crossed
            /\ j # i => SameRead(readers'[j], readers[j])
      /\ readers'[i].at = "read" /\ saw \in {screen, Failure}
      /\ readers'[i].crossed = readers[i].crossed
  BY PaneIsRead
<1>3. \A j \in DOMAIN readers :
         (/\ i < j /\ readers[j].bind = readers[i].bind /\ readers[j].at = "read"
          /\ Failure \notin {saw, readers[j].saw} /\ readers[j].saw # saw)
         => readers'[j].crossed
  BY PaneIsRead
<1> HIDE DEF saw
<1>4. readers'[i].saw = saw
  BY DEF saw
<1>5. ASSUME NEW b, NEW p \in Nat, Contradicts(readers'[i], b, p)
      PROVE  ClosedAfter(i, b, p)'
  <2>1. b = readers[i].bind /\ saw # Failure /\ saw = screen /\ screen # p
    BY <1>2, <1>4, <1>5 DEF Contradicts
  <2>2. ASSUME NEW j \in DOMAIN readers', i < j, Found(readers'[j], b, p)
        PROVE  readers'[j].crossed
    <3>1. j # i /\ p # Failure
      BY <2>2, Numbers DEF Failure
    <3>2. readers[j].bind = b /\ readers[j].at = "read" /\ readers[j].saw = p
      BY <1>2, <2>2, <3>1 DEF Found, SameRead
    <3> QED BY <1>2, <1>3, <2>1, <2>2, <3>1, <3>2
  <2> QED BY <1>1, <2>1, <2>2 DEF ClosedAfter
<1>6. ASSUME NEW l \in DOMAIN readers, NEW b, NEW p \in Nat, ClosedAfter(l, b, p)
      PROVE  ClosedAfter(l, b, p)'
  <2>1. ~Found(readers'[i], b, p)
    <3>1. p # Failure /\ screen # p
      BY <1>6 DEF Failure, ClosedAfter
    <3> QED BY <1>2, <1>4, <3>1 DEF Found
  <2>2. \A j \in DOMAIN readers' : Found(readers'[j], b, p) => Found(readers[j], b, p)
    BY <1>2, <2>1 DEF Found, SameRead
  <2> QED BY <1>1, <1>2, <1>6, <2>2 DEF ClosedAfter
<1>7. ReadsInOrder'
  <2> SUFFICES ASSUME NEW k \in DOMAIN readers', NEW l \in DOMAIN readers',
                      NEW b \in Nat, NEW p \in Nat, Follows(l, k, b, p)', p # 0
               PROVE  ClosedAfter(l, b, p)'
    BY DEF ReadsInOrder
  <2>1. CASE l = i
    BY <1>5, <2>1 DEF Follows
  <2>2. CASE l # i /\ k = i
    <3>1. saw = p /\ readers[i].bind = b /\ p # Failure
      BY <1>2, <1>4, <2>2 DEF Follows, Found, Failure
    <3>2. readers[l].at = "read" /\ readers[l].bind = b /\ readers[l].saw \notin {Failure, p}
      BY <1>2, <2>2 DEF Follows, Contradicts, SameRead
    <3> QED BY <1>2, <1>3, <2>2, <3>1, <3>2 DEF Follows
  <2>3. CASE l # i /\ k # i
    <3>1. Follows(l, k, b, p)
      BY <1>2, <2>3 DEF Follows, Found, Contradicts, SameRead
    <3> QED BY <1>2, <1>6, <3>1 DEF ReadsInOrder
  <2> QED BY <2>1, <2>2, <2>3
<1>8. ReadersAreLater'
  <2>1. screen <= asked /\ Failure <= asked
    BY Numbers DEF Types, PaneTypes, Malformed, Unsupported, Failure
  <2>2. \A l \in DOMAIN readers' : readers'[l].saw <= asked'
    BY <1>1, <1>2, <1>4, <2>1 DEF ReadersAreLater, SameRead
  <2>3. ASSUME NEW l \in DOMAIN readers', Supersedes(l)'
        PROVE  ClosedAfter(l, row.rev.bind, row.rev.prompt)'
    <3>1. row.rev.prompt \in Nat /\ row' = row
      BY <1>1, Numbers
    <3>2. CASE l = i
      <4>1. Contradicts(readers'[i], row.rev.bind, row.rev.prompt)
        BY <2>3, <3>1, <3>2 DEF Supersedes
      <4> QED BY <1>5, <3>1, <3>2, <4>1 DEF ClosedAfter, Found
    <3>3. CASE l # i
      <4>1. Supersedes(l)
        BY <1>2, <2>3, <3>1, <3>3 DEF Supersedes, Contradicts, SameRead
      <4>2. ClosedAfter(l, row.rev.bind, row.rev.prompt)
        BY <1>2, <4>1 DEF ReadersAreLater
      <4>3. PICK b, p : b = row.rev.bind /\ p = row.rev.prompt
        OBVIOUS
      <4>4. p \in Nat /\ ClosedAfter(l, b, p)
        BY <3>1, <4>2, <4>3
      <4>5. ClosedAfter(l, b, p)' /\ row'.rev.bind = b /\ row'.rev.prompt = p
        BY <1>2, <1>6, <3>1, <4>3, <4>4
      <4> QED BY <4>5 DEF ClosedAfter
    <3> QED BY <3>2, <3>3
  <2> QED BY <2>2, <2>3 DEF ReadersAreLater
<1>9. BindingsInOrder'
  BY <1>1, <1>2 DEF BindingsInOrder, bindings
<1>10. ASSUME NEW r \in Requests, NEW j \in DOMAIN readers', screen # ref[r].prompt,
              Shows(readers'[j], ref[r]), ~readers'[j].crossed
       PROVE  j \in DOMAIN readers /\ Shows(readers[j], ref[r]) /\ ~readers[j].crossed
  <2>1. ref[r].prompt # Failure
    BY Numbers DEF Failure
  <2>2. j # i
    BY <1>2, <1>4, <1>10, <2>1 DEF Shows, Found
  <2> QED BY <1>2, <1>10, <2>2 DEF Shows, Found, SameRead
<1> QED BY <1>1, <1>7, <1>8, <1>9, <1>10, RowUntouched

\* The scan lists the bindings.
LEMMA ListStep ==
  ASSUME Types, Types', Rest, ListBindings
  PROVE  Rest'
<1>1. UNCHANGED <<bindings, row, claim, screen, asked, calls, doubtful, readers>>
  BY DEF ListBindings, pane
<1>2. PICK m : Kept(m) /\ OldKept(m)
  BY <1>1, Unmoved
<1>3. \A j \in DOMAIN readers' : readers'[j].bind <= issued
  BY <1>1 DEF Rest, BindingsInOrder
<1> QED BY <1>1, <1>2, <1>3, ReadersKept

\* What the scan prunes is not the row of the live binding, or its revision is
\* doubtful and the readers that are not refused any more are crossed.
LEMMA PruneStep ==
  ASSUME Types, Types', Rest, Prune
  PROVE  Rest'
<1> USE DEF Rest
<1>1. UNCHANGED <<bindings, screen, asked, calls>>
  BY DEF Prune, pane
<1>2. CASE UNCHANGED <<row, claim, readers, doubtful>>
  <2>1. PICK m : Kept(m) /\ OldKept(m)
    BY <1>2, Unmoved
  <2>2. \A j \in DOMAIN readers' : readers'[j].bind <= issued
    BY <1>2 DEF BindingsInOrder
  <2> QED BY <1>1, <1>2, <2>1, <2>2, ReadersKept
<1>3. CASE /\ row.state # "absent" /\ row' = NoRow /\ claim' = NoClaim
           /\ readers' = [j \in DOMAIN readers |->
                 [readers[j] EXCEPT !.old = FALSE, !.late = FALSE,
                                    !.crossed = @ \/ (row.bind = binding /\ readers[j].old)]]
           /\ doubtful' = IF row.bind = binding THEN doubtful \cup {row.rev} ELSE doubtful
  <2>1. ASSUME NEW j \in DOMAIN readers
        PROVE  /\ SameRead(readers'[j], readers[j])
               /\ readers[j].crossed => readers'[j].crossed
               /\ row.bind = binding /\ readers[j].old => readers'[j].crossed
    <3> DEFINE c == readers[j].crossed \/ (row.bind = binding /\ readers[j].old)
    <3>1. readers'[j] = [readers[j] EXCEPT !.old = FALSE, !.late = FALSE, !.crossed = c]
      BY <1>3
    <3> HIDE DEF c
    <3>2. SameRead(readers'[j], readers[j]) /\ readers'[j].crossed = c
      BY <3>1, Numbers DEF SameRead, Reader
    <3> QED BY <3>2 DEF c
  <2>2. /\ row.state # "absent" /\ row' = NoRow /\ claim' = NoClaim
        /\ DOMAIN readers' = DOMAIN readers
        /\ doubtful \subseteq doubtful'
        /\ row.bind = binding => row.rev \in doubtful'
    BY <1>3
  <2>3. NoRow.bind = 0 /\ NoRow.rev.bind = 0 /\ NoRow.rev.prompt = 0 /\ NoRow.state = "absent"
        /\ NoClaim.state = "none"
    BY DEF NoRow, NoRevision, NoClaim
  <2>4. BindingsInOrder'
    BY <1>1, <2>1, <2>2, <2>3, Numbers DEF BindingsInOrder, bindings, SameRead
  <2>5. RowIsKnown' /\ ClaimFitsPrompt'
    BY <1>1, <2>2, <2>3, Numbers DEF RowIsKnown, ClaimFitsPrompt, bindings
  <2>6. ReadsInOrder'
    <3> DEFINE m == [j \in DOMAIN readers |-> j]
    <3>1. Kept(m)
      BY <2>1, <2>2 DEF Kept
    <3> HIDE DEF m
    <3> QED BY <1>1, <3>1, OrderKept
  <2>7. ReadersAreLater'
    <3>1. \A j \in DOMAIN readers' : readers'[j].saw <= asked' /\ readers'[j].bind # 0
      BY <1>1, <2>1, <2>2, Numbers DEF ReadersAreLater, SameRead
    <3> QED BY <2>2, <2>3, <3>1 DEF ReadersAreLater, Supersedes, Contradicts
  <2>8. ASSUME NEW r \in Requests, Engaged(r)
        PROVE  Gone(ref[r])'
    <3>1. Gone(ref[r])' <=>
             \/ ref[r] \in doubtful'
             \/ ref[r].bind # binding
             \/ /\ screen # ref[r].prompt
                /\ \A j \in DOMAIN readers' : Shows(readers'[j], ref[r]) => readers'[j].crossed
      BY <1>1, <2>2, <2>3 DEF Gone, bindings, calls
    <3>2. CASE row.bind # binding
      <4>1. ref[r].bind # binding
        BY <2>2, <2>8, <3>2, EngagedIsKnown DEF RefsAreKnown, RefIsKnown
      <4> QED BY <3>1, <4>1
    <3>3. CASE row.bind = binding /\ Holds(r)
      <4>1. ref[r] = row.rev
        BY <3>3 DEF Holds, ClaimFitsPrompt
      <4> QED BY <2>2, <3>1, <3>3, <4>1
    <3>4. CASE row.bind = binding /\ Gone(ref[r])
      <4>1. \A j \in DOMAIN readers' :
               Shows(readers'[j], ref[r]) =>
                  Found(readers[j], ref[r].bind, ref[r].prompt)
        BY <2>1, <2>2 DEF Shows, Found, SameRead
      <4>2. ASSUME \A j \in DOMAIN readers : Shows(readers[j], ref[r]) => readers[j].crossed
            PROVE  \A j \in DOMAIN readers' : Shows(readers'[j], ref[r]) => readers'[j].crossed
        BY <2>1, <2>2, <3>4, <4>1, <4>2 DEF Shows
      <4> QED BY <2>2, <3>1, <3>4, <4>2 DEF Gone
    <3> QED BY <2>8, <3>2, <3>3, <3>4 DEF AllTakenOrGone, IsTakenOrGone
  <2>9. /\ asked <= asked' /\ issued <= issued' /\ row'.state = "absent" /\ screen' = screen
    BY <1>1, <2>2, <2>3, Numbers DEF bindings
  <2>10. CallsInOrder' /\ RefsAreKnown' /\ AllTakenOrGone' /\ RefsDiffer'
    BY <1>1, <2>2, <2>8, <2>9, CallsUntouched
  <2> QED BY <2>4, <2>5, <2>6, <2>7, <2>10
<1> QED BY <1>2, <1>3 DEF Prune

\* A read that is applied, or is out of date.
LEMMA ApplyStep ==
  ASSUME Types, Types', Rest, NEW i \in DOMAIN readers, ApplyRead(i)
  PROVE  Rest'
<1> USE DEF Rest
<1> DEFINE x == readers[i]
<1>1. UNCHANGED <<bindings, screen, asked, calls>>
  BY ReadsApply DEF pane
<1>2. PICK m : /\ Others(i, m)
               /\ x.bind = binding /\ ~x.old =>
                     \A j \in DOMAIN readers' : m[j] < i => readers'[j].old
  BY OthersStay DEF Types, ObservingTypes
<1>3. Kept(m) /\ OldKept(m) /\ \A j \in DOMAIN readers' :
                                   m[j] \in DOMAIN readers \ {i} /\ m[j] \in Int
  BY <1>2 DEF Others, OldKept, Kept
<1>4. \A j \in DOMAIN readers' : /\ readers'[j].bind <= issued /\ readers'[j].bind # 0
                                 /\ readers'[j].saw <= asked
  BY <1>3, Numbers DEF Kept, SameRead, BindingsInOrder, ReadersAreLater
<1>5. ReadsInOrder'
  BY <1>1, <1>3, OrderKept
<1>6. CASE UNCHANGED <<row, claim, doubtful>>
  BY <1>1, <1>3, <1>4, <1>6, ReadersKept
<1>7. CASE ReadApplied(i)
  <2>1. x \in Reader /\ x.bind \in 1..MaxBindings /\ x.saw \in Unsupported..MaxPrompts
        /\ x.at = "read" /\ x.bind = binding /\ ~x.old /\ x.saw <= asked /\ i \in Nat
    BY <1>7, Numbers DEF ReadApplied, Reader, ReadersAreLater
  <2>10. \A j \in DOMAIN readers' : ~readers'[j].old => i < m[j]
    BY <1>2, <1>3, <2>1
  <2>11. /\ doubtful \subseteq doubtful'
         /\ x.saw # Failure /\ x.crossed => row.rev \in doubtful' /\ row'.rev \in doubtful'
    BY <1>7 DEF ReadApplied
  <2>2. /\ row'.bind \in {row.bind, binding} /\ row'.state # "absent"
        /\ row'.bind = 0 => row.bind = 0 /\ row.state = row'.state
        /\ row.state = "absent" => row'.bind = binding
        /\ row'.state = "open" => row'.rev.bind # 0
        /\ row'.state = "open" /\ row'.fresh =>
              x.saw # Failure /\ row'.rev.prompt = x.saw /\ row'.rev.bind = binding
              /\ row'.bind = binding
        /\ row'.rev \in {row.rev, NoRevision} \/ row'.rev.bind = binding
        /\ row'.rev.prompt <= asked /\ row'.rev.bind <= issued
        /\ row'.rev.bind # 0 => row'.rev.prompt # 0
    <3>1. CASE x.saw = Failure
      <4> DEFINE late == x.late /\ row.grace = "due"
      <4>1. row' = FailedRow(row, x.bind, late) /\ late \in BOOLEAN /\ IsRow(row)
            /\ (late => row.grace = "due")
        BY <1>7, <2>1, <3>1 DEF ReadApplied, Reader, Types
      <4> HIDE DEF late
      <4>2. /\ ~row'.fresh /\ row'.bind \in {row.bind, x.bind}
            /\ row'.bind = 0 => row'.state = row.state
            /\ row'.state = "open" => row.state = "open"
            /\ row'.state # "absent"
            /\ row.state = "absent" => row'.bind = x.bind
            /\ row.state \in {"open", "failed"} => row'.rev = row.rev
            /\ row'.rev \in {row.rev, NoRevision}
        <5>1. \A b \in 1..MaxBindings, l \in BOOLEAN : \A new :
                 IsRow(row) /\ (l => row.grace = "due") /\ new = FailedRow(row, b, l) =>
                 /\ ~new.fresh /\ new.bind \in {row.bind, b}
                 /\ new.bind = 0 => new.state = row.state
                 /\ new.state = "open" => row.state = "open"
                 /\ new.state # "absent"
                 /\ row.state = "absent" => new.bind = b
                 /\ row.state \in {"open", "failed"} => new.rev = row.rev
                 /\ new.rev \in {row.rev, NoRevision}
          BY FailedRows
        <5> QED BY <2>1, <4>1, <5>1
      <4>3. NoRevision.prompt = 0 /\ NoRevision.bind = 0
        BY DEF NoRevision
      <4> QED BY <2>1, <4>2, <4>3, Numbers DEF RowIsKnown
    <3>2. CASE x.saw # Failure
      <4>1. row' = SeenRow(x.saw, x.bind)
        BY <1>7, <3>2 DEF ReadApplied
      <4>2. /\ row'.bind = x.bind /\ row'.state # "absent"
            /\ row'.state = "open" => /\ row'.rev = [prompt |-> x.saw, bind |-> x.bind]
                                      /\ x.saw \in 1..MaxPrompts
            /\ row'.state # "open" => row'.rev = NoRevision
        BY <2>1, <3>2, <4>1, SeenRows
      <4>3. NoRevision.prompt = 0 /\ NoRevision.bind = 0
        BY DEF NoRevision
      <4>4. binding <= issued /\ binding # 0
        BY <2>1, Numbers DEF BindingsInOrder
      <4>5. CASE row'.state = "open"
        <5>1. row'.rev.prompt = x.saw /\ row'.rev.bind = binding /\ x.saw # 0
          BY <2>1, <4>2, <4>5, Bounds
        <5> QED BY <2>1, <3>2, <4>2, <4>4, <4>5, <5>1, Numbers
      <4>6. CASE row'.state # "open"
        BY <2>1, <4>2, <4>3, <4>4, <4>6, Numbers
      <4> QED BY <4>5, <4>6
    <3> QED BY <3>1, <3>2
  <2>12. \/ row'.rev = row.rev \/ row'.rev = NoRevision
         \/ row'.state = "open" /\ row'.fresh /\ row'.rev.prompt # 0
    <3>1. CASE x.saw = Failure
      <4>1. x.late /\ row.grace = "due" => row.grace = "due"
        OBVIOUS
      <4>2. /\ row' = FailedRow(row, x.bind, x.late /\ row.grace = "due") /\ IsRow(row)
            /\ (x.late /\ row.grace = "due") \in BOOLEAN
        BY <1>7, <2>1, <3>1 DEF ReadApplied, Reader, Types
      <4>3. \A b \in 1..MaxBindings, l \in BOOLEAN : \A n :
               IsRow(row) /\ (l => row.grace = "due") /\ n = FailedRow(row, b, l) =>
                  n.rev \in {row.rev, NoRevision}
        BY FailedRows
      <4> QED BY <2>1, <4>1, <4>2, <4>3
    <3>2. CASE x.saw # Failure
      <4>1. row' = SeenRow(x.saw, x.bind)
        BY <1>7, <3>2 DEF ReadApplied
      <4>2. /\ row'.state = "open" => row'.fresh /\ row'.rev = [prompt |-> x.saw, bind |-> x.bind]
                                      /\ x.saw \in 1..MaxPrompts
            /\ row'.state # "open" => row'.rev = NoRevision
        BY <2>1, <3>2, <4>1, SeenRows
      <4> QED BY <4>2, Bounds
    <3> QED BY <3>1, <3>2
  <2>3. ClaimFitsPrompt'
    <3>1. CASE x.saw = Failure
      <4> DEFINE late == x.late /\ row.grace = "due"
                 new == FailedRow(row, x.bind, late)
      <4>1. row' = new /\ late \in BOOLEAN /\ IsRow(row) /\ (late => row.grace = "due")
            /\ claim' = IF new.grace # row.grace THEN Released(claim) ELSE claim
        BY <1>7, <2>1, <3>1 DEF ReadApplied, Reader, Types
      <4>2. /\ row.state \in {"open", "failed"} =>
                  row'.state \in {"open", "failed"} /\ row'.rev = row.rev
            /\ row.state = "open" /\ row.fresh => row'.grace # row.grace
        <5>1. \A b \in 1..MaxBindings, l \in BOOLEAN : \A n :
                 IsRow(row) /\ (l => row.grace = "due") /\ n = FailedRow(row, b, l) =>
                 /\ row.state \in {"open", "failed"} =>
                       n.state \in {"open", "failed"} /\ n.rev = row.rev
                 /\ row.state = "open" /\ row.fresh => n.grace # row.grace
          BY FailedRows
        <5> QED BY <2>1, <4>1, <5>1
      <4>3. claim' = IF row'.grace # row.grace THEN Released(claim) ELSE claim
        BY <4>1
      <4>4. claim'.state = "claimed" => row'.grace = row.grace /\ claim' = claim
        BY <4>3 DEF Released, NoClaim
      <4>5. claim'.state = "send_started" => claim' = claim
        BY <4>3 DEF Released, NoClaim
      <4> QED BY <4>2, <4>4, <4>5 DEF ClaimFitsPrompt
    <3>2. CASE x.saw # Failure
      <4>1. row' = SeenRow(x.saw, x.bind) /\ claim' = SeenClaim(claim, row')
        BY <1>7, <3>2 DEF ReadApplied
      <4>2. row'.state = "open" => row'.fresh
        <5>1. ASSUME NEW p \in Unsupported..MaxPrompts, NEW b \in 1..MaxBindings, NEW n,
                     p # Failure, n = SeenRow(p, b)
              PROVE  n.state = "open" => n.fresh
          <6>1. n.state = "open" => n.fresh /\ n.rev = [prompt |-> p, bind |-> b]
                                   /\ p \in 1..MaxPrompts
            BY <5>1, SeenRows
          <6> QED BY <6>1
        <5>2. x.saw \in Unsupported..MaxPrompts /\ x.bind \in 1..MaxBindings
          BY <2>1
        <5>3. row' = SeenRow(x.saw, x.bind)
          BY <4>1
        <5> QED BY <3>2, <5>1, <5>2, <5>3
      <4>3. claim'.state # "none" => row'.state = "open" /\ claim'.rev = row'.rev
        BY <4>1 DEF SeenClaim, NoClaim
      <4> QED BY <4>2, <4>3 DEF ClaimFitsPrompt
    <3> QED BY <3>1, <3>2
  <2>4. ASSUME NEW r \in Requests, Engaged(r), Holds(r), ~Holds(r)'
        PROVE  Gone(ref[r])'
    <3> DEFINE rev == ref[r]
    <3>1. claim.state = "send_started" /\ claim.by = r /\ claim.rev = rev /\ row.rev = rev
      BY <2>4 DEF Holds, ClaimFitsPrompt
    <3>2. x.saw # Failure
      <4>1. x.saw = Failure => claim' \in {claim, Released(claim)}
        BY <1>7 DEF ReadApplied
      <4>2. claim' # claim
        BY <1>1, <2>4 DEF Holds, calls
      <4>3. Released(claim) = claim
        BY <3>1 DEF Released
      <4> QED BY <4>1, <4>2, <4>3
    <3>3. row' = SeenRow(x.saw, x.bind) /\ claim' = SeenClaim(claim, row')
      BY <1>7, <3>2 DEF ReadApplied
    <3>4. ~(row'.state = "open" /\ row'.rev = rev)
      <4>1. row'.state = "open" /\ row'.rev = rev => claim' = claim
        BY <3>1, <3>3 DEF SeenClaim
      <4> QED BY <1>1, <2>4, <4>1 DEF Holds, calls
    <3>5. ASSUME ~x.crossed, rev.bind = binding
          PROVE  /\ screen # rev.prompt
                 /\ \A j \in DOMAIN readers' : Shows(readers'[j], rev) => readers'[j].crossed
      <4>1. x.saw # rev.prompt
        <5> SUFFICES ASSUME x.saw = rev.prompt PROVE FALSE
          OBVIOUS
        <5>1. x.saw \in 1..MaxPrompts
          BY <2>1, <2>4, EngagedIsKnown, Numbers, Bounds
        <5>2. row'.state = "open" /\ row'.rev = [prompt |-> x.saw, bind |-> x.bind]
          BY <2>1, <3>2, <3>3, <5>1, SeenRows
        <5>3. rev = [prompt |-> x.saw, bind |-> x.bind]
          BY <2>1, <3>5, Numbers DEF Revision
        <5> QED BY <3>4, <5>2, <5>3
      <4>2. ClosedAfter(i, rev.bind, rev.prompt)
        <5>1. Supersedes(i)
          BY <2>1, <3>1, <3>2, <3>5, <4>1 DEF Supersedes, Contradicts
        <5> QED BY <3>1, <5>1 DEF ReadersAreLater
      <4>3. ASSUME NEW j \in DOMAIN readers', Shows(readers'[j], rev)
            PROVE  readers'[j].crossed
        <5>1. i < m[j] /\ m[j] \in DOMAIN readers
          BY <1>3, <2>10, <4>3 DEF Shows
        <5>2. Found(readers[m[j]], rev.bind, rev.prompt)
          BY <1>3, <4>3 DEF Shows, Found, Kept, SameRead
        <5> QED BY <1>3, <4>2, <5>1, <5>2 DEF ClosedAfter, Kept
      <4> QED BY <4>2, <4>3 DEF ClosedAfter
    <3>6. rev = ref'[r] /\ screen' = screen /\ binding' = binding
      BY <1>1 DEF calls, bindings
    <3> QED BY <2>11, <3>1, <3>2, <3>4, <3>5, <3>6 DEF Gone
  <2>5. RowIsKnown' /\ BindingsInOrder'
    BY <1>1, <1>4, <2>1, <2>2, Numbers DEF RowIsKnown, BindingsInOrder, bindings
  <2>6. ReadersAreLater'
    <3>1. CASE row'.rev = row.rev
      BY <1>1, <1>3, <3>1, Numbers, LaterKept
    <3>2. CASE row'.rev = NoRevision
      <4>1. row'.rev.bind = 0
        BY <3>2 DEF NoRevision
      <4> QED BY <1>1, <1>4, <4>1 DEF ReadersAreLater, Supersedes, Contradicts
    <3>3. CASE row'.state = "open" /\ row'.fresh /\ row'.rev.prompt # 0
      <4>1. x.saw # Failure /\ row'.rev.prompt = x.saw /\ row'.rev.bind = binding
        BY <2>2, <3>3
      <4>2. PICK b, p : b = binding /\ p = x.saw
        OBVIOUS
      <4>3. b \in Nat /\ p \in Nat /\ p # 0
        BY <3>3, <4>1, <4>2, Numbers DEF Types, IsRow, Revision
      <4>4. ASSUME NEW j \in DOMAIN readers', Contradicts(readers'[j], b, p),
                   ~readers'[j].old, ~readers'[j].crossed
            PROVE  ClosedAfter(j, b, p)'
        <5>1. m[j] \in DOMAIN readers /\ i < m[j]
          BY <1>3, <2>10, <4>4
        <5>2. Follows(m[j], i, b, p)
          BY <1>3, <2>1, <4>2, <4>4, <5>1 DEF Follows, Found, Contradicts, Kept, SameRead
        <5>3. ClosedAfter(m[j], b, p)
          BY <4>3, <5>1, <5>2 DEF ReadsInOrder
        <5>4. screen' # p
          BY <1>1, <5>3 DEF ClosedAfter
        <5> QED BY <1>3, <5>3, <5>4, ClosedKept
      <4>5. ASSUME NEW j \in DOMAIN readers', Supersedes(j)'
            PROVE  ClosedAfter(j, row.rev.bind, row.rev.prompt)'
        <5>1. row'.rev.bind = b /\ row'.rev.prompt = p
          BY <4>1, <4>2
        <5>2. Contradicts(readers'[j], b, p) /\ ~readers'[j].old /\ ~readers'[j].crossed
          BY <4>5, <5>1 DEF Supersedes
        <5> QED BY <4>4, <5>1, <5>2 DEF ClosedAfter
      <4> QED BY <1>1, <1>4, <4>5 DEF ReadersAreLater
    <3> QED BY <2>12, <3>1, <3>2, <3>3
  <2>7. ASSUME NEW r \in Requests, Gone(ref[r])
        PROVE  Gone(ref[r])'
    <3>1. CASE row'.state = "open" /\ row'.fresh /\ row'.rev = ref[r]
      <4>1. x.saw # Failure /\ Shows(x, ref[r]) /\ ref[r].bind = binding
        BY <2>1, <2>2, <3>1 DEF Shows, Found
      <4>2. ref[r] \in doubtful \/ x.crossed
        BY <2>7, <4>1 DEF Gone
      <4> QED BY <1>1, <2>11, <3>1, <4>1, <4>2 DEF Gone, calls
    <3>2. CASE ~(row'.state = "open" /\ row'.fresh /\ row'.rev = ref[r])
      <4>1. \A rev : Gone(rev) /\ ~(row'.state = "open" /\ row'.fresh /\ row'.rev = rev)
                      => Gone(rev)'
        BY <1>1, <1>3, <2>11, GoneKept DEF bindings
      <4>2. ref'[r] = ref[r]
        BY <1>1 DEF calls
      <4> QED BY <2>7, <3>2, <4>1, <4>2 DEF Gone
    <3> QED BY <3>1, <3>2
  <2>8. /\ asked <= asked' /\ issued <= issued'
        /\ \A r \in Requests :
              ref[r].bind = binding' /\ binding' # 0
                 => row'.bind = binding' \/ row'.state = "absent"
    BY <1>1, <2>2, Numbers DEF RefsAreKnown, RefIsKnown, bindings
  <2>9. CallsInOrder' /\ RefsAreKnown' /\ AllTakenOrGone' /\ RefsDiffer'
    <3>1. \A r \in Requests :
            Engaged(r) => /\ Gone(ref[r]) => Gone(ref[r])'
                          /\ Holds(r) => Holds(r)' \/ Gone(ref[r])'
                          /\ screen # ref[r].prompt => screen' # ref[r].prompt
      BY <1>1, <2>4, <2>7
    <3> QED BY <1>1, <2>8, <2>11, <3>1, CallsUntouched
  <2> QED BY <1>5, <2>3, <2>5, <2>6, <2>9
<1> QED BY <1>6, <1>7, ReadsApply

\* Only the call of r moves; it sends nothing, and no claim that was sent goes.
LEMMA CallMoves ==
  ASSUME Types, Types', Rest, NEW r \in Requests,
         UNCHANGED <<pane, bindings, row, observing, sent, told, doubtful>>,
         claim.state = "send_started" => claim' = claim,
         \A q \in Requests \ {r} :
            pc'[q] = pc[q] /\ receipt'[q] = receipt[q] /\ ref'[q] = ref[q],
         pc'[r] \notin {"send", "finish"}, sent[r] # "no" => ref'[r] = ref[r],
         CallInOrder(r)', RefIsKnown(r)', ClaimFitsPrompt'
  PROVE  Rest'
<1> USE DEF Rest
<1>1. BindingsInOrder' /\ RowIsKnown' /\ ReadsInOrder' /\ ReadersAreLater'
  BY DEF BindingsInOrder, RowIsKnown, ReadsInOrder, ReadersAreLater, Follows, ClosedAfter,
         Supersedes, pane, bindings, observing
<1>2. CallsInOrder'
  <2>1. ASSUME NEW q \in Requests \ {r}
        PROVE  CallInOrder(q)'
    BY DEF CallsInOrder, CallInOrder
  <2> QED BY <2>1 DEF CallsInOrder
<1>3. RefsAreKnown'
  <2>1. ASSUME NEW q \in Requests \ {r}
        PROVE  RefIsKnown(q)'
    BY DEF RefsAreKnown, RefIsKnown, pane, bindings
  <2> QED BY <2>1 DEF RefsAreKnown
<1>4. ASSUME NEW q \in Requests, Engaged(q)'
      PROVE  Engaged(q) /\ ref'[q] = ref[q]
  BY <1>4 DEF Engaged
<1>5. AllTakenOrGone'
  <2> SUFFICES ASSUME NEW q \in Requests PROVE IsTakenOrGone(q)'
    BY DEF AllTakenOrGone
  <2>1. IsTakenOrGone(q)
    BY DEF AllTakenOrGone
  <2>2. (Engaged(q)' => Engaged(q) /\ ref'[q] = ref[q])
        /\ (sent[q] = "confirmed" => ref'[q] = ref[q])
    BY <1>4
  <2>3. ref'[q] = ref[q] => /\ Gone(ref[q]) => Gone(ref[q])'
                            /\ Holds(q) => Holds(q)'
    BY DEF Gone, Shows, Found, Holds, pane, bindings, observing
  <2> QED BY <2>1, <2>2, <2>3 DEF IsTakenOrGone, pane
<1>6. RefsDiffer'
  BY <1>4 DEF RefsDiffer
<1> QED BY <1>1, <1>2, <1>3, <1>5, <1>6

\* A call validates its prompt, takes a reservation over, or ends.
LEMMA ReserveSteps ==
  ASSUME Types, Types', Rest, NEW r \in Requests, Validate(r) \/ Redrive(r) \/ Crash(r)
  PROVE  Rest'
<1> USE DEF Rest
<1>1. UNCHANGED <<pane, bindings, row, claim, observing, sent, told, doubtful>>
  BY DEF Validate, Redrive, Crash
<1>2. \A q \in Requests \ {r} :
         pc'[q] = pc[q] /\ receipt'[q] = receipt[q] /\ ref'[q] = ref[q]
  BY DEF Validate, Redrive, Crash, Leave, Types, CallTypes
<1>3. CallInOrder(r)' /\ pc'[r] \notin {"send", "finish"}
      /\ (sent[r] # "no" => ref'[r] = ref[r])
  <2>1. CallInOrder(r)
    BY DEF CallsInOrder
  <2>2. CASE Validate(r)
    BY <1>1, <2>1, <2>2 DEF Validate, CallInOrder, Types, CallTypes
  <2>3. CASE Redrive(r)
    BY <1>1, <2>1, <2>3 DEF Redrive, CallInOrder, Leave, Types, CallTypes
  <2>4. CASE Crash(r)
    BY <1>1, <2>1, <2>4 DEF Crash, CallInOrder, Types, CallTypes
  <2> QED BY <2>2, <2>3, <2>4
<1>4. RefIsKnown(r)'
  <2>1. RefIsKnown(r)
    BY DEF RefsAreKnown
  <2>2. CASE Validate(r)
    <3>1. ref'[r] = row.rev /\ row.state = "open" /\ row.fresh /\ row.bind = binding
      BY <2>2 DEF Validate, Current, Types, CallTypes
    <3> QED BY <1>1, <3>1 DEF RowIsKnown, RefIsKnown, pane, bindings
  <2>3. CASE Redrive(r) \/ Crash(r)
    <3>1. ref'[r] = ref[r] /\ (receipt[r] = "none" => receipt'[r] = "none")
      BY <2>3 DEF Redrive, Crash, Leave
    <3> QED BY <1>1, <2>1, <3>1 DEF RefIsKnown, pane, bindings
  <2> QED BY <2>2, <2>3
<1>5. ClaimFitsPrompt'
  BY <1>1 DEF ClaimFitsPrompt
<1> QED BY <1>1, <1>2, <1>3, <1>4, <1>5, CallMoves

\* A claim that is abandoned is still the row's, or it is none.
LEMMA AbandonedFits ==
  ASSUME ClaimFitsPrompt, NEW r, Abandoned(r), UNCHANGED row
  PROVE  ClaimFitsPrompt' /\ (claim.state = "send_started" => claim' = claim)
<1>1. claim' \in {claim, Released(claim)}
  BY DEF Abandoned
<1>2. claim' = claim \/ (claim.state = "claimed" /\ claim' = NoClaim)
  BY <1>1 DEF Released
<1>3. NoClaim.state = "none"
  BY DEF NoClaim
<1> QED BY <1>2, <1>3 DEF ClaimFitsPrompt

\* A call claims its prompt and records that it will send, or it is refused.
LEMMA ClaimSteps ==
  ASSUME Types, Types', Rest, NEW r \in Requests,
         \/ Claim(r) \/ MarkStarted(r)
         \/ StartSend(r) /\ pc'[r] # "send"
  PROVE  Rest'
<1> USE DEF Rest
<1>1. UNCHANGED <<pane, bindings, row, observing, sent, told, ref, doubtful>>
  BY DEF Claim, MarkStarted, StartSend
<1>2. \A q \in Requests \ {r} :
         pc'[q] = pc[q] /\ receipt'[q] = receipt[q] /\ ref'[q] = ref[q]
  BY DEF Claim, MarkStarted, StartSend, Leave, Types, CallTypes
<1>3. CallInOrder(r)' /\ pc'[r] \notin {"send", "finish"} /\ receipt[r] # "none"
  <2>1. CallInOrder(r)
    BY DEF CallsInOrder
  <2>2. CASE Claim(r)
    BY <1>1, <2>1, <2>2 DEF Claim, CallInOrder, Leave, Types, CallTypes
  <2>3. CASE MarkStarted(r)
    BY <1>1, <2>1, <2>3 DEF MarkStarted, CallInOrder, Leave, Types, CallTypes
  <2>4. CASE StartSend(r) /\ pc'[r] # "send"
    BY <1>1, <2>1, <2>4 DEF StartSend, CallInOrder, Leave, Types, CallTypes
  <2> QED BY <2>2, <2>3, <2>4
<1>4. RefIsKnown(r)'
  BY <1>1, <1>3 DEF RefsAreKnown, RefIsKnown, pane, bindings
<1>5. ClaimFitsPrompt' /\ (claim.state = "send_started" => claim' = claim)
  <2>1. CASE Claim(r)
    BY <1>1, <2>1 DEF Claim, Current, Claimable, ClaimFitsPrompt
  <2>2. CASE MarkStarted(r)
    BY <1>1, <2>2, AbandonedFits DEF MarkStarted, ClaimFitsPrompt
  <2>3. CASE StartSend(r) /\ pc'[r] # "send"
    <3>1. Abandoned(r)
      BY <2>3 DEF StartSend, Types, CallTypes
    <3> QED BY <1>1, <3>1, AbandonedFits
  <2> QED BY <2>1, <2>2, <2>3
<1> QED BY <1>1, <1>2, <1>3, <1>4, <1>5, CallMoves

\* A request may send its answer when it has the claim of the fresh open prompt:
\* what another one sent is not that prompt.
LEMMA StartSendStep ==
  ASSUME Types, Types', Rest, NEW r \in Requests, StartSend(r), pc'[r] = "send"
  PROVE  Rest'
<1> USE DEF Rest
<1>1. /\ UNCHANGED <<pane, bindings, row, observing, ref, sent, told, receipt, doubtful>>
      /\ MayStart(r) /\ pc[r] = "start" /\ pc' = [pc EXCEPT ![r] = "send"]
      /\ claim' = [claim EXCEPT !.state = "send_started"]
  BY DEF StartSend, Leave, Types, CallTypes
<1>2. BindingsInOrder' /\ RowIsKnown' /\ ReadsInOrder' /\ ReadersAreLater'
  BY <1>1 DEF BindingsInOrder, RowIsKnown, ReadsInOrder, ReadersAreLater, Follows, ClosedAfter,
              Supersedes, pane, bindings, observing
<1>3. claim.by = r /\ row.state = "open" /\ row.fresh /\ row.rev = ref[r] /\ row.bind = binding
  BY <1>1 DEF MayStart, Mine, Current
<1>4. claim.rev = row.rev
  <2>1. claim.state # "none"
    BY <1>3, PromptAssumption DEF Types, IsClaim, NoClaim
  <2> QED BY <2>1 DEF Types, IsClaim, ClaimFitsPrompt
<1>5. claim'.state = "send_started" /\ claim'.by = r /\ claim'.rev = ref[r]
  BY <1>1, <1>3, <1>4 DEF Types, IsClaim
<1>6. ClaimFitsPrompt'
  BY <1>1, <1>3, <1>5 DEF ClaimFitsPrompt
<1>7. \A q \in Requests \ {r} : pc'[q] = pc[q]
  BY <1>1 DEF Types, CallTypes
<1>8. sent[r] = "no" /\ told[r] = "nothing" /\ receipt[r] = "send_started"
  BY <1>1 DEF CallsInOrder, CallInOrder
<1>9. CallsInOrder'
  <2> SUFFICES ASSUME NEW q \in Requests PROVE CallInOrder(q)'
    BY DEF CallsInOrder
  <2>1. CASE q = r
    BY <1>1, <1>8, <2>1 DEF CallInOrder, Types, CallTypes
  <2>2. CASE q # r
    BY <1>1, <1>7, <2>2 DEF CallsInOrder, CallInOrder
  <2> QED BY <2>1, <2>2
<1>10. RefsAreKnown'
  BY <1>1 DEF RefsAreKnown, RefIsKnown, pane, bindings
<1>11. ASSUME NEW q \in Requests \ {r}, Engaged(q)
       PROVE  Gone(ref[q])
  BY <1>3, <1>11 DEF AllTakenOrGone, IsTakenOrGone, Holds
<1>12. AllTakenOrGone'
  <2> SUFFICES ASSUME NEW q \in Requests PROVE IsTakenOrGone(q)'
    BY DEF AllTakenOrGone
  <2>1. CASE q = r
    BY <1>1, <1>5, <1>8, <2>1 DEF IsTakenOrGone, Holds
  <2>2. CASE q # r
    <3>1. (Engaged(q)' <=> Engaged(q)) /\ IsTakenOrGone(q)
      BY <1>1, <1>7, <2>2 DEF Engaged, AllTakenOrGone
    <3>2. Gone(ref[q]) => Gone(ref[q])'
      BY <1>1 DEF Gone, Shows, Found, pane, bindings, observing
    <3> QED BY <1>1, <1>11, <2>2, <3>1, <3>2 DEF IsTakenOrGone, pane
  <2> QED BY <2>1, <2>2
<1>13. RefsDiffer'
  <2>1. ASSUME NEW q \in Requests \ {r}, Engaged(q)
        PROVE  ref[q] # ref[r] \/ ref[q] \in doubtful
    BY <1>3, <1>11, <2>1 DEF Gone
  <2>2. \A q \in Requests \ {r} : Engaged(q)' <=> Engaged(q)
    BY <1>1, <1>7 DEF Engaged
  <2> QED BY <1>1, <2>1, <2>2 DEF RefsDiffer
<1> QED BY <1>2, <1>6, <1>9, <1>10, <1>12, <1>13

\* An answer that arrives closes its prompt.
LEMMA SendStep ==
  ASSUME Types, Types', Rest, NEW r \in Requests, Send(r)
  PROVE  Rest'
<1> USE DEF Rest
<1>1. /\ UNCHANGED <<asked, bindings, row, claim, observing, receipt, ref, told, doubtful>>
      /\ pc[r] = "send" /\ pc' = [pc EXCEPT ![r] = "finish"]
      /\ screen' \in {screen, 0}
  BY DEF Send, Nothing
<1>2. BindingsInOrder' /\ RowIsKnown' /\ ClaimFitsPrompt'
  BY <1>1 DEF BindingsInOrder, RowIsKnown, ClaimFitsPrompt, bindings, observing
<1>3. ReadsInOrder' /\ ReadersAreLater'
  <2>1. PICK m : Kept(m) /\ OldKept(m)
    BY <1>1, Unmoved DEF observing
  <2>2. \A p \in 1 .. asked : screen # p => screen' # p
    BY <1>1
  <2>3. row.rev.bind # 0 /\ screen # row.rev.prompt => screen' # row.rev.prompt
    BY <1>1 DEF RowIsKnown
  <2> QED BY <1>1, <2>1, <2>2, <2>3, Numbers, OrderKept, LaterKept
<1>4. ref[r].prompt # 0 /\ Engaged(r)
  BY <1>1, EngagedIsKnown DEF Engaged
<1>5. sent[r] = "no" /\ told[r] = "nothing" /\ receipt[r] = "send_started"
  BY <1>1 DEF CallsInOrder, CallInOrder
<1>6. sent'[r] \in {"confirmed", "unsure"} /\ (sent'[r] = "confirmed" => screen' # ref[r].prompt)
      /\ pc'[r] = "finish"
      /\ \A q \in Requests \ {r} : pc'[q] = pc[q] /\ sent'[q] = sent[q]
  BY <1>1, <1>4 DEF Send, Nothing, Types, CallTypes
<1>7. CallsInOrder'
  <2> SUFFICES ASSUME NEW q \in Requests PROVE CallInOrder(q)'
    BY DEF CallsInOrder
  <2>1. CASE q = r
    BY <1>1, <1>5, <1>6, <2>1 DEF CallInOrder
  <2>2. CASE q # r
    BY <1>1, <1>6, <2>2 DEF CallsInOrder, CallInOrder
  <2> QED BY <2>1, <2>2
<1>8. RefsAreKnown'
  BY <1>1 DEF RefsAreKnown, RefIsKnown, bindings
<1>9. \A q \in Requests : Engaged(q)' <=> Engaged(q)
  BY <1>1, <1>6 DEF Engaged
<1>10. ASSUME NEW q \in Requests, Engaged(q)
       PROVE  /\ screen # ref[q].prompt => screen' # ref[q].prompt
              /\ Gone(ref[q]) => Gone(ref[q])'
              /\ Holds(q) => Holds(q)'
  <2>1. screen # ref[q].prompt => screen' # ref[q].prompt
    BY <1>1, <1>10, EngagedIsKnown
  <2> QED BY <1>1, <2>1 DEF Gone, Shows, Found, Holds, bindings, observing
<1>11. AllTakenOrGone'
  <2> SUFFICES ASSUME NEW q \in Requests PROVE IsTakenOrGone(q)'
    BY DEF AllTakenOrGone
  <2>1. IsTakenOrGone(q) /\ (sent[q] = "confirmed" => Engaged(q))
    BY DEF AllTakenOrGone, Engaged
  <2> QED BY <1>1, <1>5, <1>6, <1>9, <1>10, <2>1 DEF IsTakenOrGone
<1>12. RefsDiffer'
  BY <1>1, <1>9 DEF RefsDiffer
<1> QED BY <1>2, <1>3, <1>7, <1>8, <1>11, <1>12

\* Only the call of r ends: what its answer leaves open is gone for good.
LEMMA CallEnds ==
  ASSUME Types, Types', Rest, NEW r \in Requests, pc[r] = "finish",
         pc' = [pc EXCEPT ![r] = "left"], UNCHANGED <<pane, bindings, ref, sent, doubtful>>,
         \A q \in Requests \ {r} : receipt'[q] = receipt[q] /\ told'[q] = told[q],
         receipt'[r] \notin {"none", "reserved"},
         row'.bind = row.bind, row.state = "absent" => row'.state = "absent",
         sent[r] = "confirmed" => Gone(ref[r])',
         \A q \in Requests :
            Engaged(q) => /\ Gone(ref[q]) => Gone(ref[q])'
                          /\ Holds(q) => Holds(q)' \/ Gone(ref[q])'
  PROVE  CallsInOrder' /\ RefsAreKnown' /\ AllTakenOrGone' /\ RefsDiffer'
<1> USE DEF Rest
<1>1. pc'[r] = "left" /\ \A q \in Requests \ {r} : pc'[q] = pc[q]
  BY DEF Types, CallTypes
<1>2. CallsInOrder'
  <2> SUFFICES ASSUME NEW q \in Requests PROVE CallInOrder(q)'
    BY DEF CallsInOrder
  <2>1. CallInOrder(q)
    BY DEF CallsInOrder
  <2> QED BY <1>1, <2>1 DEF CallInOrder
<1>3. RefsAreKnown'
  <2>1. receipt[r] # "none"
    BY DEF CallsInOrder, CallInOrder
  <2> QED BY <2>1 DEF RefsAreKnown, RefIsKnown, pane, bindings
<1>4. Engaged(r)' /\ Engaged(r) /\ \A q \in Requests \ {r} : Engaged(q)' <=> Engaged(q)
  BY <1>1 DEF CallsInOrder, CallInOrder, Engaged
<1>5. AllTakenOrGone'
  <2> SUFFICES ASSUME NEW q \in Requests PROVE IsTakenOrGone(q)'
    BY DEF AllTakenOrGone
  <2>1. IsTakenOrGone(q) /\ (sent[q] = "confirmed" => Engaged(q))
    BY DEF AllTakenOrGone, Engaged
  <2>2. screen' = screen
    BY DEF pane
  <2> QED BY <1>4, <2>1, <2>2 DEF IsTakenOrGone
<1>6. RefsDiffer'
  BY <1>4 DEF RefsDiffer
<1> QED BY <1>2, <1>3, <1>5, <1>6

\* The receipt, the prompt and the claim change together, or not at all.
LEMMA FinishStep ==
  ASSUME Types, Types', Rest, NEW r \in Requests, Finish(r)
  PROVE  Rest'
<1> USE DEF Rest
<1>1. /\ UNCHANGED <<pane, bindings, completions, listed, scan, ref, sent, doubtful>>
      /\ pc[r] = "finish" /\ pc' = [pc EXCEPT ![r] = "left"]
  BY DEF Finish, Leave
<1>2. \A q \in Requests \ {r} : receipt'[q] = receipt[q] /\ told'[q] = told[q]
  BY DEF Finish, Leave, Types, CallTypes
<1>3. Engaged(r) /\ sent[r] # "no" /\ receipt[r] \notin {"none", "reserved"}
  BY <1>1 DEF Engaged, CallsInOrder, CallInOrder
<1>4. receipt'[r] \notin {"none", "reserved"}
  BY <1>3 DEF Finish, Leave, Types, CallTypes
<1>5. CASE UNCHANGED <<row, claim, readers>> /\ (sent[r] = "confirmed" => ~StillAnswered(r))
  <2>1. /\ ClaimFitsPrompt' /\ BindingsInOrder' /\ RowIsKnown' /\ ReadsInOrder'
        /\ ReadersAreLater'
    BY <1>1, <1>5 DEF ClaimFitsPrompt, BindingsInOrder, RowIsKnown, ReadsInOrder,
                      ReadersAreLater, Follows, ClosedAfter, Supersedes, pane, bindings
  <2>2. ASSUME NEW q
        PROVE  (Gone(ref[q]) => Gone(ref[q])') /\ (Holds(q) => Holds(q)')
    BY <1>1, <1>5 DEF Gone, Shows, Found, Holds, pane, bindings
  <2>3. ASSUME sent[r] = "confirmed"
        PROVE  Gone(ref[r])
    <3> SUFFICES ASSUME Holds(r) PROVE Gone(ref[r])
      BY <1>3 DEF AllTakenOrGone, IsTakenOrGone
    <3>1. row.state \in {"open", "failed"} /\ row.rev = ref[r]
      BY DEF Holds, ClaimFitsPrompt
    <3>2. row.bind # ref[r].bind
      BY <1>5, <2>3, <3>1 DEF Holds, StillAnswered, Mine
    <3>3. ~(row.state = "open" /\ row.fresh)
      BY <3>1, <3>2 DEF RowIsKnown
    <3>4. ref[r].bind # binding
      BY <1>3, <3>1, <3>2, EngagedIsKnown DEF RefsAreKnown, RefIsKnown
    <3> QED BY <3>3, <3>4 DEF Gone
  <2>4. sent[r] = "confirmed" => Gone(ref[r])'
    BY <2>2, <2>3
  <2>5. row'.bind = row.bind /\ row'.state = row.state
    BY <1>5
  <2>6. CallsInOrder' /\ RefsAreKnown' /\ AllTakenOrGone' /\ RefsDiffer'
    BY <1>1, <1>2, <1>4, <2>2, <2>4, <2>5, CallEnds
  <2> QED BY <2>1, <2>6
<1>6. CASE /\ StillAnswered(r) /\ sent[r] = "confirmed"
           /\ row' = [NoRow EXCEPT !.state = "none", !.bind = row.bind]
           /\ claim' = NoClaim
           /\ readers' = TombstoneDated
  <2>1. row'.state = "none" /\ row'.rev = NoRevision /\ row'.bind = row.bind
    <3>1. row.bind \in 0..MaxBindings
      BY DEF Types, IsRow
    <3>2. \A b \in 0..MaxBindings : \A n :
             n = [NoRow EXCEPT !.state = "none", !.bind = b] =>
                n.state = "none" /\ n.rev = NoRevision /\ n.bind = b
      BY ClosedRows
    <3> QED BY <1>6, <3>1, <3>2
  <2>2. NoRevision.prompt = 0 /\ NoRevision.bind = 0 /\ NoClaim.state = "none"
    BY DEF NoRevision, NoClaim
  <2>3. /\ DOMAIN readers' = DOMAIN readers
        /\ \A j \in DOMAIN readers : /\ SameRead(readers'[j], readers[j]) /\ readers'[j].old
                                     /\ readers'[j].crossed = readers[j].crossed
    <3>1. Len(readers) \in Nat /\ DOMAIN readers = 1 .. Len(readers)
      BY LenProperties DEF Types, ObservingTypes
    <3>2. readers' = [j \in DOMAIN readers |->
                         [readers[j] EXCEPT !.old = @ \/ j < Len(readers) + 1]]
      BY <1>6 DEF TombstoneDated, OutdatedBy
    <3>3. ASSUME NEW j \in DOMAIN readers
          PROVE  /\ SameRead(readers'[j], readers[j]) /\ readers'[j].old
                 /\ readers'[j].crossed = readers[j].crossed
      <4>1. j < Len(readers) + 1
        BY <3>1
      <4>2. readers[j] \in Reader
        BY Numbers
      <4>3. readers'[j] = [readers[j] EXCEPT !.old = TRUE]
        BY <3>2, <4>1
      <4> QED BY <4>2, <4>3 DEF Reader, SameRead
    <3> QED BY <3>2, <3>3
  <2>4. ClaimFitsPrompt'
    BY <1>6, <2>2 DEF ClaimFitsPrompt
  <2>5. ReadsInOrder'
    <3> DEFINE m == [j \in DOMAIN readers |-> j]
    <3>1. Kept(m)
      BY <2>3 DEF Kept
    <3> HIDE DEF m
    <3>2. screen' = screen
      BY <1>1 DEF pane
    <3> QED BY <3>1, <3>2, OrderKept
  <2>6. BindingsInOrder'
    BY <1>1, <2>1, <2>3 DEF BindingsInOrder, bindings, SameRead
  <2>7. RowIsKnown'
    BY <1>1, <1>6, <2>1, <2>2, Numbers DEF RowIsKnown, StillAnswered, pane, bindings
  <2>8. ReadersAreLater'
    <3>1. \A j \in DOMAIN readers' : readers'[j].saw <= asked' /\ readers'[j].bind # 0
      BY <1>1, <2>3, Numbers DEF ReadersAreLater, SameRead, pane
    <3> QED BY <2>1, <2>2, <3>1 DEF ReadersAreLater, Supersedes, Contradicts
  <2>9. ASSUME NEW rev, screen # rev.prompt \/ rev.bind # binding
        PROVE  ~(row'.state = "open" /\ row'.fresh /\ row'.rev = rev)
               /\ \/ rev.bind # binding'
                  \/ /\ screen' # rev.prompt
                     /\ \A j \in DOMAIN readers' : ~Shows(readers'[j], rev)
    BY <1>1, <2>1, <2>3, <2>9 DEF Shows, pane, bindings
  <2>10. Gone(ref[r])'
    <3>1. screen # ref[r].prompt
      BY <1>6 DEF AllTakenOrGone, IsTakenOrGone
    <3> QED BY <1>1, <2>9, <3>1 DEF Gone
  <2>11. ASSUME NEW q \in Requests, Engaged(q)
         PROVE  /\ Gone(ref[q]) => Gone(ref[q])'
                /\ Holds(q) => Holds(q)' \/ Gone(ref[q])'
    <3>1. Gone(ref[q]) => \/ ref[q] \in doubtful
                          \/ screen # ref[q].prompt \/ ref[q].bind # binding
      BY DEF Gone
    <3>2. Holds(q) => q = r
      BY <1>6 DEF Holds, StillAnswered, Mine
    <3> QED BY <1>1, <2>9, <2>10, <3>1, <3>2 DEF Gone
  <2>12. CallsInOrder' /\ RefsAreKnown' /\ AllTakenOrGone' /\ RefsDiffer'
    <3>1. row.state # "absent"
      BY <1>6 DEF StillAnswered
    <3> QED BY <1>1, <1>2, <1>4, <2>1, <2>10, <2>11, <3>1, CallEnds
  <2> QED BY <2>4, <2>5, <2>6, <2>7, <2>8, <2>12
<1>7. sent[r] \in {"confirmed", "unsure"}
  BY <1>3 DEF Types, CallTypes
<1> QED BY <1>5, <1>6, <1>7 DEF Finish, UncertainClaim

\* A claim lapses, a grace period ends.
LEMMA TimeSteps ==
  ASSUME Types, Types', Rest, ClaimLapses \/ GraceEnds
  PROVE  Rest'
<1> USE DEF Rest
<1>1. UNCHANGED <<pane, bindings, observing, calls, doubtful>>
  BY DEF ClaimLapses, GraceEnds
<1>2. /\ row'.state = row.state /\ row'.fresh = row.fresh /\ row'.rev = row.rev
      /\ row'.bind = row.bind
  BY DEF ClaimLapses, GraceEnds, Types, IsRow
<1>3. \/ claim' = claim
      \/ claim.state = "claimed" /\ claim'.state = "claimed" /\ claim'.rev = claim.rev
  BY DEF ClaimLapses, GraceEnds, Types, IsClaim
<1>4. ClaimFitsPrompt'
  BY <1>2, <1>3 DEF ClaimFitsPrompt
<1>5. BindingsInOrder' /\ RowIsKnown' /\ ReadsInOrder' /\ ReadersAreLater'
  BY <1>1, <1>2 DEF BindingsInOrder, RowIsKnown, ReadsInOrder, ReadersAreLater, Follows,
                    ClosedAfter, Supersedes, pane, bindings, observing
<1>6. ASSUME NEW q
      PROVE  (Gone(ref[q]) => Gone(ref[q])') /\ (Holds(q) => Holds(q)')
  BY <1>1, <1>2, <1>3 DEF Gone, Shows, Found, Holds, pane, bindings, observing, calls
<1>7. /\ asked <= asked' /\ issued <= issued' /\ screen' = screen
      /\ \A r \in Requests :
            ref[r].bind = binding' /\ binding' # 0
               => row'.bind = binding' \/ row'.state = "absent"
  BY <1>1, <1>2, Numbers DEF RefsAreKnown, RefIsKnown, pane, bindings
<1>8. CallsInOrder' /\ RefsAreKnown' /\ AllTakenOrGone' /\ RefsDiffer'
  BY <1>1, <1>6, <1>7, CallsUntouched
<1> QED BY <1>4, <1>5, <1>8

\* The invariant of the prompts holds in every reachable state.
LEMMA PromptsInvariant == Spec => []PromptsInv
<1>1. Init => Rest
  <2> SUFFICES ASSUME Init PROVE Rest
    OBVIOUS
  <2>1. NoRow.rev = NoRevision /\ NoRow.bind = 0 /\ NoRow.state = "absent"
        /\ NoClaim.state = "none" /\ NoRevision.prompt = 0 /\ NoRevision.bind = 0
    BY DEF NoRow, NoClaim, NoRevision
  <2>2. readers = <<>> /\ DOMAIN readers = {}
    BY DEF Init
  <2>3. ClaimFitsPrompt /\ BindingsInOrder /\ RowIsKnown
    BY <2>1, <2>2 DEF Init, ClaimFitsPrompt, BindingsInOrder, RowIsKnown
  <2>4. ReadsInOrder /\ ReadersAreLater
    BY <2>2 DEF Init, ReadsInOrder, ReadersAreLater
  <2>5. \A r \in Requests : ~Engaged(r)
    BY DEF Init, Engaged
  <2>6. CallsInOrder /\ AllTakenOrGone /\ RefsDiffer
    BY <2>5 DEF Init, CallsInOrder, CallInOrder, AllTakenOrGone, IsTakenOrGone, RefsDiffer
  <2>7. RefsAreKnown
    BY <2>1 DEF Init, RefsAreKnown, RefIsKnown
  <2> QED BY <2>3, <2>4, <2>6, <2>7 DEF Rest
<1>2. Types /\ Types' /\ Rest /\ [Next]_vars => Rest'
  <2> SUFFICES ASSUME Types, Types', Rest, [Next]_vars PROVE Rest'
    OBVIOUS
  <2>1. CASE UNCHANGED vars
    <3>1. UNCHANGED <<bindings, row, claim, calls, doubtful, screen, asked, readers>>
      BY <2>1 DEF vars, pane, observing
    <3>2. PICK m : Kept(m) /\ OldKept(m)
      BY <3>1, Unmoved
    <3>3. \A j \in DOMAIN readers' : readers'[j].bind <= issued
      BY <3>1 DEF Rest, BindingsInOrder
    <3> QED BY <3>1, <3>2, <3>3, ReadersKept
  <2>2. CASE ShowPrompt \/ ClosePrompt \/ Rebind \/ Unbind \/ ClaimLapses \/ GraceEnds
    BY <2>2, PaneSteps, BindingSteps, TimeSteps
  <2>3. CASE Observe
    BY <2>3, BeginStep, ReadPaneStep, ListStep, ApplyStep, PruneStep DEF Observe
  <2>4. ASSUME NEW r \in Requests, Answer(r)
        PROVE  Rest'
    <3>1. CASE StartSend(r)
      BY <3>1, ClaimSteps, StartSendStep
    <3> QED BY <2>4, <3>1, ReserveSteps, ClaimSteps, SendStep, FinishStep DEF Answer
  <2> QED BY <2>1, <2>2, <2>3, <2>4 DEF Next
<1>3. PromptsInv <=> TypeOK /\ Rest
  BY DEF PromptsInv, Rest
<1>4. Types /\ Rest /\ Types' /\ [Next]_vars => Rest'
  BY <1>2
<1> QED BY <1>1, <1>3, <1>4, TypesAre, TypesAlways, PTL DEF Spec

\* No two requests send an answer for the same revision of a prompt, whatever lapses,
\* fails, goes stale or is pruned between their calls, and whatever reads a completed
\* turn starts beside the scheduler's, unless observations of that revision crossed.
THEOREM OneAnswerAPrompt == Spec => []AtMostOneAnswer
<1>1. PromptsInv => AtMostOneAnswer
  BY DEF PromptsInv, RefsDiffer, Engaged, AtMostOneAnswer, TypeOK
<1> QED BY <1>1, PromptsInvariant, PTL

\* A claim is the row's, and a prompt whose answer was confirmed does not come back
\* once the call has returned, unless observations of its revision crossed.
THEOREM ClaimsFitAlways == Spec => []ClaimsFit
<1>1. PromptsInv => ClaimsFit
  BY DEF PromptsInv, AllTakenOrGone, IsTakenOrGone, Gone, AnsweredIsClosed, ClaimsFit
<1> QED BY <1>1, PromptsInvariant, PTL

=============================================================================
