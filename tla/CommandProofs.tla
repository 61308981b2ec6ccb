---------------------------- MODULE CommandProofs ----------------------------
(***************************************************************************)
(* Proofs about submit_command, for every set of requests, tokens, workers *)
(* and attempts and every admissible policy.  First the transactions of    *)
(* CommandLedger, whoever calls them; then the concurrent calls of         *)
(* CommandSubmission, which only ever move the store by these transactions *)
(* and whose answers are true of what was delivered.                       *)
(***************************************************************************)
EXTENDS CommandSubmission, TLAPS

-----------------------------------------------------------------------------
\* The ledger: types

\* The placeholder of a missing row has the type of a row.
LEMMA NoRowTypes == NoReceipt \in Receipt /\ NoSubmission \in Submission
<1>1. Mutations # {} /\ Selectors # {}
  <2>1. PICK w \in Workers, t \in Texts : TRUE
    BY PolicyAssumption
  <2>2. [worker |-> w, text |-> t] \in Mutations
    BY DEF Mutations
  <2> QED BY <2>2, PolicyAssumption
<1>2. (CHOOSE m \in Mutations : TRUE) \in Mutations
  BY <1>1
<1>3. (CHOOSE s \in Selectors : TRUE) \in Selectors
  BY <1>1
<1> QED BY <1>2, <1>3 DEF NoReceipt, NoSubmission, Receipt, Submission, ReceiptStates,
              Results, SubmissionStates

\* The fields of the placeholder that the proofs below read.
LEMMA NoReceiptFields ==
    NoReceipt.state = "none" /\ NoReceipt.sentAt = 0 /\ NoReceipt.updatedAt = 0
BY DEF NoReceipt

\* Closing a row, terminalizing, expiring or settling a ledger row keeps types.
LEMMA RowOperatorTypes ==
    ASSUME now \in Nat, NEW row \in Receipt, NEW sub \in Submission
    PROVE  /\ \A t \in TerminalStates : /\ Closed(row, t) \in Receipt
                                        /\ Terminalized(sub, t) \in Submission
           /\ HardExpired(sub) \in Submission
           /\ Settled(sub) \subseteq Submission
<1>1. \A t \in TerminalStates : Closed(row, t) \in Receipt
  BY DEF Closed, Receipt, ReceiptStates, Results, TerminalStates
<1>2. \A t \in TerminalStates : SubmissionStateOf[t] \in SubmissionStates
  BY DEF SubmissionStateOf, TerminalStates, SubmissionStates, OpenStates
<1>3. \A t \in TerminalStates : Terminalized(sub, t) \in Submission
  BY <1>2 DEF Terminalized, Submission
<1>4. HardExpired(sub) \in Submission
  BY DEF HardExpired, Submission, SubmissionStates
<1>5. SettledStates(sub) \subseteq SubmissionStates
  BY DEF SettledStates, SubmissionStates, OpenStates, Submission
<1>6. Settled(sub) \subseteq Submission
  BY <1>5 DEF Settled, Submission
<1> QED BY <1>1, <1>3, <1>4, <1>6

\* The clock and the policy values are numbers.
LEMMA PolicyTypes ==
    /\ Lease \in Nat /\ LinkWindow \in Nat /\ HardTTL \in Nat /\ AckTimeout \in Nat
    /\ RetryHorizon \in Nat /\ Retention \in Nat /\ Batch \in Nat /\ MaxTime \in Nat
BY PolicyAssumption

\* An empty store is well-formed.
LEMMA TypeInit == LedgerInit => LedgerTypeOK
BY NoRowTypes DEF LedgerInit, LedgerTypeOK

\* Every transaction, and the clock, keeps the tables well-formed.
LEMMA TypeStep == LedgerTypeOK /\ [LedgerNext]_ledgerVars => LedgerTypeOK'
<1> SUFFICES ASSUME LedgerTypeOK, [LedgerNext]_ledgerVars PROVE LedgerTypeOK'
  OBVIOUS
<1> USE DEF LedgerTypeOK
<1>1. ASSUME NEW r \in Requests, RequestStep(r) PROVE LedgerTypeOK'
  <2>1. ASSUME NEW m \in Mutations, NEW o \in Tokens, NEW p \in Selectors, Reserve(r, m, p, o)
        PROVE  LedgerTypeOK'
    <3>1. receipts[r].proof \in Selectors
      BY DEF Receipt
    <3> QED BY <2>1, <3>1, PolicyTypes DEF Reserve, Receipt, ReceiptStates, ActiveStates, Results
  <2>2. ASSUME NEW m \in Mutations, NEW o \in Tokens, Abandon(r, m, o) PROVE LedgerTypeOK'
    BY <2>2 DEF Abandon, Receipt
  <2>3. ASSUME NEW m \in Mutations, NEW o \in Tokens, MarkSendStarted(r, m, o)
        PROVE  LedgerTypeOK'
    <3>1. receipts' \in [Requests -> Receipt]
      BY <2>3 DEF MarkSendStarted, Receipt, ReceiptStates, ActiveStates
    <3>2. [state |-> "send_started", queued |-> FALSE, anchorAt |-> now,
           linkExpires |-> now + LinkWindow, hardExpires |-> now + HardTTL] \in Submission
      BY PolicyTypes DEF Submission, SubmissionStates, OpenStates
    <3>3. submissions' \in [Requests -> Submission]
      BY <2>3, <3>2 DEF MarkSendStarted
    <3>4. starts' \in [Requests -> Seq(Nat)] /\ now' \in Nat
      BY <2>3 DEF MarkSendStarted
    <3> QED BY <3>1, <3>3, <3>4
  <2>4. ASSUME NEW m \in Mutations, NEW o \in Tokens, RecordSendQueued(r, m, o)
        PROVE  LedgerTypeOK'
    <3>1. receipts' \in [Requests -> Receipt]
      <4>1. ASSUME NEW row \in Receipt
            PROVE  [row EXCEPT !.result = "queued", !.updatedAt = now] \in Receipt
        <5>1. "queued" \in Results /\ now \in Nat
          BY DEF Results
        <5> QED BY <5>1 DEF Receipt
      <4>2. receipts' = [receipts EXCEPT ![r] = [receipts[r] EXCEPT !.result = "queued", !.updatedAt = now]]
        BY <2>4 DEF RecordSendQueued
      <4> QED BY <4>1, <4>2
    <3>2. submissions' \in [Requests -> Submission]
      BY <2>4 DEF RecordSendQueued, Submission, SubmissionStates, OpenStates
    <3> QED BY <2>4, <3>1, <3>2 DEF RecordSendQueued
  <2>5. ASSUME NEW m \in Mutations, NEW o \in Tokens, NEW e \in ActiveStates,
               NEW t \in TerminalStates, FinishRequest(r, m, o, e, t)
        PROVE  LedgerTypeOK'
    BY <2>5, RowOperatorTypes DEF FinishRequest
  <2>6. ASSUME NEW m \in Mutations, FinishQueued(r, m) PROVE LedgerTypeOK'
    <3>1. Closed(receipts[r], "accepted") \in Receipt
      BY RowOperatorTypes DEF TerminalStates
    <3> QED BY <2>6, <3>1 DEF FinishQueued
  <2>7. ASSUME NEW m \in Mutations, FinishUnverifiedQueued(r, m) PROVE LedgerTypeOK'
    BY <2>7, RowOperatorTypes DEF FinishUnverifiedQueued, TerminalStates
  <2>8. ASSUME NEW m \in Mutations, RecoverUnresolved(r, m) PROVE LedgerTypeOK'
    BY <2>8, RowOperatorTypes DEF RecoverUnresolved, TerminalStates
  <2>9. ASSUME NEW m \in Mutations, NEW p \in Selectors, NEW t \in TerminalStates,
               RestoreTerminal(r, m, p, t)
        PROVE  LedgerTypeOK'
    <3>1. [NoReceipt EXCEPT !.state = t, !.result = "final", !.mutation = m,
                            !.proof = p, !.updatedAt = now] \in Receipt
      BY NoRowTypes DEF Receipt, ReceiptStates, Results
    <3> QED BY <2>9, <3>1 DEF RestoreTerminal
  <2>10. ASSUME SettleComponent(r) PROVE LedgerTypeOK'
    <3>1. PICK f : /\ f \in [Requests -> UNION {Settled(submissions[q]) : q \in Requests}]
                   /\ submissions' = f
      BY <2>10 DEF SettleComponent
    <3>2. UNION {Settled(submissions[q]) : q \in Requests} \subseteq Submission
      BY NoRowTypes, RowOperatorTypes
    <3> QED BY <2>10, <3>1, <3>2 DEF SettleComponent
  <2>11. ASSUME CancelSubmission(r) PROVE LedgerTypeOK'
    BY <2>11 DEF CancelSubmission, Submission, SubmissionStates
  <2> QED BY <1>1, <2>1, <2>2, <2>3, <2>4, <2>5, <2>6, <2>7, <2>8, <2>9, <2>10, <2>11
          DEF RequestStep
<1>2. ASSUME SweepLinks PROVE LedgerTypeOK'
  <2>1. PICK f : /\ \A q \in Requests : f[q] \in Settled(submissions[q])
                 /\ submissions' = [q \in Requests |-> HardExpired(f[q])]
    BY <1>2 DEF SweepLinks
  <2>2. \A q \in Requests : f[q] \in Submission
    BY <2>1, NoRowTypes, RowOperatorTypes
  <2>3. \A q \in Requests : HardExpired(f[q]) \in Submission
    BY <2>2, NoRowTypes, RowOperatorTypes
  <2> QED BY <1>2, <2>1, <2>3 DEF SweepLinks
<1>3. ASSUME SweepExpired PROVE LedgerTypeOK'
  BY <1>3, NoRowTypes, RowOperatorTypes DEF SweepExpired
<1>4. ASSUME Cleanup PROVE LedgerTypeOK'
  <2> PICK stale \in SUBSET StaleSends, gone \in SUBSET Aged :
        /\ receipts' = [r \in Requests |->
               CASE r \in stale -> Closed(receipts[r], "uncertain")
                 [] r \in gone -> NoReceipt
                 [] OTHER -> receipts[r]]
        /\ submissions' = [r \in Requests |->
               CASE r \in stale -> Terminalized(HardExpired(submissions[r]), "uncertain")
                 [] r \in gone -> NoSubmission
                 [] OTHER -> HardExpired(submissions[r])]
        /\ UNCHANGED <<now, starts>>
    BY <1>4 DEF Cleanup
  <2>1. \A r \in Requests : Closed(receipts[r], "uncertain") \in Receipt
    BY RowOperatorTypes DEF TerminalStates
  <2>2. \A r \in Requests : HardExpired(submissions[r]) \in Submission
    BY RowOperatorTypes
  <2>3. \A r \in Requests :
            Terminalized(HardExpired(submissions[r]), "uncertain") \in Submission
    BY <2>2, RowOperatorTypes DEF TerminalStates
  <2>4. receipts' \in [Requests -> Receipt]
    BY <2>1, NoRowTypes
  <2>5. submissions' \in [Requests -> Submission]
    BY <2>2, <2>3, NoRowTypes
  <2> QED BY <2>4, <2>5
<1>5. ASSUME Tick PROVE LedgerTypeOK'
  BY <1>5 DEF Tick
<1>6. ASSUME UNCHANGED ledgerVars PROVE LedgerTypeOK'
  BY <1>6 DEF ledgerVars
<1> QED BY <1>1, <1>2, <1>3, <1>4, <1>5, <1>6 DEF LedgerNext

\* Every state of the two tables is well-formed, whatever transactions commit
\* in whatever order.
THEOREM LedgerTypeCorrect == LedgerSpec => []LedgerTypeOK
<1> QED BY TypeInit, TypeStep, PTL DEF LedgerSpec

-----------------------------------------------------------------------------
\* What a transaction can do to a receipt

\* Every transaction but mark_command_send_started leaves a row alone, reserves
\* it (again), records a queued verdict, closes it or forgets it.
Moves(row, new) ==
    \/ new = row
    \/ /\ row.state \in {"none", "reserved"} /\ new.state = "reserved"
       /\ new.updatedAt = now /\ new.sentAt \in {0, row.sentAt}
    \/ /\ row.state = "send_started" /\ new.state = "send_started"
       /\ new.updatedAt = now /\ new.sentAt = row.sentAt
    \/ /\ row.state \in {"none", "reserved", "send_started"} /\ new.state \in TerminalStates
       /\ new.state = "accepted" => row.state = "send_started"
       /\ new.updatedAt = now /\ new.sentAt \in {0, row.sentAt}
    \/ /\ row.state \in TerminalStates \cup {"reserved"} /\ row.updatedAt + Retention < now
       /\ new = NoReceipt

Sends == \E r \in Requests, m \in Mutations, o \in Tokens : MarkSendStarted(r, m, o)

\* A step that changes one row moves every row when it moves that one.
LEMMA OneRowMoves ==
    ASSUME LedgerTypeOK, NEW r \in Requests, NEW new,
           receipts' = [receipts EXCEPT ![r] = new], Moves(receipts[r], new)
    PROVE  \A q \in Requests : Moves(receipts[q], receipts'[q])
BY DEF LedgerTypeOK, Moves

\* Closing a row is one of the moves.
LEMMA ClosedMoves ==
    ASSUME NEW row \in Receipt, NEW t \in TerminalStates,
           row.state \in {"none", "reserved", "send_started"},
           t = "accepted" => row.state = "send_started"
    PROVE  Moves(row, Closed(row, t))
BY DEF Moves, Closed, Receipt

\* Every step is a tick, a send, or a transaction that moves the rows.
LEMMA StepMoves ==
    ASSUME LedgerTypeOK, LedgerNext
    PROVE  \/ Tick
           \/ Sends
           \/ UNCHANGED <<now, starts>> /\ \A q \in Requests : Moves(receipts[q], receipts'[q])
<1> DEFINE Quiet == UNCHANGED <<now, starts>> /\ \A q \in Requests : Moves(receipts[q], receipts'[q])
<1>0. ASSUME UNCHANGED <<now, receipts, starts>> PROVE Quiet
  BY <1>0 DEF Moves
<1>1. ASSUME NEW r \in Requests, RequestStep(r) PROVE Sends \/ Quiet
  <2>0. receipts[r] \in Receipt
    BY DEF LedgerTypeOK
  <2>1. ASSUME NEW m \in Mutations, NEW o \in Tokens, NEW p \in Selectors, Reserve(r, m, p, o)
        PROVE  Quiet
    <3>1. receipts[r].state \in {"none", "reserved"}
      BY <2>1, <2>0 DEF Reserve, ReserveResponse, Receipt, ReceiptStates, ActiveStates,
                        TerminalStates
    <3> DEFINE new == [state |-> "reserved", result |-> "pending", mutation |-> m,
                       proof |-> IF receipts[r].state = "none" THEN p ELSE receipts[r].proof,
                       owner |-> o, expires |-> now + Lease, sentAt |-> 0, updatedAt |-> now]
    <3>2. receipts' = [receipts EXCEPT ![r] = new] /\ UNCHANGED <<now, starts>>
      BY <2>1 DEF Reserve
    <3>3. Moves(receipts[r], new)
      BY <3>1 DEF Moves
    <3> HIDE DEF new
    <3> QED BY <3>2, <3>3, OneRowMoves
  <2>2. ASSUME NEW m \in Mutations, NEW o \in Tokens, Abandon(r, m, o) PROVE Quiet
    <3>1. Moves(receipts[r], [receipts[r] EXCEPT !.expires = now, !.updatedAt = now])
      BY <2>2, <2>0 DEF Abandon, Moves, Receipt
    <3> QED BY <2>2, <3>1, OneRowMoves DEF Abandon
  <2>4. ASSUME NEW m \in Mutations, NEW o \in Tokens, RecordSendQueued(r, m, o) PROVE Quiet
    <3>1. Moves(receipts[r], [receipts[r] EXCEPT !.result = "queued", !.updatedAt = now])
      BY <2>4, <2>0 DEF RecordSendQueued, CanRecordQueued, Owns, Moves, Receipt
    <3> QED BY <2>4, <3>1, OneRowMoves DEF RecordSendQueued
  <2>5. ASSUME NEW m \in Mutations, NEW o \in Tokens, NEW e \in ActiveStates,
               NEW t \in TerminalStates, FinishRequest(r, m, o, e, t)
        PROVE  Quiet
    <3>1. Moves(receipts[r], Closed(receipts[r], t))
      <4>1. /\ receipts[r].state \in {"none", "reserved", "send_started"}
            /\ t = "accepted" => receipts[r].state = "send_started"
        BY <2>5 DEF FinishRequest, Owns, ActiveStates
      <4> QED BY <4>1, <2>0, ClosedMoves
    <3> QED BY <2>5, <3>1, OneRowMoves DEF FinishRequest
  <2>6. ASSUME NEW m \in Mutations, FinishQueued(r, m) PROVE Quiet
    <3>1. CASE receipts[r].state = "send_started"
      <4>1. Moves(receipts[r], Closed(receipts[r], "accepted"))
        BY <3>1, <2>0, ClosedMoves DEF TerminalStates
      <4>2. Moves(receipts[r], receipts[r])
        BY DEF Moves
      <4> QED BY <2>6, <4>1, <4>2, OneRowMoves DEF FinishQueued
    <3>2. CASE receipts[r].state # "send_started"
      <4>1. receipts' = receipts
        BY <2>6, <3>2 DEF FinishQueued, LedgerTypeOK
      <4> QED BY <2>6, <4>1, <1>0 DEF FinishQueued
    <3> QED BY <3>1, <3>2
  <2>7. ASSUME NEW m \in Mutations, FinishUnverifiedQueued(r, m) PROVE Quiet
    <3>1. Moves(receipts[r], Closed(receipts[r], "uncertain"))
      BY <2>7, <2>0, ClosedMoves DEF FinishUnverifiedQueued, Unverifiable, TerminalStates
    <3> QED BY <2>7, <3>1, OneRowMoves DEF FinishUnverifiedQueued
  <2>8. ASSUME NEW m \in Mutations, RecoverUnresolved(r, m) PROVE Quiet
    <3>1. Moves(receipts[r], Closed(receipts[r], "uncertain"))
      BY <2>8, <2>0, ClosedMoves DEF RecoverUnresolved, Unresolved, TerminalStates
    <3> QED BY <2>8, <3>1, OneRowMoves DEF RecoverUnresolved
  <2>9. ASSUME NEW m \in Mutations, NEW p \in Selectors, NEW t \in TerminalStates,
               RestoreTerminal(r, m, p, t)
        PROVE  Quiet
    <3> DEFINE new == [NoReceipt EXCEPT !.state = t, !.result = "final", !.mutation = m,
                                        !.proof = p, !.updatedAt = now]
    <3>1. Moves(receipts[r], new)
      BY <2>9 DEF RestoreTerminal, Moves, NoReceipt
    <3>2. receipts' = [receipts EXCEPT ![r] = new] /\ UNCHANGED <<now, starts>>
      BY <2>9 DEF RestoreTerminal
    <3> HIDE DEF new
    <3> QED BY <3>1, <3>2, OneRowMoves
  <2>10. ASSUME SettleComponent(r) PROVE Quiet
    BY <2>10, <1>0 DEF SettleComponent
  <2>11. ASSUME CancelSubmission(r) PROVE Quiet
    BY <2>11, <1>0 DEF CancelSubmission
  <2> QED BY <1>1, <2>1, <2>2, <2>4, <2>5, <2>6, <2>7, <2>8, <2>9, <2>10, <2>11
          DEF RequestStep, Sends
<1>2. ASSUME SweepLinks PROVE Quiet
  BY <1>2, <1>0 DEF SweepLinks
<1>3. ASSUME SweepExpired PROVE Quiet
  BY <1>3, <1>0 DEF SweepExpired
<1>4. ASSUME Cleanup PROVE Quiet
  <2> PICK stale \in SUBSET StaleSends, gone \in SUBSET Aged :
        /\ receipts' = [r \in Requests |->
               CASE r \in stale -> Closed(receipts[r], "uncertain")
                 [] r \in gone -> NoReceipt
                 [] OTHER -> receipts[r]]
        /\ UNCHANGED <<now, starts>>
    BY <1>4 DEF Cleanup
  <2> SUFFICES ASSUME NEW q \in Requests PROVE Moves(receipts[q], receipts'[q])
    OBVIOUS
  <2>0. receipts[q] \in Receipt /\ now \in Nat /\ Retention \in Nat
    BY PolicyTypes DEF LedgerTypeOK
  <2>1. CASE q \in stale
    <3>1. Moves(receipts[q], Closed(receipts[q], "uncertain"))
      BY <2>1, <2>0, ClosedMoves DEF StaleSends, TerminalStates
    <3>2. receipts'[q] = Closed(receipts[q], "uncertain")
      <4>1. q \notin gone
        BY <2>1 DEF StaleSends, Aged, Inactive, TerminalStates
      <4> QED BY <2>1, <4>1
    <3> QED BY <3>1, <3>2
  <2>2. CASE q \notin stale /\ q \in gone
    <3>1. receipts'[q] = NoReceipt
      BY <2>2
    <3>2. /\ receipts[q].state \in TerminalStates \cup {"reserved"}
          /\ receipts[q].updatedAt + Retention < now
      <4>1. q \in Inactive /\ receipts[q].updatedAt < now - Retention
        BY <2>2 DEF Aged
      <4>2. receipts[q].updatedAt \in Nat
        BY <2>0 DEF Receipt
      <4> QED BY <4>1, <4>2, <2>0 DEF Inactive
    <3> QED BY <3>1, <3>2 DEF Moves
  <2>3. CASE q \notin stale /\ q \notin gone
    BY <2>3 DEF Moves
  <2> QED BY <2>1, <2>2, <2>3
<1> QED BY <1>1, <1>2, <1>3, <1>4 DEF LedgerNext

-----------------------------------------------------------------------------
\* At most one send within Retention.
\*
\* SendsAreSpaced is not inductive: a step that sends must know that every
\* earlier send of the request is old.  StartsAreDated says how old the sends
\* of a request are, as told by its row.

StartsAreDated ==
    \A r \in Requests : \A i \in 1..Len(starts[r]) :
        /\ receipts[r].state \in {"none", "reserved"} => starts[r][i] + Retention < now
        /\ receipts[r].state = "send_started" => starts[r][i] <= receipts[r].sentAt
        /\ receipts[r].state \in TerminalStates => starts[r][i] <= receipts[r].updatedAt

RowsAreDated ==
    \A r \in Requests : receipts[r].sentAt <= now /\ receipts[r].updatedAt <= now

SpacingInv == LedgerTypeOK /\ RowsAreDated /\ StartsAreDated /\ SendsAreSpaced

\* A transaction that does not send preserves the invariant.
LEMMA QuietStep ==
    ASSUME SpacingInv, LedgerTypeOK', UNCHANGED <<now, starts>>,
           \A r \in Requests : Moves(receipts[r], receipts'[r])
    PROVE  SpacingInv'
<1>1. RowsAreDated'
  <2> SUFFICES ASSUME NEW r \in Requests
               PROVE  receipts'[r].sentAt <= now /\ receipts'[r].updatedAt <= now
    BY DEF RowsAreDated
  <2>1. now \in Nat /\ receipts[r].sentAt <= now /\ receipts[r].updatedAt <= now
    BY DEF SpacingInv, RowsAreDated, LedgerTypeOK
  <2>2. receipts[r].sentAt \in Nat /\ receipts[r].updatedAt \in Nat
    BY DEF SpacingInv, LedgerTypeOK, Receipt
  <2>3. Moves(receipts[r], receipts'[r])
    OBVIOUS
  <2> QED BY <2>1, <2>2, <2>3, NoReceiptFields DEF Moves
<1>2. SendsAreSpaced'
  BY DEF SpacingInv, SendsAreSpaced
<1>3. StartsAreDated'
  <2> SUFFICES ASSUME NEW r \in Requests, NEW i \in 1..Len(starts[r])
               PROVE  /\ receipts'[r].state \in {"none", "reserved"} => starts[r][i] + Retention < now
                      /\ receipts'[r].state = "send_started" => starts[r][i] <= receipts'[r].sentAt
                      /\ receipts'[r].state \in TerminalStates =>
                            starts[r][i] <= receipts'[r].updatedAt
    BY DEF StartsAreDated
  <2>1. starts[r][i] \in Nat /\ now \in Nat /\ Retention \in Nat
    BY PolicyTypes DEF SpacingInv, LedgerTypeOK
  <2>2. /\ receipts[r].sentAt \in Nat /\ receipts[r].updatedAt \in Nat
        /\ receipts[r].state \in ReceiptStates
    BY DEF SpacingInv, LedgerTypeOK, Receipt
  <2>3. /\ receipts[r].state \in {"none", "reserved"} => starts[r][i] + Retention < now
        /\ receipts[r].state = "send_started" => starts[r][i] <= receipts[r].sentAt
        /\ receipts[r].state \in TerminalStates => starts[r][i] <= receipts[r].updatedAt
        /\ receipts[r].sentAt <= now /\ receipts[r].updatedAt <= now
    BY DEF SpacingInv, StartsAreDated, RowsAreDated
  <2>4. Moves(receipts[r], receipts'[r])
    OBVIOUS
  <2> QED BY <2>1, <2>2, <2>3, <2>4, NoReceiptFields, SMTT(30)
          DEF Moves, ReceiptStates, ActiveStates, TerminalStates
<1> QED BY <1>1, <1>2, <1>3 DEF SpacingInv

\* A send: the row was reserved, so every earlier send is older than Retention.
LEMMA SendStep ==
    ASSUME SpacingInv, LedgerTypeOK',
           NEW r \in Requests, NEW m \in Mutations, NEW o \in Tokens, MarkSendStarted(r, m, o)
    PROVE  SpacingInv'
<1>1. /\ now' = now /\ now \in Nat /\ Retention \in Nat
      /\ starts[r] \in Seq(Nat) /\ receipts[r].state = "reserved"
      /\ starts' = [starts EXCEPT ![r] = Append(starts[r], now)]
  BY PolicyTypes DEF MarkSendStarted, Owns, SpacingInv, LedgerTypeOK
<1>2. /\ receipts'[r].state = "send_started" /\ receipts'[r].sentAt = now
      /\ receipts'[r].updatedAt = now
      /\ \A q \in Requests \ {r} : receipts'[q] = receipts[q] /\ starts'[q] = starts[q]
  BY <1>1 DEF MarkSendStarted, SpacingInv, LedgerTypeOK, Receipt
<1>3. /\ starts'[r] = Append(starts[r], now)
      /\ Len(starts'[r]) = Len(starts[r]) + 1
      /\ \A i \in 1..Len(starts[r]) : starts'[r][i] = starts[r][i]
      /\ starts'[r][Len(starts[r]) + 1] = now
  BY <1>1 DEF SpacingInv, LedgerTypeOK
<1>4. \A i \in 1..Len(starts[r]) : starts[r][i] \in Nat /\ starts[r][i] + Retention < now
  BY <1>1 DEF SpacingInv, StartsAreDated
<1>5. RowsAreDated'
  <2> SUFFICES ASSUME NEW q \in Requests
               PROVE  receipts'[q].sentAt <= now /\ receipts'[q].updatedAt <= now
    BY <1>1 DEF RowsAreDated
  <2> QED BY <1>1, <1>2 DEF SpacingInv, RowsAreDated
<1>6. StartsAreDated'
  <2> SUFFICES ASSUME NEW q \in Requests, NEW i \in 1..Len(starts'[q])
               PROVE  /\ receipts'[q].state \in {"none", "reserved"} => starts'[q][i] + Retention < now
                      /\ receipts'[q].state = "send_started" => starts'[q][i] <= receipts'[q].sentAt
                      /\ receipts'[q].state \in TerminalStates =>
                            starts'[q][i] <= receipts'[q].updatedAt
    BY <1>1 DEF StartsAreDated
  <2>1. CASE q = r
    <3>1. starts'[r][i] <= now
      BY <2>1, <1>1, <1>3, <1>4
    <3> QED BY <2>1, <3>1, <1>2 DEF TerminalStates
  <2>2. CASE q # r
    BY <2>2, <1>2 DEF SpacingInv, StartsAreDated
  <2> QED BY <2>1, <2>2
<1>7. SendsAreSpaced'
  <2> SUFFICES ASSUME NEW q \in Requests, NEW i \in 1..Len(starts'[q]),
                      NEW j \in 1..Len(starts'[q]), i < j
               PROVE  starts'[q][i] + Retention < starts'[q][j]
    BY DEF SendsAreSpaced
  <2>1. CASE q = r
    <3>1. Len(starts[r]) \in Nat
      BY <1>1
    <3>2. i \in 1..Len(starts[r])
      BY <2>1, <1>3, <3>1
    <3>3. CASE j = Len(starts[r]) + 1
      BY <2>1, <3>2, <3>3, <1>3, <1>4
    <3>4. CASE j \in 1..Len(starts[r])
      BY <2>1, <3>2, <3>4, <1>3 DEF SpacingInv, SendsAreSpaced
    <3> QED BY <2>1, <1>3, <3>1, <3>3, <3>4
  <2>2. CASE q # r
    BY <2>2, <1>2 DEF SpacingInv, SendsAreSpaced
  <2> QED BY <2>1, <2>2
<1> QED BY <1>5, <1>6, <1>7 DEF SpacingInv

\* The strengthened invariant holds of the empty store.
LEMMA SpacingInit == LedgerInit => SpacingInv
<1> SUFFICES ASSUME LedgerInit PROVE SpacingInv
  OBVIOUS
<1>1. LedgerTypeOK
  BY TypeInit
<1>2. \A r \in Requests : /\ Len(starts[r]) = 0
                          /\ receipts[r] = NoReceipt /\ now = 0
  BY DEF LedgerInit
<1>3. RowsAreDated
  BY <1>2, NoReceiptFields DEF RowsAreDated
<1>4. StartsAreDated /\ SendsAreSpaced
  BY <1>2 DEF StartsAreDated, SendsAreSpaced
<1> QED BY <1>1, <1>3, <1>4 DEF SpacingInv

\* Every step preserves the strengthened invariant.
LEMMA SpacingStep == SpacingInv /\ [LedgerNext]_ledgerVars => SpacingInv'
<1> SUFFICES ASSUME SpacingInv, [LedgerNext]_ledgerVars PROVE SpacingInv'
  OBVIOUS
<1>0. LedgerTypeOK /\ LedgerTypeOK'
  BY TypeStep DEF SpacingInv
<1>1. CASE Tick
  <2>1. /\ now' = now + 1 /\ now \in Nat /\ Retention \in Nat
        /\ receipts' = receipts /\ starts' = starts
    BY <1>1, <1>0, PolicyTypes DEF Tick, LedgerTypeOK
  <2>2. \A r \in Requests : /\ receipts[r].sentAt \in Nat /\ receipts[r].updatedAt \in Nat
                            /\ \A i \in 1..Len(starts[r]) : starts[r][i] \in Nat
    BY <1>0 DEF LedgerTypeOK, Receipt
  <2>3. RowsAreDated'
    BY <2>1, <2>2 DEF SpacingInv, RowsAreDated
  <2>4. StartsAreDated'
    BY <2>1, <2>2 DEF SpacingInv, StartsAreDated
  <2>5. SendsAreSpaced'
    BY <2>1 DEF SpacingInv, SendsAreSpaced
  <2> QED BY <1>0, <2>3, <2>4, <2>5 DEF SpacingInv
<1>2. CASE Sends
  BY <1>0, <1>2, SendStep DEF Sends
<1>3. CASE UNCHANGED <<now, starts>> /\ \A q \in Requests : Moves(receipts[q], receipts'[q])
  BY <1>0, <1>3, QuietStep
<1>4. CASE UNCHANGED ledgerVars
  <2>1. UNCHANGED <<now, starts>> /\ \A q \in Requests : Moves(receipts[q], receipts'[q])
    BY <1>4 DEF ledgerVars, Moves
  <2> QED BY <1>0, <2>1, QuietStep
<1> QED BY <1>0, <1>1, <1>2, <1>3, <1>4, StepMoves

\* However attempts, retries, recoveries, sweeps and cleanups interleave, two
\* sends of one request id are more than the retention period apart.
THEOREM SendsSpaced == LedgerSpec => []SendsAreSpaced
<1>1. LedgerInit => SpacingInv
  BY SpacingInit
<1>2. SpacingInv /\ [LedgerNext]_ledgerVars => SpacingInv'
  BY SpacingStep
<1>3. SpacingInv => SendsAreSpaced
  BY DEF SpacingInv
<1> QED BY <1>1, <1>2, <1>3, PTL DEF LedgerSpec

-----------------------------------------------------------------------------
\* Evidence and promise, both from what a step can do to a row

\* No step rewrites terminal evidence that is within its retention period.
LEMMA EvidenceStep ==
    ASSUME LedgerTypeOK, [LedgerNext]_ledgerVars
    PROVE  [KeepsEvidence]_ledgerVars
<1> SUFFICES ASSUME LedgerNext, NEW r \in Requests,
                    receipts[r].state \in TerminalStates, receipts'[r] # receipts[r]
             PROVE  receipts'[r].state = "none" /\ receipts[r].updatedAt + Retention < now
  BY DEF KeepsEvidence
<1>1. CASE Tick
  BY <1>1 DEF Tick
<1>2. CASE Sends
  <2>1. PICK q \in Requests, m \in Mutations, o \in Tokens : MarkSendStarted(q, m, o)
    BY <1>2 DEF Sends
  <2>2. receipts[q].state = "reserved" /\ \A p \in Requests \ {q} : receipts'[p] = receipts[p]
    BY <2>1 DEF MarkSendStarted, Owns, LedgerTypeOK
  <2> QED BY <2>2 DEF TerminalStates
<1>3. CASE \A q \in Requests : Moves(receipts[q], receipts'[q])
  BY <1>3, NoReceiptFields DEF Moves, TerminalStates
<1> QED BY <1>1, <1>2, <1>3, StepMoves

\* Stored terminal evidence is never rewritten, and forgotten only by age.
THEOREM EvidenceFinal == LedgerSpec => EvidenceIsFinal
<1>1. LedgerInit => LedgerTypeOK
  BY TypeInit
<1>2. LedgerTypeOK /\ [LedgerNext]_ledgerVars => LedgerTypeOK'
  BY TypeStep
<1>3. LedgerTypeOK /\ [LedgerNext]_ledgerVars => [KeepsEvidence]_ledgerVars
  BY EvidenceStep
<1> QED BY <1>1, <1>2, <1>3, PTL DEF LedgerSpec, EvidenceIsFinal

\* The empty store is an initial state of the promise.
LEMMA PromiseInit == LedgerInit => Promise!Init
BY NoReceiptFields DEF LedgerInit, Promise!Init, PhaseOf, SinceOf, TerminalStates

\* A move of a row is a step of the promise, or none.
LEMMA MovePromise ==
    ASSUME NEW row \in Receipt, NEW new \in Receipt, now \in Nat, Moves(row, new)
    PROVE  \/ PhaseOf(new) = PhaseOf(row) /\ SinceOf(new) = SinceOf(row)
           \/ /\ PhaseOf(row) = "sending" /\ PhaseOf(new) \in TerminalStates
              /\ SinceOf(new) = now
           \/ /\ PhaseOf(row) = "unsent" /\ PhaseOf(new) \in TerminalStates \ {"accepted"}
              /\ SinceOf(new) = now
           \/ /\ PhaseOf(row) \in TerminalStates /\ SinceOf(row) + Retention < now
              /\ PhaseOf(new) = "unsent" /\ SinceOf(new) = 0
BY NoReceiptFields DEF Moves, PhaseOf, SinceOf, TerminalStates, Receipt, ReceiptStates, ActiveStates

\* Every step of the store is a step of the promise or leaves it unchanged.
LEMMA PromiseStep ==
    LedgerTypeOK /\ LedgerTypeOK' /\ [LedgerNext]_ledgerVars => [Promise!Next]_Promise!promiseVars
<1> SUFFICES ASSUME LedgerTypeOK, LedgerTypeOK', [LedgerNext]_ledgerVars
             PROVE  [Promise!Next]_Promise!promiseVars
  OBVIOUS
<1> DEFINE ph == [r \in Requests |-> PhaseOf(receipts[r])]
           si == [r \in Requests |-> SinceOf(receipts[r])]
<1>0. \A r \in Requests : /\ ph[r] = PhaseOf(receipts[r]) /\ ph'[r] = PhaseOf(receipts'[r])
                          /\ si[r] = SinceOf(receipts[r]) /\ si'[r] = SinceOf(receipts'[r])
  OBVIOUS
<1>1. ASSUME receipts' = receipts, now' \in {now, now + 1} PROVE Promise!Next
  BY <1>1 DEF Promise!Next, Promise!Keep
<1>2. ASSUME Sends PROVE Promise!Next
  <2>1. PICK q \in Requests, m \in Mutations, o \in Tokens : MarkSendStarted(q, m, o)
    BY <1>2 DEF Sends
  <2>2. /\ now' = now /\ receipts[q].state = "reserved" /\ receipts'[q].state = "send_started"
        /\ \A p \in Requests \ {q} : receipts'[p] = receipts[p]
    BY <2>1 DEF MarkSendStarted, Owns, LedgerTypeOK, Receipt
  <2>3. /\ PhaseOf(receipts[q]) = "unsent" /\ PhaseOf(receipts'[q]) = "sending"
        /\ SinceOf(receipts'[q]) = 0
    BY <2>2 DEF PhaseOf, SinceOf, TerminalStates
  <2> QED BY <2>2, <2>3 DEF Promise!Next, Promise!Keep, Promise!Begin
<1>3. ASSUME now' = now, \A q \in Requests : Moves(receipts[q], receipts'[q]) PROVE Promise!Next
  <2>1. \A q \in Requests : receipts[q] \in Receipt /\ receipts'[q] \in Receipt /\ now \in Nat
    BY DEF LedgerTypeOK
  <2>2. \A q \in Requests :
           \/ ph'[q] = ph[q] /\ si'[q] = si[q]
           \/ ph[q] = "sending" /\ ph'[q] \in TerminalStates /\ si'[q] = now
           \/ ph[q] = "unsent" /\ ph'[q] \in TerminalStates \ {"accepted"} /\ si'[q] = now
           \/ /\ ph[q] \in TerminalStates /\ si[q] + Retention < now
              /\ ph'[q] = "unsent" /\ si'[q] = 0
    BY <1>0, <1>3, <2>1, MovePromise
  <2> QED BY <1>3, <2>2 DEF Promise!Next, Promise!Keep, Promise!Conclude, Promise!Forget,
                            Promise!Outcomes, TerminalStates
<1>4. CASE Tick
  BY <1>4, <1>1 DEF Tick
<1>5. CASE UNCHANGED ledgerVars
  BY <1>5 DEF ledgerVars, Promise!promiseVars
<1> QED BY <1>2, <1>3, <1>4, <1>5, StepMoves

\* The receipts implement the promise to clients: every transaction is a step
\* of RequestPromise, or invisible to it.
THEOREM LedgerKeepsPromise == LedgerSpec => KeepsPromise
<1>1. LedgerInit => Promise!Init
  BY PromiseInit
<1>2. LedgerInit => LedgerTypeOK
  BY TypeInit
<1>3. LedgerTypeOK /\ [LedgerNext]_ledgerVars => LedgerTypeOK'
  BY TypeStep
<1>4. LedgerTypeOK /\ LedgerTypeOK' /\ [LedgerNext]_ledgerVars
        => [Promise!Next]_Promise!promiseVars
  BY PromiseStep
<1> QED BY <1>1, <1>2, <1>3, <1>4, PTL DEF LedgerSpec, KeepsPromise, Promise!Spec

-----------------------------------------------------------------------------
\* The two tables agree.
\*
\* TablesAgree speaks of one pair of rows at a time; Paired is what it says of a
\* pair, strengthened by what a reservation carries: a reserved row has not
\* been given a verdict yet, which mark_command_send_started relies on.

Paired(row, sub) ==
    /\ row.state \in {"none", "reserved"} => sub.state = "none"
    /\ row.state \in {"send_started", "accepted"} => sub.state # "none"
    /\ sub.state = "send_started" => row.state = "send_started"
    /\ sub.state = "submitted" => row.state = "accepted"
    /\ sub.state = "uncertain" => row.state = "uncertain"
    /\ row.state = "send_started" /\ row.result = "queued" =>
          sub.queued /\ sub.state \in {"send_started", "expired", "cancelled"}
    /\ row.state = "reserved" => row.result = "pending"

AgreementInv == LedgerTypeOK /\ \A r \in Requests : Paired(receipts[r], submissions[r])

\* The strengthened invariant gives the property.
LEMMA AgreementSuffices == AgreementInv => TablesAgree
BY DEF AgreementInv, Paired, TablesAgree, RowsAgree, QueuedIsNeverLinked

\* A hard expiry only ends an open ledger row, or leaves it as it is.
LEMMA HardExpiredPaired ==
    ASSUME NEW row \in Receipt, NEW sub \in Submission, Paired(row, sub)
    PROVE  Paired(row, HardExpired(sub))
<1>1. CASE HardExpired(sub) = sub
  BY <1>1
<1>2. CASE HardExpired(sub) # sub
  <2>1. /\ sub.state \in OpenStates
        /\ HardExpired(sub) = [sub EXCEPT !.state = "expired"]
    BY <1>2 DEF HardExpired, Transitions, Submission, SubmissionStates, OpenStates
  <2>2. HardExpired(sub).state = "expired" /\ HardExpired(sub).queued = sub.queued
    BY <2>1 DEF Submission
  <2> QED BY <2>1, <2>2 DEF Paired, OpenStates
<1> QED BY <1>1, <1>2

\* A settlement leaves a row, or ends it; it never links a queued send.
LEMMA SettledPaired ==
    ASSUME NEW row \in Receipt, NEW sub \in Submission, Paired(row, sub),
           NEW new \in Settled(sub)
    PROVE  Paired(row, new)
<1>1. PICK s \in SettledStates(sub) : new = [sub EXCEPT !.state = s]
  BY DEF Settled
<1>2. new.state = s /\ new.queued = sub.queued
  BY <1>1 DEF Submission
<1>3. CASE s = sub.state
  BY <1>2, <1>3 DEF Paired
<1>4. CASE s # sub.state
  <2>1. /\ sub.state \in OpenStates /\ s \in {"linked", "ambiguous", "expired"}
        /\ sub.state = "send_started" /\ sub.queued => s = "expired"
    BY <1>1, <1>4 DEF SettledStates, OpenStates
  <2> QED BY <1>2, <2>1 DEF Paired, OpenStates
<1> QED BY <1>3, <1>4

\* A terminal write that advances the ledger row with its receipt keeps the pair
\* in step, whether or not the transition table lets the row move.
LEMMA TerminalizedPaired ==
    ASSUME NEW row \in Receipt, NEW sub \in Submission, Paired(row, sub),
           NEW t \in TerminalStates, row.state \in ActiveStates,
           t = "accepted" => row.state = "send_started"
    PROVE  Paired(Closed(row, t), Terminalized(sub, t))
<1>1. Closed(row, t).state = t /\ Closed(row, t).result = "final"
  BY DEF Closed, Receipt
<1>2. CASE sub.state = "send_started"
  <2>1. SubmissionStateOf[t] \in Transitions[sub.state]
    BY <1>2 DEF SubmissionStateOf, Transitions, TerminalStates, SubmissionStates, OpenStates
  <2>2. Terminalized(sub, t).state = SubmissionStateOf[t]
    BY <2>1 DEF Terminalized, Submission
  <2> QED BY <1>1, <2>2 DEF Paired, SubmissionStateOf, TerminalStates
<1>3. CASE sub.state # "send_started"
  <2>1. sub.state \in {"none", "linked", "ambiguous", "expired", "cancelled"}
    BY <1>3 DEF Paired, Submission, SubmissionStates, OpenStates, ActiveStates
  <2>2. Transitions[sub.state] = {}
    BY <2>1 DEF Transitions, SubmissionStates, OpenStates
  <2>3. Terminalized(sub, t) = sub
    BY <2>2 DEF Terminalized
  <2> QED BY <1>1, <2>1, <2>3 DEF Paired, TerminalStates, ActiveStates
<1> QED BY <1>2, <1>3

\* A transaction on the rows of one request keeps every pair when it keeps the
\* pair it writes.
LEMMA OnePairMoves ==
    ASSUME AgreementInv, NEW r \in Requests, NEW row, NEW sub,
           receipts' = [receipts EXCEPT ![r] = row],
           submissions' = [submissions EXCEPT ![r] = sub], Paired(row, sub)
    PROVE  \A q \in Requests : Paired(receipts'[q], submissions'[q])
<1> SUFFICES ASSUME NEW q \in Requests PROVE Paired(receipts'[q], submissions'[q])
  OBVIOUS
<1>1. CASE q = r
  BY <1>1 DEF AgreementInv, LedgerTypeOK
<1>2. CASE q # r
  BY <1>2 DEF AgreementInv, LedgerTypeOK
<1> QED BY <1>1, <1>2

\* Every transaction of one request keeps the pairs.
LEMMA RequestPairs ==
    ASSUME AgreementInv, NEW r \in Requests, RequestStep(r)
    PROVE  \A q \in Requests : Paired(receipts'[q], submissions'[q])
<1> DEFINE Goal == \A q \in Requests : Paired(receipts'[q], submissions'[q])
<1>0. /\ receipts[r] \in Receipt /\ submissions[r] \in Submission
      /\ Paired(receipts[r], submissions[r])
      /\ submissions = [submissions EXCEPT ![r] = submissions[r]]
      /\ receipts = [receipts EXCEPT ![r] = receipts[r]]
  BY DEF AgreementInv, LedgerTypeOK
<1>1. ASSUME NEW m \in Mutations, NEW o \in Tokens, NEW p \in Selectors, Reserve(r, m, p, o)
      PROVE  Goal
  <2> DEFINE new == [state |-> "reserved", result |-> "pending", mutation |-> m,
                     proof |-> IF receipts[r].state = "none" THEN p ELSE receipts[r].proof,
                     owner |-> o, expires |-> now + Lease, sentAt |-> 0, updatedAt |-> now]
  <2>1. receipts[r].state \in {"none", "reserved"}
    BY <1>1, <1>0 DEF Reserve, ReserveResponse, Receipt, ReceiptStates, ActiveStates,
                      TerminalStates
  <2>2. receipts' = [receipts EXCEPT ![r] = new]
    BY <1>1 DEF Reserve
  <2>3. Paired(new, submissions[r])
    BY <1>0, <2>1 DEF Paired
  <2>4. submissions' = [submissions EXCEPT ![r] = submissions[r]]
    BY <1>0, <1>1 DEF Reserve
  <2> HIDE DEF new
  <2> QED BY <2>2, <2>3, <2>4, OnePairMoves
<1>2. ASSUME NEW m \in Mutations, NEW o \in Tokens, Abandon(r, m, o) PROVE Goal
  <2> DEFINE new == [receipts[r] EXCEPT !.expires = now, !.updatedAt = now]
  <2>1. new.state = receipts[r].state /\ new.result = receipts[r].result
    BY <1>0 DEF Receipt
  <2>2. receipts' = [receipts EXCEPT ![r] = new]
    BY <1>2 DEF Abandon
  <2>3. submissions' = [submissions EXCEPT ![r] = submissions[r]]
    BY <1>0, <1>2 DEF Abandon
  <2> HIDE DEF new
  <2>4. Paired(new, submissions[r])
    BY <1>0, <2>1 DEF Paired
  <2> QED BY <2>2, <2>3, <2>4, OnePairMoves
<1>3. ASSUME NEW m \in Mutations, NEW o \in Tokens, MarkSendStarted(r, m, o) PROVE Goal
  <2> DEFINE new == [receipts[r] EXCEPT !.state = "send_started", !.sentAt = now,
                                        !.updatedAt = now]
             sub == [state |-> "send_started", queued |-> FALSE, anchorAt |-> now,
                     linkExpires |-> now + LinkWindow, hardExpires |-> now + HardTTL]
  <2>1. receipts[r].state = "reserved"
    BY <1>3 DEF MarkSendStarted, Owns
  <2>2. submissions[r].state = "none" /\ receipts[r].result = "pending"
    BY <1>0, <2>1 DEF Paired
  <2>3. new.state = "send_started" /\ new.result = "pending"
    BY <1>0, <2>2 DEF Receipt
  <2>4. receipts' = [receipts EXCEPT ![r] = new]
    BY <1>3 DEF MarkSendStarted
  <2>5. submissions' = [submissions EXCEPT ![r] = sub]
    BY <1>3, <2>2 DEF MarkSendStarted
  <2>6. sub.state = "send_started"
    OBVIOUS
  <2> HIDE DEF new, sub
  <2>7. Paired(new, sub)
    BY <2>3, <2>6 DEF Paired
  <2> QED BY <2>4, <2>5, <2>7, OnePairMoves
<1>4. ASSUME NEW m \in Mutations, NEW o \in Tokens, RecordSendQueued(r, m, o) PROVE Goal
  <2> DEFINE new == [receipts[r] EXCEPT !.result = "queued", !.updatedAt = now]
             sub == [submissions[r] EXCEPT !.state = "send_started", !.queued = TRUE,
                                           !.linkExpires = submissions[r].hardExpires]
  <2>1. new.state = "send_started" /\ sub.state = "send_started" /\ sub.queued
    BY <1>0, <1>4 DEF RecordSendQueued, CanRecordQueued, Owns, Receipt, Submission
  <2>2. receipts' = [receipts EXCEPT ![r] = new] /\ submissions' = [submissions EXCEPT ![r] = sub]
    BY <1>4 DEF RecordSendQueued
  <2> HIDE DEF new, sub
  <2>3. Paired(new, sub)
    BY <2>1 DEF Paired
  <2> QED BY <2>2, <2>3, OnePairMoves
<1>5. ASSUME NEW m \in Mutations, NEW o \in Tokens, NEW e \in ActiveStates,
             NEW t \in TerminalStates, FinishRequest(r, m, o, e, t)
      PROVE  Goal
  <2>1. receipts[r].state = e /\ (t = "accepted" => e = "send_started")
    BY <1>5 DEF FinishRequest, Owns, ActiveStates
  <2>2. Paired(Closed(receipts[r], t), Terminalized(submissions[r], t))
    BY <1>0, <2>1, TerminalizedPaired
  <2> QED BY <1>5, <2>2, OnePairMoves DEF FinishRequest
<1>6. ASSUME NEW m \in Mutations, FinishQueued(r, m) PROVE Goal
  <2>1. ~(/\ receipts[r].state = "send_started" /\ receipts[r].mutation = m
          /\ receipts[r].result = "queued" /\ submissions[r].state = "linked")
    BY <1>0 DEF Paired
  <2>2. receipts' = [receipts EXCEPT ![r] = receipts[r]] /\ submissions' = submissions
    BY <1>6, <2>1 DEF FinishQueued
  <2> QED BY <1>0, <2>2, OnePairMoves
<1>7. ASSUME NEW m \in Mutations, FinishUnverifiedQueued(r, m) PROVE Goal
  <2>1. submissions[r].state \in {"ambiguous", "expired"}
    BY <1>7 DEF FinishUnverifiedQueued, Unverifiable
  <2>2. Closed(receipts[r], "uncertain").state = "uncertain"
    BY <1>0 DEF Closed, Receipt
  <2>3. Paired(Closed(receipts[r], "uncertain"), submissions[r])
    BY <2>1, <2>2 DEF Paired
  <2>4. submissions' = [submissions EXCEPT ![r] = submissions[r]]
    BY <1>0, <1>7 DEF FinishUnverifiedQueued
  <2> QED BY <1>7, <2>3, <2>4, OnePairMoves DEF FinishUnverifiedQueued
<1>8. ASSUME NEW m \in Mutations, RecoverUnresolved(r, m) PROVE Goal
  <2>1. receipts[r].state = "send_started"
    BY <1>8 DEF RecoverUnresolved, Unresolved
  <2>2. Paired(Closed(receipts[r], "uncertain"), Terminalized(submissions[r], "uncertain"))
    BY <1>0, <2>1, TerminalizedPaired DEF TerminalStates, ActiveStates
  <2> QED BY <1>8, <2>2, OnePairMoves DEF RecoverUnresolved
<1>9. ASSUME NEW m \in Mutations, NEW p \in Selectors, NEW t \in TerminalStates,
             RestoreTerminal(r, m, p, t)
      PROVE  Goal
  <2> DEFINE new == [NoReceipt EXCEPT !.state = t, !.result = "final", !.mutation = m,
                                      !.proof = p, !.updatedAt = now]
  <2>1. new.state = t
    BY DEF NoReceipt
  <2>2. submissions[r].state = "none" /\ t \in {"rejected", "uncertain"}
    BY <1>0, <1>9 DEF RestoreTerminal, Paired
  <2>3. receipts' = [receipts EXCEPT ![r] = new]
    BY <1>9 DEF RestoreTerminal
  <2>4. submissions' = [submissions EXCEPT ![r] = submissions[r]]
    BY <1>0, <1>9 DEF RestoreTerminal
  <2> HIDE DEF new
  <2>5. Paired(new, submissions[r])
    BY <2>1, <2>2 DEF Paired
  <2> QED BY <2>3, <2>4, <2>5, OnePairMoves
<1>10. ASSUME SettleComponent(r) PROVE Goal
  <2>1. receipts' = receipts
        /\ \A q \in Requests : submissions'[q] \in Settled(submissions[q]) \cup {submissions[q]}
    BY <1>10 DEF SettleComponent
  <2> SUFFICES ASSUME NEW q \in Requests PROVE Paired(receipts[q], submissions'[q])
    BY <2>1
  <2>2. /\ receipts[q] \in Receipt /\ submissions[q] \in Submission
        /\ Paired(receipts[q], submissions[q])
    BY DEF AgreementInv, LedgerTypeOK
  <2> QED BY <2>1, <2>2, SettledPaired
<1>11. ASSUME CancelSubmission(r) PROVE Goal
  <2> DEFINE sub == [submissions[r] EXCEPT !.state = "cancelled"]
  <2>1. submissions[r].state \in OpenStates
    BY <1>0, <1>11 DEF CancelSubmission, Transitions, Submission, SubmissionStates, OpenStates
  <2>2. sub.state = "cancelled" /\ sub.queued = submissions[r].queued
    BY <1>0 DEF Submission
  <2>3. receipts' = [receipts EXCEPT ![r] = receipts[r]]
    BY <1>0, <1>11 DEF CancelSubmission
  <2>4. submissions' = [submissions EXCEPT ![r] = sub]
    BY <1>11 DEF CancelSubmission
  <2> HIDE DEF sub
  <2>5. Paired(receipts[r], sub)
    BY <1>0, <2>1, <2>2 DEF Paired, OpenStates
  <2> QED BY <2>3, <2>4, <2>5, OnePairMoves
<1> QED BY <1>1, <1>2, <1>3, <1>4, <1>5, <1>6, <1>7, <1>8, <1>9, <1>10, <1>11 DEF RequestStep

\* Every step keeps the pairs.
LEMMA AgreementStep == AgreementInv /\ [LedgerNext]_ledgerVars => AgreementInv'
<1> SUFFICES ASSUME AgreementInv, [LedgerNext]_ledgerVars PROVE AgreementInv'
  OBVIOUS
<1> DEFINE Goal == \A q \in Requests : Paired(receipts'[q], submissions'[q])
<1>0. /\ LedgerTypeOK'
      /\ \A q \in Requests : /\ receipts[q] \in Receipt /\ submissions[q] \in Submission
                             /\ Paired(receipts[q], submissions[q])
  BY TypeStep DEF AgreementInv, LedgerTypeOK
<1>1. ASSUME NEW r \in Requests, RequestStep(r) PROVE Goal
  BY <1>1, RequestPairs
<1>2. ASSUME SweepLinks PROVE Goal
  <2>1. PICK f : /\ \A q \in Requests : f[q] \in Settled(submissions[q])
                 /\ submissions' = [q \in Requests |-> HardExpired(f[q])]
    BY <1>2 DEF SweepLinks
  <2>2. receipts' = receipts
    BY <1>2 DEF SweepLinks
  <2> SUFFICES ASSUME NEW q \in Requests PROVE Paired(receipts[q], HardExpired(f[q]))
    BY <2>1, <2>2
  <2>3. f[q] \in Settled(submissions[q])
    BY <2>1
  <2>4. f[q] \in Submission
    BY <1>0, <2>3, RowOperatorTypes DEF AgreementInv, LedgerTypeOK
  <2>5. Paired(receipts[q], f[q])
    BY <1>0, <2>3, SettledPaired
  <2> QED BY <1>0, <2>4, <2>5, HardExpiredPaired
<1>3. ASSUME SweepExpired PROVE Goal
  <2>1. receipts' = receipts /\ submissions' = [q \in Requests |-> HardExpired(submissions[q])]
    BY <1>3 DEF SweepExpired
  <2> QED BY <1>0, <2>1, HardExpiredPaired
<1>4. ASSUME Cleanup PROVE Goal
  <2> PICK stale \in SUBSET StaleSends, gone \in SUBSET Aged :
        /\ receipts' = [r \in Requests |->
               CASE r \in stale -> Closed(receipts[r], "uncertain")
                 [] r \in gone -> NoReceipt
                 [] OTHER -> receipts[r]]
        /\ submissions' = [r \in Requests |->
               CASE r \in stale -> Terminalized(HardExpired(submissions[r]), "uncertain")
                 [] r \in gone -> NoSubmission
                 [] OTHER -> HardExpired(submissions[r])]
    BY <1>4 DEF Cleanup
  <2> SUFFICES ASSUME NEW q \in Requests PROVE Paired(receipts'[q], submissions'[q])
    OBVIOUS
  <2>0. /\ HardExpired(submissions[q]) \in Submission
        /\ Paired(receipts[q], HardExpired(submissions[q]))
    BY <1>0, HardExpiredPaired, RowOperatorTypes DEF AgreementInv, LedgerTypeOK
  <2>1. CASE q \in stale
    <3>1. q \notin gone /\ receipts[q].state = "send_started"
      BY <2>1 DEF StaleSends, Aged, Inactive, TerminalStates
    <3>2. /\ receipts'[q] = Closed(receipts[q], "uncertain")
          /\ submissions'[q] = Terminalized(HardExpired(submissions[q]), "uncertain")
      BY <2>1, <3>1
    <3> QED BY <1>0, <2>0, <3>1, <3>2, TerminalizedPaired DEF TerminalStates, ActiveStates
  <2>2. CASE q \notin stale /\ q \in gone
    <3>1. receipts'[q] = NoReceipt /\ submissions'[q] = NoSubmission
      BY <2>2
    <3> QED BY <3>1, NoReceiptFields DEF Paired, NoSubmission
  <2>3. CASE q \notin stale /\ q \notin gone
    BY <2>0, <2>3
  <2> QED BY <2>1, <2>2, <2>3
<1>5. ASSUME Tick PROVE Goal
  BY <1>0, <1>5 DEF Tick
<1>6. ASSUME UNCHANGED ledgerVars PROVE Goal
  BY <1>0, <1>6 DEF ledgerVars
<1>7. Goal
  BY <1>1, <1>2, <1>3, <1>4, <1>5, <1>6 DEF LedgerNext
<1> QED BY <1>0, <1>7 DEF AgreementInv

\* The receipts and the turn-submission ledger never contradict each other, and
\* an unresolved queued send is never linked, in whatever order settlement,
\* expiry, cancellation, recovery, cleanup and the owners' writes commit.
THEOREM TablesAgreeAlways == LedgerSpec => []TablesAgree
<1>1. LedgerInit => AgreementInv
  <2> SUFFICES ASSUME LedgerInit PROVE AgreementInv
    OBVIOUS
  <2>1. \A r \in Requests : receipts[r] = NoReceipt /\ submissions[r] = NoSubmission
    BY DEF LedgerInit
  <2> QED BY <2>1, TypeInit, NoReceiptFields DEF AgreementInv, Paired, NoSubmission
<1>2. AgreementInv /\ [LedgerNext]_ledgerVars => AgreementInv'
  BY AgreementStep
<1>3. AgreementInv => TablesAgree
  BY AgreementSuffices
<1> QED BY <1>1, <1>2, <1>3, PTL DEF LedgerSpec

-----------------------------------------------------------------------------
\* The calls: the inductive invariant

\* The steps of an attempt that come before its send-start is committed
Early == Labels \ {"send", "finish", "reread", "done"}

\* Nothing was sent before the send, a verdict tells what was delivered as far
\* as it is definite, and the answer is the last thing an attempt gives.
AttemptsAreOrdered ==
    \A a \in Attempts :
        /\ pc[a] \in Early \cup {"send"} => verdict[a] = "none" /\ ~delivered[a]
        /\ pc[a] = "finish" => verdict[a] # "none"
        /\ verdict[a] = "submitted" => delivered[a]
        /\ verdict[a] = "rejected" => ~delivered[a]
        /\ reply[a] = "accepted" => pc[a] = "done"

\* An active receipt names the attempt that wrote it, which is past the steps
\* that could still change its mind about the worker.
OwnersHold ==
    \A r \in Requests :
        LET row == receipts[r]
            o   == row.owner
        IN  /\ row.state \in ActiveStates =>
                  o \in Attempts /\ Req(o) = r /\ Mutation(o) = row.mutation
            /\ row.state = "send_started" =>
                  pc[o] \in {"send", "finish", "reread", "done"} /\ startedAt[o] = row.sentAt
            /\ row.state = "reserved" =>
                  pc[o] \in {"start", "reject", "reread", "done"} /\ verdict[o] = "none"

Started(b) == pc[b] = "send" \/ delivered[b]

\* How long ago an attempt that may have delivered something was started, as
\* told by the row of its request.  The rows of RejectedWasNotDelivered are one
\* of the cases; the others say why a row can become rejected.
StartsAreOld ==
    \A b \in Attempts :
        LET row == receipts[Req(b)] IN
        Started(b) =>
            /\ row.state \in {"none", "reserved"} => startedAt[b] + Retention < now
            /\ row.state = "send_started" =>
                  row.owner = b \/ startedAt[b] + Retention < row.sentAt
            /\ row.state \in TerminalStates => startedAt[b] <= row.updatedAt
            /\ row.state = "rejected" => startedAt[b] + Retention < row.updatedAt

Delivers(b, r, m) ==
    /\ Req(b) = r /\ Mutation(b) = m
    /\ delivered[b] /\ verdict[b] = "submitted"

\* An accepted receipt is backed by a delivery of its mutation.
AcceptedRowsAreTrue ==
    \A r \in Requests : receipts[r].state = "accepted" =>
        \E b \in Attempts : Delivers(b, r, receipts[r].mutation)

SubmissionInv ==
    /\ TypeOK
    /\ SpacingInv
    /\ AgreementInv
    /\ AttemptsAreOrdered
    /\ OwnersHold
    /\ StartsAreOld
    /\ AcceptedRowsAreTrue
    /\ AcceptedWasDelivered

-----------------------------------------------------------------------------
\* Types, and the store moves only by its own transactions

\* The row a request has, the mutation of an attempt and its answers are typed.
LEMMA AttemptTypes ==
    ASSUME TypeOK, NEW a \in Attempts
    PROVE  /\ a \in Tokens /\ Req(a) \in Requests /\ Mutation(a) \in Mutations
           /\ call[a].target \in Selectors
           /\ receipts[Req(a)] \in Receipt /\ submissions[Req(a)] \in Submission
           /\ copy[a] \in Receipt
           /\ copy[a].proof \in Selectors /\ copy[a].mutation.worker \in Workers
<1>1. call[a] \in Calls /\ worker[a] \in Workers /\ copy[a] \in Receipt
  BY DEF TypeOK
<1>2. call[a] \in [req : Requests, target : Selectors, text : Texts]
  BY <1>1, CallsAssumption
<1>3. Req(a) \in Requests /\ call[a].target \in Selectors /\ call[a].text \in Texts
  BY <1>2 DEF Req
<1>4. Mutation(a) \in Mutations
  BY <1>1, <1>3 DEF Mutation, Mutations
<1>5. copy[a].proof \in Selectors /\ copy[a].mutation \in Mutations
  BY <1>1 DEF Receipt
<1>6. copy[a].mutation.worker \in Workers
  BY <1>5 DEF Mutations
<1> QED BY <1>1, <1>3, <1>4, <1>5, <1>6 DEF TypeOK, LedgerTypeOK, Attempts

\* An envelope is an answer, and accepted only for an accepted row with the
\* caller's own mutation.
LEMMA EnvelopeFacts ==
    ASSUME NEW row \in Receipt, NEW m
    PROVE  /\ Envelope(row, m) \in Replies
           /\ Envelope(row, m) = "accepted" => row.state = "accepted" /\ row.mutation = m
BY DEF Envelope, Replies, Receipt, ReceiptStates, ActiveStates, TerminalStates

\* A step of an attempt is one transaction of the store, or none.
LEMMA AttemptLedger ==
    ASSUME TypeOK, NEW a \in Attempts, AttemptStep(a)
    PROVE  LedgerNext \/ UNCHANGED ledgerVars
<1> DEFINE r == Req(a)
           m == Mutation(a)
<1>0. /\ a \in Tokens /\ r \in Requests /\ m \in Mutations
      /\ call[a].target \in Selectors /\ copy[a].proof \in Selectors
  BY AttemptTypes
<1> HIDE DEF r, m
<1>1. ASSUME RequestStep(r) PROVE LedgerNext
  BY <1>0, <1>1 DEF LedgerNext
<1>2. CASE Lookup(a) \/ ReceiptAuthority(a) \/ CheckLink(a) \/ Resolve(a) \/ RereadUnreserved(a)
           \/ Send(a) \/ Reread(a)
  BY <1>2 DEF Lookup, ReceiptAuthority, CheckLink, Resolve, RereadUnreserved, Send, Reread
<1>3. CASE Replay(a)
  <2>1. CASE \E t \in TerminalStates : RestoreTerminal(r, m, copy[a].proof, t)
    BY <2>1, <1>0, <1>1 DEF RequestStep
  <2> QED BY <1>3, <2>1 DEF Replay, AnswerFromRow, Raise, TerminalStates, r, m
<1>4. CASE SettleQueued(a) \/ Negotiate(a)
  <2>1. CASE SettleComponent(r)
    BY <2>1, <1>1 DEF RequestStep
  <2> QED BY <1>4, <2>1 DEF SettleQueued, Negotiate, Raise, RaisePending, r
<1>5. CASE CloseQueued(a)
  <2>1. CASE FinishQueued(r, m) \/ FinishUnverifiedQueued(r, m)
    BY <2>1, <1>0, <1>1 DEF RequestStep
  <2> QED BY <1>5, <2>1 DEF CloseQueued, AnswerFromRow, RaisePending, r, m
<1>6. CASE RecoverAbandoned(a)
  <2>1. CASE RecoverUnresolved(r, m)
    BY <2>1, <1>0, <1>1 DEF RequestStep
  <2> QED BY <1>6, <2>1 DEF RecoverAbandoned, AnswerFromRow, RaisePending, r, m
<1>7. CASE ReserveRequest(a)
  <2>1. CASE Reserve(r, m, call[a].target, a)
    BY <2>1, <1>0, <1>1 DEF RequestStep
  <2> QED BY <1>7, <2>1 DEF ReserveRequest, AnswerFromRow, Raise, r, m
<1>8. CASE FinishBeforeSend(a)
  <2>1. CASE FinishRequest(r, m, a, "reserved", "rejected")
    BY <2>1, <1>0, <1>1 DEF RequestStep, ActiveStates, TerminalStates
  <2> QED BY <1>8, <2>1 DEF FinishBeforeSend, AnswerFromRow, Raise, r, m
<1>9. CASE StartSend(a)
  <2>1. CASE MarkSendStarted(r, m, a)
    BY <2>1, <1>0, <1>1 DEF RequestStep
  <2> QED BY <1>9, <2>1 DEF StartSend, AnswerFromRow, Raise, r, m
<1>10. CASE FinishSend(a)
  <2>1. CASE FinishRequest(r, m, a, "send_started", TerminalOf[verdict[a]])
    <3>1. TerminalOf[verdict[a]] \in TerminalStates
      BY <2>1 DEF FinishRequest
    <3> QED BY <2>1, <3>1, <1>0, <1>1 DEF RequestStep, ActiveStates
  <2>2. CASE RecordSendQueued(r, m, a)
    BY <2>2, <1>0, <1>1 DEF RequestStep
  <2> QED BY <1>10, <2>1, <2>2 DEF FinishSend, AnswerFromRow, Raise, r, m
<1> QED BY <1>2, <1>3, <1>4, <1>5, <1>6, <1>7, <1>8, <1>9, <1>10 DEF AttemptStep

\* Every step of the composed system is a step of the store, or none.
LEMMA SubmissionLedger == TypeOK /\ [Next]_vars => [LedgerNext]_ledgerVars
<1> SUFFICES ASSUME TypeOK, [Next]_vars PROVE LedgerNext \/ UNCHANGED ledgerVars
  OBVIOUS
<1>1. CASE \E a \in Attempts : AttemptStep(a)
  BY <1>1, AttemptLedger
<1>2. CASE SweepLinks \/ Cleanup \/ Tick
  BY <1>2 DEF LedgerNext
<1>3. CASE UNCHANGED vars
  BY <1>3 DEF vars
<1> QED BY <1>1, <1>2, <1>3 DEF Next

\* The local variables of an attempt keep their types in every step.
LEMMA AttemptTypeStep ==
    ASSUME TypeOK, LedgerTypeOK', NEW a \in Attempts, AttemptStep(a)
    PROVE  TypeOK'
<1>0. /\ receipts[Req(a)] \in Receipt /\ receipts'[Req(a)] \in Receipt /\ NoReceipt \in Receipt
      /\ Req(a) \in Requests /\ copy[a].mutation.worker \in Workers
  BY AttemptTypes, NoRowTypes DEF LedgerTypeOK
<1>1. /\ Envelope(receipts[Req(a)], Mutation(a)) \in Replies
      /\ Envelope(receipts'[Req(a)], Mutation(a)) \in Replies
      /\ Envelope(NoReceipt, Mutation(a)) \in Replies
  BY <1>0, EnvelopeFacts
<1> DEFINE Locals == UNCHANGED Local
           Rest == /\ pc' \in [Attempts -> Labels] /\ copy' \in [Attempts -> Receipt]
                   /\ reply' \in [Attempts -> Replies]
<1>2. ASSUME NEW l \in Labels, Goto(a, l) PROVE Rest
  BY <1>2 DEF Goto, TypeOK
<1>3. ASSUME NEW e \in Replies, Answer(a, e) PROVE Rest
  BY <1>0, <1>3 DEF Answer, TypeOK, Labels
<1>4. ASSUME AnswerFromRow(a) PROVE Rest /\ Locals
  BY <1>1, <1>3, <1>4 DEF AnswerFromRow
<1>5. ASSUME NEW l \in Labels, Raise(a, l) PROVE Rest /\ Locals
  BY <1>2, <1>5 DEF Raise
<1>6. ASSUME RaisePending(a) PROVE Rest /\ Locals
  <2>1. "pending" \in Replies
    BY DEF Replies
  <2> QED BY <1>3, <1>6, <2>1 DEF RaisePending
<1>7. /\ \A l \in {"resolve", "replay", "settle", "recover", "checkOpen", "checkClosed",
                   "finishQueued", "finishUnverified", "reserveSend", "reserveReject",
                   "rereadUnreserved", "start", "reject", "send", "finish", "reread"} :
             l \in Labels
      /\ \A e \in {"accepted", "rejected", "uncertain", "pending", "duplicate", "no_receipt"} :
             e \in Replies
  BY DEF Labels, Replies
<1>8. ASSUME Rest, Locals PROVE TypeOK'
  BY <1>8 DEF TypeOK, Local
<1> HIDE DEF Rest, Locals
<1>9. CASE Lookup(a)
  <2>1. Rest
    BY <1>0, <1>7, <1>9 DEF Rest, Lookup, TypeOK, Labels
  <2> QED BY <2>1, <1>8, <1>9 DEF Lookup, Locals
<1>10. CASE ReceiptAuthority(a)
  <2>1. Rest
    <3>1. CASE DecideSame(a)
      BY <3>1, <1>2, <1>3, <1>7 DEF DecideSame
    <3> QED BY <1>10, <3>1, <1>3, <1>7 DEF ReceiptAuthority
  <2>2. worker' \in [Attempts -> Workers]
    BY <1>0, <1>10 DEF ReceiptAuthority, TypeOK
  <2> QED BY <2>1, <2>2, <1>10 DEF ReceiptAuthority, TypeOK, Rest
<1>11. CASE Replay(a)
  BY <1>3, <1>4, <1>5, <1>7, <1>8, <1>11 DEF Replay, Locals
<1>12. CASE SettleQueued(a)
  BY <1>2, <1>5, <1>6, <1>7, <1>8, <1>12 DEF SettleQueued, Locals
<1>13. CASE CheckLink(a)
  BY <1>2, <1>3, <1>7, <1>8, <1>13 DEF CheckLink, Locals
<1>14. CASE CloseQueued(a)
  BY <1>1, <1>3, <1>4, <1>6, <1>8, <1>14 DEF CloseQueued, Locals
<1>15. CASE RecoverAbandoned(a)
  BY <1>3, <1>4, <1>6, <1>7, <1>8, <1>15 DEF RecoverAbandoned, Locals
<1>16. CASE Resolve(a)
  <2>1. Resolvable(a) \subseteq Workers
    BY DEF Resolvable
  <2>2. Rest
    BY <1>16, <1>2, <1>3, <1>7 DEF Resolve
  <2>3. worker' \in [Attempts -> Workers]
    BY <1>16, <2>1 DEF Resolve, TypeOK
  <2> QED BY <2>2, <2>3, <1>16 DEF Resolve, TypeOK, Rest
<1>17. CASE ReserveRequest(a)
  BY <1>2, <1>4, <1>5, <1>7, <1>8, <1>17 DEF ReserveRequest, Locals
<1>18. CASE RereadUnreserved(a)
  BY <1>1, <1>3, <1>7, <1>8, <1>18 DEF RereadUnreserved, Locals
<1>19. CASE FinishBeforeSend(a)
  BY <1>3, <1>4, <1>5, <1>7, <1>8, <1>19 DEF FinishBeforeSend, Locals
<1>20. CASE StartSend(a)
  <2>1. CASE AnswerFromRow(a) \/ Raise(a, "reread")
    BY <2>1, <1>4, <1>5, <1>7, <1>8
  <2>2. CASE /\ startedAt' = [startedAt EXCEPT ![a] = now] /\ Goto(a, "send")
             /\ UNCHANGED <<call, worker, verdict, delivered>>
    <3>1. Rest
      BY <2>2, <1>2, <1>7
    <3>2. startedAt' \in [Attempts -> Nat]
      BY <2>2 DEF TypeOK, LedgerTypeOK
    <3> QED BY <2>2, <3>1, <3>2 DEF TypeOK, Rest
  <2> QED BY <1>20, <2>1, <2>2 DEF StartSend
<1>21. CASE Send(a)
  <2>1. Rest
    BY <1>21, <1>2, <1>7 DEF Send
  <2>2. verdict' \in [Attempts -> Verdicts] /\ delivered' \in [Attempts -> BOOLEAN]
    BY <1>21 DEF Send, TypeOK
  <2> QED BY <1>21, <2>1, <2>2 DEF Send, TypeOK, Rest
<1>22. CASE FinishSend(a)
  <2>1. CASE /\ FinishRequest(Req(a), Mutation(a), a, "send_started", TerminalOf[verdict[a]])
             /\ Answer(a, TerminalOf[verdict[a]])
             /\ UNCHANGED Local
    <3>1. TerminalOf[verdict[a]] \in Replies
      BY <2>1, <1>7 DEF FinishRequest, TerminalStates
    <3> QED BY <2>1, <3>1, <1>3, <1>8 DEF Locals
  <2> QED BY <1>22, <2>1, <1>3, <1>4, <1>5, <1>7, <1>8 DEF FinishSend, Locals
<1>23. CASE Reread(a)
  BY <1>1, <1>3, <1>8, <1>23 DEF Reread, Locals
<1>24. CASE Negotiate(a)
  BY <1>24 DEF Negotiate, attemptVars, TypeOK
<1> QED BY <1>9, <1>10, <1>11, <1>12, <1>13, <1>14, <1>15, <1>16, <1>17, <1>18, <1>19, <1>20,
           <1>21, <1>22, <1>23, <1>24 DEF AttemptStep

\* Every step keeps the types.
LEMMA SubmissionTypeStep == TypeOK /\ [Next]_vars => TypeOK'
<1> SUFFICES ASSUME TypeOK, [Next]_vars PROVE TypeOK'
  OBVIOUS
<1>1. LedgerTypeOK'
  BY SubmissionLedger, TypeStep DEF TypeOK
<1>2. CASE \E a \in Attempts : AttemptStep(a)
  BY <1>1, <1>2, AttemptTypeStep
<1>3. CASE UNCHANGED attemptVars
  BY <1>1, <1>3 DEF attemptVars, TypeOK
<1> QED BY <1>2, <1>3 DEF Next, vars

\* No attempt has begun and the store is empty.
LEMMA SubmissionTypeInit == Init => TypeOK
<1> SUFFICES ASSUME Init PROVE TypeOK
  OBVIOUS
<1>1. LedgerTypeOK
  BY TypeInit DEF Init
<1>2. (CHOOSE w \in Workers : TRUE) \in Workers
  BY PolicyAssumption
<1>3. NoReceipt \in Receipt
  BY NoRowTypes
<1> QED BY <1>1, <1>2, <1>3 DEF Init, TypeOK, Labels, Verdicts, Replies

\* However many calls run at once, fail, are retried or die, the durable tables
\* only ever see behaviours of CommandLedger: what is proved of the ledger holds
\* of the system the attempts make.
THEOREM SubmissionImplementsLedger == Spec => LedgerSpec
<1>1. Init => LedgerInit /\ TypeOK
  BY SubmissionTypeInit DEF Init
<1>2. TypeOK /\ [Next]_vars => TypeOK'
  BY SubmissionTypeStep
<1>3. TypeOK /\ [Next]_vars => [LedgerNext]_ledgerVars
  BY SubmissionLedger
<1> QED BY <1>1, <1>2, <1>3, PTL DEF Spec, LedgerSpec

-----------------------------------------------------------------------------
\* What one step does, as far as the invariant sees it

\* What becomes of a row in a step of a bystander: it stays, is forgotten, ends
\* as uncertain, is rejected before it was sent, or keeps its owner and its send
\* while a queued verdict is recorded.
Fate(row, new) ==
    \/ new = row
    \/ new.state \in {"none", "uncertain"}
    \/ row.state \in {"none", "reserved"} /\ new.state = "rejected"
    \/ /\ row.state = "send_started" /\ new.state = "send_started"
       /\ new.owner = row.owner /\ new.mutation = row.mutation /\ new.sentAt = row.sentAt

\* Attempt b takes no part in the step.
Rests(b) ==
    /\ pc'[b] = pc[b] /\ worker'[b] = worker[b] /\ reply'[b] = reply[b]
    /\ verdict'[b] = verdict[b] /\ delivered'[b] = delivered[b] /\ startedAt'[b] = startedAt[b]

OthersRest(a) == call' = call /\ \A b \in Attempts \ {a} : Rests(b)

\* The answer of a, if it is an acceptance, is one the store holds for it.
AnswersFromStore(a) ==
    reply'[a] = "accepted" =>
        /\ pc'[a] = "done" /\ worker'[a] = worker[a]
        /\ \/ reply[a] = "accepted"
           \/ /\ receipts'[Req(a)].state = "accepted"
              /\ receipts'[Req(a)].mutation = Mutation(a)

\* A step of a that neither reserves, nor starts, nor sends, nor concludes
Observes(a) ==
    /\ now' = now /\ OthersRest(a)
    /\ verdict'[a] = verdict[a] /\ delivered'[a] = delivered[a] /\ startedAt'[a] = startedAt[a]
    /\ \A q \in Requests : Fate(receipts[q], receipts'[q])
    /\ pc[a] # "send" /\ pc'[a] \notin {"send", "finish"}
    /\ pc'[a] \in Early => pc[a] \in Early
    /\ pc[a] \in {"start", "reject", "finish", "reread", "done"} =>
          pc'[a] \in {"reread", "done"} /\ worker'[a] = worker[a]
    /\ AnswersFromStore(a)

\* The steps that give an active row an owner, send, and record its verdict
Reserves(a) ==
    /\ pc[a] \in {"reserveSend", "reserveReject"} /\ pc'[a] \in {"start", "reject"}
    /\ Reserve(Req(a), Mutation(a), call[a].target, a)
    /\ OthersRest(a) /\ UNCHANGED <<worker, verdict, delivered, startedAt, reply>>

Starts(a) ==
    /\ pc[a] = "start" /\ pc'[a] = "send"
    /\ MarkSendStarted(Req(a), Mutation(a), a)
    /\ startedAt'[a] = now
    /\ OthersRest(a) /\ UNCHANGED <<worker, verdict, delivered, reply>>

Prompts(a) ==
    /\ pc[a] = "send" /\ pc'[a] = "finish"
    /\ verdict'[a] # "none"
    /\ verdict'[a] = "submitted" => delivered'[a]
    /\ verdict'[a] = "rejected" => ~delivered'[a]
    /\ OthersRest(a) /\ UNCHANGED <<ledgerVars, worker, startedAt, reply>>

Concludes(a) ==
    /\ pc[a] = "finish" /\ pc'[a] = "done"
    /\ verdict[a] \in {"submitted", "rejected", "unknown"}
    /\ FinishRequest(Req(a), Mutation(a), a, "send_started", TerminalOf[verdict[a]])
    /\ reply'[a] = TerminalOf[verdict[a]]
    /\ OthersRest(a) /\ UNCHANGED <<worker, verdict, delivered, startedAt>>

\* The steps of the daemon that no attempt takes part in
Attends ==
    /\ UNCHANGED attemptVars
    /\ \A q \in Requests : Fate(receipts[q], receipts'[q])

\* Every row meets a fate when only row r changes and it does.
LEMMA OneFate ==
    ASSUME LedgerTypeOK, NEW r \in Requests, NEW new,
           receipts' = [receipts EXCEPT ![r] = new], Fate(receipts[r], new)
    PROVE  \A q \in Requests : Fate(receipts[q], receipts'[q])
<1> SUFFICES ASSUME NEW q \in Requests PROVE Fate(receipts[q], receipts'[q])
  OBVIOUS
<1>1. CASE q = r
  BY <1>1 DEF LedgerTypeOK
<1>2. CASE q # r
  BY <1>2 DEF LedgerTypeOK, Fate
<1> QED BY <1>1, <1>2

\* Rows that do not change meet their fate.
LEMMA NoFate ==
    ASSUME receipts' = receipts
    PROVE  \A q \in Requests : Fate(receipts[q], receipts'[q])
BY DEF Fate

\* Closing a row as uncertain, or a reserved one as rejected, is a fate.
LEMMA ClosedFate ==
    ASSUME NEW row \in Receipt
    PROVE  /\ Fate(row, Closed(row, "uncertain"))
           /\ row.state = "reserved" => Fate(row, Closed(row, "rejected"))
BY DEF Fate, Closed, Receipt

\* A step of an attempt is one of the five kinds.
LEMMA AttemptKinds ==
    ASSUME SubmissionInv, NEW a \in Attempts, AttemptStep(a)
    PROVE  Observes(a) \/ Reserves(a) \/ Starts(a) \/ Prompts(a) \/ Concludes(a)
<1> DEFINE r == Req(a)
           m == Mutation(a)
<1>0. /\ TypeOK /\ LedgerTypeOK /\ r \in Requests /\ receipts[r] \in Receipt
      /\ pc[a] \in Labels /\ (reply[a] = "accepted" => pc[a] = "done")
  BY AttemptTypes DEF SubmissionInv, AttemptsAreOrdered, TypeOK
<1>1. ASSUME NEW l, Goto(a, l)
      PROVE  /\ pc'[a] = l /\ reply' = reply
             /\ \A b \in Attempts \ {a} : pc'[b] = pc[b] /\ reply'[b] = reply[b]
  BY <1>0, <1>1 DEF Goto, TypeOK
<1>2. ASSUME NEW e, Answer(a, e)
      PROVE  /\ pc'[a] = "done" /\ reply'[a] = e
             /\ \A b \in Attempts \ {a} : pc'[b] = pc[b] /\ reply'[b] = reply[b]
  BY <1>0, <1>2 DEF Answer, TypeOK
<1> DEFINE Watches == /\ now' = now /\ \A q \in Requests : Fate(receipts[q], receipts'[q])
<1>3. ASSUME UNCHANGED ledgerVars PROVE Watches
  BY <1>3, NoFate DEF ledgerVars
\* an attempt that has not answered goes on, ...
<1>4. ASSUME NEW l \in Labels \ {"send", "finish"}, Goto(a, l), UNCHANGED Local, Watches,
             pc[a] \notin {"send", "done"},
             pc[a] \in {"start", "reject", "finish", "reread"} => l = "reread",
             l \in Early => pc[a] \in Early
      PROVE  Observes(a)
  <2>1. OthersRest(a)
    BY <1>1, <1>4 DEF OthersRest, Rests, Local
  <2>2. AnswersFromStore(a)
    BY <1>0, <1>1, <1>4 DEF AnswersFromStore
  <2> QED BY <1>1, <1>4, <2>1, <2>2 DEF Observes, Local
\* ... or answers
<1>5. ASSUME NEW e, Answer(a, e), UNCHANGED Local, Watches, pc[a] \notin {"send", "done"},
             e = "accepted" => receipts'[r].state = "accepted" /\ receipts'[r].mutation = m
      PROVE  Observes(a)
  <2>1. OthersRest(a)
    BY <1>2, <1>5 DEF OthersRest, Rests, Local
  <2>2. AnswersFromStore(a)
    BY <1>0, <1>2, <1>5 DEF AnswersFromStore, Local
  <2> QED BY <1>2, <1>5, <2>1, <2>2 DEF Observes, Local, Early
<1>6. ASSUME AnswerFromRow(a), pc[a] \notin {"send", "done"} PROVE Observes(a)
  <2>1. /\ Answer(a, Envelope(receipts[r], m)) /\ UNCHANGED Local /\ receipts' = receipts /\ Watches
    BY <1>3, <1>6 DEF AnswerFromRow, ledgerVars
  <2> QED BY <1>0, <1>5, <1>6, <2>1, EnvelopeFacts
<1>7. ASSUME Raise(a, "reread"), pc[a] \notin {"send", "done"} PROVE Observes(a)
  <2>1. Goto(a, "reread") /\ UNCHANGED Local /\ Watches
    BY <1>3, <1>7 DEF Raise
  <2> QED BY <1>4, <1>7, <2>1 DEF Labels, Early
<1>8. ASSUME RaisePending(a), pc[a] \notin {"send", "done"} PROVE Observes(a)
  BY <1>3, <1>5, <1>8 DEF RaisePending
<1> HIDE DEF Watches
<1>9. CASE Lookup(a)
  <2>1. pc[a] = "lookup" /\ pc'[a] \in {"resolve", "authority"} /\ OthersRest(a) /\ Watches
    BY <1>0, <1>3, <1>9 DEF Lookup, OthersRest, Rests, Local, TypeOK
  <2>2. AnswersFromStore(a)
    BY <1>0, <1>9, <2>1 DEF Lookup, AnswersFromStore
  <2> QED BY <1>9, <2>1, <2>2 DEF Lookup, Observes, Watches, Local, Early, Labels
<1>10. CASE ReceiptAuthority(a)
  <2>1. pc[a] = "authority" /\ Watches /\ \A b \in Attempts \ {a} : worker'[b] = worker[b]
    BY <1>0, <1>3, <1>10 DEF ReceiptAuthority, TypeOK
  <2>2. \/ \E e \in {"duplicate", "uncertain", "pending"} : Answer(a, e)
        \/ \E l \in {"replay", "settle", "recover", "resolve"} : Goto(a, l)
    <3>1. CASE DecideSame(a)
      BY <3>1 DEF DecideSame
    <3> QED BY <1>10, <3>1 DEF ReceiptAuthority
  <2>3. /\ pc'[a] \in {"done", "replay", "settle", "recover", "resolve"}
        /\ reply'[a] = "accepted" => reply[a] = "accepted"
        /\ \A b \in Attempts \ {a} : pc'[b] = pc[b] /\ reply'[b] = reply[b]
    <3>1. CASE \E e \in {"duplicate", "uncertain", "pending"} : Answer(a, e)
      BY <3>1, <1>2
    <3>2. CASE \E l \in {"replay", "settle", "recover", "resolve"} : Goto(a, l)
      BY <3>2, <1>1
    <3> QED BY <2>2, <3>1, <3>2
  <2>4. OthersRest(a)
    BY <1>10, <2>1, <2>3 DEF ReceiptAuthority, OthersRest, Rests
  <2>5. AnswersFromStore(a)
    BY <1>0, <2>1, <2>3 DEF AnswersFromStore
  <2> QED BY <1>10, <2>1, <2>3, <2>4, <2>5 DEF ReceiptAuthority, Observes, Watches, Early, Labels
<1>11. CASE Replay(a)
  <2>1. pc[a] = "replay"
    BY <1>11 DEF Replay
  <2>2. CASE \E t \in {"rejected", "uncertain"} :
               /\ RestoreTerminal(r, m, copy[a].proof, t) /\ Answer(a, t) /\ UNCHANGED Local
    <3>1. PICK t \in {"rejected", "uncertain"} :
               /\ RestoreTerminal(r, m, copy[a].proof, t) /\ Answer(a, t) /\ UNCHANGED Local
      BY <2>2
    <3> DEFINE new == [NoReceipt EXCEPT !.state = t, !.result = "final", !.mutation = m,
                                        !.proof = copy[a].proof, !.updatedAt = now]
    <3>2. receipts' = [receipts EXCEPT ![r] = new] /\ now' = now /\ receipts[r].state = "none"
      BY <3>1 DEF RestoreTerminal
    <3>3. new.state = t
      BY DEF NoReceipt
    <3> HIDE DEF new
    <3>4. Fate(receipts[r], new)
      BY <3>2, <3>3 DEF Fate
    <3>5. Watches
      BY <1>0, <3>2, <3>4, OneFate DEF Watches
    <3> QED BY <1>5, <2>1, <3>1, <3>5
  <2>3. CASE AnswerFromRow(a) \/ Raise(a, "reread")
    BY <1>6, <1>7, <2>1, <2>3
  <2> QED BY <1>11, <2>2, <2>3 DEF Replay
<1>12. CASE SettleQueued(a)
  <2>1. pc[a] = "settle"
    BY <1>12 DEF SettleQueued
  <2>2. CASE \E l \in {"checkClosed", "checkOpen"} : /\ UNCHANGED <<now, receipts>> /\ Goto(a, l)
                                                    /\ UNCHANGED Local
    <3>1. Watches
      BY <2>2, NoFate DEF Watches
    <3> QED BY <1>4, <2>1, <2>2, <3>1 DEF Early, Labels
  <2> QED BY <1>8, <1>12, <2>1, <2>2 DEF SettleQueued, SettleComponent, Raise, ledgerVars
<1>13. CASE CheckLink(a)
  <2>1. /\ pc[a] \in {"checkOpen", "checkClosed"} /\ Watches /\ UNCHANGED Local
        /\ Answer(a, "pending") \/ \E l \in {"finishQueued", "finishUnverified"} : Goto(a, l)
    BY <1>3, <1>13 DEF CheckLink
  <2> QED BY <1>4, <1>5, <2>1 DEF Early, Labels
<1>14. CASE CloseQueued(a)
  <2>1. pc[a] \in {"finishQueued", "finishUnverified"}
    BY <1>14 DEF CloseQueued
  <2>2. CASE /\ FinishQueued(r, m) \/ FinishUnverifiedQueued(r, m)
             /\ Answer(a, Envelope(receipts'[r], m)) /\ UNCHANGED Local
    <3>1. CASE FinishQueued(r, m)
      <4>1. ~(receipts[r].state = "send_started" /\ receipts[r].result = "queued"
              /\ submissions[r].state = "linked")
        BY <1>0 DEF SubmissionInv, AgreementInv, Paired
      <4>2. receipts' = [receipts EXCEPT ![r] = receipts[r]] /\ now' = now
        BY <3>1, <4>1 DEF FinishQueued
      <4>3. receipts' = receipts
        BY <1>0, <4>2 DEF LedgerTypeOK
      <4>4. Watches
        BY <4>2, <4>3, NoFate DEF Watches
      <4> QED BY <1>0, <1>5, <2>1, <2>2, <4>3, <4>4, EnvelopeFacts
    <3>2. CASE FinishUnverifiedQueued(r, m)
      <4>1. receipts' = [receipts EXCEPT ![r] = Closed(receipts[r], "uncertain")] /\ now' = now
        BY <3>2 DEF FinishUnverifiedQueued
      <4>2. receipts'[r] = Closed(receipts[r], "uncertain") /\ receipts'[r] \in Receipt
        BY <1>0, <4>1, RowOperatorTypes DEF LedgerTypeOK, TerminalStates
      <4>3. Watches
        BY <1>0, <4>1, OneFate, ClosedFate DEF Watches
      <4> QED BY <1>5, <2>1, <2>2, <4>2, <4>3, EnvelopeFacts
    <3> QED BY <2>2, <3>1, <3>2
  <2> QED BY <1>6, <1>8, <1>14, <2>1, <2>2 DEF CloseQueued
<1>15. CASE RecoverAbandoned(a)
  <2>1. pc[a] = "recover"
    BY <1>15 DEF RecoverAbandoned
  <2>2. CASE RecoverUnresolved(r, m) /\ Answer(a, "uncertain") /\ UNCHANGED Local
    <3>1. receipts' = [receipts EXCEPT ![r] = Closed(receipts[r], "uncertain")] /\ now' = now
      BY <2>2 DEF RecoverUnresolved
    <3>2. Watches
      BY <1>0, <3>1, OneFate, ClosedFate DEF Watches
    <3> QED BY <1>5, <2>1, <2>2, <3>2
  <2> QED BY <1>6, <1>8, <1>15, <2>1, <2>2 DEF RecoverAbandoned
<1>16. CASE Resolve(a)
  <2>1. pc[a] = "resolve" /\ Watches /\ \A b \in Attempts \ {a} : worker'[b] = worker[b]
    BY <1>0, <1>3, <1>16 DEF Resolve, TypeOK
  <2>2. /\ pc'[a] \in {"done", "reserveSend", "reserveReject"}
        /\ reply'[a] = "accepted" => reply[a] = "accepted"
        /\ \A b \in Attempts \ {a} : pc'[b] = pc[b] /\ reply'[b] = reply[b]
    <3>1. \/ \E e \in {"pending", "no_receipt", "duplicate"} : Answer(a, e)
          \/ \E l \in {"reserveSend", "reserveReject"} : Goto(a, l)
      BY <1>16 DEF Resolve
    <3>2. CASE \E e \in {"pending", "no_receipt", "duplicate"} : Answer(a, e)
      BY <3>2, <1>2
    <3>3. CASE \E l \in {"reserveSend", "reserveReject"} : Goto(a, l)
      BY <3>3, <1>1
    <3> QED BY <3>1, <3>2, <3>3
  <2>3. OthersRest(a)
    BY <1>16, <2>1, <2>2 DEF Resolve, OthersRest, Rests
  <2>4. AnswersFromStore(a)
    BY <1>0, <2>1, <2>2 DEF AnswersFromStore
  <2> QED BY <1>16, <2>1, <2>2, <2>3, <2>4 DEF Resolve, Observes, Watches, Early, Labels
<1>17. CASE ReserveRequest(a)
  <2>1. pc[a] \in {"reserveSend", "reserveReject"}
    BY <1>17 DEF ReserveRequest
  <2>2. CASE /\ Reserve(r, m, call[a].target, a) /\ UNCHANGED Local
             /\ \E l \in {"start", "reject"} : Goto(a, l)
    <3>1. OthersRest(a) /\ pc'[a] \in {"start", "reject"} /\ reply' = reply
      BY <2>2, <1>1 DEF OthersRest, Rests, Local
    <3> QED BY <2>1, <2>2, <3>1 DEF Reserves, Local
  <2>3. CASE Raise(a, "rereadUnreserved")
    <3>1. Goto(a, "rereadUnreserved") /\ UNCHANGED Local /\ Watches
      BY <1>3, <2>3 DEF Raise
    <3> QED BY <1>4, <2>1, <3>1 DEF Early, Labels
  <2> QED BY <1>6, <1>17, <2>1, <2>2, <2>3 DEF ReserveRequest
<1>18. CASE RereadUnreserved(a)
  <2>1. pc[a] = "rereadUnreserved" /\ UNCHANGED Local /\ Watches /\ receipts' = receipts
    BY <1>3, <1>18 DEF RereadUnreserved, ledgerVars
  <2> QED BY <1>0, <1>5, <1>18, <2>1, EnvelopeFacts DEF RereadUnreserved
<1>19. CASE FinishBeforeSend(a)
  <2>1. pc[a] = "reject"
    BY <1>19 DEF FinishBeforeSend
  <2>2. CASE /\ FinishRequest(r, m, a, "reserved", "rejected")
             /\ Answer(a, "rejected") /\ UNCHANGED Local
    <3>1. /\ receipts' = [receipts EXCEPT ![r] = Closed(receipts[r], "rejected")]
          /\ now' = now /\ receipts[r].state = "reserved"
      BY <2>2 DEF FinishRequest, Owns
    <3>2. Watches
      BY <1>0, <3>1, OneFate, ClosedFate DEF Watches
    <3> QED BY <1>5, <2>1, <2>2, <3>2
  <2> QED BY <1>6, <1>7, <1>19, <2>1, <2>2 DEF FinishBeforeSend
<1>20. CASE StartSend(a)
  <2>1. pc[a] = "start"
    BY <1>20 DEF StartSend
  <2>2. CASE /\ MarkSendStarted(r, m, a) /\ startedAt' = [startedAt EXCEPT ![a] = now]
             /\ Goto(a, "send") /\ UNCHANGED <<call, worker, verdict, delivered>>
    <3>1. /\ startedAt'[a] = now /\ pc'[a] = "send" /\ reply' = reply
          /\ \A b \in Attempts \ {a} : startedAt'[b] = startedAt[b]
      BY <1>0, <1>1, <2>2 DEF TypeOK
    <3>2. OthersRest(a)
      BY <1>1, <2>2, <3>1 DEF OthersRest, Rests
    <3> QED BY <2>1, <2>2, <3>1, <3>2 DEF Starts
  <2> QED BY <1>6, <1>7, <1>20, <2>1, <2>2 DEF StartSend
<1>21. CASE Send(a)
  <2>1. PICK v \in Verdicts \ {"none"}, d \in BOOLEAN :
          /\ v = "submitted" => d
          /\ v = "rejected" => ~d
          /\ verdict' = [verdict EXCEPT ![a] = v]
          /\ delivered' = [delivered EXCEPT ![a] = d]
    BY <1>21 DEF Send
  <2>2. pc[a] = "send" /\ Goto(a, "finish") /\ UNCHANGED <<ledgerVars, call, worker, startedAt>>
    BY <1>21 DEF Send
  <2>3. /\ verdict'[a] = v /\ delivered'[a] = d
        /\ \A b \in Attempts \ {a} : verdict'[b] = verdict[b] /\ delivered'[b] = delivered[b]
    BY <1>0, <2>1 DEF TypeOK
  <2>4. OthersRest(a) /\ pc'[a] = "finish" /\ reply' = reply
    BY <1>1, <2>2, <2>3 DEF OthersRest, Rests
  <2> QED BY <2>1, <2>2, <2>3, <2>4 DEF Prompts
<1>22. CASE FinishSend(a)
  <2>1. pc[a] = "finish" /\ verdict[a] \in Verdicts \ {"none"}
    BY <1>0, <1>22 DEF FinishSend, SubmissionInv, AttemptsAreOrdered, TypeOK
  <2>2. CASE /\ verdict[a] # "written_to_pty"
             /\ FinishRequest(r, m, a, "send_started", TerminalOf[verdict[a]])
             /\ Answer(a, TerminalOf[verdict[a]]) /\ UNCHANGED Local
    <3>1. OthersRest(a) /\ pc'[a] = "done" /\ reply'[a] = TerminalOf[verdict[a]]
      BY <1>2, <2>2 DEF OthersRest, Rests, Local
    <3>2. verdict[a] \in {"submitted", "rejected", "unknown"}
      BY <2>1, <2>2 DEF Verdicts
    <3> QED BY <2>1, <2>2, <3>1, <3>2 DEF Concludes, Local
  <2>3. CASE RecordSendQueued(r, m, a) /\ Answer(a, "pending") /\ UNCHANGED Local
    <3> DEFINE new == [receipts[r] EXCEPT !.result = "queued", !.updatedAt = now]
    <3>1. /\ receipts' = [receipts EXCEPT ![r] = new] /\ now' = now
          /\ receipts[r].state = "send_started"
      BY <2>3 DEF RecordSendQueued, CanRecordQueued, Owns
    <3>2. Fate(receipts[r], new)
      BY <1>0, <3>1 DEF Fate, Receipt
    <3>3. Watches
      BY <1>0, <3>1, <3>2, OneFate DEF Watches
    <3> QED BY <1>5, <2>1, <2>3, <3>3
  <2> QED BY <1>6, <1>7, <1>22, <2>1, <2>2, <2>3 DEF FinishSend
<1>23. CASE Reread(a)
  <2>1. pc[a] = "reread" /\ UNCHANGED Local /\ Watches /\ receipts' = receipts
    BY <1>3, <1>23 DEF Reread, ledgerVars
  <2>2. PICK row \in {receipts[r], NoReceipt} : Answer(a, Envelope(row, m))
    BY <1>23 DEF Reread
  <2>3. Envelope(NoReceipt, m) # "accepted"
    BY NoReceiptFields DEF Envelope
  <2>4. Envelope(row, m) = "accepted" => receipts[r].state = "accepted" /\ receipts[r].mutation = m
    BY <1>0, <2>3, EnvelopeFacts
  <2> QED BY <1>5, <2>1, <2>2, <2>4
<1>24. CASE Negotiate(a)
  <2>1. /\ pc[a] = "done" /\ reply[a] = "accepted" /\ UNCHANGED attemptVars
        /\ UNCHANGED <<now, receipts>>
    BY <1>24 DEF Negotiate, SettleComponent
  <2>2. Watches
    BY <2>1, NoFate DEF Watches
  <2>3. OthersRest(a) /\ AnswersFromStore(a)
    BY <2>1 DEF OthersRest, Rests, AnswersFromStore, attemptVars
  <2> QED BY <2>1, <2>2, <2>3 DEF Observes, Watches, attemptVars
<1> QED BY <1>9, <1>10, <1>11, <1>12, <1>13, <1>14, <1>15, <1>16, <1>17, <1>18, <1>19, <1>20,
           <1>21, <1>22, <1>23, <1>24 DEF AttemptStep

\* The sweeps, the cleanup and the clock leave the attempts alone.
LEMMA DaemonKinds ==
    ASSUME SubmissionInv, (SweepLinks \/ Cleanup \/ Tick) /\ UNCHANGED attemptVars
    PROVE  Attends
<1>1. CASE SweepLinks \/ Tick
  BY <1>1, NoFate DEF SweepLinks, Tick, Attends
<1>2. CASE Cleanup
  <2> PICK stale \in SUBSET StaleSends, gone \in SUBSET Aged :
        receipts' = [r \in Requests |->
               CASE r \in stale -> Closed(receipts[r], "uncertain")
                 [] r \in gone -> NoReceipt
                 [] OTHER -> receipts[r]]
    BY <1>2 DEF Cleanup
  <2> SUFFICES ASSUME NEW q \in Requests PROVE Fate(receipts[q], receipts'[q])
    BY DEF Attends
  <2>1. receipts'[q] \in {Closed(receipts[q], "uncertain"), NoReceipt, receipts[q]}
    <3>1. CASE q \in stale
      <4>1. q \notin gone
        BY <3>1 DEF StaleSends, Aged, Inactive, TerminalStates
      <4> QED BY <3>1, <4>1
    <3>2. CASE q \notin stale
      BY <3>2
    <3> QED BY <3>1, <3>2
  <2>2. receipts[q] \in Receipt
    BY DEF SubmissionInv, TypeOK, LedgerTypeOK
  <2> QED BY <2>1, <2>2, ClosedFate, NoReceiptFields DEF Fate
<1> QED BY <1>1, <1>2

-----------------------------------------------------------------------------
\* Each part of the invariant, kind by kind

\* The order of an attempt's own steps.
LEMMA OrderStep ==
    ASSUME SubmissionInv, NEW a \in Attempts,
           Observes(a) \/ Reserves(a) \/ Starts(a) \/ Prompts(a) \/ Concludes(a)
    PROVE  AttemptsAreOrdered'
<1> SUFFICES ASSUME NEW b \in Attempts
             PROVE  /\ pc'[b] \in Early \cup {"send"} => verdict'[b] = "none" /\ ~delivered'[b]
                    /\ pc'[b] = "finish" => verdict'[b] # "none"
                    /\ verdict'[b] = "submitted" => delivered'[b]
                    /\ verdict'[b] = "rejected" => ~delivered'[b]
                    /\ reply'[b] = "accepted" => pc'[b] = "done"
  BY DEF AttemptsAreOrdered, Early, Labels
<1>1. /\ pc[b] \in Early \cup {"send"} => verdict[b] = "none" /\ ~delivered[b]
      /\ pc[b] = "finish" => verdict[b] # "none"
      /\ verdict[b] = "submitted" => delivered[b]
      /\ verdict[b] = "rejected" => ~delivered[b]
      /\ reply[b] = "accepted" => pc[b] = "done"
  BY DEF SubmissionInv, AttemptsAreOrdered
<1>2. CASE b # a
  <2>1. Rests(b)
    BY <1>2 DEF Observes, Reserves, Starts, Prompts, Concludes, OthersRest
  <2> QED BY <1>1, <2>1 DEF Rests
<1>3. CASE b = a
  <2>1. CASE Observes(a)
    BY <1>1, <1>3, <2>1 DEF Observes, AnswersFromStore
  <2>2. CASE Reserves(a)
    BY <1>1, <1>3, <2>2 DEF Reserves, Early, Labels
  <2>3. CASE Starts(a)
    BY <1>1, <1>3, <2>3 DEF Starts, Early, Labels
  <2>4. CASE Prompts(a)
    BY <1>1, <1>3, <2>4 DEF Prompts, Early, Labels
  <2>5. CASE Concludes(a)
    BY <1>1, <1>3, <2>5 DEF Concludes, Early, Labels
  <2> QED BY <2>1, <2>2, <2>3, <2>4, <2>5
<1> QED BY <1>2, <1>3

\* What the invariant reads of a reservation, ...
LEMMA ReservesFacts ==
    ASSUME TypeOK, NEW a \in Attempts, Reserves(a)
    PROVE  /\ receipts'[Req(a)].state = "reserved" /\ receipts'[Req(a)].owner = a
           /\ receipts'[Req(a)].mutation = Mutation(a)
           /\ receipts[Req(a)].state \in {"none", "reserved"}
           /\ \A q \in Requests \ {Req(a)} : receipts'[q] = receipts[q]
           /\ now' = now
<1>1. receipts[Req(a)] \in Receipt /\ Req(a) \in Requests
  BY AttemptTypes
<1>2. receipts[Req(a)].state \in {"none", "reserved"}
  BY <1>1 DEF Reserves, Reserve, ReserveResponse, Receipt, ReceiptStates, ActiveStates,
              TerminalStates
<1> QED BY <1>1, <1>2 DEF Reserves, Reserve, TypeOK, LedgerTypeOK

\* ... of a send-start, ...
LEMMA StartsFacts ==
    ASSUME TypeOK, NEW a \in Attempts, Starts(a)
    PROVE  /\ receipts[Req(a)].state = "reserved" /\ receipts[Req(a)].owner = a
           /\ receipts'[Req(a)].state = "send_started" /\ receipts'[Req(a)].owner = a
           /\ receipts'[Req(a)].mutation = Mutation(a) /\ receipts'[Req(a)].sentAt = now
           /\ \A q \in Requests \ {Req(a)} : receipts'[q] = receipts[q]
           /\ now' = now
<1>1. receipts[Req(a)] \in Receipt /\ Req(a) \in Requests
  BY AttemptTypes
<1> QED BY <1>1 DEF Starts, MarkSendStarted, Owns, TypeOK, LedgerTypeOK, Receipt

\* ... and of a verdict that the owner records.
LEMMA ConcludesFacts ==
    ASSUME TypeOK, NEW a \in Attempts, Concludes(a)
    PROVE  /\ receipts[Req(a)].state = "send_started" /\ receipts[Req(a)].owner = a
           /\ receipts[Req(a)].mutation = Mutation(a)
           /\ receipts'[Req(a)].state = TerminalOf[verdict[a]]
           /\ receipts'[Req(a)].state \in TerminalStates
           /\ receipts'[Req(a)].mutation = Mutation(a) /\ receipts'[Req(a)].updatedAt = now
           /\ \A q \in Requests \ {Req(a)} : receipts'[q] = receipts[q]
           /\ now' = now
<1>1. receipts[Req(a)] \in Receipt /\ Req(a) \in Requests
  BY AttemptTypes
<1>2. /\ receipts' = [receipts EXCEPT ![Req(a)] = Closed(receipts[Req(a)], TerminalOf[verdict[a]])]
      /\ TerminalOf[verdict[a]] \in TerminalStates
      /\ Owns(Req(a), Mutation(a), a, "send_started") /\ now' = now
  BY DEF Concludes, FinishRequest
<1>3. /\ Closed(receipts[Req(a)], TerminalOf[verdict[a]]).state = TerminalOf[verdict[a]]
      /\ Closed(receipts[Req(a)], TerminalOf[verdict[a]]).mutation = receipts[Req(a)].mutation
      /\ Closed(receipts[Req(a)], TerminalOf[verdict[a]]).updatedAt = now
  BY <1>1 DEF Closed, Receipt
<1> QED BY <1>1, <1>2, <1>3 DEF Owns, TypeOK, LedgerTypeOK

\* An owner keeps its mutation while it rests or has passed the choice of the
\* worker.
LEMMA MutationKept ==
    ASSUME NEW b, call' = call, worker'[b] = worker[b]
    PROVE  Mutation(b)' = Mutation(b) /\ Req(b)' = Req(b)
BY DEF Mutation, Req

\* What OwnersHold says of one row.
Held(r) ==
    LET row == receipts[r]
        o   == row.owner
    IN  /\ row.state \in ActiveStates =>
              o \in Attempts /\ Req(o) = r /\ Mutation(o) = row.mutation
        /\ row.state = "send_started" =>
              pc[o] \in {"send", "finish", "reread", "done"} /\ startedAt[o] = row.sentAt
        /\ row.state = "reserved" =>
              pc[o] \in {"start", "reject", "reread", "done"} /\ verdict[o] = "none"

\* Owners: a row whose owner rests or moves on is still held.
LEMMA OwnersStep ==
    ASSUME SubmissionInv, TypeOK', NEW a \in Attempts,
           Observes(a) \/ Reserves(a) \/ Starts(a) \/ Prompts(a) \/ Concludes(a)
    PROVE  OwnersHold'
<1> SUFFICES ASSUME NEW r \in Requests PROVE Held(r)'
  BY DEF OwnersHold, Held
<1>0. Held(r) /\ TypeOK /\ Req(a) \in Requests /\ receipts[r] \in Receipt /\ receipts'[r] \in Receipt
  BY AttemptTypes DEF SubmissionInv, OwnersHold, Held, TypeOK, LedgerTypeOK
<1> DEFINE o == receipts[r].owner
\* a row that stays in its owner's hands
<1>1. ASSUME receipts'[r].state = receipts[r].state, receipts'[r].owner = o,
             receipts'[r].mutation = receipts[r].mutation,
             receipts'[r].sentAt = receipts[r].sentAt,
             receipts[r].state \in ActiveStates =>
                call' = call /\ worker'[o] = worker[o] /\ startedAt'[o] = startedAt[o],
             receipts[r].state = "send_started" => pc'[o] \in {"send", "finish", "reread", "done"},
             receipts[r].state = "reserved" =>
                pc'[o] \in {"start", "reject", "reread", "done"} /\ verdict'[o] = verdict[o]
      PROVE  Held(r)'
  BY <1>0, <1>1, MutationKept DEF Held, ActiveStates
<1>2. CASE Observes(a)
  <2>1. Fate(receipts[r], receipts'[r])
    BY <1>2 DEF Observes
  <2>2. CASE receipts'[r].state \notin ActiveStates
    BY <2>2 DEF Held, ActiveStates
  <2>3. CASE receipts'[r].state \in ActiveStates
    <3>1. /\ receipts'[r].state = receipts[r].state /\ receipts'[r].owner = o
          /\ receipts'[r].mutation = receipts[r].mutation /\ receipts'[r].sentAt = receipts[r].sentAt
      BY <2>1, <2>3 DEF Fate, ActiveStates
    <3>2. CASE o = a
      <4>1. /\ pc[a] \in {"send", "finish", "start", "reject", "reread", "done"} /\ pc[a] # "send"
        BY <1>0, <1>2, <2>3, <3>1, <3>2 DEF Held, ActiveStates, Observes
      <4>2. /\ pc'[a] \in {"reread", "done"} /\ worker'[a] = worker[a] /\ call' = call
            /\ verdict'[a] = verdict[a] /\ startedAt'[a] = startedAt[a]
        BY <1>2, <4>1 DEF Observes, OthersRest
      <4> QED BY <1>1, <3>1, <3>2, <4>2
    <3>3. CASE o # a
      <4>1. Rests(o) /\ call' = call
        BY <1>0, <1>2, <2>3, <3>1, <3>3 DEF Held, Observes, OthersRest
      <4> QED BY <1>0, <1>1, <3>1, <4>1 DEF Rests, Held
    <3> QED BY <3>2, <3>3
  <2> QED BY <2>2, <2>3
<1>3. CASE Reserves(a)
  <2>1. CASE r = Req(a)
    <3>1. /\ receipts'[r].state = "reserved" /\ receipts'[r].owner = a
          /\ receipts'[r].mutation = Mutation(a)
      BY <1>0, <1>3, <2>1, ReservesFacts
    <3>2. pc'[a] \in {"start", "reject"} /\ verdict'[a] = verdict[a] /\ verdict[a] = "none"
      BY <1>3 DEF Reserves, SubmissionInv, AttemptsAreOrdered, Early, Labels
    <3>3. Mutation(a)' = Mutation(a) /\ Req(a)' = Req(a)
      BY <1>3, MutationKept DEF Reserves, OthersRest
    <3> QED BY <2>1, <3>1, <3>2, <3>3 DEF Held
  <2>2. CASE r # Req(a)
    <3>1. receipts'[r] = receipts[r]
      BY <1>0, <1>3, <2>2, ReservesFacts
    <3>2. CASE receipts[r].state \in ActiveStates
      <4>1. o \in Attempts \ {a}
        BY <1>0, <2>2, <3>2 DEF Held
      <4> QED BY <1>0, <1>1, <1>3, <3>1, <4>1 DEF Reserves, OthersRest, Rests, Held
    <3>3. CASE receipts[r].state \notin ActiveStates
      BY <3>1, <3>3 DEF Held, ActiveStates
    <3> QED BY <3>2, <3>3
  <2> QED BY <2>1, <2>2
<1>4. CASE Starts(a)
  <2>1. CASE r = Req(a)
    <3>1. /\ receipts'[r].state = "send_started" /\ receipts'[r].owner = a
          /\ receipts'[r].mutation = Mutation(a) /\ receipts'[r].sentAt = now
      BY <1>0, <1>4, <2>1, StartsFacts
    <3>2. pc'[a] = "send" /\ startedAt'[a] = now
      BY <1>4 DEF Starts
    <3>3. Mutation(a)' = Mutation(a) /\ Req(a)' = Req(a)
      BY <1>4, MutationKept DEF Starts, OthersRest
    <3> QED BY <2>1, <3>1, <3>2, <3>3 DEF Held
  <2>2. CASE r # Req(a)
    <3>1. receipts'[r] = receipts[r]
      BY <1>0, <1>4, <2>2, StartsFacts
    <3>2. CASE receipts[r].state \in ActiveStates
      <4>1. o \in Attempts \ {a}
        BY <1>0, <2>2, <3>2 DEF Held
      <4> QED BY <1>0, <1>1, <1>4, <3>1, <4>1 DEF Starts, OthersRest, Rests, Held
    <3>3. CASE receipts[r].state \notin ActiveStates
      BY <3>1, <3>3 DEF Held, ActiveStates
    <3> QED BY <3>2, <3>3
  <2> QED BY <2>1, <2>2
<1>5. CASE Prompts(a)
  <2>1. receipts' = receipts /\ call' = call
    BY <1>5 DEF Prompts, OthersRest, ledgerVars
  <2>2. CASE receipts[r].state \notin ActiveStates
    BY <2>1, <2>2 DEF Held, ActiveStates
  <2>3. CASE receipts[r].state \in ActiveStates /\ o = a
    <3>1. receipts[r].state = "send_started"
      BY <1>0, <1>5, <2>3 DEF Held, Prompts, ActiveStates
    <3>2. pc'[a] = "finish" /\ worker'[a] = worker[a] /\ startedAt'[a] = startedAt[a]
      BY <1>5 DEF Prompts
    <3> QED BY <1>1, <2>1, <2>3, <3>1, <3>2
  <2>4. CASE receipts[r].state \in ActiveStates /\ o # a
    <3>1. Rests(o)
      BY <1>0, <1>5, <2>4 DEF Held, Prompts, OthersRest
    <3> QED BY <1>0, <1>1, <2>1, <2>4, <3>1 DEF Rests, Held
  <2> QED BY <2>2, <2>3, <2>4
<1>6. CASE Concludes(a)
  <2>1. CASE r = Req(a)
    <3>1. receipts'[r].state \in TerminalStates
      BY <1>0, <1>6, <2>1, ConcludesFacts
    <3> QED BY <3>1 DEF Held, TerminalStates, ActiveStates
  <2>2. CASE r # Req(a)
    <3>1. receipts'[r] = receipts[r]
      BY <1>0, <1>6, <2>2, ConcludesFacts
    <3>2. CASE receipts[r].state \in ActiveStates
      <4>1. o \in Attempts \ {a}
        BY <1>0, <2>2, <3>2 DEF Held
      <4> QED BY <1>0, <1>1, <1>6, <3>1, <4>1 DEF Concludes, OthersRest, Rests, Held
    <3>3. CASE receipts[r].state \notin ActiveStates
      BY <3>1, <3>3 DEF Held, ActiveStates
    <3> QED BY <3>2, <3>3
  <2> QED BY <2>1, <2>2
<1> QED BY <1>2, <1>3, <1>4, <1>5, <1>6

\* What StartsAreOld says of one attempt and the row of its request.
Aging(b, row) ==
    /\ row.state \in {"none", "reserved"} => startedAt[b] + Retention < now
    /\ row.state = "send_started" => row.owner = b \/ startedAt[b] + Retention < row.sentAt
    /\ row.state \in TerminalStates => startedAt[b] <= row.updatedAt
    /\ row.state = "rejected" => startedAt[b] + Retention < row.updatedAt

\* A started attempt stays old with respect to a row that moves without being
\* rejected after its send-start.
LEMMA AgingMoves ==
    ASSUME SubmissionInv, NEW b \in Attempts, Started(b),
           NEW new \in Receipt, Moves(receipts[Req(b)], new), Fate(receipts[Req(b)], new)
    PROVE  Aging(b, new)
<1> DEFINE row == receipts[Req(b)]
<1>1. /\ row \in Receipt /\ Req(b) \in Requests /\ now \in Nat /\ Retention \in Nat
      /\ startedAt[b] \in Nat
  BY AttemptTypes, PolicyTypes DEF SubmissionInv, TypeOK, LedgerTypeOK
<1>2. /\ row.sentAt \in Nat /\ row.updatedAt \in Nat /\ row.state \in ReceiptStates
      /\ new.sentAt \in Nat /\ new.updatedAt \in Nat /\ new.state \in ReceiptStates
  BY <1>1 DEF Receipt
<1>3. row.sentAt <= now /\ row.updatedAt <= now
  BY <1>1 DEF SubmissionInv, SpacingInv, RowsAreDated
<1>4. Aging(b, row)
  BY DEF SubmissionInv, StartsAreOld, Aging
<1>5. row.state = "send_started" => startedAt[b] <= row.sentAt
  <2>1. ASSUME row.state = "send_started", row.owner = b PROVE startedAt[b] = row.sentAt
    BY <1>1, <2>1 DEF SubmissionInv, OwnersHold
  <2> QED BY <1>1, <1>2, <1>4, <2>1 DEF Aging
<1> HIDE DEF row
<1>6. Moves(row, new) /\ Fate(row, new)
  BY DEF row
<1>7. CASE new = row
  BY <1>4, <1>7
<1>8. CASE /\ row.state \in {"none", "reserved"} /\ new.state = "reserved"
  BY <1>4, <1>8 DEF Aging, TerminalStates
<1>9. CASE /\ row.state = "send_started" /\ new.state = "send_started"
  BY <1>4, <1>6, <1>9 DEF Aging, Fate, TerminalStates
<1>10. CASE /\ row.state \in {"none", "reserved", "send_started"} /\ new.state \in TerminalStates
            /\ new.updatedAt = now
  <2>1. startedAt[b] <= now
    BY <1>1, <1>2, <1>3, <1>4, <1>5, <1>10 DEF Aging
  <2>2. new.state = "rejected" => row.state \in {"none", "reserved"}
    BY <1>6, <1>10 DEF Fate
  <2> QED BY <1>4, <1>10, <2>1, <2>2 DEF Aging, TerminalStates
<1>11. CASE /\ row.state \in TerminalStates \cup {"reserved"} /\ row.updatedAt + Retention < now
            /\ new = NoReceipt
  <2>1. startedAt[b] + Retention < now
    BY <1>1, <1>2, <1>4, <1>11 DEF Aging
  <2> QED BY <1>11, <2>1, NoReceiptFields DEF Aging, TerminalStates
<1> QED BY <1>6, <1>7, <1>8, <1>9, <1>10, <1>11 DEF Moves

\* A quiet step of the store moves the rows.
LEMMA FateMoves ==
    ASSUME SubmissionInv, LedgerNext \/ UNCHANGED ledgerVars, now' = now,
           \A q \in Requests : Fate(receipts[q], receipts'[q])
    PROVE  \A q \in Requests : Moves(receipts[q], receipts'[q])
<1>1. LedgerTypeOK /\ now \in Nat
  BY DEF SubmissionInv, TypeOK, LedgerTypeOK
<1>2. ~Tick
  BY <1>1 DEF Tick
<1>3. ~Sends
  <2> SUFFICES ASSUME NEW r \in Requests, NEW m \in Mutations, NEW o \in Tokens,
                      MarkSendStarted(r, m, o)
               PROVE  FALSE
    BY DEF Sends
  <2>1. receipts[r].state = "reserved" /\ receipts'[r].state = "send_started"
    BY <1>1 DEF MarkSendStarted, Owns, LedgerTypeOK, Receipt
  <2> QED BY <2>1 DEF Fate
<1>4. CASE UNCHANGED ledgerVars
  BY <1>4 DEF ledgerVars, Moves
<1> QED BY <1>1, <1>2, <1>3, <1>4, StepMoves

\* The age of the starts.
LEMMA AgeStep ==
    ASSUME SubmissionInv, TypeOK', NEW a \in Attempts, LedgerNext \/ UNCHANGED ledgerVars,
           Observes(a) \/ Reserves(a) \/ Starts(a) \/ Prompts(a) \/ Concludes(a)
    PROVE  StartsAreOld'
<1>0. /\ TypeOK /\ LedgerTypeOK /\ now \in Nat /\ Retention \in Nat /\ Req(a) \in Requests
      /\ call' = call /\ now' = now
  BY AttemptTypes, PolicyTypes, ReservesFacts, StartsFacts, ConcludesFacts
     DEF SubmissionInv, TypeOK, LedgerTypeOK, Observes, Reserves, Starts, Prompts, Concludes,
         OthersRest, ledgerVars
<1> SUFFICES ASSUME NEW b \in Attempts, Started(b)'
             PROVE  Aging(b, receipts[Req(b)])'
  BY DEF StartsAreOld, Aging
<1>1. Req(b)' = Req(b) /\ Req(b) \in Requests /\ startedAt[b] \in Nat
  BY <1>0, AttemptTypes DEF Req, TypeOK
<1>2. receipts[Req(b)] \in Receipt /\ receipts'[Req(b)] \in Receipt
  BY <1>1 DEF TypeOK, LedgerTypeOK, SubmissionInv
\* all but the attempt that starts had started before
<1>3. ASSUME startedAt'[b] = startedAt[b], Aging(b, receipts'[Req(b)])
      PROVE  Aging(b, receipts[Req(b)])'
  BY <1>0, <1>1, <1>3 DEF Aging
<1>4. ASSUME Started(b) PROVE Aging(b, receipts[Req(b)])
  BY <1>4 DEF SubmissionInv, StartsAreOld, Aging
<1>5. ASSUME b # a PROVE Started(b) /\ startedAt'[b] = startedAt[b]
  <2>1. Rests(b)
    BY <1>5 DEF Observes, Reserves, Starts, Prompts, Concludes, OthersRest
  <2> QED BY <2>1 DEF Rests, Started
<1>6. CASE Observes(a)
  <2>1. Started(b) /\ startedAt'[b] = startedAt[b]
    BY <1>5, <1>6 DEF Observes, Started
  <2>2. Moves(receipts[Req(b)], receipts'[Req(b)]) /\ Fate(receipts[Req(b)], receipts'[Req(b)])
    BY <1>1, <1>6, FateMoves DEF Observes
  <2> QED BY <1>2, <1>3, <2>1, <2>2, AgingMoves
<1>7. CASE Reserves(a)
  <2>1. Started(b) /\ startedAt'[b] = startedAt[b] /\ Aging(b, receipts[Req(b)])
    BY <1>4, <1>5, <1>7 DEF Reserves, Started
  <2>2. CASE Req(b) = Req(a)
    <3>1. startedAt[b] + Retention < now /\ receipts'[Req(b)].state = "reserved"
      BY <1>0, <1>7, <2>1, <2>2, ReservesFacts DEF Aging
    <3> QED BY <1>3, <2>1, <3>1 DEF Aging, TerminalStates
  <2>3. CASE Req(b) # Req(a)
    BY <1>0, <1>1, <1>3, <1>7, <2>1, <2>3, ReservesFacts
  <2> QED BY <2>2, <2>3
<1>8. CASE Starts(a)
  <2>1. CASE b = a
    <3>1. receipts'[Req(a)].owner = a /\ receipts'[Req(a)].state = "send_started"
      BY <1>0, <1>8, StartsFacts
    <3> QED BY <1>1, <2>1, <3>1 DEF Aging, TerminalStates
  <2>2. CASE b # a /\ Req(b) = Req(a)
    <3>1. Started(b) /\ startedAt'[b] = startedAt[b] /\ Aging(b, receipts[Req(b)])
      BY <1>4, <1>5, <2>2
    <3>2. /\ receipts[Req(b)].state = "reserved" /\ receipts'[Req(b)].state = "send_started"
          /\ receipts'[Req(b)].sentAt = now
      BY <1>0, <1>8, <2>2, StartsFacts
    <3> QED BY <1>3, <3>1, <3>2 DEF Aging, TerminalStates
  <2>3. CASE b # a /\ Req(b) # Req(a)
    BY <1>0, <1>1, <1>3, <1>4, <1>5, <1>8, <2>3, StartsFacts
  <2> QED BY <2>1, <2>2, <2>3
<1>9. CASE Prompts(a)
  <2>1. Started(b) /\ startedAt'[b] = startedAt[b] /\ receipts' = receipts
    BY <1>5, <1>9 DEF Prompts, Started, ledgerVars
  <2> QED BY <1>3, <1>4, <2>1
<1>10. CASE Concludes(a)
  <2>1. Started(b) /\ startedAt'[b] = startedAt[b] /\ Aging(b, receipts[Req(b)])
    BY <1>4, <1>5, <1>10 DEF Concludes, Started
  <2>2. CASE Req(b) = Req(a)
    <3> DEFINE row == receipts[Req(a)]
    <3>1. /\ row.state = "send_started" /\ row.owner = a
          /\ receipts'[Req(b)].state = TerminalOf[verdict[a]]
          /\ receipts'[Req(b)].state \in TerminalStates
          /\ receipts'[Req(b)].updatedAt = now
      BY <1>0, <1>10, <2>2, ConcludesFacts
    <3>2. row.sentAt \in Nat /\ row.sentAt <= now /\ startedAt[a] = row.sentAt
      BY <1>0, <1>2, <2>2, <3>1 DEF SubmissionInv, SpacingInv, RowsAreDated, OwnersHold, Receipt
    <3>3. CASE b # a
      <4>1. startedAt[b] + Retention < row.sentAt
        BY <2>1, <2>2, <3>1, <3>3 DEF Aging
      <4>2. startedAt[b] + Retention < now /\ startedAt[b] <= now
        BY <1>0, <1>1, <3>2, <4>1
      <4> QED BY <1>3, <2>1, <3>1, <4>2 DEF Aging, TerminalStates
    <3>4. CASE b = a
      <4>1. verdict[a] # "rejected"
        <5>1. delivered'[a] \/ pc'[a] = "send"
          BY <3>4 DEF Started
        <5>2. delivered[a]
          BY <1>10, <5>1 DEF Concludes
        <5> QED BY <5>2 DEF SubmissionInv, AttemptsAreOrdered
      <4>2. receipts'[Req(b)].state # "rejected"
        BY <1>10, <3>1, <4>1 DEF Concludes, TerminalOf
      <4> QED BY <1>3, <2>1, <3>1, <3>2, <3>4, <4>2 DEF Aging, TerminalStates
    <3> QED BY <3>3, <3>4
  <2>3. CASE Req(b) # Req(a)
    BY <1>0, <1>1, <1>3, <1>10, <2>1, <2>3, ConcludesFacts
  <2> QED BY <2>2, <2>3
<1> QED BY <1>6, <1>7, <1>8, <1>9, <1>10

\* A delivery stays a delivery: whoever was told "submitted" has chosen its
\* worker and sends no more.
LEMMA DeliveriesStay ==
    ASSUME SubmissionInv, NEW a \in Attempts,
           Observes(a) \/ Reserves(a) \/ Starts(a) \/ Prompts(a) \/ Concludes(a),
           NEW b \in Attempts, NEW r, NEW m, Delivers(b, r, m)
    PROVE  Delivers(b, r, m)'
<1>1. pc[b] \notin Early \cup {"send"} /\ pc[b] \in Labels
  BY DEF SubmissionInv, AttemptsAreOrdered, Delivers, TypeOK
<1>2. pc[b] \in {"finish", "reread", "done"}
  BY <1>1 DEF Early
<1>3. /\ worker'[b] = worker[b] /\ call' = call
      /\ verdict'[b] = verdict[b] /\ delivered'[b] = delivered[b]
  <2>1. CASE b # a
    BY <2>1 DEF Observes, Reserves, Starts, Prompts, Concludes, OthersRest, Rests
  <2>2. CASE b = a
    BY <1>2, <2>2 DEF Observes, Reserves, Starts, Prompts, Concludes, OthersRest
  <2> QED BY <2>1, <2>2
<1> QED BY <1>3, MutationKept DEF Delivers

\* An accepted row is backed by a delivery.
LEMMA AcceptedStep ==
    ASSUME SubmissionInv, NEW a \in Attempts,
           Observes(a) \/ Reserves(a) \/ Starts(a) \/ Prompts(a) \/ Concludes(a)
    PROVE  AcceptedRowsAreTrue'
<1> SUFFICES ASSUME NEW r \in Requests, receipts'[r].state = "accepted"
             PROVE  \E b \in Attempts : Delivers(b, r, receipts[r].mutation)'
  BY DEF AcceptedRowsAreTrue
<1>0. TypeOK /\ Req(a) \in Requests
  BY AttemptTypes DEF SubmissionInv
<1>1. ASSUME receipts'[r] = receipts[r]
      PROVE  \E b \in Attempts : Delivers(b, r, receipts[r].mutation)'
  <2>1. PICK b \in Attempts : Delivers(b, r, receipts[r].mutation)
    BY <1>1 DEF SubmissionInv, AcceptedRowsAreTrue
  <2>2. \A m : Delivers(b, r, m) => Delivers(b, r, m)'
    BY DeliveriesStay
  <2>3. Delivers(b, r, receipts[r].mutation)'
    BY <1>1, <2>1, <2>2, DeliveriesStay DEF Delivers
  <2> QED BY <2>3
<1>2. CASE Observes(a)
  <2>1. Fate(receipts[r], receipts'[r])
    BY <1>2 DEF Observes
  <2> QED BY <1>1, <2>1 DEF Fate
<1>3. CASE Reserves(a) \/ Starts(a)
  <2>1. receipts'[r] = receipts[r]
    BY <1>0, <1>3, ReservesFacts, StartsFacts
  <2> QED BY <1>1, <2>1
<1>4. CASE Prompts(a)
  BY <1>1, <1>4 DEF Prompts, ledgerVars
<1>5. CASE Concludes(a)
  <2>1. CASE r = Req(a)
    <3>1. receipts'[r].state = TerminalOf[verdict[a]] /\ receipts'[r].mutation = Mutation(a)
      BY <1>0, <1>5, <2>1, ConcludesFacts
    <3>2. verdict[a] = "submitted" /\ verdict'[a] = verdict[a] /\ delivered'[a] = delivered[a]
      BY <1>5, <3>1 DEF Concludes, TerminalOf
    <3>3. delivered[a]
      BY <3>2 DEF SubmissionInv, AttemptsAreOrdered
    <3>4. Mutation(a)' = Mutation(a) /\ Req(a)' = Req(a)
      BY <1>5, MutationKept DEF Concludes, OthersRest
    <3> QED BY <2>1, <3>1, <3>2, <3>3, <3>4 DEF Delivers
  <2>2. CASE r # Req(a)
    BY <1>0, <1>1, <1>5, <2>2, ConcludesFacts
  <2> QED BY <2>1, <2>2
<1> QED BY <1>2, <1>3, <1>4, <1>5

\* An accepted answer repeats what an accepted row says.
LEMMA AnswerStep ==
    ASSUME SubmissionInv, AcceptedRowsAreTrue', NEW a \in Attempts,
           Observes(a) \/ Reserves(a) \/ Starts(a) \/ Prompts(a) \/ Concludes(a)
    PROVE  AcceptedWasDelivered'
<1> SUFFICES ASSUME NEW c \in Attempts, reply'[c] = "accepted"
             PROVE  \E b \in Attempts : Delivers(b, Req(c), Mutation(c))'
  BY DEF AcceptedWasDelivered, Delivers
<1>0. TypeOK /\ Req(a) \in Requests /\ Req(c) \in Requests
  BY AttemptTypes DEF SubmissionInv
<1>1. ASSUME reply[c] = "accepted", worker'[c] = worker[c], call' = call
      PROVE  \E b \in Attempts : Delivers(b, Req(c), Mutation(c))'
  <2>1. PICK b \in Attempts : Delivers(b, Req(c), Mutation(c))
    BY <1>1 DEF SubmissionInv, AcceptedWasDelivered, Delivers
  <2>2. Req(c)' = Req(c) /\ Mutation(c)' = Mutation(c)
    BY <1>1, MutationKept
  <2>3. \A r, m : Delivers(b, r, m) => Delivers(b, r, m)'
    BY DeliveriesStay
  <2> QED BY <2>1, <2>2, <2>3 DEF Delivers
<1>2. ASSUME receipts'[Req(c)].state = "accepted", receipts'[Req(c)].mutation = Mutation(c),
             worker'[c] = worker[c], call' = call
      PROVE  \E b \in Attempts : Delivers(b, Req(c), Mutation(c))'
  <2>1. Req(c)' = Req(c) /\ Mutation(c)' = Mutation(c)
    BY <1>2, MutationKept
  <2> QED BY <1>0, <1>2, <2>1 DEF AcceptedRowsAreTrue, Delivers
<1>3. CASE c # a
  <2>1. Rests(c) /\ call' = call
    BY <1>3 DEF Observes, Reserves, Starts, Prompts, Concludes, OthersRest
  <2> QED BY <1>1, <2>1 DEF Rests
<1>4. CASE c = a /\ Observes(a)
  BY <1>1, <1>2, <1>4 DEF Observes, AnswersFromStore, OthersRest
<1>5. CASE c = a /\ (Reserves(a) \/ Starts(a) \/ Prompts(a))
  BY <1>1, <1>5 DEF Reserves, Starts, Prompts, OthersRest
<1>6. CASE c = a /\ Concludes(a)
  BY <1>0, <1>2, <1>6, ConcludesFacts DEF Concludes, OthersRest
<1> QED BY <1>3, <1>4, <1>5, <1>6

\* A step of the daemon preserves every part.
LEMMA AttendsStep ==
    ASSUME SubmissionInv, TypeOK', Attends, SweepLinks \/ Cleanup \/ Tick \/ UNCHANGED vars
    PROVE  /\ AttemptsAreOrdered' /\ OwnersHold' /\ StartsAreOld'
           /\ AcceptedRowsAreTrue' /\ AcceptedWasDelivered'
<1>0. /\ UNCHANGED <<call, pc, copy, worker, verdict, startedAt, delivered, reply>>
      /\ \A q \in Requests : Fate(receipts[q], receipts'[q])
      /\ TypeOK /\ now \in Nat /\ Retention \in Nat
  BY PolicyTypes DEF Attends, attemptVars, SubmissionInv, TypeOK, LedgerTypeOK
<1>1. AttemptsAreOrdered'
  BY <1>0 DEF SubmissionInv, AttemptsAreOrdered
<1>2. AcceptedWasDelivered'
  BY <1>0 DEF SubmissionInv, AcceptedWasDelivered, Req, Mutation
<1>3. OwnersHold'
  BY <1>0 DEF SubmissionInv, OwnersHold, Fate, Req, Mutation, ActiveStates
<1>4. AcceptedRowsAreTrue'
  BY <1>0 DEF SubmissionInv, AcceptedRowsAreTrue, Delivers, Fate, Req, Mutation
<1>5. StartsAreOld'
  <2> SUFFICES ASSUME NEW b \in Attempts, Started(b) PROVE Aging(b, receipts[Req(b)])'
    BY <1>0 DEF StartsAreOld, Aging, Started
  <2>1. Req(b)' = Req(b) /\ Req(b) \in Requests /\ startedAt[b] \in Nat
    BY <1>0, AttemptTypes DEF Req, TypeOK
  <2>2. CASE Tick
    <3>1. now' = now + 1 /\ receipts' = receipts
      BY <2>2 DEF Tick
    <3>2. Aging(b, receipts[Req(b)])
      BY DEF SubmissionInv, StartsAreOld, Aging
    <3> QED BY <1>0, <2>1, <3>1, <3>2 DEF Aging
  <2>3. CASE SweepLinks \/ Cleanup \/ UNCHANGED vars
    <3>1. now' = now /\ (LedgerNext \/ UNCHANGED ledgerVars)
      BY <2>3 DEF SweepLinks, Cleanup, LedgerNext, vars, ledgerVars
    <3>2. Moves(receipts[Req(b)], receipts'[Req(b)])
      BY <1>0, <2>1, <3>1, FateMoves
    <3>3. receipts'[Req(b)] \in Receipt
      BY <2>1 DEF TypeOK, LedgerTypeOK
    <3>4. Aging(b, receipts'[Req(b)])
      BY <1>0, <2>1, <3>2, <3>3, AgingMoves
    <3> QED BY <1>0, <2>1, <3>1, <3>4 DEF Aging
  <2> QED BY <2>2, <2>3
<1> QED BY <1>1, <1>2, <1>3, <1>4, <1>5

-----------------------------------------------------------------------------
\* The theorems

\* The invariant holds before anything was called.
LEMMA SubmissionInit == Init => SubmissionInv
<1> SUFFICES ASSUME Init PROVE SubmissionInv
  OBVIOUS
<1>1. TypeOK /\ SpacingInv
  BY SubmissionTypeInit, SpacingInit DEF Init
<1>2. \A r \in Requests : receipts[r] = NoReceipt /\ submissions[r] = NoSubmission
  BY DEF Init, LedgerInit
<1>3. AgreementInv
  BY <1>1, <1>2, NoReceiptFields DEF AgreementInv, Paired, NoSubmission, TypeOK
<1>4. \A a \in Attempts : /\ pc[a] = "lookup" /\ verdict[a] = "none" /\ ~delivered[a]
                          /\ reply[a] = "none"
  BY DEF Init
<1>5. AttemptsAreOrdered /\ StartsAreOld /\ AcceptedWasDelivered
  BY <1>4 DEF AttemptsAreOrdered, StartsAreOld, Started, AcceptedWasDelivered
<1>6. OwnersHold /\ AcceptedRowsAreTrue
  BY <1>2, NoReceiptFields DEF OwnersHold, AcceptedRowsAreTrue, ActiveStates
<1> QED BY <1>1, <1>3, <1>5, <1>6 DEF SubmissionInv

\* Every step preserves the invariant.
LEMMA SubmissionStep == SubmissionInv /\ [Next]_vars => SubmissionInv'
<1> SUFFICES ASSUME SubmissionInv, [Next]_vars PROVE SubmissionInv'
  OBVIOUS
<1>1. TypeOK' /\ [LedgerNext]_ledgerVars
  BY SubmissionTypeStep, SubmissionLedger DEF SubmissionInv
<1>2. SpacingInv' /\ AgreementInv'
  BY <1>1, SpacingStep, AgreementStep DEF SubmissionInv
<1>3. ASSUME NEW a \in Attempts, AttemptStep(a) PROVE SubmissionInv'
  <2>1. Observes(a) \/ Reserves(a) \/ Starts(a) \/ Prompts(a) \/ Concludes(a)
    BY <1>3, AttemptKinds
  <2>2. AttemptsAreOrdered'
    BY <2>1, OrderStep
  <2>3. OwnersHold'
    BY <1>1, <2>1, OwnersStep
  <2>4. StartsAreOld'
    BY <1>1, <2>1, AgeStep
  <2>5. AcceptedRowsAreTrue'
    BY <2>1, AcceptedStep
  <2>6. AcceptedWasDelivered'
    BY <2>1, <2>5, AnswerStep
  <2> QED BY <1>1, <1>2, <2>2, <2>3, <2>4, <2>5, <2>6 DEF SubmissionInv
<1>4. CASE (SweepLinks \/ Cleanup \/ Tick) /\ UNCHANGED attemptVars
  BY <1>1, <1>2, <1>4, DaemonKinds, AttendsStep DEF SubmissionInv
<1>5. CASE UNCHANGED vars
  <2>1. Attends
    BY <1>5, NoFate DEF Attends, vars, ledgerVars
  <2> QED BY <1>1, <1>2, <1>5, <2>1, AttendsStep DEF SubmissionInv
<1> QED BY <1>3, <1>4, <1>5 DEF Next

\* The owner named by an active receipt is the attempt that is about to act on
\* it, or that died holding it.
THEOREM OwnersAreSenders == Spec => []OwnerIsTheSender
<1>1. Init => SubmissionInv
  BY SubmissionInit
<1>2. SubmissionInv /\ [Next]_vars => SubmissionInv'
  BY SubmissionStep
<1>3. SubmissionInv => OwnerIsTheSender
  BY DEF SubmissionInv, OwnersHold, OwnerIsTheSender, ActiveStates
<1> QED BY <1>1, <1>2, <1>3, PTL DEF Spec

\* Whatever the interleaving of attempts, crashes, lost answers, recoveries and
\* cleanups: an accepted answer names a text that was delivered, and nothing of a
\* rejected request is, or will be, delivered within the retention period.
THEOREM AnswersTrue == Spec => []AnswersAreTrue
<1>1. Init => SubmissionInv
  BY SubmissionInit
<1>2. SubmissionInv /\ [Next]_vars => SubmissionInv'
  BY SubmissionStep
<1>3. SubmissionInv => AnswersAreTrue
  BY DEF SubmissionInv, AnswersAreTrue, StartsAreOld, Started, RejectedWasNotDelivered
<1> QED BY <1>1, <1>2, <1>3, PTL DEF Spec

\* The attempts inherit from the ledger that a request is sent at most once
\* within the retention period and that its two rows agree.
THEOREM AttemptsSendOnce == Spec => [](SendsAreSpaced /\ TablesAgree)
<1>1. Spec => LedgerSpec
  BY SubmissionImplementsLedger
<1> QED BY <1>1, SendsSpaced, TablesAgreeAlways, PTL

=============================================================================
