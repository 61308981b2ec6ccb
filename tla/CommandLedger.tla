---------------------------- MODULE CommandLedger ----------------------------
(***************************************************************************)
(* The durable side of command submission (store/sqlite.py): the           *)
(* command_receipts row of a (host, request id) and the turn_submissions   *)
(* row that shadows it, with one action per BEGIN IMMEDIATE transaction.   *)
(* SQLite serialises the transactions, so each is one atomic step.  The    *)
(* callers, which keep copies of rows between transactions, are in         *)
(* CommandSubmission.                                                      *)
(*                                                                         *)
(* A store belongs to one host, so a receipt is identified by its request  *)
(* id.  Times are seconds of the clock now.  The code's updated_at and     *)
(* terminal_at are written together when a row becomes terminal and never  *)
(* after it, so COALESCE(terminal_at, updated_at) is the one field         *)
(* updatedAt.                                                              *)
(***************************************************************************)
EXTENDS Integers, FiniteSets, Sequences

CONSTANTS
    Requests,       \* request ids of this host
    Tokens,         \* owner tokens; each reservation draws its own
    Workers,        \* public worker ids
    Texts,          \* instruction texts
    Selectors,      \* spellings of a target (a worker id or an alias)
    NoToken,        \* the empty owner_token_hash
    Lease,          \* COMMAND_RECEIPT_OWNER_LEASE_SECONDS
    LinkWindow,     \* submission_link_window_seconds
    HardTTL,        \* submission_hard_ttl_seconds
    AckTimeout,     \* SUBMISSION_SEND_ACK_TIMEOUT_SECONDS
    RetryHorizon,   \* COMMAND_RETRY_HORIZON_SECONDS
    Retention,      \* COMMAND_RECEIPT_RETENTION_SECONDS
    KeepCount,      \* how many of these rows COMMAND_RECEIPT_RETENTION_COUNT keeps:
                    \* 0 when newer rows of other requests fill the count already
    Batch,          \* COMMAND_RECEIPT_RETENTION_BATCH_SIZE
    MaxTime         \* bound of the clock

\* The policy checks of reserve_command_request, _turn_submission_policy and
\* cleanup_command_request_retention.
ASSUME PolicyAssumption ==
    /\ Lease \in Nat \ {0} /\ RetryHorizon \in Nat \ {0}
    /\ Retention \in Nat \ {0} /\ KeepCount \in Nat /\ Batch \in Nat \ {0}
    /\ LinkWindow \in Nat \ {0} /\ HardTTL \in Nat /\ AckTimeout \in Nat
    /\ MaxTime \in Nat
    /\ Lease <= RetryHorizon /\ RetryHorizon < Retention
    /\ LinkWindow <= HardTTL
    /\ NoToken \notin Tokens
    /\ Workers # {} /\ Texts # {} /\ Selectors # {}
    /\ IsFiniteSet(Requests)

VARIABLES
    now,            \* the clock the store functions read
    receipts,       \* command_receipts by request id
    submissions,    \* turn_submissions by request id
    starts          \* history: the times at which each request was send-started

ledgerVars == <<now, receipts, submissions, starts>>

-----------------------------------------------------------------------------
\* Row types and the state machine of a row.

ActiveStates == {"reserved", "send_started"}
TerminalStates == {"accepted", "rejected", "uncertain"}
ReceiptStates == {"none"} \cup ActiveStates \cup TerminalStates

\* The states of a ledger row that can still be linked to an observed turn.
OpenStates == {"send_started", "submitted", "uncertain"}
SubmissionStates ==
    {"none", "linked", "ambiguous", "expired", "cancelled"} \cup OpenStates

\* TURN_SUBMISSION_STATE_TRANSITIONS
Transitions ==
    [s \in SubmissionStates |->
        CASE s = "send_started" ->
                 {"submitted", "uncertain", "linked", "ambiguous", "expired", "cancelled"}
          [] s \in {"submitted", "uncertain"} ->
                 {"linked", "ambiguous", "expired", "cancelled"}
          [] OTHER -> {}]

\* A canonical mutation: build_canonical_mutation keeps the resolved worker and
\* the text, and leaves out how the target was spelled.
Mutations == [worker : Workers, text : Texts]

\* The stored envelope, as far as a replay tells one from another: the pending
\* envelope of the reservation, the written_to_pty envelope, a terminal one.
Results == {"pending", "queued", "final"}

Receipt ==
    [state : ReceiptStates, result : Results, mutation : Mutations,
     proof : Selectors, owner : Tokens \cup {NoToken},
     expires : Nat, sentAt : Nat, updatedAt : Nat]

\* anchorAt is send_started_at, and submitted_at once the receipt was accepted;
\* queued says that submitted_at was stamped by a written_to_pty verdict.
Submission ==
    [state : SubmissionStates, queued : BOOLEAN,
     anchorAt : Nat, linkExpires : Nat, hardExpires : Nat]

NoReceipt ==
    [state |-> "none", result |-> "pending",
     mutation |-> CHOOSE m \in Mutations : TRUE, proof |-> CHOOSE s \in Selectors : TRUE,
     owner |-> NoToken, expires |-> 0, sentAt |-> 0, updatedAt |-> 0]

NoSubmission ==
    [state |-> "none", queued |-> FALSE, anchorAt |-> 0,
     linkExpires |-> 0, hardExpires |-> 0]

LedgerTypeOK ==
    /\ now \in Nat
    /\ receipts \in [Requests -> Receipt]
    /\ submissions \in [Requests -> Submission]
    /\ starts \in [Requests -> Seq(Nat)]

\* command_reservation_is_live
ReservationIsLive(row) == row.state \in ActiveStates /\ row.expires > now

-----------------------------------------------------------------------------
\* What a terminal receipt does to its ledger row; a transition the table does
\* not have is skipped.

SubmissionStateOf ==
    [t \in TerminalStates |->
        CASE t = "accepted" -> "submitted"
          [] t = "rejected" -> "cancelled"
          [] t = "uncertain" -> "uncertain"]

\* Mutant: the ledger row is not advanced with its receipt.
TerminalizedNever(sub, t) == sub

\* _terminalize_turn_submission_conn
Terminalized(sub, t) ==
    IF SubmissionStateOf[t] \in Transitions[sub.state]
    THEN [sub EXCEPT !.state = SubmissionStateOf[t],
                     !.anchorAt = IF t = "accepted" THEN now ELSE @]
    ELSE sub

\* A receipt that becomes terminal gives up its owner and its lease.
Closed(row, t) ==
    [row EXCEPT !.state = t, !.result = "final", !.owner = NoToken,
                !.expires = 0, !.updatedAt = now]

\* _expire_turn_submissions_conn, for one row
HardExpired(sub) ==
    IF "expired" \in Transitions[sub.state] /\ sub.hardExpires <= now
    THEN [sub EXCEPT !.state = "expired"]
    ELSE sub

-----------------------------------------------------------------------------
\* The transactions of one request.

\* Mutant: an expired owner lease lets a retry take over a started send.
ReserveResponseAfterStart(r, m) ==
    LET row == receipts[r] IN
    CASE row.state = "none" -> "reserved"
      [] row.state # "none" /\ row.mutation # m -> "request_id_conflict"
      [] row.state \in TerminalStates /\ row.mutation = m -> "terminal"
      [] row.state \in ActiveStates /\ row.mutation = m ->
            IF row.expires > now THEN "in_progress" ELSE "reserved"

\* reserve_command_request: what the transaction answers ...
ReserveResponse(r, m) ==
    LET row == receipts[r] IN
    CASE row.state = "none" -> "reserved"
      [] row.state # "none" /\ row.mutation # m -> "request_id_conflict"
      [] row.state \in TerminalStates /\ row.mutation = m -> "terminal"
      [] row.state = "send_started" /\ row.mutation = m -> "in_progress"
      [] row.state = "reserved" /\ row.mutation = m ->
            IF row.expires > now THEN "in_progress" ELSE "reserved"

\* ... and the row it writes: a new reservation, or an abandoned one re-driven
\* by a new owner, which keeps the selector proof of the first.
Reserve(r, m, p, o) ==
    /\ ReserveResponse(r, m) = "reserved"
    /\ receipts' = [receipts EXCEPT ![r] =
           [state |-> "reserved", result |-> "pending", mutation |-> m,
            proof |-> IF @.state = "none" THEN p ELSE @.proof,
            owner |-> o, expires |-> now + Lease, sentAt |-> 0, updatedAt |-> now]]
    /\ UNCHANGED <<now, submissions, starts>>

\* Mutant: an abandoned reservation is dated before the clock.
AbandonBackdated(r, m, o) ==
    /\ receipts[r].state = "reserved"
    /\ receipts[r].mutation = m
    /\ receipts[r].owner = o
    /\ receipts' = [receipts EXCEPT ![r] =
           [@ EXCEPT !.expires = now - 1, !.updatedAt = now]]
    /\ UNCHANGED <<now, submissions, starts>>

\* abandon_command_request_reservation
Abandon(r, m, o) ==
    /\ receipts[r].state = "reserved"
    /\ receipts[r].mutation = m
    /\ receipts[r].owner = o
    /\ receipts' = [receipts EXCEPT ![r] =
           [@ EXCEPT !.expires = now, !.updatedAt = now]]
    /\ UNCHANGED <<now, submissions, starts>>

\* Mutant: the owner token is not compared.
OwnsAnyToken(r, m, o, state) ==
    /\ receipts[r].state = state
    /\ receipts[r].mutation = m

\* The caller still owns a row in this state; the lease is not consulted.
Owns(r, m, o, state) ==
    /\ receipts[r].state = state
    /\ receipts[r].mutation = m
    /\ receipts[r].owner = o

\* mark_command_send_started with _insert_turn_submission_conn, whose
\* ON CONFLICT DO NOTHING keeps a ledger row that is already there
MarkSendStarted(r, m, o) ==
    /\ Owns(r, m, o, "reserved")
    /\ receipts' = [receipts EXCEPT ![r] =
           [@ EXCEPT !.state = "send_started", !.sentAt = now, !.updatedAt = now]]
    /\ submissions' = [submissions EXCEPT ![r] =
           IF @.state # "none" THEN @
           ELSE [state |-> "send_started", queued |-> FALSE, anchorAt |-> now,
                 linkExpires |-> now + LinkWindow, hardExpires |-> now + HardTTL]]
    /\ starts' = [starts EXCEPT ![r] = Append(@, now)]
    /\ UNCHANGED now

\* record_command_send_queued succeeds only while the ledger row is open for a
\* verdict or provisionally linked; otherwise it raises and rolls back.
CanRecordQueued(r, m, o) ==
    /\ Owns(r, m, o, "send_started")
    /\ submissions[r].state \in {"send_started", "linked"}

RecordSendQueued(r, m, o) ==
    /\ CanRecordQueued(r, m, o)
    /\ receipts' = [receipts EXCEPT ![r] =
           [@ EXCEPT !.result = "queued", !.updatedAt = now]]
    /\ submissions' = [submissions EXCEPT ![r] =
           [@ EXCEPT !.state = "send_started", !.queued = TRUE,
                     !.linkExpires = submissions[r].hardExpires]]
    /\ UNCHANGED <<now, starts>>

\* finish_command_request: the owner's terminal write
FinishRequest(r, m, o, expected, t) ==
    /\ Owns(r, m, o, expected)
    /\ t \in IF expected = "reserved" THEN {"rejected", "uncertain"} ELSE TerminalStates
    /\ receipts' = [receipts EXCEPT ![r] = Closed(@, t)]
    /\ submissions' = [submissions EXCEPT ![r] = Terminalized(@, t)]
    /\ UNCHANGED <<now, starts>>

\* finish_queued_command_request accepts a queued send whose turn was linked.
\* The answer is the row, changed or not.
FinishQueued(r, m) ==
    LET row == receipts[r] IN
    /\ receipts' = [receipts EXCEPT ![r] =
           IF /\ row.state = "send_started" /\ row.mutation = m
              /\ row.result = "queued" /\ submissions[r].state = "linked"
           THEN Closed(row, "accepted") ELSE row]
    /\ UNCHANGED <<now, submissions, starts>>

\* finish_unverified_queued_command_request: a queued send that its ledger row
\* can no longer verify becomes uncertain.
Unverifiable(r, m) ==
    /\ receipts[r].state = "send_started"
    /\ receipts[r].mutation = m
    /\ receipts[r].result = "queued"
    /\ submissions[r].state \in {"ambiguous", "expired"}

FinishUnverifiedQueued(r, m) ==
    /\ Unverifiable(r, m)
    /\ receipts' = [receipts EXCEPT ![r] = Closed(@, "uncertain")]
    /\ UNCHANGED <<now, submissions, starts>>

\* recover_unresolved_command_send: an abandoned send without a verdict becomes
\* uncertain once its owner's lease has run out.
Unresolved(r, m) ==
    /\ receipts[r].state = "send_started"
    /\ receipts[r].mutation = m
    /\ receipts[r].result = "pending"
    /\ receipts[r].expires <= now

RecoverUnresolved(r, m) ==
    /\ Unresolved(r, m)
    /\ receipts' = [receipts EXCEPT ![r] = Closed(@, "uncertain")]
    /\ submissions' = [submissions EXCEPT ![r] = Terminalized(@, "uncertain")]
    /\ UNCHANGED <<now, starts>>

\* Mutant: any verdict is restored, an acceptance too.
RestoreAnyTerminal(r, m, p, t) ==
    /\ receipts[r].state = "none"
    /\ receipts' = [receipts EXCEPT ![r] =
           [NoReceipt EXCEPT !.state = t, !.result = "final", !.mutation = m,
                             !.proof = p, !.updatedAt = now]]
    /\ UNCHANGED <<now, submissions, starts>>

\* reserve_terminal_command_replay writes only when retention removed the row
\* that the caller had read: it restores the verdict as terminal evidence.
RestoreTerminal(r, m, p, t) ==
    /\ receipts[r].state = "none"
    /\ t \in {"rejected", "uncertain"}
    /\ receipts' = [receipts EXCEPT ![r] =
           [NoReceipt EXCEPT !.state = t, !.result = "final", !.mutation = m,
                             !.proof = p, !.updatedAt = now]]
    /\ UNCHANGED <<now, submissions, starts>>

-----------------------------------------------------------------------------
\* Settlement of ledger rows against observed turns.  Which turns were observed
\* is not part of this module: a row may meet any evidence its windows allow.

\* The row may link before its window closes: its component can be a live 1x1
\* one whose observation is strictly later than the send (or the acceptance),
\* and a send without verdict is still within the backend's timeout.
InstantlyLinkable(sub) ==
    /\ sub.state \in {"send_started", "submitted"}
    /\ sub.anchorAt < now
    /\ sub.state = "send_started" => now <= sub.anchorAt + AckTimeout

\* Mutant: a queued send keeps its candidate turns.
SettledStatesOfAny(sub) ==
    IF sub.state \notin OpenStates THEN {sub.state}
    ELSE IF now < sub.linkExpires
         THEN {sub.state} \cup {s \in {"linked"} : InstantlyLinkable(sub)}
         ELSE {sub.state, "expired", "linked", "ambiguous"}

\* The states settle_submission_links_conn may leave a row in.  A queued row
\* has no edges.  A row whose own window closed still waits when its component
\* has a later one.
SettledStates(sub) ==
    CASE sub.state \notin OpenStates -> {sub.state}
      [] sub.state = "send_started" /\ sub.queued ->
            IF now < sub.linkExpires THEN {sub.state} ELSE {"expired"}
      [] sub.state \in OpenStates /\ ~(sub.state = "send_started" /\ sub.queued) ->
            IF now < sub.linkExpires
            THEN {sub.state} \cup {s \in {"linked"} : InstantlyLinkable(sub)}
            ELSE {sub.state, "expired", "linked", "ambiguous"}

Settled(sub) == {[sub EXCEPT !.state = s] : s \in SettledStates(sub)}

\* settle_submission_link_for_request: the component of one request, that is
\* the rows for the same worker and text
SettleComponent(r) ==
    /\ submissions[r].state # "none"
    /\ \E f \in [Requests -> UNION {Settled(submissions[q]) : q \in Requests}] :
          /\ \A q \in Requests :
                f[q] \in IF receipts[q].mutation = receipts[r].mutation
                         THEN Settled(submissions[q]) ELSE {submissions[q]}
          /\ submissions' = f
    /\ UNCHANGED <<now, receipts, starts>>

\* sweep_submission_links: every due component, then the hard TTL
SweepLinks ==
    \E f \in [Requests -> UNION {Settled(submissions[q]) : q \in Requests}] :
        /\ \A q \in Requests : f[q] \in Settled(submissions[q])
        /\ submissions' = [q \in Requests |-> HardExpired(f[q])]
        /\ UNCHANGED <<now, receipts, starts>>

\* sweep_expired_turn_submissions
SweepExpired ==
    /\ submissions' = [q \in Requests |-> HardExpired(submissions[q])]
    /\ UNCHANGED <<now, receipts, starts>>

\* cancel_turn_submission, a store hook that nothing in the daemon calls yet
CancelSubmission(r) ==
    /\ "cancelled" \in Transitions[submissions[r].state]
    /\ submissions' = [submissions EXCEPT ![r] =
           [@ EXCEPT !.state = "cancelled"]]
    /\ UNCHANGED <<now, receipts, starts>>

-----------------------------------------------------------------------------
\* cleanup_command_request_retention, in one transaction.

LeastOf(a, b) == IF a <= b THEN a ELSE b

\* D holds n members of S, and none outside D is older.  The code breaks ties
\* by row id; here any order is possible.
OldestFirst(D, S, n) ==
    /\ D \subseteq S
    /\ Cardinality(D) = n
    /\ \A d \in D, s \in S \ D : receipts[d].updatedAt <= receipts[s].updatedAt

\* Mutant: queued sends are left to their ledger row.
StaleUnqueuedSends ==
    {r \in Requests : /\ receipts[r].state = "send_started"
                      /\ receipts[r].result = "pending"
                      /\ receipts[r].sentAt < now - RetryHorizon}

\* A send whose outcome nobody reported within the retry horizon
StaleSends ==
    {r \in Requests : /\ receipts[r].state = "send_started"
                      /\ receipts[r].sentAt < now - RetryHorizon}

\* Evidence no owner is using
Inactive ==
    {r \in Requests : \/ receipts[r].state \in TerminalStates
                      \/ /\ receipts[r].state = "reserved"
                         /\ receipts[r].expires <= now}

\* Mutant: the retry horizon is taken for the retention period.
AgedBeyondHorizon == {r \in Inactive : receipts[r].updatedAt < now - RetryHorizon}

\* What the age floor lets go; the count floor keeps the newest KeepCount rows.
Aged == {r \in Inactive : receipts[r].updatedAt < now - Retention}

DeletionCount(stale) ==
    IF Cardinality(StaleSends) >= Batch THEN 0
    ELSE LET beyondCount == Cardinality(Inactive \cup stale) - KeepCount
         IN  LeastOf(Batch - Cardinality(stale),
                     LeastOf(Cardinality(Aged), IF beyondCount > 0 THEN beyondCount ELSE 0))

Cleanup ==
    \E stale \in SUBSET StaleSends, gone \in SUBSET Aged :
        /\ OldestFirst(stale, StaleSends, LeastOf(Batch, Cardinality(StaleSends)))
        /\ OldestFirst(gone, Aged, DeletionCount(stale))
        /\ receipts' = [r \in Requests |->
               CASE r \in stale -> Closed(receipts[r], "uncertain")
                 [] r \in gone -> NoReceipt
                 [] OTHER -> receipts[r]]
        /\ submissions' = [r \in Requests |->
               CASE r \in stale -> Terminalized(HardExpired(submissions[r]), "uncertain")
                 [] r \in gone -> NoSubmission
                 [] OTHER -> HardExpired(submissions[r])]
        /\ UNCHANGED <<now, starts>>

Tick ==
    /\ now < MaxTime
    /\ now' = now + 1
    /\ UNCHANGED <<receipts, submissions, starts>>

-----------------------------------------------------------------------------
LedgerInit ==
    /\ now = 0
    /\ receipts = [r \in Requests |-> NoReceipt]
    /\ submissions = [r \in Requests |-> NoSubmission]
    /\ starts = [r \in Requests |-> <<>>]

\* The transactions with any arguments a caller may pass
RequestStep(r) ==
    \/ \E m \in Mutations :
          \/ \E o \in Tokens :
                \/ \E p \in Selectors : Reserve(r, m, p, o)
                \/ Abandon(r, m, o)
                \/ MarkSendStarted(r, m, o)
                \/ RecordSendQueued(r, m, o)
                \/ \E e \in ActiveStates, t \in TerminalStates : FinishRequest(r, m, o, e, t)
          \/ FinishQueued(r, m)
          \/ FinishUnverifiedQueued(r, m)
          \/ RecoverUnresolved(r, m)
          \/ \E p \in Selectors, t \in TerminalStates : RestoreTerminal(r, m, p, t)
    \/ SettleComponent(r)
    \/ CancelSubmission(r)

LedgerNext ==
    \/ \E r \in Requests : RequestStep(r)
    \/ SweepLinks
    \/ SweepExpired
    \/ Cleanup
    \/ Tick

LedgerSpec == LedgerInit /\ [][LedgerNext]_ledgerVars

-----------------------------------------------------------------------------
\* Properties

\* At most one send per request id within the retention period, whoever retries
\* it, whichever transactions interleave and whatever cleanup forgets: two
\* mark_command_send_started commits of one request are more than Retention
\* apart.
SendsAreSpaced ==
    \A r \in Requests : \A i, j \in 1..Len(starts[r]) :
        i < j => starts[r][i] + Retention < starts[r][j]

\* The two tables never drift apart although settlement, expiry, cancellation
\* and the terminal writes reach the ledger row in any order: there is a ledger
\* row exactly for what was send-started and not forgotten, and a ledger row
\* that waits for a verdict, was accepted or is uncertain has a receipt in the
\* corresponding state.
RowsAgree ==
    \A r \in Requests :
        LET row == receipts[r]
            sub == submissions[r]
        IN  /\ row.state \in {"none", "reserved"} => sub.state = "none"
            /\ row.state \in {"send_started", "accepted"} => sub.state # "none"
            /\ sub.state = "send_started" => row.state = "send_started"
            /\ sub.state = "submitted" => row.state = "accepted"
            /\ sub.state = "uncertain" => row.state = "uncertain"

\* An unresolved written_to_pty send is never linked to an observation, also
\* when it had been linked before its verdict arrived, so that
\* finish_queued_command_request never accepts one.
QueuedIsNeverLinked ==
    \A r \in Requests :
        receipts[r].state = "send_started" /\ receipts[r].result = "queued" =>
            /\ submissions[r].queued
            /\ submissions[r].state \in {"send_started", "expired", "cancelled"}

\* Terminal evidence is never rewritten: a terminal receipt stays as it is
\* until cleanup forgets it, more than Retention after it became terminal.
KeepsEvidence ==
    \A r \in Requests :
        receipts[r].state \in TerminalStates /\ receipts'[r] # receipts[r] =>
            receipts'[r].state = "none" /\ receipts[r].updatedAt + Retention < now

EvidenceIsFinal == [][KeepsEvidence]_ledgerVars

\* A send-started receipt is not left without a verdict for ever: the retention
\* cleanup of the daemon closes what neither its owner nor a retry closed.  (A
\* send too close to MaxTime does not become stale within the bound.)
SendsAreResolved ==
    \A r \in Requests :
        (receipts[r].state = "send_started" /\ receipts[r].sentAt + RetryHorizon < MaxTime)
            ~> receipts[r].state # "send_started"

\* What a row is to a client: whether its request was sent, and how it ended.
PhaseOf(row) ==
    IF row.state \in TerminalStates THEN row.state
    ELSE IF row.state = "send_started" THEN "sending" ELSE "unsent"

SinceOf(row) == IF row.state \in TerminalStates THEN row.updatedAt ELSE 0

Promise == INSTANCE RequestPromise WITH
    clock <- now,
    phase <- [r \in Requests |-> PhaseOf(receipts[r])],
    since <- [r \in Requests |-> SinceOf(receipts[r])]

\* The receipts keep what RequestPromise says, with cleanup, recovery and
\* restored evidence included.
KeepsPromise == Promise!Spec

\* The two tables never contradict each other.
TablesAgree == RowsAgree /\ QueuedIsNeverLinked

=============================================================================
