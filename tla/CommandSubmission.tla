-------------------------- MODULE CommandSubmission --------------------------
(***************************************************************************)
(* Concurrent calls of submit_command for send_instruction                 *)
(* (command_submission.py) over the store of CommandLedger.  An attempt is *)
(* one call; its name stands for the owner token its reservation draws.    *)
(* Between two store transactions every other attempt, the sweeps, the     *)
(* cleanup and the clock may move, and an attempt works on with the copy   *)
(* of the receipt it read.  Nothing makes an attempt go on: a process that *)
(* dies, or a caller that never returns from the socket, is an attempt     *)
(* that takes no further step.                                             *)
(*                                                                         *)
(* The worker authority (snapshot, health, private bindings, pane          *)
(* resolution) may change between any two reads, so a read of it is a      *)
(* choice.  A store call may also raise; its transaction is then rolled    *)
(* back.                                                                   *)
(***************************************************************************)
EXTENDS CommandLedger

CONSTANT Calls      \* the calls a client may make

\* A target is a worker id or an alias of one; the selector proof stored with
\* a receipt is that spelling.
ASSUME CallsAssumption ==
    /\ Calls \subseteq [req : Requests, target : Selectors, text : Texts]
    /\ Workers \subseteq Selectors

Attempts == Tokens

VARIABLES
    call,       \* call[a]: what attempt a was asked to do
    pc,         \* pc[a]: its next step
    copy,       \* copy[a]: the receipt it read at the start, or NoReceipt
    worker,     \* worker[a]: the public worker it resolved or proved
    verdict,    \* verdict[a]: what Herdr answered to agent.prompt
    startedAt,  \* history: when a's send-start was committed
    delivered,  \* history: the agent received the text of a
    reply       \* reply[a]: the answer to the client

attemptVars == <<call, pc, copy, worker, verdict, startedAt, delivered, reply>>
vars == <<ledgerVars, attemptVars>>

Verdicts == {"none", "submitted", "written_to_pty", "rejected", "unknown"}
Replies == {"none", "accepted", "rejected", "uncertain", "pending", "duplicate", "no_receipt"}
Labels == {"lookup", "authority", "replay", "settle", "checkOpen", "checkClosed",
           "finishQueued", "finishUnverified", "recover", "resolve",
           "reserveSend", "reserveReject", "rereadUnreserved", "reject", "start", "send", "finish", "reread", "done"}

TypeOK ==
    /\ LedgerTypeOK
    /\ call \in [Attempts -> Calls]
    /\ pc \in [Attempts -> Labels]
    /\ copy \in [Attempts -> Receipt]
    /\ worker \in [Attempts -> Workers]
    /\ verdict \in [Attempts -> Verdicts]
    /\ startedAt \in [Attempts -> Nat]
    /\ delivered \in [Attempts -> BOOLEAN]
    /\ reply \in [Attempts -> Replies]

Init ==
    /\ LedgerInit
    /\ call \in [Attempts -> Calls]
    /\ pc = [a \in Attempts |-> "lookup"]
    /\ copy = [a \in Attempts |-> NoReceipt]
    /\ worker = [a \in Attempts |-> CHOOSE w \in Workers : TRUE]
    /\ verdict = [a \in Attempts |-> "none"]
    /\ startedAt = [a \in Attempts |-> 0]
    /\ delivered = [a \in Attempts |-> FALSE]
    /\ reply = [a \in Attempts |-> "none"]

-----------------------------------------------------------------------------
\* Helpers

Req(a) == call[a].req

\* build_canonical_mutation with the worker the attempt resolved or proved
Mutation(a) == [worker |-> worker[a], text |-> call[a].text]

Goto(a, label) == pc' = [pc EXCEPT ![a] = label] /\ UNCHANGED <<copy, reply>>

\* The call returns, and with it its copy of the receipt goes.
Answer(a, r) ==
    /\ pc' = [pc EXCEPT ![a] = "done"]
    /\ reply' = [reply EXCEPT ![a] = r]
    /\ copy' = [copy EXCEPT ![a] = NoReceipt]

\* Mutant: a stored verdict is replayed to a request with another mutation.
EnvelopeOfAny(row, m) ==
    IF row.state = "none" THEN "uncertain"
    ELSE IF row.state \in ActiveStates THEN "pending"
    ELSE row.state

\* _envelope_from_receipt
Envelope(row, m) ==
    IF row.state = "none" THEN "uncertain"
    ELSE IF row.mutation # m THEN "duplicate"
    ELSE IF row.state \in ActiveStates THEN "pending"
    ELSE row.state

\* What stays of the attempt in a step that only reads or writes the store
Local == <<call, worker, verdict, startedAt, delivered>>

\* A store call that answers without a write
AnswerFromRow(a) ==
    /\ Answer(a, Envelope(receipts[Req(a)], Mutation(a)))
    /\ UNCHANGED <<ledgerVars, Local>>

\* A store call that raises
Raise(a, label) == Goto(a, label) /\ UNCHANGED <<ledgerVars, Local>>

\* A raised store call on a queued or abandoned send answers from the copy,
\* which was in progress.
RaisePending(a) == Answer(a, "pending") /\ UNCHANGED <<ledgerVars, Local>>

-----------------------------------------------------------------------------
\* The existing receipt decides first.

\* _submit_command_v2: get_command_request; a read that raises counts as none
Lookup(a) ==
    /\ pc[a] = "lookup"
    /\ \E row \in {receipts[Req(a)], NoReceipt} :
          /\ copy' = [copy EXCEPT ![a] = row]
          /\ pc' = [pc EXCEPT ![a] = IF row.state = "none" THEN "resolve" ELSE "authority"]
    /\ UNCHANGED <<ledgerVars, Local, reply>>

\* _proven_replay_worker_id: is this the worker of the stored receipt?  An
\* explicit id answers itself, the stored spelling is proof, and any other
\* spelling needs a healthy current observation.
TargetEvidence(a) ==
    LET target == call[a].target
        stored == copy[a].mutation.worker
    IN  IF target \in Workers
        THEN {IF target = stored THEN "same" ELSE "different"}
        ELSE IF target = copy[a].proof THEN {"same"}
        ELSE {"same", "different", "unknown"}

\* _receipt_authority, for a retry that is for the stored worker
DecideSame(a) ==
    LET row == copy[a] IN
    IF row.mutation.text # call[a].text THEN Answer(a, "duplicate")
    ELSE IF row.state \in TerminalStates THEN Goto(a, "replay")
    ELSE IF row.state = "send_started" /\ row.result = "queued" THEN Goto(a, "settle")
    ELSE IF ReservationIsLive(row) THEN Answer(a, "pending")
    ELSE IF row.state = "send_started" THEN Goto(a, "recover")
    ELSE Goto(a, "resolve")

\* _receipt_authority
ReceiptAuthority(a) ==
    /\ pc[a] = "authority"
    /\ \E evidence \in TargetEvidence(a) :
          \/ evidence = "different" /\ Answer(a, "duplicate")
          \/ evidence = "unknown" /\ Answer(a, "uncertain")
          \/ evidence = "same" /\ DecideSame(a)
    /\ worker' = [worker EXCEPT ![a] = copy[a].mutation.worker]
    /\ UNCHANGED <<ledgerVars, call, verdict, startedAt, delivered>>

\* _reserve_terminal_replay: only a rejection is restored as what it was.
Replay(a) ==
    /\ pc[a] = "replay"
    /\ \/ LET t == IF copy[a].state = "rejected" THEN "rejected" ELSE "uncertain"
          IN  /\ RestoreTerminal(Req(a), Mutation(a), copy[a].proof, t)
              /\ Answer(a, t)
              /\ UNCHANGED Local
       \/ receipts[Req(a)].state # "none" /\ AnswerFromRow(a)
       \/ Raise(a, "reread")

\* A queued send: settle its component, ...
SettleQueued(a) ==
    /\ pc[a] = "settle"
    /\ \/ /\ SettleComponent(Req(a))
          /\ Goto(a, IF submissions'[Req(a)].state \in {"ambiguous", "expired"}
                     THEN "checkClosed" ELSE "checkOpen")
          /\ UNCHANGED Local
       \/ submissions[Req(a)].state = "none" /\ Raise(a, "checkOpen")
       \/ RaisePending(a)

\* ... read the durable link (which names no turn once that was tombstoned),
\* pending when it is still open or cannot be read, ...
CheckLink(a) ==
    /\ pc[a] \in {"checkOpen", "checkClosed"}
    /\ \/ submissions[Req(a)].state = "linked" /\ Goto(a, "finishQueued")
       \/ Answer(a, "pending")
       \/ pc[a] = "checkClosed" /\ Goto(a, "finishUnverified")
    /\ UNCHANGED <<ledgerVars, Local>>

\* ... and close the receipt as the evidence allows.  (A queued receipt is never
\* linked: "finishQueued" needs a receipt that was forgotten and sent again
\* after the copy was read, which takes a longer clock than the runs have.)
CloseQueued(a) ==
    /\ pc[a] \in {"finishQueued", "finishUnverified"}
    /\ \/ /\ IF pc[a] = "finishQueued"
             THEN FinishQueued(Req(a), Mutation(a))
             ELSE FinishUnverifiedQueued(Req(a), Mutation(a))
          /\ Answer(a, Envelope(receipts'[Req(a)], Mutation(a)))
          /\ UNCHANGED Local
       \/ /\ pc[a] = "finishUnverified"
          /\ ~Unverifiable(Req(a), Mutation(a))
          /\ AnswerFromRow(a)
       \/ RaisePending(a)

\* A send without verdict whose owner's lease ran out
RecoverAbandoned(a) ==
    /\ pc[a] = "recover"
    /\ \/ /\ RecoverUnresolved(Req(a), Mutation(a))
          /\ Answer(a, "uncertain")
          /\ UNCHANGED Local
       \/ ~Unresolved(Req(a), Mutation(a)) /\ AnswerFromRow(a)
       \/ RaisePending(a)

-----------------------------------------------------------------------------
\* No receipt, or an abandoned reservation that this attempt may re-drive

TakesOver(a) == copy[a].state = "reserved"

\* Mutant: the spelling is taken for the worker.
ResolvableAsSpelled(a) == {call[a].target}

\* _resolve_authoritative_worker
Resolvable(a) == IF call[a].target \in Workers THEN {call[a].target} ELSE Workers

\* Read the snapshot, resolve the worker, check its status and the backend's
\* health, and prepare the private send target: all before any reservation.
Resolve(a) ==
    /\ pc[a] = "resolve"
    /\ \/ /\ Answer(a, IF TakesOver(a) THEN "pending" ELSE "no_receipt")
          /\ UNCHANGED worker
       \/ \E w \in Resolvable(a) :
             /\ worker' = [worker EXCEPT ![a] = w]
             /\ IF TakesOver(a) /\ w # copy[a].mutation.worker
                THEN Answer(a, "duplicate")
                ELSE Goto(a, "reserveSend") \/ Goto(a, "reserveReject")
    /\ UNCHANGED <<ledgerVars, call, verdict, startedAt, delivered>>

\* _reserve_canonical_request
ReserveRequest(a) ==
    /\ pc[a] \in {"reserveSend", "reserveReject"}
    /\ \/ /\ Reserve(Req(a), Mutation(a), call[a].target, a)
          /\ Goto(a, IF pc[a] = "reserveSend" THEN "start" ELSE "reject")
          /\ UNCHANGED Local
       \/ ReserveResponse(Req(a), Mutation(a)) # "reserved" /\ AnswerFromRow(a)
       \/ Raise(a, "rereadUnreserved")

\* A reservation that raised wrote nothing of this attempt.
RereadUnreserved(a) ==
    /\ pc[a] = "rereadUnreserved"
    /\ \/ Answer(a, "no_receipt")
       \/ /\ receipts[Req(a)].state # "none"
          /\ Answer(a, Envelope(receipts[Req(a)], Mutation(a)))
    /\ UNCHANGED <<ledgerVars, Local>>

\* _finish_before_send
FinishBeforeSend(a) ==
    /\ pc[a] = "reject"
    /\ \/ /\ FinishRequest(Req(a), Mutation(a), a, "reserved", "rejected")
          /\ Answer(a, "rejected")
          /\ UNCHANGED Local
       \/ ~Owns(Req(a), Mutation(a), a, "reserved") /\ AnswerFromRow(a)
       \/ Raise(a, "reread")

\* _mark_request_send_started
StartSend(a) ==
    /\ pc[a] = "start"
    /\ \/ /\ MarkSendStarted(Req(a), Mutation(a), a)
          /\ startedAt' = [startedAt EXCEPT ![a] = now]
          /\ Goto(a, "send")
          /\ UNCHANGED <<call, worker, verdict, delivered>>
       \/ /\ ~Owns(Req(a), Mutation(a), a, "reserved")
          /\ IF receipts[Req(a)].state = "none" THEN Raise(a, "reread") ELSE AnswerFromRow(a)
       \/ Raise(a, "reread")

\* agent.prompt.  External: a definite rejection was not delivered, a
\* submission was, and any other outcome may be either.
Send(a) ==
    /\ pc[a] = "send"
    /\ \E v \in Verdicts \ {"none"}, d \in BOOLEAN :
          /\ v = "submitted" => d
          /\ v = "rejected" => ~d
          /\ verdict' = [verdict EXCEPT ![a] = v]
          /\ delivered' = [delivered EXCEPT ![a] = d]
    /\ Goto(a, "finish")
    /\ UNCHANGED <<ledgerVars, call, worker, startedAt>>

\* Mutant: an outcome that is not known counts as a rejection.
TerminalOfUnknownRejected ==
    [submitted |-> "accepted", rejected |-> "rejected", unknown |-> "rejected"]

\* _submit_instruction after the socket answered, with _finish_request and
\* _record_queued_send
TerminalOf == [submitted |-> "accepted", rejected |-> "rejected", unknown |-> "uncertain"]

FinishSend(a) ==
    /\ pc[a] = "finish"
    /\ \/ /\ verdict[a] # "written_to_pty"
          /\ FinishRequest(Req(a), Mutation(a), a, "send_started", TerminalOf[verdict[a]])
          /\ Answer(a, TerminalOf[verdict[a]])
          /\ UNCHANGED Local
       \/ /\ verdict[a] = "written_to_pty"
          /\ RecordSendQueued(Req(a), Mutation(a), a)
          /\ Answer(a, "pending")
          /\ UNCHANGED Local
       \/ ~Owns(Req(a), Mutation(a), a, "send_started") /\ AnswerFromRow(a)
       \/ Raise(a, "reread")

\* _recover_request
Reread(a) ==
    /\ pc[a] = "reread"
    /\ \E row \in {receipts[Req(a)], NoReceipt} : Answer(a, Envelope(row, Mutation(a)))
    /\ UNCHANGED <<ledgerVars, Local>>

\* _negotiated_submission_envelope: a v3 client's accepted answer settles the
\* link of its request once more.
Negotiate(a) ==
    /\ pc[a] = "done" /\ reply[a] = "accepted"
    /\ SettleComponent(Req(a))
    /\ UNCHANGED attemptVars

-----------------------------------------------------------------------------
AttemptStep(a) ==
    \/ Lookup(a) \/ ReceiptAuthority(a) \/ Replay(a)
    \/ SettleQueued(a) \/ CheckLink(a) \/ CloseQueued(a) \/ RecoverAbandoned(a)
    \/ Resolve(a) \/ ReserveRequest(a) \/ RereadUnreserved(a) \/ FinishBeforeSend(a)
    \/ StartSend(a) \/ Send(a) \/ FinishSend(a) \/ Reread(a) \/ Negotiate(a)

Next ==
    \/ \E a \in Attempts : AttemptStep(a)
    \/ (SweepLinks \/ Cleanup \/ Tick) /\ UNCHANGED attemptVars

Spec == Init /\ [][Next]_vars

-----------------------------------------------------------------------------
\* Properties

\* An accepted answer is true: the text of this very call reached the worker
\* this attempt names, sent by it or by the attempt whose receipt it replays.
AcceptedWasDelivered ==
    \A a \in Attempts : reply[a] = "accepted" =>
        \E b \in Attempts :
            /\ Req(b) = Req(a) /\ Mutation(b) = Mutation(a)
            /\ delivered[b] /\ verdict[b] = "submitted"

\* A stored rejection is true: nothing sent for the request within Retention
\* before it has been delivered, nor will be by an attempt that is stuck between
\* its send-start and its send.
RejectedWasNotDelivered ==
    \A r \in Requests, b \in Attempts :
        receipts[r].state = "rejected" /\ Req(b) = r /\ (delivered[b] \/ pc[b] = "send") =>
            startedAt[b] + Retention < receipts[r].updatedAt

\* The owner of a receipt is the attempt that is about to act on it: whoever a
\* send-started receipt names has started the send of exactly the receipt's
\* mutation, and a reservation is held by an attempt that has not sent anything.
OwnerIsTheSender ==
    \A r \in Requests :
        LET o == receipts[r].owner IN
        /\ receipts[r].state = "send_started" =>
              /\ o \in Attempts /\ Req(o) = r /\ Mutation(o) = receipts[r].mutation
              /\ pc[o] \in {"send", "finish", "reread", "done"}
              /\ startedAt[o] = receipts[r].sentAt
        /\ receipts[r].state = "reserved" => verdict[o] = "none"

\* Every final answer a caller gets, from whichever attempt, is true of what was
\* delivered.
AnswersAreTrue == TypeOK /\ AcceptedWasDelivered /\ RejectedWasNotDelivered

=============================================================================
