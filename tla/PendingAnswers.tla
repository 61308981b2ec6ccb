--------------------------- MODULE PendingAnswers ---------------------------
(***************************************************************************)
(* Prompts of one worker's agent, their row in backend_pending and the     *)
(* claims of the requests that answer them (answer_pending and             *)
(* answer_decision), against the readers that observe the pane and the     *)
(* scan that prunes rows of bindings that are gone.                        *)
(*                                                                         *)
(* A store function is one transaction and one action.  A reader takes its *)
(* observed_at when it begins, reads the pane later and applies what it    *)
(* saw later still; the row keeps the observed_at of the last observation  *)
(* and refuses older ones.  Only the order of these times matters: readers *)
(* are kept in the order they began, and .old says that a reader began     *)
(* before the row's observed_at.  Prompts are numbered; a revision digest  *)
(* is a prompt together with the binding it was read through.              *)
(*                                                                         *)
(* The reader of a completed turn runs beside the scheduler's, so a reader *)
(* that began later may have looked at the pane earlier, and what it saw   *)
(* replaces what the other saw.  The history variable doubtful keeps the   *)
(* revisions to which that, or the prune of a live row, has happened: the  *)
(* promises of one answer are made for the others.                         *)
(***************************************************************************)
EXTENDS Integers, Sequences, FiniteSets, SequencesExt

CONSTANTS
    ChoiceRequests,   \* requests that answer_pending
    DecisionRequests, \* requests that answer_decision
    MaxChanges,       \* bound on the prompts shown and the bindings issued, together
    MaxCompletions    \* bound on the reads that a completed turn starts

Requests == ChoiceRequests \cup DecisionRequests

\* There is a binding before there is a prompt.
MaxPrompts == MaxChanges - 1
MaxBindings == MaxChanges

\* What a read may find besides a prompt: that there is none, that it cannot
\* tell, a prompt it cannot parse, a decision Tendwire cannot answer.
Nothing == 0
Failure == -1
Malformed == -2
Unsupported == -3

ASSUME PromptAssumption ==
    /\ MaxChanges \in Nat \ {0}
    /\ MaxCompletions \in Nat
    /\ ChoiceRequests \cap DecisionRequests = {}
    /\ "nobody" \notin Requests

VARIABLES
    screen,      \* external: the prompt on the pane, or Nothing, Malformed, Unsupported
    asked,       \* external: the prompts shown so far
    binding,     \* the worker's live binding, 0 for none
    issued,      \* the bindings issued so far
    row,         \* backend_pending
    claim,       \* backend_pending_claims (its key is the worker)
    readers,     \* the reads in flight, in the order they began
    completions, \* reads started by completed turns so far
    listed,      \* the newest binding the scheduler has listed
    scan,        \* the binding in the scan that has not pruned yet, -1 for no scan
    pc,          \* where the call of a request is; "left" when none is running
    receipt,     \* the receipt of a request
    ref,         \* the revision a request answers
    sent,        \* history: whether a request sent its answer to the pane
    told,        \* history: what the call that sent the answer told its caller
    doubtful     \* history: the revisions that were closed or opened by an observation
                 \* applied after one that looked later, or pruned although live

pane == <<screen, asked>>
bindings == <<binding, issued>>
observing == <<readers, completions, listed, scan>>
calls == <<pc, receipt, ref, sent, told>>
vars == <<pane, bindings, row, claim, observing, calls, doubtful>>

Revision == [prompt : 0..MaxPrompts, bind : 0..MaxBindings]
NoRevision == [prompt |-> 0, bind |-> 0]
NoRow == [state |-> "absent", fresh |-> TRUE, rev |-> NoRevision, bind |-> 0,
          grace |-> "no"]
NoClaim == [state |-> "none", by |-> "nobody", rev |-> NoRevision, lapsed |-> FALSE]

Init ==
    /\ screen = Nothing /\ asked = 0
    /\ binding = 1 /\ issued = 1
    /\ row = NoRow /\ claim = NoClaim
    /\ readers = <<>> /\ completions = 0
    /\ listed = 0 /\ scan = -1
    /\ pc = [r \in Requests |-> "left"]
    /\ receipt = [r \in Requests |-> "none"]
    /\ ref = [r \in Requests |-> NoRevision]
    /\ told = [r \in Requests |-> "nothing"]
    /\ sent = [r \in Requests |-> "no"]
    /\ doubtful = {}

-----------------------------------------------------------------------------
(* The pane and the binding *)

\* The agent asks; what it had asked before is gone.
ShowPrompt ==
    /\ asked + issued < MaxChanges
    /\ asked' = asked + 1
    /\ screen' \in {asked', Malformed, Unsupported}
    /\ UNCHANGED <<bindings, row, claim, observing, calls, doubtful>>

\* Somebody answers at the terminal, or the agent gives up.
ClosePrompt ==
    /\ screen # Nothing
    /\ screen' = Nothing
    /\ UNCHANGED <<asked, bindings, row, claim, observing, calls, doubtful>>

\* The agent's session, and with it the private fingerprint, changes.
Rebind ==
    /\ asked + issued < MaxChanges
    /\ issued' = issued + 1
    /\ binding' = issued'
    /\ UNCHANGED <<pane, row, claim, observing, calls, doubtful>>

Unbind ==
    /\ binding # 0
    /\ binding' = 0
    /\ UNCHANGED <<pane, issued, row, claim, observing, calls, doubtful>>

-----------------------------------------------------------------------------
(* _apply_backend_pending_observation_conn *)

\* Mutant: an unsent claim is kept.
ReleasedNever(c) == c

Released(c) == IF c.state = "claimed" THEN NoClaim ELSE c

\* Mutant: every failed read moves the deadline.
FailedRowSliding(r, b, late) ==
    CASE r.state = "absent" -> [NoRow EXCEPT !.state = "failed", !.fresh = FALSE, !.bind = b]
      [] r.state = "open" -> [r EXCEPT !.fresh = FALSE, !.bind = b, !.grace = "running"]
      [] OTHER -> [r EXCEPT !.fresh = FALSE]

\* Mutant: the deadline survives the prompt.
FailedRowUndue(r, b, late) ==
    CASE r.state = "absent" -> [NoRow EXCEPT !.state = "failed", !.fresh = FALSE, !.bind = b]
      [] r.state = "open" /\ late -> [r EXCEPT !.state = "failed", !.fresh = FALSE, !.bind = b]
      [] r.state = "open" /\ ~late /\ r.fresh ->
            [r EXCEPT !.fresh = FALSE, !.bind = b, !.grace = "running"]
      [] OTHER -> [r EXCEPT !.fresh = FALSE]

\* The row after a failed read through binding b.  An open prompt is stale for
\* one grace period; late says that the read began after its deadline.
FailedRow(r, b, late) ==
    CASE r.state = "absent" ->
            [NoRow EXCEPT !.state = "failed", !.fresh = FALSE, !.bind = b]
      [] r.state = "open" /\ late ->
            [r EXCEPT !.state = "failed", !.fresh = FALSE, !.bind = b, !.grace = "no"]
      [] r.state = "open" /\ ~late /\ r.fresh ->
            [r EXCEPT !.fresh = FALSE, !.bind = b, !.grace = "running"]
      [] r.state \notin {"absent", "open"} /\ r.fresh ->
            [r EXCEPT !.fresh = FALSE, !.bind = b]
      [] OTHER -> r

\* The row after a read that found p.
SeenRow(p, b) ==
    CASE p = Nothing -> [NoRow EXCEPT !.state = "none", !.bind = b]
      [] p = Malformed -> [NoRow EXCEPT !.state = "invalid", !.fresh = FALSE, !.bind = b]
      [] p = Unsupported -> [NoRow EXCEPT !.state = "unsupported", !.bind = b]
      [] OTHER -> [state |-> "open", fresh |-> TRUE, rev |-> [prompt |-> p, bind |-> b],
                   bind |-> b, grace |-> "no"]

\* Only an open prompt keeps a claim, and only the claim of its own revision.
SeenClaim(c, new) == IF new.state = "open" /\ c.rev = new.rev THEN c ELSE NoClaim

\* The readers that began before i are older than the observation it applied.
OutdatedBy(i) ==
    [j \in DOMAIN readers |-> [readers[j] EXCEPT !.old = @ \/ j < i]]

WithoutLate(s) == [j \in DOMAIN s |-> [s[j] EXCEPT !.late = FALSE]]

\* apply_turn_refresh: the binding must still be the live one, and the
\* observation must not be older than the row.
ApplyRead(i) ==
    LET x == readers[i]
        failed == x.saw = Failure
        late == x.late /\ row.grace = "due"
        new == IF failed THEN FailedRow(row, x.bind, late) ELSE SeenRow(x.saw, x.bind)
        restarted == new.grace = "running" /\ row.grace # "running"
        kept == IF restarted THEN WithoutLate(OutdatedBy(i)) ELSE OutdatedBy(i)
    IN  /\ x.at = "read"
        /\ IF x.bind = binding /\ ~x.old
           THEN /\ row' = new
                /\ doubtful' = IF x.crossed /\ ~failed THEN doubtful \cup {row.rev, new.rev}
                               ELSE doubtful
                /\ claim' = IF ~failed THEN SeenClaim(claim, new)
                            ELSE IF new.grace # row.grace THEN Released(claim)
                            ELSE claim
                /\ readers' = RemoveAt(kept, i)
           ELSE /\ readers' = RemoveAt(readers, i)
                /\ UNCHANGED <<row, claim, doubtful>>
        /\ UNCHANGED <<pane, bindings, completions, listed, scan, calls>>

-----------------------------------------------------------------------------
(* The readers and the scan *)

\* The scheduler reads a binding it has listed, and never twice at once (see
\* TurnIngestion).  refresh_completed_pane_turn reads beside it, on the thread of
\* the event backend.
MayBegin(by) ==
    CASE by = "scheduler" ->
            /\ listed = binding
            /\ ~ \E i \in DOMAIN readers :
                    readers[i].bind = binding /\ readers[i].by = "scheduler"
      [] by = "completion" -> completions < MaxCompletions

BeginRead(by) ==
    /\ binding # 0
    /\ MayBegin(by)
    /\ completions' = IF by = "completion" THEN completions + 1 ELSE completions
    /\ readers' = Append(readers, [bind |-> binding, by |-> by, at |-> "begun",
                                   saw |-> Nothing, old |-> FALSE,
                                   late |-> row.grace = "due", crossed |-> FALSE])
    /\ UNCHANGED <<pane, bindings, row, claim, listed, scan, calls, doubtful>>

\* Reader j, which began after i, looked before it and found something else.
Crosses(j, i, saw) ==
    /\ j > i /\ readers[j].bind = readers[i].bind
    /\ readers[j].at = "read" /\ Failure \notin {saw, readers[j].saw} /\ readers[j].saw # saw

\* The adapter returns what the pane shows, or it fails or times out.
ReadPane(i) ==
    /\ readers[i].at = "begun"
    /\ \E saw \in {screen, Failure} :
          readers' = [j \in DOMAIN readers |->
                        IF j = i THEN [readers[j] EXCEPT !.at = "read", !.saw = saw]
                        ELSE [readers[j] EXCEPT !.crossed = @ \/ Crosses(j, i, saw)]]
    /\ UNCHANGED <<pane, bindings, row, claim, completions, listed, scan, calls, doubtful>>

ListBindings ==
    /\ scan = -1
    /\ scan' = binding
    /\ listed' = IF binding = 0 THEN listed ELSE binding
    /\ UNCHANGED <<pane, bindings, row, claim, readers, completions, calls, doubtful>>

\* prune_backend_pending.  With the row goes its observed_at.  A scan that fails
\* or is cancelled prunes nothing; one that listed before the live binding was
\* issued prunes the live row, if a completed turn's reader has written it.
Prune ==
    /\ scan # -1
    /\ scan' = -1
    /\ \/ UNCHANGED <<row, claim, readers, doubtful>>
       \/ /\ row.state # "absent"
          /\ row.bind # scan
          /\ row' = NoRow
          /\ claim' = NoClaim
          /\ readers' = [j \in DOMAIN readers |->
                            [readers[j] EXCEPT !.old = FALSE, !.late = FALSE,
                                               !.crossed = @ \/ (row.bind = binding /\ readers[j].old)]]
          /\ doubtful' = IF row.bind = binding THEN doubtful \cup {row.rev} ELSE doubtful
    /\ UNCHANGED <<pane, bindings, completions, listed, calls>>

-----------------------------------------------------------------------------
(* The requests *)

\* The prompt is fresh, and the request names it exactly.  (The worker's
\* status and its sendability, which the same query checks, may fail at any
\* time: every step that asks for them also has the outcome of a refusal.)
Current(rev) ==
    /\ row.state = "open" /\ row.fresh
    /\ row.rev = rev
    /\ row.bind = binding

Claimable == claim.state = "none" \/ (claim.state = "claimed" /\ claim.lapsed)

Mine(r) == claim.by = r

\* abandon_backend_pending_choice_claim, which may raise
Abandoned(r) ==
    \/ claim' = IF Mine(r) THEN Released(claim) ELSE claim
    \/ claim' = claim

Leave(r, state) ==
    /\ pc' = [pc EXCEPT ![r] = "left"]
    /\ receipt' = [receipt EXCEPT ![r] = state]

\* A call without a receipt validates its prompt and reserves the request.
\* Without a valid prompt it leaves no trace.
Validate(r) ==
    /\ pc[r] = "left" /\ receipt[r] = "none"
    /\ Current(row.rev) /\ Claimable
    /\ ref' = [ref EXCEPT ![r] = row.rev]
    /\ receipt' = [receipt EXCEPT ![r] = "reserved"]
    /\ pc' = [pc EXCEPT ![r] = "claim"]
    /\ UNCHANGED <<pane, bindings, row, claim, observing, sent, told, doubtful>>

\* A later call takes an abandoned reservation over, or ends it when the prompt is
\* not the same any more.  (A decision that another request has claimed leaves the
\* reservation as it is: no step.)
Redrive(r) ==
    /\ pc[r] = "left" /\ receipt[r] = "reserved"
    /\ \/ /\ Current(ref[r]) /\ Claimable
          /\ pc' = [pc EXCEPT ![r] = "claim"]
          /\ UNCHANGED receipt
       \/ Leave(r, "rejected")
    /\ UNCHANGED <<pane, bindings, row, claim, observing, ref, sent, told, doubtful>>

\* claim_backend_pending_choice and claim_backend_pending_decision, with what
\* the call does when it is refused: another claim is live, the prompt is not
\* current, or the store raises.
Claim(r) ==
    /\ pc[r] = "claim"
    /\ \/ /\ Current(ref[r]) /\ Claimable
          /\ claim' = [state |-> "claimed", by |-> r, rev |-> ref[r], lapsed |-> FALSE]
          /\ pc' = [pc EXCEPT ![r] = "mark"]
          /\ UNCHANGED receipt
       \/ /\ r \in DecisionRequests /\ Current(ref[r]) /\ ~Claimable
          /\ \E state \in {"none", "reserved"} : Leave(r, state)
          /\ UNCHANGED claim
       \/ /\ \E state \in {"rejected", "uncertain"} : Leave(r, state)
          /\ UNCHANGED claim
    /\ UNCHANGED <<pane, bindings, row, observing, ref, sent, told, doubtful>>

\* mark_command_send_started; when it fails the claim is released, and if that
\* fails too the request ends as uncertain.
MarkStarted(r) ==
    /\ pc[r] = "mark"
    /\ \/ /\ pc' = [pc EXCEPT ![r] = "start"]
          /\ receipt' = [receipt EXCEPT ![r] = "send_started"]
          /\ UNCHANGED claim
       \/ /\ Abandoned(r)
          /\ \E state \in {"reserved", "uncertain"} :
                /\ claim' # claim => state = "reserved"
                /\ Leave(r, state)
    /\ UNCHANGED <<pane, bindings, row, observing, ref, sent, told, doubtful>>

MayStart(r) == Mine(r) /\ ~claim.lapsed /\ Current(ref[r])

\* start_backend_pending_choice_send and start_backend_pending_decision_send
StartSend(r) ==
    /\ pc[r] = "start"
    /\ \/ /\ MayStart(r)
          /\ claim' = [claim EXCEPT !.state = "send_started"]
          /\ pc' = [pc EXCEPT ![r] = "send"]
          /\ UNCHANGED receipt
       \/ /\ Abandoned(r)
          /\ Leave(r, "uncertain")
    /\ UNCHANGED <<pane, bindings, row, observing, ref, sent, told, doubtful>>

\* The input reaches the pane and closes the prompt it was meant for, or the
\* call to Herdr fails and it may or may not have reached it.
Send(r) ==
    LET answered == IF screen = ref[r].prompt THEN Nothing ELSE screen
    IN  /\ pc[r] = "send"
        /\ \/ /\ sent' = [sent EXCEPT ![r] = "confirmed"]
              /\ screen' = answered
           \/ /\ sent' = [sent EXCEPT ![r] = "unsure"]
              /\ screen' \in {screen, answered}
        /\ pc' = [pc EXCEPT ![r] = "finish"]
        /\ UNCHANGED <<asked, bindings, row, claim, observing, receipt, ref, told, doubtful>>

\* Mutant: the prompt is free again.
UncertainClaimDropped(c) == NoClaim

\* The terminal effect of a send that may not have arrived: the claim stays, and
\* with it the prompt stays taken.
UncertainClaim(c) == c

\* Mutant: the tombstone is not dated.
TombstoneUndated == readers

\* The tombstone is newer than every read in flight.
TombstoneDated == OutdatedBy(Len(readers) + 1)

\* The row is still the one that was answered, so that a newer one is kept.
StillAnswered(r) ==
    /\ Mine(r) /\ claim.state = "send_started"
    /\ row.state \in {"open", "failed"}
    /\ row.rev = ref[r] /\ row.bind = ref[r].bind

\* finish_command_request with the terminal effect: receipt, prompt and claim
\* change together or, if the claim or the prompt is no longer there, not at all.
Finish(r) ==
    /\ pc[r] = "finish"
    /\ IF sent[r] = "unsure"
       THEN /\ Leave(r, "uncertain")
            /\ told' = [told EXCEPT ![r] = "uncertain"]
            /\ claim' = UncertainClaim(claim)
            /\ UNCHANGED <<row, readers>>
       ELSE IF StillAnswered(r)
       THEN /\ Leave(r, "accepted")
            /\ told' = [told EXCEPT ![r] = "accepted"]
            /\ row' = [NoRow EXCEPT !.state = "none", !.bind = row.bind]
            /\ claim' = NoClaim
            /\ readers' = TombstoneDated
       ELSE /\ pc' = [pc EXCEPT ![r] = "left"]
            /\ told' = [told EXCEPT ![r] = "in_progress"]
            /\ UNCHANGED <<row, claim, readers, receipt>>
    /\ UNCHANGED <<pane, bindings, completions, listed, scan, ref, sent, doubtful>>

\* The process stops, or a store call raises where nothing handles it.  A receipt
\* that is left as send_started is closed as uncertain by CommandLedger's Cleanup.
Crash(r) ==
    /\ pc[r] # "left"
    /\ pc' = [pc EXCEPT ![r] = "left"]
    /\ UNCHANGED <<pane, bindings, row, claim, observing, receipt, ref, sent, told, doubtful>>

-----------------------------------------------------------------------------
(* Time *)

ClaimLapses ==
    /\ claim.state = "claimed" /\ ~claim.lapsed
    /\ claim' = [claim EXCEPT !.lapsed = TRUE]
    /\ UNCHANGED <<pane, bindings, row, observing, calls, doubtful>>

GraceEnds ==
    /\ row.grace = "running"
    /\ row' = [row EXCEPT !.grace = "due"]
    /\ UNCHANGED <<pane, bindings, claim, observing, calls, doubtful>>

Observe ==
    \/ \E by \in {"scheduler", "completion"} : BeginRead(by)
    \/ \E i \in DOMAIN readers : ReadPane(i) \/ ApplyRead(i)
    \/ ListBindings \/ Prune

Answer(r) ==
    \/ Validate(r) \/ Redrive(r) \/ Claim(r) \/ MarkStarted(r) \/ StartSend(r)
    \/ Send(r) \/ Finish(r) \/ Crash(r)

Next ==
    \/ ShowPrompt \/ ClosePrompt \/ Rebind \/ Unbind
    \/ Observe
    \/ \E r \in Requests : Answer(r)
    \/ ClaimLapses \/ GraceEnds

Spec == Init /\ [][Next]_vars

-----------------------------------------------------------------------------
(* Properties *)

Reader ==
    [bind : 1..MaxBindings, by : {"scheduler", "completion"}, at : {"begun", "read"},
     saw : Unsupported..MaxPrompts, old : BOOLEAN, late : BOOLEAN, crossed : BOOLEAN]

TypeOK ==
    /\ screen \in {Malformed, Unsupported} \cup 0..asked /\ asked \in 0..MaxPrompts
    /\ binding \in 0..issued /\ issued \in 1..MaxBindings
    /\ row \in [state : {"absent", "none", "open", "failed", "invalid", "unsupported"},
                fresh : BOOLEAN, rev : Revision, bind : 0..MaxBindings,
                grace : {"no", "running", "due"}]
    /\ row.grace # "no" <=> row.state = "open" /\ ~row.fresh
    /\ row.state = "open" => row.rev # NoRevision
    /\ claim \in [state : {"none", "claimed", "send_started"},
                  by : Requests \cup {"nobody"}, rev : Revision, lapsed : BOOLEAN]
    /\ claim.state = "none" <=> claim = NoClaim
    /\ readers \in Seq(Reader)
    /\ completions \in 0..MaxCompletions
    /\ listed \in 0..MaxBindings /\ scan \in -1..MaxBindings
    /\ pc \in [Requests -> {"left", "claim", "mark", "start", "send", "finish"}]
    /\ receipt \in [Requests -> {"none", "reserved", "send_started", "accepted",
                                 "rejected", "uncertain"}]
    /\ ref \in [Requests -> Revision]
    /\ sent \in [Requests -> {"no", "unsure", "confirmed"}]
    /\ told \in [Requests -> {"nothing", "accepted", "uncertain", "in_progress"}]
    /\ doubtful \subseteq Revision

\* A claim that has not been sent belongs to the fresh open prompt; one that is
\* being sent belongs to the prompt the row still knows, be it stale or failed.
ClaimFitsPrompt ==
    /\ claim.state = "claimed" => row.state = "open" /\ row.fresh /\ claim.rev = row.rev
    /\ claim.state = "send_started" =>
          row.state \in {"open", "failed"} /\ claim.rev = row.rev

\* No two requests send an answer for the same revision of a prompt: not when a
\* claim lapses, its owner comes back, the prompt goes stale or the scan prunes, and
\* not when a completed turn has the pane read beside the scheduler, except a
\* revision whose observations crossed.
AtMostOneAnswer ==
    \A r, q \in Requests :
        r # q /\ "no" \notin {sent[r], sent[q]} => ref[r] # ref[q] \/ ref[r] \in doubtful

\* Without the exception, which the code does not keep (SecondAnswer.cfg)
NeverASecondAnswer ==
    \A r, q \in Requests :
        r # q /\ "no" \notin {sent[r], sent[q]} => ref[r] # ref[q]

\* A prompt whose answer was confirmed cannot be answered again once the call has
\* returned, whatever was read of it before the answer and is applied after it:
\* also where the tombstone could not be written because another observation had
\* removed the claim or moved the prompt to another binding.  The exception is the
\* same: an observation that looked earlier than one already applied.
AnsweredIsClosed ==
    \A r \in Requests :
        sent[r] = "confirmed" /\ told[r] # "nothing"
            => \/ ~(row.state = "open" /\ row.fresh /\ row.rev = ref[r])
               \/ ref[r] \in doubtful

\* A prompt that cannot be read any more is shown as stale for one fixed period:
\* no later failure moves its deadline, not even of a read that began before it.
GraceIsFixed == [][row.grace = "due" => row'.grace # "running"]_vars

\* Claims and prompts fit together, before and after an answer.
ClaimsFit == TypeOK /\ ClaimFitsPrompt /\ AnsweredIsClosed

=============================================================================
