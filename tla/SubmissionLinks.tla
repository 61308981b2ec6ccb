--------------------------- MODULE SubmissionLinks ---------------------------
(***************************************************************************)
(* Which observed turn a submitted instruction became (store/sqlite.py).   *)
(*                                                                         *)
(* A submission is a row of turn_submissions, a turn a row of turns.       *)
(* Readers of the session observe turns and apply them in one transaction  *)
(* each (apply_turn_refresh), which settles the links of the turn's        *)
(* component; sweeps settle what no observation settles, unless their      *)
(* backoff says it is too early.  The links are a guess from text and      *)
(* time: all submissions here have the same owner and the same text, the   *)
(* only case in which they compete.  Times are whole seconds, and an       *)
(* observation is dated by the moment its reading began.                   *)
(***************************************************************************)
EXTENDS Integers, FiniteSets, FiniteSetsExt

CONSTANTS
    Submissions, Turns,
    NoLink,         \* no turn, no submission
    Window,         \* link_window_seconds
    HardTtl,        \* hard_ttl_seconds
    AckTimeout,     \* SUBMISSION_SEND_ACK_TIMEOUT_SECONDS
    MaxReadAge,     \* bound: how long a read of the session takes
    MaxTime         \* bound: the clock

ASSUME LinksAssumption ==
    /\ NoLink \notin Submissions \cup Turns
    /\ IsFiniteSet(Turns)
    /\ {Window, AckTimeout, MaxReadAge, MaxTime} \subseteq Nat
    /\ HardTtl \in Nat /\ HardTtl >= Window

VARIABLES
    now,
    subs,           \* turn_submissions
    source,         \* external: the turns of the session, each by its submission
    rows,           \* turns: when each was first observed
    backoff,        \* _SUBMISSION_LINK_BACKOFF of the daemon for this component
    doubtful        \* history: something happened that time and text cannot tell apart

linkVars == <<now, subs, source, rows, backoff, doubtful>>

Never == -1
NoSub == [state |-> "none", sent |-> Never, submitted |-> Never, upper |-> Never,
          hard |-> Never, link |-> NoLink, receipt |-> FALSE]

OpenStates == {"send_started", "submitted", "uncertain"}

LinkInit ==
    /\ now = 0
    /\ subs = [s \in Submissions |-> NoSub]
    /\ source = [t \in Turns |-> NoLink]
    /\ rows = [t \in Turns |-> Never]
    /\ backoff = Never
    /\ doubtful = FALSE

-----------------------------------------------------------------------------
(* Settlement (settle_submission_links_conn).                              *)

\* Mutant: a send whose outcome is unknown does not compete for turns.
IsOpenForSure(s) == subs[s].state \in {"send_started", "submitted"} /\ subs[s].link = NoLink

IsOpen(s) == subs[s].state \in OpenStates /\ subs[s].link = NoLink
OpenSubs == {s \in Submissions : IsOpen(s)}
IsQueued(s) == subs[s].state = "send_started" /\ subs[s].submitted # Never

\* Mutant: a turn that is linked stays a candidate.
CandidatesLinked(ts) == {t \in Turns : ts[t] # Never}

\* _submission_link_candidate_turns_conn, for the rows ts of turns.
Candidates(ts) ==
    {t \in Turns : ts[t] # Never /\ \A s \in Submissions : subs[s].link # t}

\* A queued prompt has no edges: it may run long after the window.
Edges(s, ts) ==
    IF IsQueued(s) THEN {}
    ELSE {t \in Candidates(ts) : /\ subs[s].sent - Window <= ts[t]
                                 /\ ts[t] <= subs[s].upper}

Graph(ts) == [s \in OpenSubs |-> Edges(s, ts)]

\* The connected component of s: what every closed set around it contains.
Component(s, g) ==
    LET closed(X) == \A u \in X, v \in OpenSubs \ X : g[u] \cap g[v] = {}
    IN  {u \in OpenSubs : \A X \in SUBSET OpenSubs : s \in X /\ closed(X) => u \in X}

\* A fresh send links at once to its one observation after it; equal seconds
\* prove nothing.
Instant(s, t, comp, ts, at) ==
    /\ comp = {s}
    /\ subs[s].state # "uncertain"
    /\ subs[s].state = "send_started" => at <= subs[s].sent + AckTimeout
    /\ ts[t] <= at
    /\ ts[t] > IF subs[s].state = "send_started" THEN subs[s].sent ELSE subs[s].submitted

\* When the last window of the component of s closes.
Boundary(s, g) == Max({subs[u].upper : u \in Component(s, g)})

Linked(s, t) == [subs[s] EXCEPT !.state = "linked", !.link = t]
Ended(s, how) == [subs[s] EXCEPT !.state = how]

\* What settlement at time `at` makes of the open submission s.
Settled(s, g, ts, at) ==
    LET comp == Component(s, g)
        found == UNION {g[u] : u \in comp}
        one == comp = {s} /\ Cardinality(found) = 1
        t == CHOOSE u \in found : TRUE
    IN  CASE g[s] = {} -> IF at < subs[s].upper THEN subs[s] ELSE Ended(s, "expired")
          [] g[s] # {} /\ at < Boundary(s, g) ->
               IF Cardinality(found) = 1 /\ Instant(s, t, comp, ts, at)
               THEN Linked(s, t) ELSE subs[s]
          [] OTHER -> IF one THEN Linked(s, t) ELSE Ended(s, "ambiguous")

SettledAll(ts, at) ==
    LET g == Graph(ts)
    IN  [s \in Submissions |-> IF s \in OpenSubs THEN Settled(s, g, ts, at) ELSE subs[s]]

\* The earliest boundary a component still waits for.
NextEligible(g) == Min({Boundary(s, g) : s \in OpenSubs})

\* _expire_turn_submissions_conn
HardExpired(sub, at) ==
    IF sub.state \in OpenStates /\ sub.link = NoLink /\ sub.hard <= at
    THEN [sub EXCEPT !.state = "expired"] ELSE sub

-----------------------------------------------------------------------------
(* The ledger side of a submission.                                        *)

\* _insert_turn_submission_conn with mark_command_send_started; only a send of
\* the daemon itself rearms the daemon's sweep.
Send(s, here) ==
    /\ subs[s] = NoSub
    /\ subs' = [subs EXCEPT ![s] =
                  [NoSub EXCEPT !.state = "send_started", !.sent = now,
                                !.upper = now + Window, !.hard = now + HardTtl]]
    /\ backoff' = IF here THEN Never ELSE backoff
    /\ UNCHANGED <<now, source, rows, doubtful>>

\* _terminalize_turn_submission_conn: the receipt ends; a row that is linked or
\* ended already keeps its state.
Verdict(s, v) ==
    /\ subs[s] # NoSub /\ ~subs[s].receipt
    /\ v = "cancelled" => \A t \in Turns : source[t] # s
    /\ subs' = [subs EXCEPT ![s] =
                  IF subs[s].state # "send_started" THEN [@ EXCEPT !.receipt = TRUE]
                  ELSE [@ EXCEPT !.state = v, !.receipt = TRUE,
                                 !.submitted = IF v = "submitted" THEN now ELSE subs[s].submitted]]
    /\ UNCHANGED <<now, source, rows, backoff, doubtful>>

\* record_command_send_queued: the text waits in the pane; a provisional link is
\* undone and the row stays open until the hard limit.
RecordQueued(s) ==
    /\ subs[s].state \in {"send_started", "linked"} /\ ~subs[s].receipt
    /\ subs[s].submitted = Never
    /\ subs' = [subs EXCEPT ![s].state = "send_started", ![s].link = NoLink,
                            ![s].submitted = now, ![s].upper = subs[s].hard]
    /\ doubtful' = TRUE
    /\ UNCHANGED <<now, source, rows, backoff>>

-----------------------------------------------------------------------------
(* The session.                                                            *)

\* The agent starts on a delivered text.  (The same text typed by hand could not
\* be told apart, and is left out.)
StartTurn(t, s) ==
    /\ source[t] = NoLink /\ \A u \in Turns : source[u] # s
    /\ subs[s].state \notin {"none", "cancelled"}
    /\ source' = [source EXCEPT ![t] = s]
    /\ UNCHANGED <<now, subs, rows, backoff, doubtful>>

-----------------------------------------------------------------------------
(* Observations (apply_turn_refresh).                                      *)

\* A reading that began at `at` is applied; the row of a turn keeps the date of
\* the first one.  A failed settlement is rolled back alone.  A turn that is first
\* applied outside the window of its cause leaves doubts.
Apply(t, at, settles) ==
    LET ts == [rows EXCEPT ![t] = IF rows[t] = Never THEN at ELSE @]
        s == source[t]
        late == /\ rows[t] = Never
                /\ at < subs[s].sent - Window \/ now >= subs[s].sent + Window
    IN
    /\ s # NoLink /\ at >= 0
    /\ rows' = ts
    /\ subs' = IF settles THEN SettledAll(ts, at) ELSE subs
    /\ backoff' = Never
    /\ doubtful' = (doubtful \/ late)
    /\ UNCHANGED <<now, source>>

-----------------------------------------------------------------------------
(* Sweeps.                                                                 *)

\* settle_submission_link_for_request: a retry settles its own component.
SettleForRequest(s) ==
    /\ subs[s] # NoSub
    /\ subs' = SettledAll(rows, now)
    /\ UNCHANGED <<now, source, rows, backoff, doubtful>>

\* _submission_link_component_is_due
IsDue == backoff = Never \/ now >= backoff

\* Mutant: nothing ends the wait but a new observation.
BackoffForGood(g) == MaxTime + 1

\* _backoff_submission_link_component
Backoff(g) == NextEligible(g)

\* _settle_due_submission_links_conn
Swept == IF OpenSubs # {} /\ IsDue THEN SettledAll(rows, now) ELSE subs

\* sweep_submission_links, which ends with the hard limit
Sweep ==
    /\ subs' = [s \in Submissions |-> HardExpired(Swept[s], now)]
    /\ backoff' = CASE OpenSubs = {} -> Never
                    [] OpenSubs # {} /\ IsDue ->
                         IF Swept # subs THEN Never ELSE Backoff(Graph(rows))
                    [] OpenSubs # {} /\ ~IsDue -> backoff
    /\ UNCHANGED <<now, source, rows, doubtful>>

\* The daemon dies and comes back: the backoff is lost.
Restart ==
    /\ backoff' = Never
    /\ UNCHANGED <<now, subs, source, rows, doubtful>>

Tick ==
    /\ now < MaxTime
    /\ now' = now + 1
    /\ UNCHANGED <<subs, source, rows, backoff, doubtful>>

LinkNext ==
    \/ \E s \in Submissions :
        \/ \E here \in BOOLEAN : Send(s, here)
        \/ \E v \in {"submitted", "uncertain", "cancelled"} : Verdict(s, v)
        \/ RecordQueued(s) \/ SettleForRequest(s)
    \/ \E t \in Turns :
        \/ \E s \in Submissions : StartTurn(t, s)
        \/ \E at \in (now - MaxReadAge) .. now, settles \in BOOLEAN : Apply(t, at, settles)
    \/ Sweep \/ Restart \/ Tick

LinkSpec == LinkInit /\ [][LinkNext]_linkVars

-----------------------------------------------------------------------------
(* Properties.                                                             *)

\* No turn is the answer to two submissions, although links are made by
\* observations, retries and sweeps, and undone by queued verdicts.
LinksAreExclusive ==
    \A r, s \in Submissions :
        r # s /\ subs[r].link # NoLink => subs[r].link # subs[s].link

\* A link names the turn the submission caused, instant or not, unless that turn
\* was not observed within the window or the pane queued the text: then time and
\* text are all there is to go by.
LinkIsTrue ==
    ~doubtful =>
        \A s \in Submissions, t \in Turns :
            (subs[s].link # NoLink /\ source[t] = s /\ rows[t] # Never)
                => subs[s].link = t

\* The sweep oversleeps no window: whatever it backed off from before, and whoever
\* sent in between, it leaves nothing open whose component's windows are closed.
\* There are two exceptions: a component with a queued prompt waits for the hard
\* limit, and one that lost a submission by cancellation may wait for its window.
SweepIsOnTime ==
    ~doubtful /\ (\A u \in Submissions : subs[u].state # "cancelled") =>
        \A s \in OpenSubs :
            Boundary(s, Graph(rows)) <= now => Swept[s].state \notin OpenStates

\* A submission is linked to its own turn and to no other, and a turn to one
\* submission.
LinksAreTrue == LinksAreExclusive /\ LinkIsTrue

=============================================================================
