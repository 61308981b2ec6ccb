--------------------------- MODULE RequestPromise ---------------------------
(***************************************************************************)
(* What the command receipts promise to the clients of the daemon, without *)
(* rows, owners, leases or ledger: a request id is sent at most once until *)
(* its outcome has been kept for Retention, and an outcome, once known, is *)
(* kept as it is for that long.  One transaction may advance any number of *)
(* request ids.                                                            *)
(***************************************************************************)
EXTENDS Integers

CONSTANTS Requests, Retention

VARIABLES clock, phase, since

promiseVars == <<clock, phase, since>>

Outcomes == {"accepted", "rejected", "uncertain"}

Init ==
    /\ clock = 0
    /\ phase = [r \in Requests |-> "unsent"]
    /\ since = [r \in Requests |-> 0]

Begin(r) ==
    phase[r] = "unsent" /\ phase'[r] = "sending" /\ since'[r] = 0

\* Only a send can be accepted.
Conclude(r) ==
    \/ /\ phase[r] = "sending"
       /\ phase'[r] \in Outcomes /\ since'[r] = clock
    \/ /\ phase[r] = "unsent"
       /\ phase'[r] \in Outcomes \ {"accepted"} /\ since'[r] = clock

Forget(r) ==
    /\ phase[r] \in Outcomes /\ since[r] + Retention < clock
    /\ phase'[r] = "unsent" /\ since'[r] = 0

Keep(r) == phase'[r] = phase[r] /\ since'[r] = since[r]

Next ==
    /\ clock' \in {clock, clock + 1}
    /\ \A r \in Requests : Keep(r) \/ (clock' = clock /\ (Begin(r) \/ Conclude(r) \/ Forget(r)))

Spec == Init /\ [][Next]_promiseVars

=============================================================================
