------------------------- MODULE MCCommandSubmission -------------------------
(***************************************************************************)
(* Concurrent attempts at one request id: by worker id, by alias, and with *)
(* another text.                                                           *)
(***************************************************************************)
EXTENDS CommandSubmission, TLC

CONSTANTS r1, w1, w2, alias, t1, t2

Retries ==
    {[req |-> r1, target |-> w1, text |-> t1],
     [req |-> r1, target |-> alias, text |-> t1],
     [req |-> r1, target |-> w1, text |-> t2]}

AttemptSymmetry == Permutations(Attempts)

=============================================================================
