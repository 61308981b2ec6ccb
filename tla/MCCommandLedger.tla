--------------------------- MODULE MCCommandLedger ---------------------------
(***************************************************************************)
(* The receipt and ledger transactions on their own, called with every     *)
(* argument.                                                               *)
(***************************************************************************)
EXTENDS CommandLedger, TLC

RequestSymmetry == Permutations(Requests)

\* The daemon's maintenance keeps running and time passes.
LiveSpec == LedgerSpec /\ WF_ledgerVars(Tick) /\ WF_ledgerVars(Cleanup)

=============================================================================
