--------------------------- MODULE MCWorkerRouting ---------------------------
(***************************************************************************)
(* Model values for WorkerRouting.  Nothing orders or names pane ids;      *)
(* terminals are ordered by SuffixedId and stay apart.                     *)
(***************************************************************************)
EXTENDS WorkerRouting, TLC

PaneSymmetry == Permutations(Panes)

=============================================================================
