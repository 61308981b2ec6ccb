--------------------------- MODULE StoreMaintenance ---------------------------
(***************************************************************************)
(* The automatic maintenance that the daemon and the event backend both    *)
(* call (store/sqlite.py, maybe_run_automatic_store_maintenance): when it  *)
(* is due, the acknowledged finals that may be deleted share one budget    *)
(* among all hosts of the store, and cursors decide who comes first.       *)
(*                                                                         *)
(* What is deleted for a final is in FinalRetention; the links, receipts   *)
(* and watermarks that the same call looks after are in SubmissionLinks,   *)
(* CommandLedger and HerdrTurnStream, and old snapshots are left out.      *)
(* Every host is assumed to have finals.                                   *)
(***************************************************************************)
EXTENDS Integers, FiniteSets, FiniteSetsExt

CONSTANTS
    Hosts,          \* numbered in the order of their ids
    Budget,         \* policy.batch_size
    Cadence,        \* cadence_seconds
    MaxBacklog,     \* bound of the finals of a host that may be deleted
    LastTime        \* bound of the clock

ASSUME MaintenanceAssumption ==
    Hosts \subseteq Nat /\ IsFiniteSet(Hosts) /\ Budget \in Nat \ {0} /\ Cadence \in Nat \ {0}

VARIABLES
    maintClock,
    backlog,        \* backlog[h]: acknowledged finals past the retention
    serviced,       \* store_maintenance_cursors: when h was last serviced, 0 for never
    lastCompleted,  \* store_maintenance_state: the last run, 0 for never
    reported,       \* remaining_candidates of the last run, while nothing was added since
    waits           \* history: runs since h was last serviced

maintVars == <<maintClock, backlog, serviced, lastCompleted, reported, waits>>

MaintInit ==
    /\ maintClock = 1 /\ lastCompleted = 0 /\ reported = TRUE
    /\ backlog \in [Hosts -> 0..MaxBacklog]
    /\ serviced = [h \in Hosts |-> 0] /\ waits = [h \in Hosts |-> 0]

Due == lastCompleted = 0 \/ maintClock >= lastCompleted + Cadence

\* Mutant: the cursors are not looked at.
BeforeById(g, h) == g < h

\* The hosts that were never serviced come first, then the one that has waited longest.
Before(g, h) == serviced[g] < serviced[h] \/ (serviced[g] = serviced[h] /\ g < h)

\* The budget that is left when it is the turn of h
BudgetFor(h) == Budget - MapThenSumSet(LAMBDA g : backlog[g], {g \in Hosts : Before(g, h)})

Serviced == {h \in Hosts : BudgetFor(h) > 0}

\* A final is acknowledged, or grows old enough to be deleted.
Age(h) ==
    /\ backlog[h] < MaxBacklog
    /\ backlog' = [backlog EXCEPT ![h] = @ + 1] /\ reported' = TRUE
    /\ UNCHANGED <<maintClock, serviced, lastCompleted, waits>>

\* One transaction; a call that is not due, or fails, changes nothing.  A host
\* without candidates is serviced too.
Maintain ==
    /\ Due
    /\ backlog' = [h \in Hosts |->
          IF h \in Serviced THEN Max({0, backlog[h] - BudgetFor(h)}) ELSE backlog[h]]
    /\ serviced' = [h \in Hosts |-> IF h \in Serviced THEN maintClock ELSE serviced[h]]
    /\ lastCompleted' = maintClock
    /\ reported' = \/ Serviced # Hosts
                   \/ \E h \in Hosts : backlog'[h] > 0
    /\ waits' = [h \in Hosts |-> IF h \in Serviced THEN 0 ELSE waits[h] + 1]
    /\ UNCHANGED maintClock

MaintTick ==
    /\ maintClock < LastTime /\ maintClock' = maintClock + 1
    /\ UNCHANGED <<backlog, serviced, lastCompleted, reported, waits>>

MaintNext == (\E h \in Hosts : Age(h)) \/ Maintain \/ MaintTick

MaintSpec == MaintInit /\ [][MaintNext]_maintVars

-----------------------------------------------------------------------------
\* A busy host does not keep another one from being serviced: nobody waits for
\* more runs than there are other hosts.  And when a run reports that nothing
\* remains, nothing does.
EveryHostIsServiced ==
    /\ \A h \in Hosts : waits[h] < Cardinality(Hosts)
    /\ ~reported => \A h \in Hosts : backlog[h] = 0

=============================================================================
