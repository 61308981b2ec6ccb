---------------------------- MODULE MCDaemonParts ----------------------------
(***************************************************************************)
(* Instances for TLC of seven modules about parts of the daemon that share *)
(* no state: the file of the store, the installation key, the endpoint,    *)
(* the requests to it, the links from submissions to turns, the snapshots, *)
(* and the automatic maintenance.  A behaviour exercises one of them while *)
(* the others stay as they began.                                          *)
(***************************************************************************)
EXTENDS StoreFile, InstallationKey, DaemonEndpoint, DaemonRequests, SubmissionLinks,
        SnapshotSaves, StoreMaintenance, TLC

VARIABLE part       \* the module that is exercised

partsVars == <<fileVars, keyVars, endpointVars, requestVars, linkVars, saveVars, maintVars, part>>

\* Contents of a snapshot: no signal, one, or one that another one outranks
Signals ==
    LET a == [family |-> "f", id |-> "a", rank |-> 0]
        b == [family |-> "f", id |-> "b", rank |-> 1]
    IN  <<{}, {a}, {a, b}>>

\* Two savers whose snapshots are seen out of order ...
Snapshots == SavesNext /\ saveClock' <= 2 /\ lastObserved' = 0

\* ... and one whose observations are.
Observations ==
    /\ SavesNext
    /\ \A s \in Savers : saving'[s].step # "idle" =>
          s = "s1" /\ saving'[s].stamp = 1 /\ saving'[s].made = saveClock'

\* A part that is not exercised begins in one of its initial states only.
PartsInit ==
    /\ part \in {"file", "key", "endpoint", "requests", "links", "snapshots", "observations",
              "maintenance"}
    /\ StoreInit /\ (part # "file" => path = None)
    /\ KeyInit /\ (part # "key" => \A n \in Names : entries[n] = NoEntry)
    /\ EndpointInit /\ (part # "endpoint" => endpoint = NoSocket)
    /\ RequestsInit
    /\ LinkInit
    /\ SavesInit /\ (part \notin {"snapshots", "observations"} => retained.content = 0 /\ saveClock = 1)
    /\ MaintInit /\ (part # "maintenance" => \A h \in Hosts : backlog[h] = 0)

PartsNext ==
    /\ \/ /\ part = "file" /\ StoreNext
          /\ UNCHANGED <<keyVars, endpointVars, requestVars, linkVars, saveVars, maintVars>>
       \/ /\ part = "key" /\ KeyNext
          /\ UNCHANGED <<fileVars, endpointVars, requestVars, linkVars, saveVars, maintVars>>
       \/ /\ part = "endpoint" /\ EndpointNext
          /\ UNCHANGED <<fileVars, keyVars, requestVars, linkVars, saveVars, maintVars>>
       \/ /\ part = "requests" /\ RequestsNext
          /\ UNCHANGED <<fileVars, keyVars, endpointVars, linkVars, saveVars, maintVars>>
       \/ /\ part = "links" /\ LinkNext
          /\ UNCHANGED <<fileVars, keyVars, endpointVars, requestVars, saveVars, maintVars>>
       \/ /\ part = "snapshots" /\ Snapshots
          /\ UNCHANGED <<fileVars, keyVars, endpointVars, requestVars, linkVars, maintVars>>
       \/ /\ part = "observations" /\ Observations
          /\ UNCHANGED <<fileVars, keyVars, endpointVars, requestVars, linkVars, maintVars>>
       \/ /\ part = "maintenance" /\ MaintNext
          /\ UNCHANGED <<fileVars, keyVars, endpointVars, requestVars, linkVars, saveVars>>
    /\ UNCHANGED part

PartsSpec == PartsInit /\ [][PartsNext]_partsVars

\* Nothing orders or names submissions or turns.
Alike == Permutations(Submissions) \cup Permutations(Turns)

=============================================================================
