--------------------------- MODULE InstallationKey ---------------------------
(***************************************************************************)
(* The installation identity: a key, a marker with the digest of the key   *)
(* and a sentinel, three files of the data directory (worker_identity.py,  *)
(* and the publication and removal of private files in local_state.py).    *)
(*                                                                         *)
(* Any number of processes load the key, each one step of the file system  *)
(* at a time; the first ones create it.  A process may die, or fail on an  *)
(* error of the file system, at any step.  A file is known by its identity *)
(* and holds the key it is about.  Its contents are complete before it     *)
(* gets its name (the temporary file is written, synced and then linked),  *)
(* so the temporary file is left out; so is the loss of changes of the     *)
(* directory that were not yet synced when the power fails.                *)
(***************************************************************************)
EXTENDS Naturals

CONSTANTS
    Procs,          \* processes that use the data directory
    NoEntry,        \* no file of that name
    MaxLinks,       \* bound: files ever linked into the directory
    MaxLosses       \* bound: files lost by hand

ASSUME InstallationKeyAssumption ==
    /\ MaxLinks \in Nat /\ MaxLosses \in Nat
    /\ NoEntry \notin [id : Nat, of : Nat]

VARIABLES
    entries,        \* the directory: the file of each name
    procs,          \* what each process is doing
    links,          \* files linked so far: the next identity, and the next key
    losses,         \* files lost by hand so far
    broken,         \* history: files were lost, or a reset was cut short
    issued          \* history: keys returned by loads since the last reset

keyVars == <<entries, procs, links, losses, broken, issued>>

Names == {"key", "marker", "sentinel"}
Sought == [n \in Names |-> NoEntry]
Inactive == [pc |-> "inactive", name |-> "key", seen |-> Sought, key |-> 0]

\* A new directory, an identity of before the sentinel, a complete one, or what a
\* reset that was cut short has left.
KeyInit ==
    /\ \E have \in {{}, {"key"}, {"key", "marker"}, Names, {"key", "sentinel"}, {"sentinel"}} :
          /\ entries = [n \in Names |-> IF n \in have THEN [id |-> 1, of |-> 1] ELSE NoEntry]
          /\ issued = IF "sentinel" \in have THEN {1} ELSE {}
          /\ broken = (have \in {{"key", "sentinel"}, {"sentinel"}})
    /\ procs = [p \in Procs |-> Inactive]
    /\ links = 1 /\ losses = 0

At(p, pc, n) == procs[p].pc = pc /\ procs[p].name = n
Goes(p, pc, n) == procs' = [procs EXCEPT ![p] = [@ EXCEPT !.pc = pc, !.name = n]]
Fails(p) == procs' = [procs EXCEPT ![p] = Inactive]
Resetting == \E p \in Procs : procs[p].pc = "unlink"

\* The file a load looks at after that of name n.
After(n) == CASE n = "key" -> "marker" [] n = "marker" -> "sentinel" [] OTHER -> "key"

-----------------------------------------------------------------------------
(* load_or_create_installation_key.                                        *)

StartLoad(p) ==
    /\ procs[p] = Inactive /\ ~Resetting
    /\ Goes(p, "look", "key")
    /\ UNCHANGED <<entries, links, losses, broken, issued>>

\* _identity_entry of the three files, one after the other.
Look(p, n) ==
    /\ At(p, "look", n)
    /\ procs' = [procs EXCEPT ![p] =
                    [@ EXCEPT !.seen[n] = entries[n], !.name = After(n),
                              !.pc = IF n = "sentinel" THEN "decide" ELSE "look"]]
    /\ UNCHANGED <<entries, links, losses, broken, issued>>

\* Mutant: the sentinel does not keep a missing key from being created.
AgainUnsealed(p) ==
    /\ procs[p].pc = "decide"
    /\ Goes(p, "get", "key")
    /\ UNCHANGED <<entries, links, losses, broken, issued>>

\* The sentinel is there: a key or a marker that was not is looked for again.
\* It is not: a marker without its key is, as the key is published first.
Again(p) ==
    LET s == procs[p].seen
        sealed == s["sentinel"] # NoEntry
        now == [n \in Names |->
                  IF s[n] = NoEntry /\ (\/ sealed
                                        \/ n = "key" /\ s["marker"] # NoEntry)
                  THEN entries[n] ELSE s[n]]
        must == CASE sealed -> Names
                  [] ~sealed /\ s["marker"] # NoEntry -> {"key"}
                  [] OTHER -> {}
    IN  /\ procs[p].pc = "decide"
        /\ IF \A n \in must : now[n] # NoEntry /\ (n = "sentinel" => entries[n] # NoEntry)
           THEN procs' = [procs EXCEPT ![p] = [@ EXCEPT !.seen = now, !.pc = "get"]]
           ELSE Fails(p)
        /\ UNCHANGED <<entries, links, losses, broken, issued>>

\* What publishing name n for a process writes: a new key, or a file about its.
Content(p, n) == IF n = "key" THEN links + 1 ELSE procs[p].key

\* publish_private_file_at: linked unless the name is taken, and then synced.
PublishFile(p, n) ==
    /\ At(p, "get", n) /\ procs[p].seen[n] = NoEntry
    /\ entries[n] = NoEntry /\ links < MaxLinks
    /\ entries' = [entries EXCEPT ![n] = [id |-> links + 1, of |-> Content(p, n)]]
    /\ links' = links + 1
    /\ procs' = [procs EXCEPT ![p].seen[n] = entries'[n]]
    /\ UNCHANGED <<losses, broken, issued>>

\* Mutant: the sentinel is published before the marker.
GetNextSealed(n) ==
    CASE n = "key" -> [pc |-> "get", name |-> "sentinel"]
      [] n = "sentinel" -> [pc |-> "get", name |-> "marker"]
      [] OTHER -> [pc |-> "verify", name |-> "key"]

\* What follows on the file of name n: the key, the marker, and once both are
\* verified the sentinel.
GetNext(n) ==
    CASE n = "key" -> [pc |-> "get", name |-> "marker"]
      [] n = "marker" -> [pc |-> "verify", name |-> "key"]
      [] OTHER -> [pc |-> "confirm", name |-> "key"]

\* _read_exact_file: what the name holds now, wherever it came from; the
\* marker must be of the key that was read.
ReadFile(p, n) ==
    /\ At(p, "get", n)
    /\ procs[p].seen[n] # NoEntry \/ entries[n] # NoEntry
    /\ IF entries[n] = NoEntry \/ (n = "marker" /\ entries[n].of # procs[p].key)
       THEN Fails(p)
       ELSE procs' = [procs EXCEPT ![p] =
                        [@ EXCEPT !.seen[n] = entries[n],
                                  !.key = IF n = "key" THEN entries[n].of
                                         ELSE procs[p].key,
                                  !.name = GetNext(n).name, !.pc = GetNext(n).pc]]
    /\ UNCHANGED <<entries, links, losses, broken, issued>>

Kept(p, names) == \A n \in names : entries[n] = procs[p].seen[n]

\* _verify_identity_entry of the key and of the marker.
Verify(p) ==
    /\ procs[p].pc = "verify"
    /\ IF Kept(p, {"key", "marker"})
       THEN Goes(p, IF procs[p].seen["sentinel"] = NoEntry THEN "get" ELSE "confirm", "sentinel")
       ELSE Fails(p)
    /\ UNCHANGED <<entries, links, losses, broken, issued>>

\* The last verification, of all three, and the return.
Return(p) ==
    /\ procs[p].pc = "confirm"
    /\ Fails(p)
    /\ issued' = IF Kept(p, Names) THEN issued \cup {procs[p].key} ELSE issued
    /\ UNCHANGED <<entries, links, losses, broken>>

-----------------------------------------------------------------------------
(* reset_installation_key, with every user of the key offline.             *)

\* The three files are read, compared and verified.
StartReset(p) ==
    /\ \A q \in Procs : procs[q] = Inactive
    /\ \A n \in Names : entries[n] # NoEntry
    /\ entries["marker"].of = entries["key"].of
    /\ procs' = [procs EXCEPT ![p] =
                    [@ EXCEPT !.pc = "unlink", !.name = "marker", !.seen = entries]]
    /\ UNCHANGED <<entries, links, losses, broken, issued>>

\* The marker first, then the key, and the sentinel last: "an interrupted reset
\* either recovers the intact key or remains fail-closed".
UnlinkNext(n) == IF n = "marker" THEN "key" ELSE "sentinel"

\* _unlink_verified_entry.
Unlink(p, n) ==
    /\ At(p, "unlink", n) /\ entries[n] = procs[p].seen[n]
    /\ entries' = [entries EXCEPT ![n] = NoEntry]
    /\ IF n # "sentinel" THEN Goes(p, "unlink", UnlinkNext(n)) ELSE Fails(p)
    /\ issued' = IF n = "sentinel" THEN {} ELSE issued
    /\ broken' = (n # "sentinel")
    /\ UNCHANGED <<links, losses>>

-----------------------------------------------------------------------------
(* The environment.                                                        *)

\* A process is killed, or an error of the file system ends the call.
Die(p) ==
    /\ procs[p] # Inactive
    /\ Fails(p)
    /\ UNCHANGED <<entries, links, losses, broken, issued>>

\* The key or the marker of an initialized identity is lost, when no call is
\* under way.
Lose(n) ==
    /\ n # "sentinel" /\ entries[n] # NoEntry /\ entries["sentinel"] # NoEntry
    /\ losses < MaxLosses /\ \A p \in Procs : procs[p] = Inactive
    /\ entries' = [entries EXCEPT ![n] = NoEntry]
    /\ losses' = losses + 1 /\ broken' = TRUE
    /\ UNCHANGED <<procs, links, issued>>

KeyNext ==
    \/ \E p \in Procs :
          \/ StartLoad(p) \/ Again(p) \/ Verify(p) \/ Return(p) \/ StartReset(p) \/ Die(p)
          \/ \E n \in Names :
                Look(p, n) \/ PublishFile(p, n) \/ ReadFile(p, n) \/ Unlink(p, n)
    \/ \E n \in Names : Lose(n)

KeySpec == KeyInit /\ [][KeyNext]_keyVars

-----------------------------------------------------------------------------
(* Properties.                                                             *)

\* "Ordinary loads validate and reuse an initialized identity and never rotate
\* it": whatever the processes that create it do at once, die or lose, all
\* loads until the sentinel of a reset is removed return one key.
OneIdentity == \A k, l \in issued : k = l

\* Processes that die never lock the installation out: as long as no file was
\* lost and no reset was cut short, what is in the directory is the start of an
\* identity that the next load completes.
NeverLockedOut ==
    ~broken =>
        /\ entries["sentinel"] # NoEntry => entries["marker"] # NoEntry
        /\ entries["marker"] # NoEntry =>
              entries["key"] # NoEntry /\ entries["marker"].of = entries["key"].of

\* Whatever process dies or races at whatever point, the next load works and
\* gives the identity the host already had.
IdentityIsKept == NeverLockedOut /\ OneIdentity

=============================================================================
