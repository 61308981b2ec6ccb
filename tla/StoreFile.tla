------------------------------ MODULE StoreFile ------------------------------
(***************************************************************************)
(* The file of the store: who opens, creates, migrates and replaces it     *)
(* (store/sqlite.py, local_state.py).                                      *)
(*                                                                         *)
(* Every connection holds a shared flock on the directory of the store and *)
(* works on the file it found there; creating the file and migrating its   *)
(* schema need the lock exclusively, and so does the offline compaction,   *)
(* which backs the store up, deletes expired snapshots, rebuilds the       *)
(* database in a new file and renames that over the old one.  Every        *)
(* failure after the first deletion restores the backup, in yet another    *)
(* file.  Connections and the compaction may die at any step.              *)
(*                                                                         *)
(* A file is known by its identity (device and inode), its contents are a  *)
(* set of rows.  All attempts on the lock are LOCK_NB; a conversion that   *)
(* fails has lost the lock it had, as on Linux.                            *)
(***************************************************************************)
EXTENDS Naturals, FiniteSets

CONSTANTS
    Conns,          \* connections, of any process
    Rows,           \* rows that connections write
    Expired,        \* snapshots the retention policy gives up
    None,           \* no file
    Current,        \* STORE_SCHEMA_VERSION
    MaxFiles        \* bound: files ever created in the directory

ASSUME StoreFileAssumption ==
    /\ Current \in Nat \ {0} /\ MaxFiles \in Nat \ {0}
    /\ Rows \cap Expired = {}
    /\ None \notin 1 .. MaxFiles

VARIABLES
    path,           \* the file that has the name of the store
    files,          \* [rows, version] of every file, by identity
    made,           \* files created so far
    wal,            \* the file that the frames of the -wal beside it belong to
    conns,          \* connections and the lock each holds
    comp,           \* the compaction
    written         \* history: rows that connections have committed

fileVars == <<path, files, made, wal, conns, comp, written>>

NoFile == [rows |-> {}, version |-> 0]
Gone == [pc |-> "closed", lock |-> "none", id |-> None]
Idle == [pc |-> "idle", lock |-> "none", id |-> None, before |-> {}, backup |-> FALSE,
         mutated |-> FALSE, published |-> FALSE, temp |-> None, status |-> "none"]

\* There is no store yet, or one of an earlier version with old snapshots.
StoreInit ==
    /\ \/ path = None /\ made = 0 /\ files = [i \in 1 .. MaxFiles |-> NoFile]
       \/ /\ path = 1 /\ made = 1
          /\ \E v \in 1 .. Current :
                files = [i \in 1 .. MaxFiles |->
                            IF i = 1 THEN [rows |-> Expired, version |-> v] ELSE NoFile]
    /\ wal = None
    /\ conns = [c \in Conns |-> Gone]
    /\ comp = Idle
    /\ written = {}

-----------------------------------------------------------------------------
(* The lock on the directory.                                              *)

Holders == {c \in Conns : conns[c].lock # "none"}
Excluded(c) == comp.lock = "EX" \/ \E d \in Conns \ {c} : conns[d].lock = "EX"
Contended(c) == comp.lock = "EX" \/ Holders \ {c} # {}

-----------------------------------------------------------------------------
(* Connections (_connect, prepare_sqlite_family_at, ensure_schema).        *)

\* _open_filesystem_db takes the shared lock and keeps it until close.
Open(c) ==
    /\ conns[c] = Gone /\ ~Excluded(c)
    /\ conns' = [conns EXCEPT ![c] = [Gone EXCEPT !.pc = "opened", !.lock = "SH"]]
    /\ UNCHANGED <<path, files, made, wal, comp, written>>

\* prepare_sqlite_family_at, no file yet: create it under the exclusive lock.
Create(c) ==
    /\ conns[c].pc = "opened" /\ path = None /\ made < MaxFiles
    /\ IF Contended(c)
       THEN /\ conns' = [conns EXCEPT ![c] = [@ EXCEPT !.lock = "none", !.pc = "raising"]]
            /\ UNCHANGED <<path, made>>
       ELSE /\ conns' = [conns EXCEPT ![c] =
                            [@ EXCEPT !.lock = "EX", !.pc = "created", !.id = made + 1]]
            /\ path' = made + 1 /\ made' = made + 1
    /\ UNCHANGED <<files, wal, comp, written>>

\* The creation is verified, or it failed on the way; the lock is shared again.
Created(c, ok) ==
    /\ conns[c].pc = "created"
    /\ conns' = [conns EXCEPT ![c] = [@ EXCEPT !.lock = "SH",
                                               !.pc = IF ok THEN "opened" ELSE "uncreating"]]
    /\ UNCHANGED <<path, files, made, wal, comp, written>>

\* _cleanup_created_sqlite_main_at, with only the shared lock: the file is
\* removed if it still is the one that was created.
Uncreate(c) ==
    /\ conns[c].pc = "uncreating"
    /\ path' = IF path = conns[c].id THEN None ELSE path
    /\ conns' = [conns EXCEPT ![c].pc = "raising"]
    /\ UNCHANGED <<files, made, wal, comp, written>>

\* _connect_unlocked selects the file that is there; ensure_schema passes a
\* current one.
Connect(c) ==
    /\ conns[c].pc = "opened" /\ path # None
    /\ conns' = [conns EXCEPT ![c] =
                    [@ EXCEPT !.id = path,
                              !.pc = IF files[path].version = Current
                                     THEN "ready" ELSE "outdated"]]
    /\ UNCHANGED <<path, files, made, wal, comp, written>>

\* Mutant: a migration makes do with the shared lock.
UpgradeShared(c) ==
    /\ conns[c].pc = "outdated"
    /\ conns' = [conns EXCEPT ![c].pc = "migrating"]
    /\ UNCHANGED <<path, files, made, wal, comp, written>>

\* _filesystem_schema_mutation_authority: a contended upgrade has lost the lock
\* unless it was another connection of the same process, seen without trying.
Upgrade(c) ==
    /\ conns[c].pc = "outdated"
    /\ IF Contended(c)
       THEN \E l \in {"none", "SH"} :
              conns' = [conns EXCEPT ![c] = [@ EXCEPT !.lock = l, !.pc = "raising"]]
       ELSE conns' = [conns EXCEPT ![c] =
                        IF path = @.id THEN [@ EXCEPT !.lock = "EX", !.pc = "migrating"]
                        ELSE [@ EXCEPT !.pc = "raising"]]
    /\ UNCHANGED <<path, files, made, wal, comp, written>>

\* _restore_schema_parent_lock after a lost upgrade: the error is raised anyway.
RestoreLock(c) ==
    /\ conns[c].pc = "raising" /\ conns[c].lock = "none" /\ ~Excluded(c)
    /\ conns' = [conns EXCEPT ![c].lock = "SH"]
    /\ UNCHANGED <<path, files, made, wal, comp, written>>

\* _run_migrations, one transaction a version; an empty file gets the current
\* schema in one (_create_current_schema_conn).
Migrate(c) ==
    LET f == files[conns[c].id]
        to == IF f.version = 0 THEN Current ELSE f.version + 1
    IN
    /\ conns[c].pc = "migrating" /\ f.version < Current
    /\ files' = [files EXCEPT ![conns[c].id].version = to]
    /\ wal' = conns[c].id
    /\ UNCHANGED <<path, made, conns, comp, written>>

Migrated(c) ==
    /\ conns[c].pc = "migrating" /\ files[conns[c].id].version = Current
    /\ conns' = [conns EXCEPT ![c] =
                    [@ EXCEPT !.lock = "SH",
                              !.pc = IF path = conns[c].id THEN "ready" ELSE "raising"]]
    /\ UNCHANGED <<path, files, made, wal, comp, written>>

Write(c, r) ==
    /\ conns[c].pc = "ready" /\ r \notin written
    /\ files' = [files EXCEPT ![conns[c].id].rows = @ \cup {r}]
    /\ wal' = conns[c].id
    /\ written' = written \cup {r}
    /\ UNCHANGED <<path, made, conns, comp>>

\* close, an exception, or the death of the process; the last connection may
\* still write the -wal back.
Close(c) ==
    /\ conns[c] # Gone
    /\ conns' = [conns EXCEPT ![c] = Gone]
    /\ wal' \in IF Holders \subseteq {c} /\ comp.pc = "idle" THEN {wal, None} ELSE {wal}
    /\ UNCHANGED <<path, files, made, comp, written>>

-----------------------------------------------------------------------------
(* The compaction (compact_store).                                         *)

Report(s) == [comp EXCEPT !.pc = "reporting", !.status = s]

\* An exception: nothing to undo, or the backup has to be restored.
Failed(c, s) ==
    IF c.published \/ c.mutated THEN [c EXCEPT !.pc = "rollback"]
    ELSE [c EXCEPT !.pc = "reporting", !.status = s]

\* The preflight pins the file before there is a lock.
Inspect ==
    /\ comp = Idle /\ path # None
    /\ comp' = [Idle EXCEPT !.pc = "inspected", !.id = path]
    /\ UNCHANGED <<path, files, made, wal, conns, written>>

\* Mutant: a connection has the lock only while it opens.
LockBetweenUses == comp.pc = "inspected" /\ \A c \in Holders : conns[c].pc = "ready"

\* flock(LOCK_EX | LOCK_NB): any connection, of any process, is in the way.
LockFree == comp.pc = "inspected" /\ Holders = {}

LockStore ==
    /\ LockFree
    /\ comp' = IF path # comp.id THEN Report("permissions_failed")
               ELSE [comp EXCEPT !.pc = "locked", !.lock = "EX",
                                 !.before = files[path].rows]
    /\ UNCHANGED <<path, files, made, wal, conns, written>>

LockRefused ==
    /\ comp.pc = "inspected" /\ Holders # {}
    /\ comp' = Report("offline_required")
    /\ UNCHANGED <<path, files, made, wal, conns, written>>

Precheck ==
    /\ comp.pc = "locked"
    /\ comp' = IF files[path].version = Current THEN [comp EXCEPT !.pc = "checked"]
               ELSE Report("schema_not_current")
    /\ UNCHANGED <<path, files, made, wal, conns, written>>

\* Mutant: the backup comes after the retention.
BackupLater ==
    /\ comp.pc = "checked"
    /\ comp' = [comp EXCEPT !.pc = "saved"]
    /\ UNCHANGED <<path, files, made, wal, conns, written>>

\* _create_verified_compaction_backup
Backup ==
    /\ comp.pc = "checked"
    /\ comp' = [comp EXCEPT !.pc = "saved", !.backup = TRUE]
    /\ UNCHANGED <<path, files, made, wal, conns, written>>

\* cleanup_snapshot_retention, a batch of one.  An error after its commit hides
\* the deletion from compact_store.
DeleteBatch(r, raised) ==
    /\ comp.pc = "saved" /\ r \in Expired \cap files[path].rows
    /\ files' = [files EXCEPT ![path].rows = @ \ {r}]
    /\ wal' = path
    /\ comp' = IF raised THEN Failed(comp, "maintenance_failed")
               ELSE [comp EXCEPT !.mutated = TRUE]
    /\ UNCHANGED <<path, made, conns, written>>

\* Mutant: one batch has to do.
CheckpointEarly ==
    /\ comp.pc = "saved"
    /\ comp' = [comp EXCEPT !.pc = "flushed", !.mutated = TRUE]
    /\ wal' = None
    /\ UNCHANGED <<path, files, made, conns, written>>

\* _checkpoint_truncate, when no batch is left
Checkpoint ==
    /\ comp.pc = "saved" /\ Expired \cap files[path].rows = {}
    /\ comp' = [comp EXCEPT !.pc = "flushed", !.mutated = TRUE]
    /\ wal' = None
    /\ UNCHANGED <<path, files, made, conns, written>>

CheckpointFails ==
    /\ comp.pc = "saved" /\ Expired \cap files[path].rows = {}
    /\ comp' = [comp EXCEPT !.pc = "rollback", !.mutated = TRUE]
    /\ UNCHANGED <<path, files, made, wal, conns, written>>

\* prepare_private_sqlite_replacement_at reserves a name and pins the source.
Reserve ==
    /\ comp.pc = "flushed" /\ path = comp.id
    /\ comp' = [comp EXCEPT !.pc = "reserved"]
    /\ UNCHANGED <<path, files, made, wal, conns, written>>

\* _vacuum_into_replacement: VACUUM INTO creates the file under that name.
Vacuum ==
    /\ comp.pc = "reserved" /\ made < MaxFiles
    /\ made' = made + 1
    /\ files' = [files EXCEPT ![made + 1] = files[path]]
    /\ comp' = [comp EXCEPT !.pc = "vacuumed", !.temp = made + 1]
    /\ UNCHANGED <<path, wal, conns, written>>

\* verify_created_private_sqlite_replacement_at and _replacement_integrity_ok
CheckReplacement ==
    /\ comp.pc = "vacuumed"
    /\ comp' = [comp EXCEPT !.pc = "built"]
    /\ UNCHANGED <<path, files, made, wal, conns, written>>

\* publish_private_sqlite_replacement_at: an error after the rename leaves
\* compact_store with the identity of the old file.
Publish(raised) ==
    /\ comp.pc = "built" /\ path = comp.id
    /\ path' = comp.temp
    /\ comp' = IF raised THEN Failed(comp, "replacement_failed")
               ELSE [comp EXCEPT !.pc = "published", !.published = TRUE, !.id = comp.temp]
    /\ UNCHANGED <<files, made, wal, conns, written>>

\* _activate_compacted_wal
Activate ==
    /\ comp.pc = "published"
    /\ comp' = [comp EXCEPT !.pc = "activated"]
    /\ UNCHANGED <<path, files, made, wal, conns, written>>

Verified ==
    /\ comp.pc = "activated"
    /\ comp' = Report("completed")
    /\ UNCHANGED <<path, files, made, wal, conns, written>>

\* Any step may raise instead.
Abort ==
    /\ comp.pc \in {"locked", "checked", "saved", "flushed", "reserved",
                   "vacuumed", "built", "published", "activated"}
    /\ comp' = Failed(comp, "failed")
    /\ UNCHANGED <<path, files, made, wal, conns, written>>

\* Mutant: the -wal of the file that is being replaced is left alone.
RestoreUnflushed(ok) ==
    /\ comp.pc = "rollback"
    /\ comp' = IF comp.backup /\ path = comp.id /\ ok THEN [comp EXCEPT !.pc = "restoring"]
               ELSE Report("rollback_failed")
    /\ UNCHANGED <<path, files, made, wal, conns, written>>

\* _restore_verified_compaction_backup up to the rename: only over the file it
\* knows, and after a checkpoint.
RestoreFlush(ok) ==
    /\ comp.pc = "rollback"
    /\ IF comp.backup /\ path = comp.id /\ ok
       THEN comp' = [comp EXCEPT !.pc = "restoring"] /\ wal' = None
       ELSE comp' = Report("rollback_failed") /\ UNCHANGED wal
    /\ UNCHANGED <<path, files, made, conns, written>>

\* ... and from the rename on, when a failed check does not undo it.
RestorePublish(ok) ==
    /\ comp.pc = "restoring" /\ made < MaxFiles
    /\ made' = made + 1
    /\ files' = [files EXCEPT ![made + 1] = [rows |-> comp.before, version |-> Current]]
    /\ path' = made + 1
    /\ comp' = Report(IF ok THEN "rollback_completed" ELSE "rollback_failed")
    /\ UNCHANGED <<wal, conns, written>>

RestoreFails ==
    /\ comp.pc = "restoring"
    /\ comp' = Report("rollback_failed")
    /\ UNCHANGED <<path, files, made, wal, conns, written>>

\* The report is returned and the lock goes with the descriptor; or the process
\* dies on the way.
EndCompaction ==
    /\ comp # Idle
    /\ comp' = Idle
    /\ UNCHANGED <<path, files, made, wal, conns, written>>

StoreNext ==
    \/ \E c \in Conns :
        \/ Open(c) \/ Create(c) \/ Uncreate(c) \/ Connect(c)
        \/ \E ok \in BOOLEAN : Created(c, ok)
        \/ Upgrade(c) \/ RestoreLock(c) \/ Migrate(c) \/ Migrated(c) \/ Close(c)
        \/ \E r \in Rows : Write(c, r)
    \/ Inspect \/ LockStore \/ LockRefused \/ Precheck \/ Backup
    \/ \E r \in Expired, raised \in BOOLEAN : DeleteBatch(r, raised)
    \/ Checkpoint \/ CheckpointFails \/ Reserve \/ Vacuum \/ CheckReplacement
    \/ Activate \/ Verified \/ Abort
    \/ \E raised \in BOOLEAN : Publish(raised)
    \/ \E ok \in BOOLEAN : RestoreFlush(ok) \/ RestorePublish(ok)
    \/ RestoreFails \/ EndCompaction

StoreSpec == StoreInit /\ [][StoreNext]_fileVars

-----------------------------------------------------------------------------
(* Properties.                                                             *)

Stored == IF path = None THEN {} ELSE files[path].rows

\* What a connection committed is in the file that has the name of the store:
\* no creation that is undone, migration, publication or rollback drops it.
NoWriteIsLost == written \subseteq Stored

\* While a connection migrates the schema no other one is open, whoever loses and
\* regains the shared lock meanwhile; and it migrates the file that is in place.
MigratesAlone ==
    \A c \in Conns :
        conns[c].pc = "migrating" => Holders = {c} /\ path = conns[c].id

\* The report of a compaction is true of the store when it is given: completed
\* means exactly the expired rows are gone, a completed rollback that none is, and
\* no outcome loses anything that is not expired.
ReportIsTrue ==
    comp.pc = "reporting" /\ comp.lock = "EX" =>
        /\ comp.before \ Expired \subseteq Stored
        /\ comp.status = "completed" => Stored = comp.before \ Expired
        /\ comp.status = "rollback_completed" => Stored = comp.before

\* Until the compaction is over, whatever it deleted is in a verified backup.
DeletedIsBackedUp ==
    comp.lock = "EX" /\ comp.before \ Stored # {} => comp.backup

\* Frames of one database never lie beside another, where SQLite would apply them.
WalFitsFile == wal # None => wal = path

\* Processes that share the store neither lose a write to a replaced file nor
\* migrate it under each other.
SharersAreSafe == NoWriteIsLost /\ MigratesAlone

\* Whatever step of a compaction fails or is the last one before a crash, the store
\* and its backup hold all rows, and the answer says what happened.
MaintenanceIsSafe == ReportIsTrue /\ DeletedIsBackedUp /\ WalFitsFile

\* Neither who shares the store nor what maintains it takes a committed row away.
StoreIsSafe == SharersAreSafe /\ MaintenanceIsSafe

=============================================================================
