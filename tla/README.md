# Tendwire in TLA+

Tendwire is a local daemon between Herdr, which runs coding agents in terminal
panes, and connectors that show those agents to people elsewhere.  It keeps what
it observes in one SQLite store, accepts commands for the agents, and delivers
finished turns to connectors.  This project models the parts of it whose
correctness depends on order: who writes what in which transaction, what is
still true when a caller comes back with an old copy, and what happens when a
process stops in between.

Paths are relative to `src/src/tendwire/` unless they start with `src/`.

## 1. Inventory

| Component | State | Operations | What is hard |
|---|---|---|---|
| Command receipts (`store/sqlite.py`) | `command_receipts`: one row per (host, request id) with state, stored envelope, canonical mutation, selector proof, owner token and lease | reserve, abandon, mark send started, record queued, finish, finish queued, finish unverified, recover, restore, cleanup | concurrent retries of one id; a lease that runs out while its owner works; a crash between send and verdict; evidence deleted under a reader |
| Turn-submission ledger (`store/sqlite.py`) | `turn_submissions`: a row per send-started request with state, link window and hard TTL | insert, terminalize, settle, sweep, expire, cancel | two tables advanced by different transactions; a link that precedes the verdict |
| Submission linker (`store/sqlite.py` 18626-19120) | edges between open submissions and observed turns | settle a component, sweep due components | a second candidate inside the window; tombstoned turns |
| Command submission (`command_submission.py`) | none of its own; each call holds a copy of the receipt | submit, replay, negotiate | decisions on stale copies; store calls that raise; aliases that move |
| Pending answers (`command_submission.py` 1803-2238, `store/sqlite.py` 20321-21164) | claims on a choice or decision | claim, start, finish, expire, prune | ingestion replacing what is being answered |
| Connector outbox (`store/sqlite.py` 2272-3258, 6440-8155, `connectors/outbox.py`) | outbox rows, deliveries with leases | poll, renew, ack, fail, defer, release, reclaim, exhaust | leases, deadlines, retries, order per worker |
| Final roots and presentation plans (`store/sqlite.py` 3258-6440) | root row per (turn, revision), plans, jobs, footprints | ensure anchor, begin, part, commit, recover, retry | a revision replaced while its parts are out |
| Attention (`store/sqlite.py` 8887-9532, `core/attention.py`) | attention items | raise, settle, resolve | flapping observations |
| Snapshots and bindings (`store/sqlite.py`) | snapshot, projections, worker bindings | save, replace | partial observations |
| Turn content (`store/sqlite.py` 21238-22513, `core/turns.py`) | turns and their revisions | merge an observation | late and partial observations of one turn |
| Turn list and delta (`store/sqlite.py` 22509-24046) | change journal, floors, cursors | page, delta, trim | paging while rows change |
| Retention, compaction, maintenance (`store/sqlite.py` 14348-18140) | tombstones, marks | plan and delete in batches | deleting what delivery still needs |
| Migrations (`store/sqlite.py` 10126-13336) | schema version | one upgrade per version | - |
| Herdr event backend (`backends/herdr_events.py`) | workers, bindings, ownership maps, watermarks | reconcile, replay, subscribe, apply, flush | events between replay and subscription |
| Turn refresh scheduler (`backends/herdr_turns.py` 4354-4808) | queue, running, dirty, deferred, retry sets | scan, enqueue, dispatch, collect, stop | a full queue, a request while running, stop |
| Turn readers (`backends/herdr_turns.py`) | file offsets and parser state | read incrementally | files replaced under the reader |
| Daemon and API server (`daemon.py`, `daemon_api.py`) | admission slots, connections, futures | accept, submit, finish, close | stop while requests run |
| Installation key (`worker_identity.py`) | key, marker, sentinel files | load or create, reset | concurrent creators, a crash between files |
| Store file and locks (`store/sqlite.py` 1700-2270, 15500-16200, `local_state.py`) | the database file, its `-wal`, the directory lock | open, create, migrate, compact, roll back | a file replaced under a connection; a lock conversion that loses the lock |
| CLI, config, models | - | - | pure conversion |

How they interact: the event backend and the scheduler write snapshots,
bindings, turns and pending interactions; saving a final turn revision ensures
its outbox root in the same transaction; connectors poll over the API; command
submission reads the snapshot and the bindings, writes receipts and ledger rows
and calls Herdr; settlement matches ledger rows with observed turns; the
daemon's periodic tick runs reclaim, sweeps, retention and compaction.

What makes each component correct:

* receipts: an instruction is sent at most once per request id within the
  retention period, an answer tells the truth about it, evidence is not
  rewritten, no send stays without a verdict;
* ledger: the two tables agree; a queued send is not accepted on a link that
  was made before its verdict;
* outbox and plans: one live lease per row, order per worker, a root delivered
  only when all of its parts are acknowledged, nothing stays non-terminal for
  ever, what is shown is the last committed revision;
* list and delta: a client that keeps what it was told has every turn as it is,
  or will be told; a traversal has every turn once;
* scheduler: a requested refresh leads to a read that starts after the request;
* key: no two loads return different keys without an acknowledged reset;
* linker: a link names the turn the submission caused, and no turn has two;
* retention: nothing is deleted that a delivery, an answer or a cursor needs;
* turn stream: a watermark vouches for every turn below it, and every completed
  turn is settled;
* routing: no two routes lead to one pane, and none is hidden from the backend;
* store file: no committed row is lost to a replaced file, no write-ahead log
  lies beside a database it does not belong to;
* endpoint and pool: the name of the socket leads to the daemon that listens,
  and what a client may retry was not run;
* snapshots and attention: the projections are those of the newest snapshot,
  and a signal is resolved only when it was gone for the grace period.

`PROJECT.json` lists the components with their status and the hazards with
their lines.

## 2. Modules

| Module | Models | Composes |
|---|---|---|
| `CommandLedger` | every transaction on `command_receipts` and `turn_submissions` | - |
| `RequestPromise` | abstract: what a request id promises its clients | - |
| `CommandSubmission` | concurrent `submit_command` calls for `send_instruction` | extends `CommandLedger` |
| `CommandProofs` | theorems about `CommandLedger` and `CommandSubmission` | extends both |
| `FinalDeliveryProofs` | theorems about `FinalDelivery` and `FinalRetention` | extends `FinalRetention` |
| `FinalDelivery` | connector outbox (queue turn-final), final roots and presentation plans, with external connectors | - |
| `TurnIngestion` | `TurnIngestionScheduler`: coordinator, reader pool, binding retries, stop | - |
| `PendingAnswers` | one worker's prompts: `backend_pending`, its claim, the readers and the requests that answer | - |
| `TurnFeed` | the turns of a host as `turn.delta` and `turn.list` page through them, the change journal and its compaction, with an external client | - |
| `FinalDisplay` | what connectors show of the finals, with a history of what may have spoiled it | extends `FinalDelivery` |
| `FinalRetention` | the two sweeps that delete the history of deliveries | extends `FinalDelivery` |
| `SubmissionLinks` | which observed turn a submission became: components, windows, sweeps | - |
| `HerdrTurnStream` | the completed-turn stream: replay, subscription, batches, watermarks | - |
| `WorkerRouting` | which worker a pane is and where commands for it go: reconciles, events, bindings | - |
| `SnapshotSaves` | `save_snapshot`: the retained snapshot, its projections, the attention lifecycle | - |
| `StoreFile` | the file of the store: opening, creation, migration, offline compaction, rollback | - |
| `StoreMaintenance` | the automatic maintenance: cadence, budget, cursors of hosts | - |
| `InstallationKey` | key, marker and sentinel files | - |
| `DaemonEndpoint` | the socket of the daemon: start, stop, stale entries | - |
| `DaemonRequests` | connections from accept to close: admission, executor, stop, the client | - |
| `PendingAnswersProofs` | theorems about `PendingAnswers` | extends it |
| `DaemonProofs` | theorems about `DaemonEndpoint`, `DaemonRequests`, `StoreFile` and `InstallationKey` | extends them |
| `HerdrProofs` | theorem about `HerdrTurnStream` | extends it |
| `RoutingAndFeedProofs` | theorems about `WorkerRouting` and `TurnFeed` | extends them |
| `SchedulingProofs` | theorems about folds and sequences, and about `StoreMaintenance` and `TurnIngestion` | extends both |
| `StoreTablesProofs` | theorems about `SnapshotSaves` and `SubmissionLinks` | extends both |
| `MCCommandLedger`, `MCCommandSubmission`, `MCFinalDelivery`, `MCFinalDisplay`, `MCFinalRetention`, `MCTurnIngestion`, `MCPendingAnswers`, `MCWorkerRouting` | instances for TLC | |
| `MCDaemonParts` | instances for TLC of the seven modules about parts of the daemon that share no state; a behaviour exercises one of them | extends all seven |

### CommandLedger

`receipts[r]` is the row of request id `r` and `submissions[r]` its ledger row,
both with a state `"none"` for a missing row.  `BEGIN IMMEDIATE` makes each store
function one step, so each is one action.  Kept of a receipt: state, the kind of
stored envelope (`pending`, `queued` for written_to_pty, `final`), the canonical
mutation, the selector proof, the owner and the lease, the send and update
times.  Kept of a ledger row: state, whether a written_to_pty verdict stamped
it, the time settlement compares observations with, the link window and the
hard TTL.  `starts` is a history variable: when each id was send-started.

Settlement reads observed turns, which are not in this module.
`SettledStates` is what `settle_submission_links_conn` can do to a row for some
set of turns: nothing or an instant link while the window is open; afterwards
expiry, a link, ambiguity, or waiting for a component with a later window.

`Cleanup` is `cleanup_command_request_retention` in the order of the code: hard
TTL, stale sends closed as uncertain up to the batch, then deletion of the
oldest inactive rows beyond both the age and the count floor, as far as the
batch reaches.

### CommandSubmission

An attempt is one call with its program counter; its name is its owner token.
The steps are the store calls of `_submit_command_v2`, `_receipt_authority`,
`_submit_instruction` and their helpers, with what the code decides between
them.  Each store call may raise (the `Raise` alternatives), the lookup may
raise and count as no receipt (`command_submission.py` 2641), and the worker
authority (snapshot, health, bindings) is a choice at each read.  A crash is an
attempt that takes no further step.  `Send` is external: a definite rejection
was not delivered, a submission was, anything else may be either.

### FinalDelivery

`db` is the store: `outbox` (root and part rows by id), the open `leases`, and
`plans` (with their jobs, in sequence, each naming its part row).  Store functions
are single transactions, so each is one action; inside, operators from `db` to
`db` follow the order of the code, because most transactions first reclaim
expired leases and deadlines (`Reclaimed`), and each change of a row may fail,
complete or activate a plan (`AfterOutbox`).  The three stages of a poll are
`Exhausted(Reclaimed(db))`, the candidate query (`RootMayGo`, `PartMayGo`), and
the lease.  `Commit` is materialisation, obsolescence of the turn's other plans,
activation or `waiting_predecessor`, and the root's move to `awaiting_ack`.
`Observe` is the tail of an observation: the current revision changes and its
root is ensured, reactivated, or made to supersede the work on other revisions.

`current[t]` is the turn's current revision.  Two variables are external:
`hand[c]` is the part a connector works on and `shown[t]` what connectors
display.  A connector is sequential: it polls one row at a time, does what the
part says at some moment, acknowledges only what it has done, may do it after
its lease has expired (until it polls again), may fail, defer, release, or stop
and leave its lease to expire.

There is no clock.  Leases, deadlines and delays have a flag that time may set
at any moment after they start; a renewal is time not setting it.  Kept of
`connector_deliveries`: the open leases and, per row, the attempts counted
against the limit (`used`).  `gen`, `foot` and `after` of a root are its
`presentation_generation`, `presentation_max_part_count` and
`reactivated_after_plan_id`.  The payload of a revision is constant, so the
comparison that guards a reactivation always succeeds.

Left out: other queues, migration groups, plans for a revision that has no root,
polls for more than one row, and the limit of four on the recoveries that are
remembered of a version (`store/sqlite.py:5010`), which takes more generations than
`MaxGen` allows.  The tombstone that a plan without a ref leaves when it completes is
in `FinalRetention` (`Acknowledge`).

### FinalDisplay

The behaviours of `FinalDelivery`, with a history variable `doubts` that records for
a turn when the store does one of the two things after which what connectors show is
not exact (section 4): a plan is `overlooked`, made although another root of the turn
records more parts than the plan will retire, or plans are `disordered`, carried out
by commit or recovery in another order than they were created in.  `ReplansAreExact`
and `DeliveredIsShown` hold in every other case, however revisions flip and plans
are tried, recovered and made again: after an overlooked footprint a plan still
shows all of its own parts, and only the rest of the display may be stale.  There is
one connector at work at a time: the store cannot keep one whose lease is gone from
applying its part late.

### FinalRetention

`FinalDelivery` with two more transactions that may run between any two of its
steps.  `cleanup_turn_content_retention` removes plans, roots and revisions that
something newer has replaced, and remembers in a summary how many parts such a
plan may have left on display.  `cleanup_acknowledged_final_retention` removes a
whole turn whose current final was shown and leaves a tombstone against a
replay.  `fresh` is what was stamped since the retention cutoff; `Tick` moves the
cutoff past everything.  `acked` is the order of acknowledgement, which decides
which finals are kept.  `tombs` are the tombstones: those that acknowledged
retention leaves of the turns it deletes, and one for each final that a plan made
without a ref completes (`store/sqlite.py:5305`), unless the final has one.  All of
them share one count, so the last `KeepFinals` are not always those of turns that are
gone; `NoReplay` counts both kinds.

The text of a turn only moves forward here, so the first branch of the replay check
(`store/sqlite.py:3873`), for a final without a root whose plan made without a ref is
still there, cannot arise.  A turn that retention has forgotten
and that is revised afterwards is excluded from `FootprintIsKept`: the number of
its parts on display is gone with it (section 4).  A plan that was superseded
before its commit, with parts staged, is offered by the candidate query and
always refused by the deletion; a batch of such plans at the front stops the
content sweep.

### TurnIngestion

`work` is the state that the scheduler's condition protects: the queue, the
running readers in order of submission, the reruns deferred by a full queue, the
retries of failed lookups, the `dirty` keys and the latest listed binding of
each.  A hold of the condition is one action; the `_locked` methods are operators
from `work` to `work`, called in the order of the code.  `coord` is where the
coordinator thread is: a scan is three steps, because the bindings are listed
without the condition and may have changed, or `stop()` may have run, before the
listing is applied.  A notification reaches the coordinator only while it waits
(`Woken`).  A reader that ends before `add_done_callback` runs its callback in
the submitting thread, so its notification wakes nobody (`Submitted`).

Time is two kinds of flags, `scanDue` and the `due` of a retry, which rise at any
moment; the quick second attempt after a failed scan is one of the moments
`scanDue` may rise.  `version[k]` stands for the identity of the binding that a
reader compares before it reads, `attempted[k]` is the last version a reader went
on to read.  Counters and the health derived from them are left out.

### PendingAnswers

One worker.  `screen` (external) is the prompt on its pane; `row` is its
`backend_pending` row and `claim` its `backend_pending_claims` row.  Prompts are
numbered and a revision digest is the prompt together with the binding it was
read through.  A read takes its `observed_at` when it begins (`BeginRead`), looks
at the pane later (`ReadPane`) and is applied later still (`ApplyRead`), so
`readers` is kept in the order of beginning.  Two flags replace the times the
store compares: `old`, the read began before the row's `observed_at`, and `late`,
it began after the row's grace deadline.  Deleting the row (`Prune`) deletes its
`observed_at`, so both flags are cleared.

The scheduler reads listed bindings only and no binding twice at once, which
`EachBindingOnce` of `TurnIngestion` checks; `refresh_completed_pane_turn` reads
beside it, at most `MaxCompletions` times.

A reader that began later may then have looked at the pane earlier, and what it saw
replaces what the other one saw: it is `crossed`.  Also, a scan that listed before the
live binding was issued prunes the row that a completed turn's reader wrote through
it.  `doubtful` is a history variable: the revisions that a crossed observation
closed or opened, and those of rows pruned that way.  `AtMostOneAnswer` and
`AnsweredIsClosed` make no claim about them; section 4 says what happens to them.

A request is a request id with its receipt; its calls go through `claim`, `mark`,
`start`, `send` and `finish`, may `Crash` between any two, and a later call takes
an abandoned reservation over (`Redrive`).  The worker's status and sendability,
which the same queries check, and a store that raises, are a refusal that is
always possible.  A receipt left as `send_started` is closed by `CommandLedger`'s
`Cleanup`.  `Finish` is one transaction with its terminal effect: when an
observation has removed the claim or moved the prompt since the send, nothing is
written and the caller is told that the request is in progress.

Assumed: different prompts have different digests, a delivered answer closes the
prompt it was meant for, a binding that was replaced does not come back.  Left
out: the payload and the option selected, keys, the public listing, changes of
the worker's fingerprint.

### TurnFeed

A page of `turn.delta` or `turn.list` is one read transaction, and the daemon
keeps nothing between pages: the cursor, the watermark and the since token carry
everything.  Clients are therefore independent of each other, and `Init` chooses
which of the two a behaviour has.  `turns[t]` is a row with its list sequence, its
worker and whether projections show it (internal automation, and tombstones made
by migrations, are hidden); what a projection shows is the worker.  `journal`,
`lastSeq` and `floor` are `turn_change_journal`, its AUTOINCREMENT, which other
hosts advance too (`OtherHost`), and `turn_change_floor`.  The triggers are part
of the actions that fire them (`Journaled`, `Removal`).  A transaction that
changes the row and the revision has two journal rows; it is an update and an
update that changes nothing.

The delta client (external) applies each page to `view` when it arrives, keeps the
last checkpoint in `mark`, starts again from the checkpoint when its cursor is
lost or refused, and from nothing when the checkpoint is.  `cursor` is what its
token carries.  `list` is the traversal of the list client: the token's content,
how often each turn was received, and the turns that moved, appeared or
disappeared meanwhile (`shifted`).  `traversal_generation` is a flag, `same`.

`TraversalIsExact` makes no claim about turns in `shifted`.  The listing is ordered
by worker, and nothing notices when a turn gets another worker id between two
pages: it can be missed or listed twice.

Left out: the store epoch (a restored database), the pages of one content,
schema version 1, the limits on the size of a bootstrap, the encoding of tokens.
The clock of `changed_at` is taken not to go back, so the rows that have passed
the retention period are the oldest ones.

### SubmissionLinks

All submissions have one owner and one text, the only case in which they compete.
`subs` is `turn_submissions`, `rows` the turns as the store has them, `source`
(external) which submission each turn of the session really came from.  An
observation is dated by the moment its reading began and applied at most
`MaxReadAge` later, so two may be applied out of order.  Applying one settles the
component of the turn (`Graph`, `Boundary`, `Settled`); the periodic sweep settles
what no observation does, unless its backoff (`Backoff`) says that it is too early
(`Swept`), and ends with the hard limit (`HardExpired`).

`doubtful` is a history variable: the pane queued the text, or the turn of a
submission was observed outside its window.  Then time and text do not tell which
turn is whose, and `LinkIsTrue` and `SweepIsOnTime` claim nothing: a component with
a queued prompt may back off for up to a day, until its hard TTL.  `SweepIsOnTime`
is about what a sweep at this moment would do, so a sweep that is not due counts as
one that leaves everything open.  It makes a second exception: a definite rejection
removes a submission from the component but does not rearm the backoff, so the
sweep may sleep until the window of the cancelled one closes, which may be later than those of the rest.  The
text typed by hand beside a submission of the same text is left out; nothing could tell the
two apart.  After reads applied out of order the content of a turn may regress
until the next read.

### HerdrTurnStream

`herdr[p]` (external) is the last turn each pane completed in the server's current
epoch, with the newest `History` turns available for replay.  `pc`, `subs`,
`wire`, `pending`, `todo` and `read` follow `run_forever`: reconcile, replay every
known pane from its watermark, subscribe, replay again, read events, queue and
flush them.  Each completion record reads the watermark in one transaction and
writes in another, and `stop()` flushes from its own thread, so two threads may
be between the two.  Connections, transactions, batches and the daemon may fail
at any step, at most `MaxFaults` times, and Herdr may restart with a new epoch.

`base` is a history variable: the turn from which a watermark vouches for
everything, after a baseline or a gap that was counted.  `leftover` is another: an
exception other than a disconnect in the middle of a batch leaves queued events
across a reconnect, and such an event of an old epoch may set the watermark to a
new baseline.  `NothingSlipsPast` and `TurnsSettle` do not speak about that.
`done` keeps every completion that was ever recorded; that retention deletes old rows
(`store/sqlite.py:18033`) is left out, as no step of the stream reads them.
`ExpireWatermark` removes the watermark of a pane that is not routed by its pane
id, alive or not (`Unrouted`), though its docstring speaks of dead panes.

### WorkerRouting

`herdr` (external) gives each open pane its terminal and session.  A reconcile
turns Herdr's lists into workers and bindings (`ObservedIds`, the stable owners and
the suffixes of colliding ids; all agents have one name, the case in which ids
collide) and an event does so for one pane.  Events wait in `queue` and may be
applied after a reconcile that has already seen what followed.  `binds`, `owners`
and `paneTerm` are the backend's maps, `stored` the live rows of
`worker_bindings`, `snap` the stored workers; `Conflicting` and `Route` are the
ownership checks that make a binding unsendable.  A restart of the daemon is no action:
`_load_existing_state` (`backends/herdr_events.py:976`) fills workers, bindings and
ownership maps from the store.

Two stronger properties were tried and do not hold, and neither is promised: an
event may route an ambiguous binding again for its stable owner, and after a
reconcile has renamed a pane the closed worker keeps the stable key, so that an
authenticated close is refused as ambiguous and the route to a closed pane stays
until the next reconcile.

### SnapshotSaves

Savers observe and project a snapshot, compare it with the retained one before the
transaction begins (the preflight) and again inside it.  Contents are numbered,
`stamp` is the timestamps outside the fingerprint.  `retained`, `projected`,
`lifecycle`, `openItems` and `attentionJobs` are the tables.  An equal time and
fingerprint is an exact replay.  A late observation may open a family that was
never seen although a newer complete observation lacked it.

### StoreFile

A file is known by its identity and holds rows and a schema version; `path` is the
identity that has the store's name and `wal` the file whose frames lie beside it.
A connection takes the shared directory lock, opens or creates the file, may
migrate it under the exclusive lock, writes and closes.  The compaction is a
sequence of steps (backup, delete in batches, checkpoint, vacuum into a new file,
publish, verify) each of which may fail or be the last; a failure after the
first deletion goes through the rollback, which is as detailed.  Lock attempts do
not block, and a conversion that fails has lost the lock, as on Linux.

Two outcomes are as the code has them: an error after a batch's commit hides the
deletion from the report, which says `maintenance_failed` without a rollback (the
backup is kept), and an error after the rename of a publication ends as
`rollback_failed`.

### StoreMaintenance

The acknowledged finals of all hosts share one budget a run; `serviced` are the
cursors that decide who comes first.  `remaining_candidates` may be true when
nothing remains and is never false when something does.

### InstallationKey

A load or a reset is a sequence of operations of the file system, each one step;
processes fail or die between them.  `issued` are the keys that loads returned
since the last reset.  Files lost by hand (`Lose`) are files of an initialized
identity, while no call is under way.  The loss of directory entries that were not
synced when the power fails is left out: a key may be returned before its
directory is synced, and a marker without its key fails closed.

### DaemonEndpoint

Daemons probe the socket, take the startup lock, remove a stale entry, bind, check
that the entry is theirs, listen; they stop and die at any step.  A stop checks
the identity of the entry and unlinks it without the lock.  `raced` is a history
variable: a socket was bound between the two (section 4).

### DaemonRequests

`futures` and `tracked` are what the server knows of each connection, `slots` its
semaphore, `waiting` the executor's queue with the ends of workers, `server` how far
a stop has got.  `clients` is what `DaemonAPIClient.request` tells its caller: whether
the request may be retried.  `queue.Full` of `put_nowait` is not among the
exceptions `_submit_connection` catches; `QueueHasRoom` shows that it cannot be
raised.

## 3. Runs

| Run | Bounds | Shows |
|---|---|---|
| `ledger` | 2 requests, 1 token, 1 mutation, clock to 3, Lease 1, horizon 1, retention 2, keep 1, batch 1 | types, `SendsAreSpaced`, `TablesAgree`, `EvidenceIsFinal`, the refinement of `RequestPromise` and `SendsAreResolved`, for all transactions in all orders |
| `retries` | 2 attempts, 2 workers, an alias, 2 texts, clock to 3 | `AnswersAreTrue`, `OwnerIsTheSender` |
| `final_replans` | 1 turn, in two instances: 2 revisions that flip, 1 version with a ref; or 1 revision, 2 versions with a ref and 1 without; 2 parts, 1 attempt, 2 generations | `ReplansAreExact`, `DeliveredIsShown`, `LiveLeaseIsKept` |
| `final_stream` | 2 turns of one worker, the first with 3 versions, 1 part each, 1 attempt, 1 generation | `StreamIsOrdered`, `WaitingIsJustified` |
| `final_live` | 1 turn, a deliverable and a held revision, 2 versions, 2 parts, 1 attempt, 2 generations | `DeliveryEnds` |
| `final_retention` | 2 instances: 1 turn, 2 revisions of 1 or 2 parts; or 2 turns of 1 revision and 1 part; 2 versions, one without a ref, 1 attempt, 1 generation, 1 final kept, batch of 2 | `FootprintIsKept`, `QueueIsReadable`, `NoReplay` |
| `turn_ingestion` | 1 worker, queue of 1, in three instances: 2 bindings, 1 change, 2 faults; 3 bindings, 1 change; 3 bindings, 1 fault | `SchedulerIsSound`, `StopEnds`, `RefreshHappens` |
| `pending_answers` | a choice and a decision request, in four instances: 2 prompts; 1 prompt through 2 bindings; 1 prompt read by a completed turn's reader too; the same through 2 bindings with a late scan | `ClaimsFit`, `AtMostOneAnswer`, `GraceIsFixed` |
| `turn_feed` | `turn.delta`: 2 turns; `turn.list`: 3 turns; 2 workers, pages of 1, batches of 2 sequences, 4 changes, the newest row of the journal kept | `DeltaIsSound`, `TraversalIsExact`, `ClientCatchesUp` |
| `herdr_stream` | 1 pane, 2 turns an epoch, 2 epochs, 1 turn kept for replay, 3 faults | `MarksAreTrue`, `TurnsSettle` |
| `routing` | 3 panes, 3 terminals, 1 session, 2 workers, 2 events on their way, 4 changes | `NoHiddenRoute`, `OneRoutePerTarget` |
| `daemon_parts` | store: 2 connections, 1 row and 2 expired ones, 4 files; key: 2 processes, 10 links, 2 losses; endpoint: 3 daemons, 6 sockets; requests: 3 clients, 2 workers, 2 in flight; links: 2 submissions, 2 turns, clock to 3; snapshots: 2 savers, 3 contents; maintenance: 3 hosts, budget 2 | `StoreIsSafe`, `IdentityIsKept`, `ListenerIsReachable`, `RetryIsSafe`, `PoolIsSound`, `LinksAreTrue`, `SweepIsOnTime`, `SavesAgree`, `ResolvedWasGone`, `EveryHostIsServiced` |

Several properties are conjunctions of parts that belong together; each part is a
definition with its own comment, and a violation names the conjunct in TLC's trace
when the parts are listed one by one in the cfg:
`TablesAgree` (`RowsAgree`, `QueuedIsNeverLinked`),
`AnswersAreTrue` (`TypeOK`, `AcceptedWasDelivered`, `RejectedWasNotDelivered`),
`ReplansAreExact` (`TypeOK`, `ShownIsWhole`, `ShownIsAll`),
`StreamIsOrdered` (`OnePartInFlight`, `LeasesAgree`, `AttemptsBounded`),
`DeliveryEnds` (`AwaitingEnds`, `FailedPartsAreSwept`),
`SchedulerIsSound` (`TypeOK`, `EachBindingOnce`, `NoIdleWorker`, `RerunIsOwed`,
`RetryHasBudget`, `StopIsClean`),
`ClaimsFit` (`TypeOK`, `ClaimFitsPrompt`, `AnsweredIsClosed`),
`DeltaIsSound` (`TypeOK`, `DeltaIsComplete`, `WatermarkIsKnown`),
`MarksAreTrue` (`StreamTypeOK`, `MarkIsBacked`, `NothingSlipsPast`),
`StoreIsSafe` (`NoWriteIsLost`, `MigratesAlone`, and `ReportIsTrue`,
`DeletedIsBackedUp`, `WalFitsFile`),
`IdentityIsKept` (`NeverLockedOut`, `OneIdentity`),
`PoolIsSound` (`SlotsAgree`, `QueueHasRoom`),
`LinksAreTrue` (`LinksAreExclusive`, `LinkIsTrue`),
`SavesAgree` (`ProjectionIsNewest`, `AttentionAgrees`).
A definition marked "Mutant" in a module is a plausible bug of the definition that
follows it; `PROJECT.json` names the one each property is shown to catch.

The clock bounds are enough for the longest story the policy tells: with
retention 2 a receipt sent at 0 and concluded at 0 may be forgotten at 3 and the
id be sent again within the bound; with one unit for each of lease, window,
acknowledgement and horizon every deadline is met before, at and after it.  Two
requests and a batch of one make cleanup choose.  One token is enough in
`ledger`, where a token is an argument anyone may pass; the competition for
ownership is in the run of `CommandSubmission`, with a token per attempt.
Deadlock is not checked: clients may stop calling, and the clock is bounded.

In `FinalDelivery` two parts are enough for a part before, at and after the one
that fails, and for a part to retire; two generations for one retry or one
recovery; one attempt makes every failure exhaust, two add the retry.  A plan
waits for a predecessor only if a third version is committed while the second
one's part is out, which `final_stream` has; its parts compete across turns and
versions, so one part a version is enough.  `MaxGen` also bounds the deadlines
that may pass, in `RowDue`, and the flips of a revision, in `Observe`.  One
connector is enough because one that stops leaves its lease behind and polls
again; two at work are outside of what the store can promise about a display
(section 2).  In `final_replans` one instance has two revisions that flip back and
forth as often as `MaxGen` allows, so roots are reactivated with the footprint of
deleted plans; the other has two versions made with the root's ref, which both can be
active and be recovered in either order, and one made without.  In both the cut
shrinks from two parts to one.

In `turn_ingestion` two bindings are as many as the queue and the worker hold; three
are one more, so scans drop one.  `RefreshHappens` has a premise, `QueueKeepsUp`: from
some time on a listing finds the queue empty, as it does when reads are shorter than
the scan interval, or no more bindings are left than the queue and the workers hold.
Without it a binding can starve (section 4).  Two faults let the lookup of a binding
and its only retry both fail, or a scan fail beside a lookup.

In `pending_answers`, `MaxChanges` bounds prompts and bindings together: two
prompts on one binding, or one prompt seen through two bindings.  A
choice and a decision request differ only in what they do when another claim is
live, so one of each covers two requests of either kind.  The scheduler's reads
follow one another on a binding; those of two bindings overlap.  Two of the instances
have a completed turn's reader beside them, one with everything that may happen to a
prompt on one binding, one with a binding that is replaced and a scan that listed the
old one.  All four together in one instance, which is what the proofs of section 5
cover, are too many states for a run.

In `turn_feed` a page of one turn puts every change between two pages.  Three
turns give the list a turn behind the cursor, one ahead of it and one that comes
during the traversal; the delta needs two, because the rest of a turn's story is
in the journal.  Four changes and batches of two sequences make a batch in which
one turn changed twice, a batch without a row of this host, and a compaction
below, at and beyond a watermark.

In `final_retention` two revisions give the sweep something superseded and something
current; a cut into one or two parts makes the parts on display shrink; a batch of
two makes one sweep delete a plan and its root, or two turns.  With two turns and one
final kept, the tombstone of one turn competes with that of the other, which a plan
without a ref may have left.  In `herdr_stream` a history of one turn makes the second missed
turn a gap; three faults let a connection, a batch and the daemon fail in one
behaviour.  Two panes with two turns and one fault (17 million states), and one pane
with three turns and two faults, passed as well.  Panes do not interact but for
the shared batch.  In `routing` three panes are a holder, a claimant and a
bystander; two events on their way are one that is late and one that it overtakes.

In `daemon_parts` the instances are independent.  The store needs a connection
that holds, one that converts, and the compaction; a second row made no
difference (765 thousand states).  Two processes create the key against each other
while a third one's remains are left by those that died; three processes passed
with fewer links.  Three daemons are one that stops and two that start.  Three
clients compete for two slots.  Two submissions and two turns make every shape of
a component that matters to the 1x1 rule.  Two savers disagree about the retained
snapshot; observations out of order need one saver that was late, and a larger
instance with both together passed (2.4 million states).  Three hosts and a budget
of two leave at least one host without a budget in every run.

Symmetry is declared where nothing in the module orders or chooses among the
members and no liveness is checked: panes in `routing`, revisions in
`final_retention`, submissions and turns in `daemon_parts`.

Fairness: in `ledger`, weak fairness of the clock and of `Cleanup`; in
`final_live`, of time and of `Reclaim`.  The daemon's periodic tick runs both
without anyone asking for it.  Nothing is assumed of attempts, settlement,
connectors or operators.  In the runs of `TurnIngestion`: of each step of the
coordinator, of each reader (an adapter call has a timeout), of the delays and of
the thread in `stop()`; all of these are running threads or clocks.  Nothing is
assumed of requests, of changes of bindings or of `stop()` being called.  The
fairness of the coordinator is written as leaving `top`, `listing` or `listed`:
`Coordinate`, `ListBindings` or `ScanFails`, and `ApplyListing` are its only steps
from there and always enabled.  In `herdr_stream`, of the steps
of the threads, of the disconnect of a stream that has ended and of the restart
after a failure: `run_forever` loops until it is stopped, and the daemon is
restarted; faults are bounded by `MaxFaults`, nothing is assumed of Herdr.
In `turn_feed`, of the client's polls: that is an
assumption about clients, for whom the property is stated.

## 4. Known deviations

Where the code does something else than its documentation says, a configuration
beside those of section 3 ends in TLC's counterexample.  They are not among the
runs, which all pass.  Where a run checks a weaker property over the same behaviours,
the last column names it: it has the case in its instance and excepts it by name.

| Configuration | Module | Property that fails | What holds instead |
|---|---|---|---|
| `StaleParts.cfg` | `MCFinalDelivery` | `ShownIsExact` | `ReplansAreExact`, `DeliveredIsShown` |
| `ResolvedDeadLetter.cfg` | `MCFinalDelivery` | `DeadLetterIsUnresolved` | |
| `SecondAnswer.cfg` | `PendingAnswers` | `NeverASecondAnswer` | `AtMostOneAnswer`, `ClaimsFit` |
| `BindingStarvation.cfg` | `TurnIngestion` | `NothingStarves` | `RefreshHappens` |
| `WorkerIds.cfg` | `MCWorkerRouting` | `PanesAreDistinctWorkers` | |
| `HardLimit.cfg` | `SubmissionLinks` | `LinksAreTrue` | the same, with a hard limit past the window |

* `src/README.md:1208` says that commit materialises the upserts "followed by any
  required reverse-order `retire` jobs".  Reactivation of a revision
  (`store/sqlite.py:3688`) deletes its plans and keeps their part count on that
  revision's root only.  When the turn flips once more, the other revision's commit
  (`store/sqlite.py:5655`) finds neither, and a part of the first revision stays on
  display (`StaleParts.cfg`).  `FinalDisplay` calls the footprint `overlooked`, and the
  run `final_replans` shows that this and the order of plans (below) are all that may
  spoil a display.
* `src/README.md:1310` says that `dead_letter` means unresolved.  After the
  acknowledgement deadline the root is in retry, and recovery takes the
  generation the root would use; when the recovered plan completes, the root is
  not in `awaiting_ack` and is not delivered (`store/sqlite.py:5297`), every further
  begin is a plan conflict, and the root ends as a dead letter
  (`ResolvedDeadLetter.cfg`).
* `src/README.md:857` says "A changed, stale, disappeared, or already claimed
  decision fails before pane mutation."  `store/sqlite.py:19454` orders
  observations by when their read began.  Of two reads in flight (the scheduler's
  and one started by a completed turn), the one that began first may look at the
  pane last: it finds no prompt, because the answer has arrived, and deletes the
  claim that is being sent; the other looked before the answer, counts as newer
  and opens the prompt again.  A second request then claims it and sends another
  answer (`SecondAnswer.cfg`; the real store does so with the same calls).
  `AtMostOneAnswer` and `ClaimsFit` hold, with that reader, for every revision that no
  such pair of reads has closed or opened.
* The same two properties except one more case, against the same line: a scan that listed
  before the live binding was issued deletes, by `prune_backend_pending`, the row that a
  completed turn's reader wrote through the new binding, with its claim.  A read of the
  pane that began earlier then opens the prompt again.
* `backends/herdr_turns.py:4534` says "Rotate each full scan so bindings dropped
  at the explicit queue cap are first on a later cadence instead of starving."
  A scan marks every binding that is being read for a rerun, and the reruns take
  the freed slots of the queue (`backends/herdr_turns.py:4657`) before a scan can
  enqueue anything else.  With more bindings than the queue and the workers hold,
  and reads longer than the scan interval, a dropped binding is never read
  (`BindingStarvation.cfg`; the real scheduler behaves so when it is run with such
  readers).  `RefreshHappens` says that it is read when the queue keeps up
  (`QueueKeepsUp`), for which the rotation is needed: with a fixed cursor the run fails.
* The docstring of `_deduplicated_worker_records` (`backends/herdr_cli.py:1701`) says
  "Drop exact duplicates, then disambiguate duplicate public ids."  The suffixed id
  it gives may be one that a stored binding has already given to another pane of
  the same name, and two panes become one worker (`WorkerIds.cfg`).
* The docstring of `settle_submission_links_conn` (`store/sqlite.py:18765`) says "any
  connected component larger than 1x1 terminalizes its submissions as ambiguous."
  The hard limit ends a submission without settling its component
  (`_expire_turn_submissions_conn`), and configuration only requires it to be no
  shorter than the link window.  When it is close to the window, the earlier of two
  competing submissions ends first; the later one, now alone with a turn that was
  observed after it was sent, is linked to that turn at once, whoever caused it
  (`HardLimit.cfg`).  `LinksTrue` proves that this needs a hard limit below twice the
  window plus the slowest read; the defaults (a day, and a window of a minute) are
  far above.

Seen while modelling, without a configuration of their own:

* A stopping daemon checks the identity of the socket entry and unlinks it in two
  steps without the startup lock (`daemon_api.py:1559`, `local_state.py:1219`); a
  daemon that replaces the entry in between loses it.
  `ListenerIsReachable` excludes exactly this (`raced`).
* What is on display is reckoned in the order in which plans were created: a commit
  takes the last completed plan by id for the baseline of what to retire
  (`store/sqlite.py:5654`), and recovery compares generations within one presentation
  version only (`prepare_connector_plan_recover`).  So a plan that is committed after a
  later one, or a failed plan of an older version that is recovered after a newer one was
  committed, overwrites parts of the newer one or leaves some on display.
  `FinalDisplay` calls this `disordered`.
* The sweep of deadlines looks at the last plan of a root only
  (`store/sqlite.py:2727`).  An older plan, of another version made with the same ref,
  that has failed with open parts stays so until an operator recovers it;
  `FailedPartsAreSwept` is about the last plan.
* `_finalize_recovered_plan_materialization_conn` deletes every superseded plan of the
  version that no recovery names (`store/sqlite.py:5035`), also one of which a part is
  still leased.  When a version is used both with and without a root's ref, a plan may
  then wait for a part that belongs to no plan any more, and the end of that lease does
  not activate it; the next part of the turn that ends does.  `WaitingIsJustified`
  excepts a plan beside which there is a recovered plan of such a version.
* A turn that acknowledged retention has forgotten and that is revised into fewer
  parts leaves the others on display: the tombstone does not record how many
  there were.

## 5. Proofs

Every theorem holds for any values of the constants that satisfy the assumption of
its module (the checks the code makes on its arguments, distinct model values, and
finite sets where cardinalities are compared).  The bounds that keep TLC's instances
small (`MaxTime`, `MaxChanges`, `MaxFiles`, `LastTick`...) are constants too, so what
is proved does not depend on them.  Each inductive invariant was checked by TLC on
small instances before it was proved.

**Receipts** (`CommandProofs`):

* `LedgerTypeCorrect`: the type invariant, which is inductive;
* `SendsSpaced`: `SendsAreSpaced`, from the inductive `SpacingInv`.  By itself
  the property is not inductive: that a new send is far from the old ones
  follows from what the row says now.  `RowsAreDated` bounds the dates of a row
  by the clock; `StartsAreDated` relates every recorded start to the row: while
  the row is active or terminal it is not newer than the row's own dates, and
  when the row is missing or reserved it is older than `Retention`.  The lemma
  `StepMoves` reduces the sixteen transactions to what they can do to one row
  (`Moves`), so the argument is made once;
* `EvidenceFinal`: the action property `EvidenceIsFinal`;
* `LedgerKeepsPromise`: the refinement of `RequestPromise`;
* `TablesAgreeAlways`: `TablesAgree`, from `AgreementInv`.  `Paired` says for every
  state of a receipt which ledger rows may stand beside it, the stored envelope and
  the stamp of a queued verdict included; settlement and expiry, which do not read
  the receipt, are shown to stay within it.

**Calls** (`CommandProofs`): `SubmissionImplementsLedger` shows that every
step of any number of attempts is a transaction of `CommandLedger` or leaves the two
tables alone, so the theorems above carry over (`AttemptsSendOnce`).
`OwnersAreSenders` and `AnswersTrue` come from `SubmissionInv`: besides the types and
the invariants of the ledger it orders the steps of an attempt with the row it owns
(`AttemptsAreOrdered`, `OwnersHold`), reads off the row how long ago any attempt that
may have delivered something was started (`StartsAreOld`), and says that a row which
is stored as accepted was delivered (`AcceptedRowsAreTrue`), which is what a replay
answers from.

**Deliveries** (`FinalDeliveryProofs`): `StreamOrdered` from
`Orderly`, a statement about the store alone, so that it can be carried through the
steps inside a transaction.  `StreamIsOrdered` is about leased parts only and is not
inductive: that a second part of a stream is not handed out rests on what has become
of the others.  `PartsInOrder` says that before a leased part every earlier part of its
stream is closed, and closed parts stay closed; so of two leased parts neither can be
the earlier one.  `LeasesFit` pairs leased rows with leases, and `StoreFits` holds what
keeps the attempts bounded: a row that is leased or awaits its parts has used an
attempt, so there is one to give back.  Every step of a transaction changes rows
(`Follows`, `RowsMove`) or adds them beyond all others (`RowsCome`), and each operator from
store to store has a lemma that it keeps `Orderly`, so the operations are
compositions of them.  The same lemmas carry the live leases of parts (`LiveParts`),
which gives the action property `LiveLeasesAreKept`: only `Finish`, for the row that
the connector of the action holds, and what supersedes or deletes a row takes one away.
The part that is doubtful is a deadline: `ReclaimAwaiting` closes the open parts of a plan
only when none of them has a live lease, and no other plan of its batch may have one.

`WaitingEndsForAReason` proves `WaitingIsJustified`, from `Orderly` and `Descended`.  A
plan that waits can be left behind by whatever ends the lease it waits for, and that is
easy to see of the steps that end one: each activates what no leased part holds back.
What is not easy is that nothing else takes the leased part away.  A recovery deletes
the superseded plans of its version, and a reactivation those of its revision, with
their parts; an observation supersedes work of other revisions.  `OneText` says that all
plans that are not done are of one revision of their turn, so an observation and a
reactivation leave none waiting for what they take.  For the recovery, `GensInOrder` says that the parts of a
later generation are later parts, and `PartsTried` that every part before one that was
ever attempted is closed: the failed plan was attempted, so no plan that the recovery
deletes has a leased part.  That a plan is of the generation that its number of
predecessors says needs the rest: generations tell the plans of a version apart
(`Keyed`), a recovered plan is kept as long as the plan that recovers it and is
superseded (`Descends`), a revision has one root (`Rooted`), and what is prepared is
of its root's generation (`AllFresh`), which is why a commit never takes a generation
back.  All but `Waits` itself survive any step that `Goes` or `Moves` rows and plans on,
so most operations need one lemma (`SteadySound`).  A version that is planned both
with a ref and without one is exempt from what tells its plans apart (`Shared`), and so
is, in the property, a plan that waits beside a recovered plan of such a version; the
theorem has no hypothesis about versions (section 4).

**Retention** (also `FinalDeliveryProofs`): `QueueStaysReadable`, from `Retained`, which
adds `Intact` to `Orderly`.  `QueueIsReadable` is not inductive: that the parts of a plan
may be deleted with it needs that they are parts of no other plan, and that a root
nobody planned from may go needs to know which plans were.  `Linked` has both (the
job rows of two plans are disjoint and have the turn and revision of their plan, and a
plan made with a ref has its root), and `Readable` has the texts.  A step of the delivery
that moves rows and plans leaves the store `Alike`, which carries both at once; only
Begin, Commit, Observe and Recover make or delete something.  The steps of a sweep work
on a store inside the transaction, so they are lemmas about any store that is `Whole`:
each deletion keeps it whole and changes nothing of the rows it leaves (`Lessens`).  The
candidates were chosen from the store before the first deletion, and nothing is assumed of
them: what makes a deletion safe is what the code asks again when the candidate's turn
comes (`PlanMayGo`, `RootMayGoAway`, `IsNeeded`).  A sweep is a fold over its batch
(`SweepsAreSafe`), with `Whole` after the first k candidates.
`StreamOrderedUnderRetention` and `LiveLeasesAreKeptUnderRetention` follow with the
lemmas of the delivery.

**Answers** (`PendingAnswersProofs`): `GraceKept` needs the types only.
`OneAnswerAPrompt` and `ClaimsFitAlways` come from `PromptsInv`, with any number of
readers that completed turns start beside the scheduler's.  A request that may have sent
an answer holds the claim of its revision, or the revision is gone (`AllTakenOrGone`): it
is not the fresh open prompt, the pane does not show it, and no reader in flight shows
it, unless it is `doubtful` or the reader is crossed.  That this stays so when a reader
is applied needs the order of readers.  `ReadsInOrder` says of two readers that saw
different things that, unless the one that began later is crossed, what the earlier one
found is not seen any more: it is off the screen, and whoever began later still and found
it is crossed.  `ReadersAreLater` says the same of the prompt the row knows and any
reader that is not older than the row.  Crossed readers therefore are the only ones that
can bring a prompt back, and applying one makes its revision doubtful.

**Daemon** (`DaemonProofs`): `ListenerReachable` and `OneListener` from
`EndpointInv`: the startup lock has one holder, a socket belongs to one daemon, and an
entry that was found stale under the lock is dead.  `RetriesAreSafe` and `PoolSound`
from `RequestsInv`, which counts: the workers and end marks in the queue agree with
the state of the executor, and a future agrees with what its client was told and with
the slot it holds.  That the queue has room for every admitted connection is a
statement about cardinalities, with the connection about to be queued among those in
flight.

**Herdr turns** (`HerdrProofs`): `MarksTrue` from `StreamInv`.  That a watermark is
backed by completion rows also holds for the copy of it that a thread read and has not
used yet (`ReadsAreBacked`): rows stay and baselines only grow, so a copy that is stale
when it is used claims nothing false.  `NothingSlipsPast` is about the queue of the
backend thread, that is, the records being processed, the batch and the wire, in this
order.  With no stop and nothing left over from an older connection, records of one pane
are followed by those of all its later turns, and what lies past the watermark is in
the queue unless the second replay still has to visit the pane (`QueueFits`); and no
other thread moves a watermark between its read and its use (`ReadsAreFresh`).
`AppliesFirst`, `CompletedIsQueued` and `ReplayFits` are the three steps that change
the queue.

**Routing** (`RoutingAndFeedProofs`): `NoRouteHidden` and `OneRouteATarget` from `RoutingInv`.
The bindings in memory never send twice to a target, and the store holds no others.
The step that needs an argument is an observation or a move that makes a binding
sendable: whoever sends to its target is among the owners that the conflict test
counts (`OneOwner`, `MovedFits`), so without a conflict it is the same worker, and its
other bindings expire.  Counting needs finite sets, hence the assumption that there are
finitely many panes.  A reconcile rests on the ambiguity test and on the count of the
rows that share a terminal (`ObservedFits`).

**Feed** (`RoutingAndFeedProofs`): `DeltaSound` from `DeltaInv` and `TraversalExact` from
`ListInv`.  `DeltaIsComplete` alone is not inductive.  A turn that a bootstrap has not
come to yet may be hidden or deleted before it does, so nothing of it may be in the
copy (`NothingAhead`); and the tokens of a batch agree with the watermark it started
from (`TokensAgree`).  Of the writers only `WritesAreTold` is used: every change of what
projections show has a row beyond all others, the rows that leave the journal are
below the floor, and its last row stays.  A page of changes is right because what is
still wrong has its last row behind the page or beyond the batch (`LastRowIs`); a page of
turns because the places of turns are in a strict order and the page is the beginning
of what is left (`PageIsPrefix`, `LastPlaceIs`).  `PagesAreExact` says of an open
traversal what `TraversalIsExact` says of one that ended.  That what is stored and
journaled is finite, on which `Max` and the pages depend, follows from the sequences being
distinct and bounded.

**Local state** (`DaemonProofs`): `StoreSafe` from
`FileInv`: who holds which lock (`LocksAgree`), what a connection may rely on while it
holds the shared one (`ConnsAgree`), and for every step of the compaction what the
backup, the new file and the log contain (`CompAgrees`).  `IdentityKept` from
`KeyInv`, which says of every process what the load or reset it is in has read and
may still rely on (`SeenIsThere`, `UnsealedHasKey`, `LoadAgrees`, `ResetAgrees`).

**Snapshots and links** (`StoreTablesProofs`): `SavesAgreeAlways` and the action
property `ResolvedGone` from `SavesInv`: the retained snapshot is the newest one saved
(`NewestIsKept`), items and outbox rows follow the lifecycle (`ItemsFollow`,
`JobsFollow`), and a family that misses its signal has seen its last one
(`SignalsAreSeen`).  `LinksExclusive` and `LinksTrue` from `LinkInv`.  Its second half,
`Certain`, holds while nothing doubtful has happened: a turn was observed in the
window of its cause (`SeenInWindow`), a submission ends only when its window is closed
(`EndedLate`), and, what makes the instant link safe, a turn whose cause ended without
it is too old for every submission that is still open (`EndedAlone`).  That is false
when the hard limit can end a submission inside the window of a competing one
(`HardLimit.cfg`, section 4), hence the hypothesis `HardIsLate` of `LinksTrue`.
`Component` is defined by the closed sets around a row, so the lemmas about it
(`Neighbours`, `SameComponent`) need no induction.  `SweepsOnTime` comes from
`SweepInv`: the backoff is never later than the last window of an open component
(`BackoffFits`), nor than a window that would open now, so a send elsewhere needs no
rearming.  The step that needs an argument is the hard limit, which takes rows out of
components that stay open: as the windows have one length it takes the oldest first,
and what is left stays connected (`OldestGo`).

**Maintenance** (`SchedulingProofs`): `EveryHostServiced` from `MaintInv`: a host has
waited for no more runs than there are hosts that come after it (`After`); a run that
does not reach it moves the first host, which always has the whole budget, behind it.
The budget is a sum, that is, a fold over a set.  The lemmas about folds
(`FoldExists`, `FoldStays`, `SumIsNat`) replace the induction that the provers cannot
do by a least counterexample: the induction is over a set of subsets, not over a
predicate (`PeelInduction`).

**Turn scheduler** (`SchedulingProofs`): `SchedulerSound` from `SchedInv`, for any number
of bindings, workers and queue places.  The invariant says of the record that the
condition protects that it `Fits`: bindings are apart, and every reader that may have to
defer a rerun has a place among the workers for it (`Bounded`: readers and deferred
reruns together never exceed `MaxWorkers`, and nothing is deferred unless the queue is
full), which is why no rerun is left over when a pass ends.  It holds inside a pass
too, where `Settled` (the worker and the deferred part of `NoIdleWorker`) does not.  That a
rerun never goes back to an older version needs two facts about versions: nothing in
the record is newer than the store (`NotNewer`), and a listing that is not yet applied is
as new as the readers in flight (`AsNewAsReaders`), because only the coordinator, which
holds the listing, starts readers.  After stop() the record is `Vacant`, so the listing
that is applied late starts nothing.  Every `_locked` method has a lemma that it keeps
`GoodFor` (`EnqueueKeeps`, `CollectKeeps`, `PromoteKeeps`, `DispatchOneKeeps`); the loops
over sequences are folds again, peeled from the last place (`PlacesPeel`).

Only model-checked: liveness (`SendsAreResolved`, `DeliveryEnds`, `StopEnds`,
`RefreshHappens`, `ClientCatchesUp`, `TurnsSettle`) and whatever needs `ENABLED`, which
are out of the prover's reach.  Of the delivery of finals: what connectors show
(`ReplansAreExact`, `DeliveredIsShown`, `FootprintIsKept`), which holds with the
exceptions of section 4.
`NoReplay` is not proved.

## 6. Not modelled

* The merge of two observations of one turn (`core/turns.py`, `store/sqlite.py`
  21238-22513): a comparison of texts by completeness and quality in one
  transaction, without anything that competes.
* The readers of agents' session files: a function of the contents of files.
* What a schema migration does to the rows; that it runs alone is in `StoreFile`.
* Permissions, owners and modes of files; configuration and the command line;
  sanitisation, formatting and the wording of public models; framing and parsing
  of the Herdr protocol; the dispatch of API methods.
* Power loss between a rename or link and the sync of its directory.

