# A TLA+ model of canvas-stored

This directory is the verification development kept beside *stored*, the storage
engine under `src/` (a Node.js library: content-addressed index, several storage
backends, watchers, a trash, replication and a device mirror). It holds TLA+
modules translated from the code, the TLC configurations that check them on small
instances, and theorems with TLAPS proofs. Line numbers are those of the repository's files.

`PROJECT.json` maps every definition to the lines it stands for, lists the runs,
the hazards they answer to, and for each property a mutated definition (the
`Mutant...` operators of the modules) under which TLC finds it violated.

Status: the **job queue**, the **trash** with its retained pool, the **replica
service** with the abstract promise it implements, **transfers with the watcher and
the content index**, and the **device mirror** (one key) are modelled, model-checked and
proved. Section 4 says what only the model checker shows, section 7 lists what is left out.

## 1. Inventory

One Node.js process owns one LMDB environment. Handlers run to their next
`await`; everything written through `lmdb` in one transaction is atomic and
survives a crash, everything in a field of an object does not. The interleavings
that matter are therefore those between awaits of concurrent async functions,
with the timers, the watchers' and pollers' events, and with other writers of the
same files and hub objects.

| Component | State | Operations | Hard behaviour | Correct when | Module |
|---|---|---|---|---|---|
| **Job queue** `sync/JobQueue.js` | LMDB `jobs` (seq to job), `dedupe` (intent to seq, and the counter); each object's cached counter | append, take, complete, fail, retry, cancel, cancelByKey, recover, clear | several objects on one database; a newer append while the old one runs; crash while running | no job lost, doubled, overwritten or left running without an executor | `JobQueue` |
| **Device mirror** `sync/Mirror.js` | ledger, queue, dirty keys, running jobs, state (starting, online, offline), timers | markDirty, reconcile, one job kind per decision, start, stop, nudge, resync, offline and back | the user, other devices, the watcher, the poller, the debounced pass, the worker and its many awaits, each at any time; crash; lost answers | no version of either side is overwritten or deleted unseen; both sides become equal | `Mirror` |
| **Ledger** `sync/Ledger.js` | LMDB: base digest per key, skips, feed cursor | setBase, removeBase, moveBase, skip, setState | the base must be what both sides agreed on, the cursor never ahead of the durable decisions | see the mirror | `Mirror` |
| **Canvas hub driver** `backends/canvas` | row map, feed cursor, poll timer (memory) | stat, get, put, delete, rename, changes, scan | reads update the map the poller compares with; own writes come back in the feed; 410 | every foreign change is reported once | `Mirror` |
| **Stored, transfers** `index.js` | pending moves (LMDB), held keys | copy, move, rename, remove, planning, fan-out | concurrent change of source or target; remote targets that finish later | the source goes only when the target is verified; the index says what is where | `Transfers`, `Mirror` |
| **Stored, watcher events** `index.js` | pending unlinks, suppressed keys (memory) | add, change, unlink, pairing by inode | an unlink is held for the rename window; own echoes are dropped, the user's change must not be | the index converges to the disk | `Transfers`, `Mirror` |
| **Stored, retention** `index.js` | retained blobs, retained records | retain, discardTrashBytes, restoreRetained, sweepRetained | one blob for several references; delete racing a new reference | bytes go only with their last reference | `Trash` |
| **Stored, directories** `index.js` | durable record of a directory rename | removeDirectory, trashDirectory, renameDirectory | crash in the middle of many keys | the move is resumed or never happened | `Trash` (trashing a folder) |
| **Stored, ingest** `index.js` | staging file | put (memory, stream, adopt) | stream breaks off, several targets | nothing is indexed that is not stored | `Transfers` (put, scan) |
| **Index and change log** `index/index.js` | LMDB: id to metadata, path to id, log of changes | put, delete, transaction, changes, trimChanges | coalescing per transaction, trimming under readers | a reader that tails sees every change or is told to rebuild | `ContentIndex` |
| **Replica service** `sync/ReplicaService.js` | LMDB operations and owners, staging pins, executor lease | submit, adopt, retry, drain, apply, cleanup | several destinations, crash between write and record, supersession | desired replicas are verified before old ones retire or the pin is dropped | `ReplicaService` |
| **Trash** `trash.js` | LMDB items | prepare, quarantine, finish, restore, discard, sweep | crash between record and bytes, concurrent restore and discard | an item can be restored until it is discarded, once | `Trash` |
| **Mutation queue** `runtime/MutationQueue.js` | FIFO | run, close | re-entrance by async context, close while waiting | mutual exclusion | the lock of `ReplicaService`, `Trash`, `Transfers` |
| **Upload queue, worker** `sync/SyncQueue.js`, `sync/worker.js` | none of their own | enqueue, run in a worker thread | a result for a cancelled job | see the replica service | `Transfers`, `ReplicaService` |
| **File backend** `backends/file` | chokidar watcher, staging directory | stat, put, move, retain, trash | atomic replace, unstable files | a reader never sees half a file | `Trash`, `Transfers` |
| **Google Drive, S3, HTTP, cacache** | path cache, poll token (Drive) | the driver interface | paging, ids by path | thin drivers | none |
| **Registry, cache, LMDB opening, keys, extractors, utilities** | little or none | conversions, I/O | none | not modelled | none |

How they interact. A file watcher or a poller emits a *file* event; Stored turns
it into an index write and an *object* event; the mirror marks the key dirty. A
debounced pass compares index and ledger, appends jobs to the queue and then
moves the ledger's feed cursor. The worker takes jobs and calls `copy`, `move`
and `remove` of Stored, which call the drivers and write the index; the mirror
then writes the base.

Every call that changes files runs in the mutation queue, one at a time, and holds
it across its awaits. What does not run there meets those calls in the middle:
events of the watcher and their timers, scans, listings of the trash, the sweep
timer, cleanup of pins, new plans for the replica service (submit is one
transaction), and every program outside Stored.

## 2. Modules

| Module | Models | Composed with |
|---|---|---|
| `JobQueue` | `sync/JobQueue.js`, all writing methods | nothing |
| `MCJobQueue` | instances: one queue object for all mirrors, or one each | extends `JobQueue` |
| `JobQueueProofs` | theorems about `JobQueue` | extends `JobQueue`, `TLAPS` |
| `Mirror` | `sync/Mirror.js` for one key, with the poller of the hub driver, Stored's index updates, `copy`, `move` and `remove`, the ledger | abstracts the queue to the set of the key's waiting jobs |
| `ReplicaPromise` | what the replica service promises, without disks | nothing |
| `ReplicaService` | `sync/ReplicaService.js`, with `writeObject` and `removeObject` of `index.js` as it uses them | implements `ReplicaPromise` (`INSTANCE ... WITH`) |
| `MCReplicaService` | four plan shapes of two owners on two endpoints | extends `ReplicaService` |
| `ReplicaServiceProofs` | shape of the state and of the executor, what a step does to a row, the ledger, the disk | extends `ReplicaService`, `TLAPS` |
| `ReplicaDiskProofs` | what is written, replaced and removed on the endpoints | extends `ReplicaServiceProofs` |
| `ReplicaLineProofs` | the order of an owner's operations; the refinement of `ReplicaPromise` | extends `ReplicaDiskProofs` |
| `ReplicaLedgerProofs` | the ledger is true; no bytes are lost | extends `ReplicaLineProofs` |
| `Trash` | `trash.js`, the retained pool and the removal and overwriting of `index.js`, the private places of `backends/file` | nothing |
| `MCTrash` | two files of one folder with equal content | extends `Trash` |
| `TrashProofs` | theorems about `Trash` | extends `Trash`, `TLAPS` |
| `ContentIndex` | `index/index.js` as a value with operators: put, delete, change log, trimming, readers | nothing |
| `Transfers` | `put`, `copy`, `move`, `scan`, pending moves, uploads and the watcher events of `index.js`, the watcher of `backends/file` | extends `ContentIndex` |
| `MCTransfers` | a watched backend with one file and one free key, a second volume, a remote; symmetry of inodes | extends `Transfers` |
| `TransfersProofs` | theorems about `ContentIndex` and `Transfers` | extends `Transfers`, `TLAPS` |
| `MirrorProofs` | theorems about `Mirror` | extends `Mirror`, `TLAPS` |
| `MCMirror` | symmetry, and the specification with the two sides changing in turn | extends `Mirror` |

### JobQueue

`jobs`, `dedupe` and `head` are the two sub-databases (`head` is the counter row);
`open`, `seq` and `claimed` are memory: the objects constructed, the counter each
cached, the jobs an executor works on. `edits` and `settled` are history: they
number the appends of an intent and remember the newest that was dealt with, so
that a property can say "the newest append is not lost". Each method body is
synchronous and one LMDB transaction, so each is one action (`Append` is the two
alternatives `Replace` and `AddJob`; the constructor with `recover` is `Open`).
`Crash` keeps the store and empties memory. A payload is the number of the append
that brought it, `nextAt` is whether it has passed (`due`), with `Elapse` for the
clock. What an executor does with a job it holds is Mirror's `#execute` (607-629): one of
complete, fail and retry.

### Mirror

State: `disk`, `hub` (the two copies), `feed` / `unsaved` / `cursor` (the hub's
change feed relative to the driver's and the ledger's cursor), `row` and `held`
(the driver's row map, Stored's held unlinks), `idxL` and `idxR` (the index),
`base` (the ledger), `dirty`, `queue`, `run` (the engine), `phase` and `polling`
(lifecycle), `report` (the watcher has something to report), and history:
`agreed` (every base there ever was), `quiet`, and `voided` (a job dropped the base
that a waiting delete needs; see section 5).

Every action is a segment of a handler between two awaits:

| Actions | Code |
|---|---|
| `UserWrites`, `ForeignWrites` | outside the program |
| `Watch`, `Expire`, `Poll` | watcher event, end of the rename window, poll timer |
| `Reconcile` | `#reconcileDirty`, `#reconcileKey`, `decide`, `#direct`, `#enqueue`, the cursor |
| `Take` | `#drain`, `#execute` and the job up to its first await |
| `PushHead`, `PushSend`, `PushPlan`, `PushPut`, `PutChanged`, `PushCommit`, `Redecide` | `#runPush` with `copy` and `streamToRemote`, `#redecide` |
| `PullFresh`, `FetchPlan`, `Fetch`, `FetchGone`, `Place` | `#freshRemote`, `#runPull` with `copy` |
| `DeletePlan`, `DeleteHub`, `DeleteCommit`, `TrashPlan`, `Trash` | `#runDeleteRemote` with `removeObject`, `#runTrashLocal` with `move` |
| `ConflictHead`, `Keep`, `Upload`, `ConflictFresh`, `RevertFresh` | `#runConflict`, `#runRevert` (ending in `FetchPlan`, `Fetch`, `Place`) |
| `Start`, `Started`, `GoOffline`, `TryOnline`, `FullReconcile`, `Resync`, `Stop` | lifecycle |
| `Crash`, `Unreachable`, `AnswerLost` | faults |

A job in flight is a record: what it read before the awaits (`L`, `B`, `R`, the
content its copy was planned for) travels in it, so a stale read is in the model
where it is in the code. `copy`, `move` and `removeObject` wait for Stored's mutation
queue (`index.js:106-112`): at the steps "send", "read", "move" and "remove" a job waits
for its turn, and what the call then does is planned from the index as it is by then.

Abstractions, each chosen so that it adds behaviour or drops only what no property
reads:

- One key. Other keys are present only as the freedom they give: a job may be
  taken at any time or late, and two waiting jobs of the key in any order, since
  backoffs and the other keys' jobs decide when a worker slot gets to it. The
  renames are left out: they relate two keys.
- A file's content is its digest. Hashing errors and sizes are left out, except
  that a file changed under an upload may be refused by digest (the job is parked)
  or break off by length (the job fails, the mirror goes offline).
- A decision cancels the waiting jobs of other kinds (522-528) and replaces the one of
  its kind that the queue's dedupe entry names; an older one that a failure put back may
  stay beside it. `Enqueue` keeps any of those, so it also has outcomes in which the queue
  would have replaced one more. Two waiting jobs of equal kind and payload are one here:
  the second finds what the first left, as it re-reads the state.
- `start` reconciles every key while its state is still "starting". Here `Started` goes
  online with the key marked, and `Reconcile` follows at once or later: the pass is the
  same, and what may come in between (a poll, an event) may come before it in the code too.
- Skips are not stored, `conflictMode` is `"rename"`, trash and conflict copies go
  to one set `kept`, retention is off.
- The held-key window of Stored does not swallow events of the user here; it is in
  `Transfers`.

### ReplicaService

`ops`, `owners`, `ingress`, `cache` and `staged` are durable: the journal, the owner
ledger, the rows of accepted edits and the two kinds of pins. `lock` is the mutation
queue; `todo`, `held` and `work` are the pass in memory: rows not yet visited, owners
it skips, and the operation being carried out as the executor holds it (its copy of the
row, which every save writes back whole). `placed`, `touched` and `spent` are
history: versions the service put somewhere, endpoints another writer changed since,
edits acknowledged, plans accepted when the bytes they name were already going.

What callers may ask is the constant `Shapes`. Two facts about it are what callers owe
and the code takes on trust: `StagingApart`, no plan of an owner puts a copy at a staging
location the owner releases (`apply` removes the location, 603-607, without asking whether
it is a destination; callers stage in a private blob store), and `TargetsApart`, no
target of a plan is a name another target of it may be given (`validate`, 161-180, refuses
equal target keys, but not a target that is the renamed form of another). They are
hypotheses of the theorems that need them; the shapes of the run satisfy both
(`CallersApart` in `MCReplicaService`).

| Actions | Code |
|---|---|
| `Submit`, `Supersede`, `Retry`, `Adopt` | the methods of that name |
| `EditCapture`, `EditTake`, `EditPlace`, `EditCommit`, `EditRefused`, `Reclaim` | `captureIngress`, `writeObject` with its capture and its publication, `commitIngress`, `discardIngress`, head of `#drain` |
| `StartPass`, `Visit` | `#drain`: rows in order of acceptance, one executor |
| `Begin`, `Stage`, `StageVerify` | `#apply` up to `#stage`: the base generation and the pin |
| `Resolve`, `Inspect`, `Verify`, `Placed` | one target: the name chosen, compared, read again after the write |
| `Write`, `Retain`, `Capture`, `Publish`, `Replace`, `Restore` | `writeObject` (510-582): read again, copied to the pool, moved to the trash and compared, linked under the name; a rename where nothing was moved away; the captured file put back |
| `Retire`, `Ask`, `Keep`, `Unlink`, `Delete`, `Retired` | old replicas, by `removeObject` (906-937): idle, copied to the pool, moved to the trash and compared, or just deleted |
| `Check`, `Release`, `Drop`, `Complete` | all destinations again, staging locations, the commit |
| `Clean`, `DropIngress`, `DropPin` | `#cleanup`, outside the lock when a pass calls it |
| `Transient`, `Elapse`, `Crash`, `Foreign` | outage and backoff, restart, other programs |

`writeObject` and `removeObject` are not atomic, and are not here. Between any two of their
awaits another program may write the endpoint and the process may die. A version is
first read and compared (`Write`, `Retire`), then copied to the pool by a call that may
find no file or another one (`Retain`, `Keep`), then renamed to the trash and compared by what
was really moved (`Capture`, `Unlink`); if it differs the file is put back where its name is
still free, failures swallowed (`Restore`), and the operation blocks. The new version
gets its name by a link that fails if a file is there (`Write` on a free name, `Publish`), or,
when the pool found no file any more, by a rename that replaces whatever is there by then
(`Replace`); `Delete` is the same for removals. `trash` keeps what was moved away, and by
which plan or edit.

What this leaves out of the two calls: retention is on, as `validate` (161-163) demands of a
backend that a plan overwrites or retires on. An index that lags behind the disk makes
`writeObject` refresh it and `removeObject` refuse; both only block a plan that would go on
here. `createFrom` and `trashFile` failing for other reasons than the name block the plan like
the failures modelled. The trash rows themselves, and restoring or purging them, are in
`Trash`.

`ReplicaPromise` is the contract: plans are generations of an owner, each becomes
current at most once, in the order they were accepted, and never while an
earlier one is open. `KeepsPromise` maps the journal to the generations and the
ledger's operation id to the current one.

### Trash

`disk` and `index`, `kept` with its records `retained` (one blob and one record per
digest), the rows `items`, `trashed` (what is at `trash/<id>`), the cache `pins` of
propagated deletions; in memory the digest locks, the one `call` in the mutation
queue (with the row it holds), a `listing` and the `sweep`. Removing and overwriting
share the steps `Retain`, `RecordRetained`, `Mark`, `Capture`, `Finish`; then
`Bare` or `Place`, `Index`. `Propagate`, `Again`, `Pin` are `remove` under an operation
id; `Look`, `Move`, `Replace`, `Blob`, `Settle`, `Unpin` are `restoreItem`; `Purge`,
`Dereference`, `Blobs`, `Forget` are `discardItem` with `discardTrashBytes`. Time is one
action, `Age`: everything recorded so far leaves the window.

### ContentIndex and Transfers

`ContentIndex` is a value and what one call does to it inside a transaction; a module
that uses it composes those operators in one step, as LMDB does. `Replay` is a
reader that tails the log.

`Transfers` has the files of every backend (`disk`, content and inode), the index, the
pending `moves` and `uploads`; in memory the `call`, `held` unlinks (rename window),
`rechecks` (unlinks seen during a hold), `suppressed` keys, the `scan`, and what the
watcher has `seen` and is `hashing`.

| Actions | Code |
|---|---|
| `Transfer` | `copy` and `move` up to their plan: `#planTransfer`, `#freeKey`, `#holdKeys` |
| `Rename`, `Stream`, `Commit`, `Record` | `#tryRename`, `#streamToTargets`, `#commit`, the index transaction |
| `Verify`, `VerifySource`, `RemoveSource`, `Release` | `#finalizeMove`: the target read, then the source, the source removed, the index |
| `Resume`, `Forget` | `resumePendingMoves`, whose record goes in a transaction after the index |
| `Upload`, `Acknowledge` | the queued upload, `acknowledgeReplica` |
| `Notice`, `NoticeGone`, `Deliver` | `watch`, `#emitFileEvent`, `#handleFileEvent` |
| `WindowCloses`, `HoldExpires`, `Recheck`, `Confirm` | the three timers; `#recheckUnlink` looks, waits, and handles the unlink |
| `StartScan`, `ScanRead`, `ScanIngest`, `EndScan` | `scan`, `#removeMissingLocations` |
| `Trim`, `Crash`, `Save`, `Erase`, `MoveFile` | trimming, restart, other programs |

Abstractions of the three: a content is its digest; a file event's stat and hash are
taken when the watcher notices the file and delivered at any later time; a
remote upload is one step (its retries are in `ReplicaService`); `removeObject` is one
step in `Transfers` (its steps are in `Trash`); one target per call; `moveIngress`,
event emission, and the paging and filters of `changes()` are left out.

## 3. Runs

Each takes under four minutes with 2 workers.

| Run | Instance | Checks | Shows |
|---|---|---|---|
| `jobqueue` | 2 mirrors, one queue object, 2 intents sharing a key, 3 jobs, 2 appends per intent; 40 648 states | `TypeOK`, `DedupeSound`, `RunningIsClaimed`, `NewestKept`, `RowsKeepIdentity`, `ClaimedUntouched`, `SavedAgainIsOneJob` | nothing is lost, doubled or left running through replaces, failures, cancels, clears and crashes |
| `jobqueue_two_handles` | a queue object per mirror | `RunningNeverReplaced` is violated | finding 1 |
| `mirror_bi` | two-way, 2 contents, 2 user changes, 1 foreign, 1 crash, stop, offline time or lost answer; 2 080 355 states | `TypeOK`, `ForgetsNothing`, `NoBlindHubWrite`, `LocalBytesKept`, `DeleteFollowsUser` | in every interleaving, nothing is overwritten or deleted unseen, and an idle mirror has nothing left to do, whoever writes (`voided` deletes aside) |
| `mirror_pull` | pull, 1 user, 2 foreign changes, 1 crash or offline time; 750 527 states | `PullNeverWritesHub`, `LocalBytesKept` | a pull mirror sends nothing, and sets local edits aside before reverting |
| `mirror_in_turn` | two-way, 2 changes per side, each when the mirror is settled, 1 stop or lost answer; 112 332 states | `Converges` | liveness |
| `mirror_push` | push, 1 change per side | `PushNeverWritesLocal` is violated | finding 2 |
| `mirror_view` | 1 foreign change | `ViewCurrent` is violated | finding 3 |
| `mirror_offline_start` | 1 foreign change, offline once | `Converges` is violated | finding 4 |
| `replica_service` | 2 owners, 2 endpoints, 2 staging endpoints, 2 plans, 2 events of these: 1 edit, 2 foreign changes, 1 crash or outage; 538 826 states | `TypeOK`, `LedgerHolds`, `NothingLost`, `OthersBytesKept`, `RemovesLast`, `KeepsPromise`, `Settles` | safety, the refinement and that every plan ends |
| `trash` | 2 files with equal content, 2 items, 3 calls, 2 events (change, listing, window, crash, failing purge); 1.19 million states | `TypeOK`, `Restorable`, `StillRecoverable`, `PoolBacked`, `PurgeFinal` | what is offered can be given back; what was taken can be reached; shared blobs outlive purges of equal content; only a listing under way undoes a purge |
| `trash_propagated` | propagated deletion and restore only | `CapturedKept` is violated | finding 5 |
| `transfers` | 1 indexed file, 4 keys on 3 backends, 3 inodes, 4 acts (a call counts two), at most 2 of them events; 1 033 073 states | `TypeOK`, `LogExplains`, `OneOwner`, `QuietAgrees`, `SourceLast`, `MovesKept` | index, log and disks agree once all is quiet; a move keeps its bytes |

What the properties of the three newer modules say:

- `LedgerHolds`: what the owner ledger says of an endpoint is there, whatever other
  owners' plans do, unless another writer changed it or an unfinished plan of the same
  owner has put its version there, has moved the old one to the trash to do so (a crash may
  leave it at that), or retired it. `OthersBytesKept`: only versions the service put at
  this name, or put elsewhere when this name was asked for, or was told to overwrite or
  release, are replaced or removed. A version of another writer that a capture takes
  is in the trash in the same step and `Restore` is next; the two steps where nothing
  was captured (`Replace`, `Delete`) are left out, as are those of an edit, which replaces
  what its caller saw. `RemovesLast`: what the service takes off an endpoint goes after every
  destination was verified, or it is a destination whose old file goes to the trash while
  the new version is staged. `NothingLost`: the content of an
  accepted plan is on an endpoint or pinned until another writer takes it away or a
  later generation of the owner is in its place, and an acknowledged edit stays pinned
  until its generation is complete.
- `Restorable`, `StillRecoverable`, `PoolBacked`: rows, captured files, blobs and
  their records fit together at every await, across crashes and sweeps; what a deletion
  took off a key stays behind an item that is not over.
  `PurgeFinal`: a recorded purge is undone by nothing but the write of a listing that
  had read the row while it was pending (`Relisted`; trash.js:94-107).
- `LogExplains`: a reader at any position, who is not told it is too old, reaches the
  owners of now. `OneOwner`: path rows and entries agree. `QuietAgrees`: at rest, the
  index says what is on the disk. `SourceLast`, `MovesKept`: see their comments.

Gaps met while modelling (section 5) would make some of these fail. Each such gap is
marked in `spent` at the step where the code leaves it (`stale`, `undone`, `waived`;
`doubt`, `twice`), and the property speaks of everything else, so that a new way to
the same damage is found. `QuietAgrees` also checks that an undisturbed scan
heals a doubt. What the marks excuse is written at `Recorded`, `Doubt` and the
properties.

Bounds. Three queue rows let an intent have a running, a parked and a waiting job
with the counter still moving; two appends are what tells "newest" from "older";
two mirrors with two intents give every kind of clash. In the mirror, two contents
and "absent" reach every row of the decision table; two user changes and one
foreign give a job that is overtaken on either side and again after it was decided
anew. In `ReplicaService` two plans give every pair: supersession, a shared target, one
plan's target as another's source, a release of what another claims; one edit pins bytes
that a plan may or may not use. Two foreign changes let a file vanish after it was read
and another one take its name; `MaxEvents` allows any two of edit, changes and fault. In `Trash` equal content in both files makes two items
share a blob, and three calls make a deletion, its purge and a third call between
them. In `Transfers` two calls, or one with two events, or events alone, meet in every
order. One fault is enough for a crash at each await; several in
a row repeat it. `CHECK_DEADLOCK FALSE` in all runs but the job queue's: a settled system
with the bounds spent stops.

`quiet` in `LocalBytesKept` and `DeleteFollowsUser`: when the user writes the file
between the watcher's last report and the job's write, the code cannot know, and
the replaced bytes are lost (there is no locking against other programs). The two
properties state what the engine owes otherwise: it holds when the user did not
touch the file after the job started and all that was done before is reported.

Fairness. `Scheduled` gives weak fairness to what the code always brings about: the
watcher, the debounced pass, the segments of the job in flight, the worker's loop
with its retry timer, the timers of the rename window, of the offline backoff and
of the full reconcile, and the restart of a stopped process. Crashes, stops,
faults, the user and the other devices have no fairness; the first three are
bounded. `FairSpec` lets the feed be read only while the poll timer runs, as
the code does by itself; `NudgedSpec` and `InTurnSpec` assume a host that nudges
too. In `ReplicaService`, `Scheduled` is weak fairness of the executor, of the awaits of an
edit, and of each backoff (the constructor's timer drains again and again);
callers, other writers, crashes and outages have none, and `retry` of a blocked
operation is a caller's, so `Settles` counts a line stopped by a blocked operation, which
reports its reason, as ended. `Trash` and `Transfers` state safety only.
`Converges` needs the two sides to change in turn: with both changing at once
the engine has the failures of section 5.

## 4. Proofs

The theorems hold for every value of the constants: any number of handles, mirrors and
intents, of keys, contents, items and calls, of owners, endpoints, plans, edits and
faults. They assume what the modules name in their `ASSUME`s (bounds are naturals, a
marker such as `None` is none of the values it stands beside, a plan's target keys
differ) and what a theorem states as its hypothesis.

### Job queue (`JobQueueProofs`)

| Theorem | States |
|---|---|
| `TypeCorrect` | `Spec => []TypeOK`, for any wiring of mirrors to handles |
| `QueueInvariant` | under `OneHandle`, the inductive invariant always holds |
| `DedupeIsSound`, `RunningHasExecutor`, `NewestIsKept` | the three state properties of run `jobqueue` |
| `RowsAreKept`, `ClaimedIsUntouched`, `SavedAgainOnce` | the action properties `RowsKeepIdentity`, `ClaimedUntouched` and `SavedAgainIsOneJob` |

`OneHandle` (one queue object) is needed by all but the first: run
`jobqueue_two_handles` is the counterexample without it. The inductive invariant
`QueueInv` is `TypeOK`, the three state properties and two facts they need:
`CounterAhead` (an open handle's counter is the stored one, and no row and no executor
lies above it) and `ClaimedWhileOpen` (executors die with the process). `CounterAhead`
is why an append takes a row nobody uses; without it `AddJob` could replace a row with
the newest payload of another intent, point two dedupe entries at it, or put a waiting
job under a running executor. `DedupeSound` carries `NewestKept` through `Replace`, and
`RunningIsClaimed` carries it through `Open`. `SavedAgainOnce` adds `NewestNamed`: an
intent's rows carry appends that were made, and the row with the newest one is the row
the dedupe entry names, so an older job that a retry puts back never hides it.

### Trash (`TrashProofs`)

| Theorem | States |
|---|---|
| `TypeCorrect`, `ShapeCorrect` | `TypeOK`, and what each step relies on in memory |
| `RowsCorrect`, `PurgeIsFinal` | copies of a row agree with the row; `PurgeFinal`, with the listing's write as its one exception |
| `PoolCorrect`, `PoolBackedCorrect` | pool, records and locks; `PoolBacked` |
| `RestoreCorrect`, `RestorableCorrect` | pins and captured files; `Restorable` |
| `StillRecoverableCorrect` | `StillRecoverable` |

The argument goes in layers, each inductive on those before it. `ShapeInv`: a call, a
listing or the sweep names a row that exists, at a step it may be at. `RowInv`: the copy
of a row in memory agrees with the database in all a later write relies on, or the row is one
that a listing wrote back (`spent.stale`); while a call other than a purge holds a row, the
row is not over, which is why no call undoes a purge. `PoolInv`: who is between two steps on a digest
holds its lock, and a record needed by a version or a deletion has its bytes; a sweep
and a purge must find nobody who needs them, under the lock, before they remove.
`RestoreInv`: an active row has its pin or its captured file, and so have the rows a
call or a listing is about to make active. `EndInv`: what the sweep drops has nothing
captured, and a pin belongs to a row.

### Replica service

| Theorem | Module | States |
|---|---|---|
| `TypeCorrect`, `ShapeCorrect` | `ReplicaServiceProofs` | `TypeOK`, and the executor's copy of its row |
| `AlignedCorrect`, `NamesCorrect`, `LandedCorrect` | `ReplicaDiskProofs` | targets in order; names; verified destinations hold the content |
| `RemovesLastCorrect`, `OthersBytesKeptCorrect` (with `PutCorrect`) | `ReplicaDiskProofs` | `RemovesLast`, `OthersBytesKept` |
| `LineCorrect`, `PromiseKept` | `ReplicaLineProofs` | one operation of an owner at a time, in order; `Spec => KeepsPromise` |
| `LedgerCorrect`, `LedgerHoldsCorrect` | `ReplicaLedgerProofs` | `LedgerHolds` |
| `EditsCorrect`, `PlansCorrect`, `NothingLostCorrect` | `ReplicaLedgerProofs` | `NothingLost` |

`LandedCorrect` and `RemovesLastCorrect` have the hypothesis `StagingApart`; the theorems
about `LedgerHolds` and `NothingLost` also `TargetsApart` (section 2). The others hold
for any callers. Without `StagingApart` a plan may remove its own destination; TLC shows it.

The layers, again each inductive on those before it:

1. `ShapeInv`: the executor's copy differs from the journal row at most in its state, it
   holds the lock from `stage` to the commit, and what it places is the staged bytes.
2. `Aligned`: targets before the executor's position are verified; past the last one all are.
   `Watched`: at each await of a write or a removal the endpoint is as it was read, or free
   after the capture, or marked as touched by another writer.
3. `NamesInv`, `Landed`: outcomes are at names that may be given, and while the executor
   runs, what it verified stays or is marked as touched by another writer.
4. `PutInv`: what a row or the ledger calls managed was put there; what is about to be
   written over is what the row expects or the caller asked to overwrite, from the read to
   the capture (`WriteAllowed`); what is captured beside that is `Caught`.
5. `LineInv`: rows of an owner behind one that is open are not begun in this pass (the
   owner is held), so the ledger's operation id only grows. `PromiseStep` then maps every
   step to an action of `ReplicaPromise` or a stutter: `Complete` is its commit, a
   stale copy that is saved over a cancelled row its `Reopen`.
6. `LedgerInv`: no two live operations of an owner have both begun (`Fresh`), so the base of a
   begun one is still in the ledger (`BaseKept`); endpoints have one replica each; an
   endpoint asked about before a removal or a replacement is still nobody else's when it
   happens (`AloneAt`), which holds although the lock is not held by new plans, because only
   completions and supersessions name endpoints in the ledger and both need the lock.
7. `EditsInv`: a pin goes only after the plan that names it, or a later one, is
   complete; by `PinOwners` it covers edits of the same owner only.
8. `PlansInv`: where a plan's content is, by its state. Live: at its source, pinned, or
   staged (`LiveHeld`); cancelled: staged until a successor completes; complete: at
   every endpoint of its outcomes, which the ledger still names, until a later
   generation is verified or writes there (`CompleteHeld`). `RemovalAlone` says nobody
   open needs what is being removed, plans accepted after the question aside (`Doomed`).

No theorem uses induction over data; `SettledLater` follows a chain of `supersededBy` by its
least counterexample.

### Content index and transfers (`TransfersProofs`)

| Theorem | States |
|---|---|
| `TypeCorrect`, `CoreCorrect` | `TypeOK`; rows, entries and log of the index agree after every write |
| `OneOwnerCorrect`, `LogExplainsCorrect` | `OneOwner`, `LogExplains` |
| `EndsCorrect`, `SourceLastCorrect`, `MovesKeptCorrect` | what a move knows of its two ends at each await; `SourceLast`, `MovesKept` |
| `SettlingCorrect`, `QuietAgreesCorrect` | who still has a difference between index and disk; `QuietAgrees` |

The first part is about values, not states: what `#append` with its coalescing does to a
log (`Coalesced`), what a reader makes of it (`Told`: the last entry about a key decides),
and that one `Put` or `Delete` in a transaction takes a sound index to a sound one
(`Writes`). The callers' idioms (`Without`, `Displaced`, `Succeeded`, `Moved`, `Pruned`)
are then compositions of those. Rename folding is sound because both entries of a folded
pair are about the one content, and the target's entry comes last.

1. `Core`: types, and a sound index on every key outside `spent.twice`. `Shape`: which
   kinds of call reach which step.
2. `Ends`: while the source of a move is about to go, the target has the content or was
   touched by another program (`TargetHeld`); what a resumed move releases is gone
   (`SourceGone`); when it forgets the record its destination is in the index
   (`TargetIndexed`, which a crash in between does not disturb: the record is still there and
   the move is resumed); no pending move goes from a key to itself (`MovesApart`).
3. `Settling`: where index and disk differ about a file, the key is marked, or the
   transfer under way will record it (`Moving`), or the watcher has not looked yet,
   hashes the file, holds its unlink or will look again (`Noticed`); what a calm scan
   has read is on the disk, and what it has finished is indexed (`CalmScan`). At rest
   all of these are over, which is `QuietAgrees`.

They assume of the constants that keys and contents are finitely many, that the log
starts empty, that path rows and entries agree at first and the index agrees with the
disks on files (`StartAssumption`): the state after a first scan, seen by a reader that
begins there. Any later state is reached by steps.

### Device mirror (`MirrorProofs`)

| Theorem | States |
|---|---|
| `TypeCorrect` | `TypeOK`, for every direction, delete policy and set of faults |
| `SafeCorrect` | `Safe`, the inductive invariant |
| `NoBlindHubWriteCorrect`, `LocalBytesKeptCorrect`, `DeleteFollowsUserCorrect` | the action properties of the same names |
| `PullCorrect` | `PullNeverWritesHub`, when `Direction = "pull"` |
| `ForgetsNothingCorrect` | `ForgetsNothing`, for the mirrors of `BothWays` |

What a poll makes of the feed is a recursive function over its entries; its type follows
entry by entry, by a least counterexample.

`Safe` is `Stage` (which kinds of job reach which step) with what a job relies on over
its awaits: its base, like the ledger's, was agreed on (`Agreed`); a job nobody disturbed has nothing to report, and without
anything to report the index has the file or the trash took it (`Watched`); at a step
that will replace the file its bytes are agreed on or set aside, and where the
deletion is forwarded the file is gone (`Guarded`); a pull mirror has no job that writes
upstream (`Pulling`). "Disturbed" is the history variable `quiet`: the user
changed the file after the job looked at it, which no code between two awaits can exclude.
The lemmas named `...Ends` say what each way of ending a segment does to job, ledger and
queue, so that a step is shown to keep `Safe` by the segments it may end in. The three
action properties then ask who writes each side (`HubWriters`, `FileWriters`). They assume
only that the bounds are naturals, that `Absent` is no content and `NoRun` no job.

`ForgetsNothing` needs `Remembered`, inductive on top of `Safe`: on a mirror that is up,
local and hub rows of the index agree (`Cared`), or there is somebody left to look at
the key, be it a pass, a watcher event or a waiting job that will not end without a look
(`Vain` names those that would: a delete-remote without a base or with the file back, a
trash-local without the file), or else the job in flight (`OnIt`). That job must still see
the rows it was taken on, or what it writes would settle something else; wherever they may
have changed, the change is news to the pass (`Told` of a poll, and every commit
marks the key). `Known` is what the job has learnt by then: a redecided job saw a hub version
that is not its base, one that fetches has something to fetch. The hypothesis `BothWays`
asks for `Direction = "bi"` and `Deletes = "propagate"`, and leaves out the fault
"offline start", for which it is false (finding 4). With `deletes: "keep"` it is false
too (section 5, Mirror).

### Only model-checked

Liveness (`Settles`, `Converges`): the prover handles no ENABLED.

## 5. Findings

1. *Two mirrors on one Stored overwrite each other's jobs.* `JobQueue.js:56-57`
   says a running job is never replaced. Every `Mirror` opens its own `JobQueue`
   (`Mirror.js:123`) and each caches the counter when it is constructed
   (`JobQueue.js:45`), so the second to append reuses numbers.
2. *A push mirror writes locally.* `Mirror.js:68-69` says hub-side edits are never
   applied locally; `#redecide` (702-720) runs the table without the direction.
3. *A HEAD hides a hub change from the poll.* The view promised in
   `Mirror.js:49-51` stays old: `stat` and `get` write the row map
   `#applyChange` compares with (`canvas/index.js:668`).
4. *An offline start is never watched.* `README.md:303` promises that the engine
   catches up; `watch()` is called only by a start that succeeds (`Mirror.js:193`).
5. *Restoring a propagated deletion destroys what it captured.* `index.js:927-928` says
   a file that won the race against a removal stays recoverable. The removal restores the
   item at once; a propagated one has a cache pin, so `restoreItem` writes the old pinned
   bytes and then drops `trash/<id>` with the newer ones (`trash.js:144-156`).

Met while modelling, outside the statements above and not among the runs.

Mirror:

- A lost answer or a crash after the hub took a PUT: the entry comes back as the
  device's own, reaches the row map but not the index, and after a further local edit
  the push fails its precondition for good (`Converges` fails under `NudgedSpec`
  with such a fault and unrestricted changes).
- Local edits made while down are scanned at an offline start but not marked
  dirty on the return; they wait for the full reconcile, hours later.
- A local delete can be forgotten: a newer decision cancels waiting jobs and not the one
  in flight (522-528), so a trash-local whose call failed goes back to the queue beside the
  delete-remote decided since. Taken first, it finds no local file and drops the base (780,
  or 790 and 794 when the file goes under it); the delete-remote then finds no base and
  ends (758). The key is at rest with the object on the hub, and the next full reconcile
  pulls the file back. It takes two contents, a job that fails between two user
  changes and a foreign one, beyond the bounds of a first run; the proof of `ForgetsNothing`
  found it, and TLC then confirmed it in 38 steps. `voided` marks the key from the
  dropped base to the next pass, and `ForgetsNothing` speaks of all else.
- A crash while a hub unlink is held, its feed position written already, loses
  the delete.
- With `deletes: "keep"` a local delete only drops the base (`Mirror.js:479-481`), so the
  next pass over the key (a full reconcile, a restart) finds the hub's object alone and
  pulls the file back.

Replica service:

- `#drain` saves `running` before it waits for the storage lock (402-403). A supersession
  ahead of it cancels the operation, then the stale copy runs and is saved, without its
  `supersededBy`; if it blocks, it blocks its successor. `tests/replica-service.test.js:81`
  expects a superseded plan to stay so. `ReplicaPromise` has `Reopen` for this.
- `#otherClaims` is asked before the awaits of a release (603-607): a plan submitted
  meanwhile loses its source and blocks. `#cleanup` has the same gap for pins. These plans
  are the ones in `spent.late` that `NothingLost` leaves out.
- `#cleanup` of a cancelled operation deletes its pin and leaves the ingress row, so
  `sourceFor` still offers it to a new plan, which then finds no bytes.
- A replica that had been renamed (asked for `a`, placed at `a-1`) and is asked for again
  with `onConflict: "error"`: `replaces` is the old version's digest, so a file of another
  program at `a` with equal bytes is replaced (543-551).
- A file that appears at an endpoint after `retain` found it empty is replaced by `renameFrom`
  (575-577) or removed by `delete` (932): neither compares. `OthersBytesKept` leaves out
  these two steps.
- A process that dies between the capture of an old version and the publication of the new
  one leaves the name free. The resumed plan finds nothing there and publishes; but another
  owner's plan may take the free name first, and after a crash in an edit nobody puts the
  captured file back (it stays in the trash).
- A plan that releases its own destination is not refused, nor one with a target named like
  another target's rename (`StagingApart`, `TargetsApart` in section 2).
- When a plan retired a replica and then blocked, another owner may place something there
  while the first owner's ledger still names it; superseding it by a plan that
  preserves the endpoint keeps it in the ledger (`LedgerHolds` allows for both).
- A crash between staging a copy that does not match and its deletion leaves the
  operation blocked with `STAGING_CORRUPT`.
- A destination where another writer had already put the new version's bytes counts as
  managed if the replica it replaces was, and is retired later like the service's own.

Trash:

- A listing finishes a pending row it read before an await: it can lose `quarantined`,
  or bring a restored or discarded row back as active (`trash.js:98-107`).
- A propagated deletion made again under its id renames over what the first attempt
  captured. `removeObject` deletes a file unretained that appears at a key `retain` found
  empty; a write without a captured version renames over one.
- A crash between the move back and the restored row leaves an item that is listed and
  cannot be restored; one between blob and record leaks the blob.
- The sweep timer starts with the first retain or folder trash of a process:
  expired items of a process that only reads stay (`README.md:60` says expiry removes them).

Transfers:

- A file deleted and created again within the rename window is dropped from the
  index, with a `delete` in the log, when the held unlink expires or is paired (2571-2574).
- An add hashed before a later unlink is announced after it (`backends/file` 675).
- `#commit` and the rename of a move replace a file that appeared after the plan; `put`
  onto an occupied key never takes the key from its old entry: two entries claim it.
- `acknowledgeReplica` puts back an entry it read before an await (163-172).
- `acknowledgeReplica` (163-173) records its key for its content although a later
  upload with `overwrite` has given the key to another entry: two copies to one remote
  key, a crash between the first upload and its acknowledgement, and the first upload
  run again leave two entries that claim it. The proof of `OneOwner` found it.
- `#tryRename` (1806-1823) moves whatever is at the source, without hashing it: when the
  source was replaced by another program after the plan, the other file moves under the
  planned content's name, and what the index knew of it stays at the source until the next
  scan. The proof of `QuietAgrees` found it (`Unseen`).
- A scan runs beside moves and events: it ingests old rows and drops present files.
- A crash loses held unlinks, rechecks and late events until the next scan.

## 6. Plan

To prove next: what an idle one-way mirror leaves undone, in the manner of `ForgetsNothing`;
invariants of the parts modelled next.

To model later: renames in `Mirror`, for two keys; `renameDirectory` with its durable
record; the mutation queue's own FIFO and re-entrance; the poller of Google Drive.

## 7. Not modelled, and why

Pure functions on names and bytes (keys, digests, MIME types, extractors), the
opening of LMDB, the S3, HTTP and cacache drivers (one client call per operation,
no state of their own), authentication, events for user interfaces and counters.
Google Drive's poller is a candidate for a later module, its paths and ids are not.

Left out of modelled parts: replicas in directory form, `retireOwner`,
`recordRelocation`, audit and ingress without an owner (`ReplicaService`); `importLegacy`,
`forgetRetained` and backends without a private trash (`Trash`); several targets of one
call, server-side renames of remotes, `moveIngress` (`Transfers`); rename jobs,
`conflictMode: "prompt"` and stored skips (`Mirror`). `sync/worker.js` is not imported by
anything any more.
