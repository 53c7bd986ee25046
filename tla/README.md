# LocalLexis: a TLA+ model of the hub and its clients

LocalLexis records audio, transcribes it on a *hub* (a desktop or server
process) and keeps the transcripts as JSON and text files that paired devices
list, search, edit and sync. This directory holds TLA+ modules that model the
hub and the laptop's client, TLC configurations that check them on small
instances, and proofs checked by TLAPS. Paths below are relative to
`src/speechtotext/` unless they say otherwise; `PROJECT.json` maps every
definition to its lines and lists every hazard with the properties about it.

## 1. Inventory

| Component | State | Operations | Hard behaviour | What makes it correct | Module |
|---|---|---|---|---|---|
| CRDT merge (`api/crdt.py`) | values, `_clocks`, `_history` of a document | `merge_op`, `replay_history` | arrival order, equal clocks | the value of a key is the winner's in every order; the log replays to the live state | `HubEdits`, `HubReplay` |
| Edit handlers (`api/routes_transcripts.py`, `routes_import.py`, `runner.py`, `relabel.py`), writer | JSON and text sidecars, one lock per transcript | PATCH op, relabel, summary, import, transcription | request threads, jobs without the lock, crash between two writes | no logged or acknowledged op is lost; locks are released on every path | `HubEdits` |
| Workspace (`api/workspace.py`) | `workspace.json`: ids, Lamport counter | `_ensure`, `get_lamport`, `bump_lamport_to` | no lock, one tmp name, first boot | one identity; a counter that moves forward; a whole file | `WorkspaceStore` implements `WorkspaceIdentity` |
| Library index (`api/library_db.py`, `reconcile.py`, `app.py`) | rows, `_seen` directory mtimes | `reconcile`, `sync_dirs`, `upsert_path`, `delete_by_path` | scans racing handlers; stat, read and commit apart | an answer shows what was on disk when the request got its turn | `LibraryIndex` |
| Semantic index (`api/embed_worker.py`, `library_db.py`) | chunks, embeddings, cached matrix, schema version | index, embed, store, search, rebuild | chunks replaced while they are embedded, texts committed late; a rebuild that is cut short | a vector is of its chunk's text; searches are neither stale nor incomplete | `EmbedIndex` |
| Trash (`api/trash.py`, `routes_trash.py`) | `.trash/<tid>` with a manifest | delete, restore, purge, empty | several renames per item, roll-backs that may fail, rmtree, crashes | nothing is lost between library and trash | `TrashMigrate` |
| Migration (`client/migrate.py`) | `_sweep_lock` | `sweep_local`, `migrate_one` | edits between read, import, verify and move | an original is archived only when the hub has it | `TrashMigrate` |
| Sync feed (`api/routes_sync.py`, `client/sync_puller.py`) | rows by mtime, the client's cursor | delta, pull | rows that appear behind a cursor, lost answers, two pullers | every change reaches the device | `SyncFeed` |
| Upload (`client/upload_queue.py`, `hub_runtime.py`, `api/routes_ingest.py`, `auth.py`) | outbox files, wake flag; `.partial` files, nonces | enqueue, sweep, `post_upload`, verify | lost answers, duplicates, restarts of either side, two clocks | at least once, never lost; a signature accepted once | `UploadPath` |
| Membership (`client/join.py`, `state.py`, `identity.py`, `hub_runtime.py`; `api/pairing.py`, `devices.py`) | state file, key file, thread; tokens, devices | join, leave, field updates, mint, pair, unpair | unlocked deletes, threads that outlive a leave, errors between the files | who has joined can sign; a token pairs one device | `HubMembership` |
| Jobs (`api/jobs.py`, `runner.py`, `routes_jobs.py`, `routes_ask.py`) | records, queues, slots, cancel events | create, prune, run, publish, subscribe, poll | threads into an event loop, timeouts, pruning | every job ends, slots are returned, streams get their end | `JobRunner` |
| Folder watcher (`api/watcher.py`, `ingest/watch.py`) | thread and stop event, debounce queue | start, stop, drain, `should_process` | two starts at once, audio changed while it is transcribed | no file is forgotten; the thread can be stopped | `FolderWatch` |
| Storage, pipeline, configuration, UI, firmware, Android | | | | | not modelled, see 8 |

How they interact. Request threads and job threads share the sidecars, the
per-transcript locks and `workspace.json` (`HubEdits`, `WorkspaceStore`).
Handlers, scans and the embedding worker share the SQLite index (`LibraryIndex`,
`EmbedIndex`). The laptop's runtime thread runs one cycle of pull
(`SyncFeed`), upload (`UploadPath`) and migration (`TrashMigrate`) after
another, and join and leave start and stop it (`HubMembership`). The watcher
creates jobs or outbox entries (`FolderWatch`, `JobRunner`, `UploadPath`).
Laptop and hub share nothing but signed HTTP requests.

Each module composes the parts that race with each other and takes the rest as
an environment: `TrashMigrate` joins trash, migration, hub and index row;
`UploadPath` joins the capture route, the runtime, the network and the hub;
`FolderWatch` joins the controller, the observer, the queue and the jobs.

## 2. Modules

A step of a thread is one effect another thread, or a restarted process, can
see. Definitions marked *Fault* or *Mutant* are variants of the definition below
them with a plausible mistake; no specification uses them, and each property is
shown to fail under one.

**HubEdits.** `docs[t]` is the JSON file (values, clocks, history, summary),
`txt[t]` what the `.txt` shows, `counter` is `lamport_counter`. `PatchRead` and
`PatchMerge` are `patch_transcript_op` up to `merge_op`; `BumpLoad`/`BumpSave`
are `bump_lamport_to`; `WriteJson` and `WriteTxt` end every handler;
`RelabelRead`, `SummarizeRead`, `ImportBegin` begin the others;
`TranscribeTxt`/`TranscribeJson` are `write_transcript`, with no lock; `Abort`
is an exception, `Crash` the end of the process. Keys are speakers, title and
segments, because validation and coercion differ. Device ids are numbers in
their string order. A tmp file and its rename are one step here. **HubReplay**
adds `replay_history`: `SortedOps` is the stable sort by `(lamport, device)` (each
op at the place of its `Rank`), and a recursive function is the loop over it.

**WorkspaceStore.** `_save` is open (truncates the tmp), write, rename;
`handle[th]` says what the file a thread has open has become. Two texts differ
in length by the digits of the counter, which decides whether an overwritten
file is torn. **WorkspaceIdentity** is the promise: an id chosen once and a
counter that only grows.

**LibraryIndex.** A file is its mtime and a text is the mtime under which it was
written; every change takes a new time. `List`, `StatDir`, `Gate` ... `EndWalk`
are `reconcile` with `sync_dirs`; `Scan` is `sync_dirs` alone; `UpsertStat`,
`UpsertRead`, `UpsertCommit` are the three moments of `upsert_path`. `Relabel`,
`Import` and `Restore` index inside the lock, `Patch` outside, `Transcribe` goes
on to a scan. A handler resolves its path before the lock, so it may act on any
file of its transcript. `Under[d]` are the directories whose files match the
pattern `d/%`, by which `PruneQuery` selects the rows to drop.

**EmbedIndex.** `Stat`, `Read` and `Index` are the three moments of `upsert_path`,
of which only the last holds the library's lock; `hand[i]` is what thread `i` has
read. `Upsert`, its transaction, replaces the chunk of a transcript under a new id,
`Cascade` is the foreign keys, `Remove` a row that a handler or a walk drops, `Drain`/`Store`/`EmbedFails`/`Wake` are the
worker, `Ask`/`TopChunks`/`Answer` a search, `Boot` to `Scanned` the schema
rebuild of `_migrate` one committed statement at a time, with the scan after it
(`Look`). A transcript is in a registered directory, below one, or elsewhere; it is one
chunk, named by the version of its file; ranking is left out, so a search sees
every embedded chunk.

**TrashMigrate.** One transcript with its `.json` and `.txt` (the audio moves as
the `.txt` does), in its place, in the trash, in the synced directory and on the
hub. `Mkdir`, `Manifest` (which truncates), `WriteManifest`, `Move`, `MoveFails`,
`Undo` and `UndoRefused` are `trash_transcript` and `_execute_moves`; `List`, `Unlink`, `Rmdir` are `shutil.rmtree`; `SweepLock` to
`Index` are `sweep_local` and `migrate_one`; `Look`, `Listed`, `ListCopy` and `Prune`
are `sync_dirs`, which reads a file some time before it enters the row, as the
handlers do (`Upsert`, `Record`). `core[v]` is what `migrate_one`
compares (segments, speakers, title): two versions may share it. The files still
to be renamed and those renamed are sets; `FirstOf` and `LastOf` give the order
of the code, the `.json` first and the roll-back in reverse.

**SyncFeed.** `Reconcile`, `List`, `Read`, `Answer`, `AnswerMax` are
`_build_delta`; `Begin`, `Apply`, `Save` are `pull_once`. Writers fill a tmp
file, which sets the mtime, and rename it later; several writes may share a tick
of the clock. A page is a set of rows: the oldest ones, at most `Limit`, those
with one mtime in any order of their paths; `First` is the row the loop reads next.

**UploadPath.** `Copy`, `OpenMeta`, `WriteMeta`, `Poke` are the capture route and
`enqueue`; `Clear` to `Wait` one cycle of the runtime; `Receive`, `Reject`,
`Accept` are `post_upload` with `verify_request`; `Break`, `Duplicate`,
`LaptopRestarts`, `HubRestarts` are the network and the failures. The index of a
request stands for its nonce. `now` is the hub's clock; a request is signed by the
laptop's, which `Skews` sets ahead or behind. What is pending and what has been sent are sets;
`Oldest` gives the order of the file names, by which the sweep takes them.

**HubMembership.** `JoinBegin` to `StartRuntime` are `join_hub` and its route, with
its failures inside the `try` (`Rollback`) and after it (`SaveFails`);
`LeaveBegin` to `DeleteKey` leave, `Cycle` the runtime, `MigrateBegin` to
`MigrateEnd` a migration, `Pull` `pull_once` of either, with the client of the hub
it began with (`uhub`);
`UpdateLoad`/`UpdateSave` `update_fields` under its lock; `Mint`, `Purge`,
`Consume`, `Unpair` are the hub. The cursor is reduced to the hub it came from.

**JobRunner.** `Create`/`PruneKey`/`Launch` are the route, `Start` to `Finally`
the worker, `BeginPublish`/`DirRegistered`/`Put` the publish on the job's loop
(an upload's is the server's main loop), `DirRaises` the exception of
`_on_complete_dir` that leaves it, `Attach`/`Receive`/`Disconnect` the
streams. `Poll` is a GET of a question forwarded to the hub, up to the hub's
answer or the failure to reach it, `PollApply` writes that answer into the
record; polls of several clients overlap. Progress events set the status only.

**FolderWatch.** `StartCheck` to `StartThread` are `start()`, whose parts nothing
holds together; `Deliver`/`Ripen`/`Drain` the debounce queue; `Handle`/`Raise`
`_on_ready`; `JobRead`/`JobWrite` a transcription, of which it matters which
version of the audio it read.

The MC modules give constants their values and define the symmetry sets; no
definition of a specification is replaced. `LibraryIndex` and `FolderWatch` prefix
the usual names (`IndexInit`, `WatchNext`, ...) because a proof module extends each
of them together with another component: the uploads end in the library, and the
watcher creates jobs.

## 3. Runs

Every run is exhaustive within its bounds. Some invariants are conjunctions of
named parts, each commented where it is defined, with the module's types
(`TypeOK`, `IndexTypeOK`) as the first: `FileSound` (`WholeUnlessOverlapped`),
`AnswerMatchesDisk` (`ListedCurrent`, `NoGhostRows`), `SearchExact`
(`SearchFresh`, `SearchComplete`), `RecordsTrue` (`UploaderTold`,
`CompleteIsStored`), `FilesAgree` (`JoinedCanSign`, `NoOrphanKey`,
`CursorOfThisHub`), `TrashSound` (`TrashListed`, `Together`), `StreamsKept`
(`PruneSpares`, `StreamsServed`).

| Run | Checks | Instance |
|---|---|---|
| `edit_races` | `TypeOK`, `HistoryDecides`, `AckedInHistory`, `HistoryAppendOnly` | 2 threads, 2 transcripts (one to be imported), 3 requests, crashes, I/O errors, transcriptions |
| `quiet_replay` | `TxtMatchesJson`, `ReplayMatchesLive`, `CounterDominates`, `LocksReleased` | 2 threads, 1 transcript imported with a log, 4 requests, nothing fails, fairness |
| `workspace` | `FileSound`, `OneIdentity`, `ImplementsIdentity` | 2 writers and a reader, first boot or an existing file, counters 8 to 10, crashes |
| `index` | `AnswerMatchesDisk`, `SkipSound` | 2 threads, every operation, one transcript id in two directories, one of them below the other, 4 operations |
| `embed` | `VectorOfText`, `SearchExact`, `Rebuilt`, `EventuallyEmbedded` | 3 transcripts (one in a known directory, one below it, one elsewhere), 2 indexing threads, a search, 2 versions, a restart or failure, fairness |
| `sync` | `TypeOK`, `NothingBehindCursor`, `CatchesUp` | 2 transcripts, 2 pullers, one row per delta, 2 writes, a fault, fairness |
| `upload` | `NoCaptureLost`, `NoLostPoke`, `RecordsTrue`, `SignedOnce`, `Delivered` | a capture the hub takes and one it refuses, 2 faults (a clock that is ahead included), fairness |
| `membership` | `FilesAgree`, `TokenOnce` | 2 hubs with a token each, 2 joins, a leave, 2 runtime threads, a migration, a setter, 3 faults |
| `migrate` | `VerifiedBeforeTrashed`, `Kept`, `TrashSound`, `NoFalseFailure` | 2 users, 2 sweeps, every request, 2 versions, a fault, a late listing, at most 3 of these together |
| `jobs` | `SlotsAccounted`, `AnswerBeforeComplete`, `StreamsKept`, `StatusForward`, `JobEnds` | a registry of one record, 2 more jobs (two uploads, a recording and a question, a migration and a summary, a transcription and a forwarded question), 1 slot, 2 streams, 2 polls, fairness |
| `watch` | `WatchTypeOK`, `NoFileForgotten`, `ThreadControlled`, `FileTranscribed` | 2 files, 2 starts, a stop, 2 writes, 2 faults, fairness |
| `double_delete` | `RestoredWhole` | 2 users who delete and restore, nothing fails: *violated* |

`double_delete` is a finding. Two DELETEs of one transcript resolve its path
before they take the lock; the second finds the sidecar gone, rewrites the
manifest with the `.json` alone, and fails at the first rename. A restore then brings back the JSON without its sidecar and removes the rest,
although the module's own description says that the manifest "records the
original paths for restore".

### Bounds

A race needs two threads inside a handler and a third event that meets what they
left: hence two threads and three or four requests. Two transcripts are there
where something is shared between transcripts (the counter, a delta, a batch, a
queue), one where only the lock of a transcript matters. Counters 8 to 10 cross
the digit that changes the length of `workspace.json`. One row per delta makes
paging happen with two rows. A registry of one record and one slot make pruning
and queueing happen with two jobs. A window of one second and a
clock that ticks once let a signature expire. Two or three faults let a failure hit
the recovery from another; a single one allows a crash at every step.
`MaxRacedWrites` limits the writes once two watcher starts have overlapped,
after which `ThreadControlled` no longer speaks. Two configurations have a state
constraint, `MCBound`. In `membership` TLC goes on from a tangled history with the
joins alone, since only `TokenOnce` speaks of these. In `migrate`, of two requests, a
second version, a fault and a listing that has yet to enter its row at most three come
together, and TLC does not go on from a row that was entered late (`overtaken`), about which
`NoFalseFailure` says nothing; the theorems have neither restriction. Deadlock is
not checked where the bound on requests ends the behaviour, nor where a torn
`workspace.json` makes every call raise.

### Fairness

- `HubEdits`: weak fairness of a thread's steps inside a handler: an
  operating-system thread that waits for nothing but the lock it holds.
- `JobRunner`: weak fairness of routes, workers and loops; a model and a
  provider are assumed to answer. Strong fairness of taking a slot: the
  semaphore wakes its waiters in turn. Nobody is assumed to stop a recording.
- `SyncFeed`, `UploadPath`: the runtime thread loops with a timed wait; a writer
  renames its tmp file; a request that no failure hits is handled. Failures are
  bounded, which stands for a network that works again.
- `EmbedIndex`: the worker's wait has a timeout (`SWEEP_SECONDS`), start-up goes
  on, changed files are indexed by the next listing or scan, and an `upsert_path`
  that has begun ends.
- `FolderWatch`: observer, watcher and job threads run and the debounce time
  passes.

Requests, edits, faults and the clock are never assumed to happen.

## 4. Limits of the promises

Where the code gives a promise up, the model records it in a history variable
and the property says so. These are behaviours of the code, not of the model.

- `HubEdits`: a bulk relabel renames speakers without an op, so
  `ReplayMatchesLive` leaves speakers out. A transcription replaces the sidecar
  and its log (`redone`). `TxtMatchesJson` is stated without crashes and
  transcriptions, either of which breaks it by design. `CounterDominates` is for
  edits of one transcript: with two, `bump_lamport_to` may lose an update, and
  the counter can move back.
- `WorkspaceStore` (`overlap`): two saves that overlap can leave a torn
  `workspace.json` or move the counter back; two first requests can hand out
  different ids. Identity survives overlapping saves once the file exists.
- `LibraryIndex` (`loose`): a PATCH that indexes after its lock, or a scan that
  does not take the reconciler's lock, can put an old row or a row of a deleted
  file back if it overlaps another operation. `SkipSound` allows the error stub
  of a file that was in the trash while it was read: a listing that races a delete
  commits a row with the file's mtime and no text, and a restore brings the file
  back with that mtime. The restore replaces the row itself; if the process ends
  before it does, every later walk takes the stub for current, and
  `AnswerMatchesDisk` ends there as well. (This case came up in the proof: the
  bounds of the run are one operation too small for it.)
- `LibraryIndex` (`hidden`): a scan of one directory drops the rows of the
  directories below it. The comment in `sync_dirs` (`api/library_db.py`, lines 629
  to 631) says that rows of directories not included this round must not be dropped,
  but the query selects `json_path LIKE 'd/%'` (633 to 649), which matches files at
  any depth, and the glob lists one. So the scan after a job whose audio is in
  `default_out_dir` drops the rows of `default_out_dir/incoming` (`api/app.py`, lines
  240 and 266), whose files are there; no directory has changed, so the next listing
  does not walk, and the transcripts are missing until something touches theirs.
  `ListedCurrent` leaves a dropped file out until it is indexed again.
- `SyncFeed` (`exposed`): a cursor can pass a transcript that was renamed into
  place, restored or indexed behind it, that could not be read, whose mtime
  equals another's at the end of a page, that appeared before `max_mtime` was
  read, or that an older concurrent pull has overwritten.
- `UploadPath`: an entry behind one the hub refuses is never sent (the sweep
  ends at the first error). And none is delivered while timestamps are refused: the
  request is signed before the body is sent and verified when the body has arrived
  (`api/auth.py`, line 170), so an upload that takes longer than 300 seconds, or a
  laptop whose clock differs by as much, gets 401 at every retry and blocks the outbox.
  `Delivered` is about the other entries, under the hypothesis that from some time on
  no request is refused for its timestamp (`Untimely`). A `.partial` file
  is swept at start-up.
- `UploadPath` (`early`): the comment on `_SIGNATURE_WINDOW_S` (`api/auth.py`, lines 66
  to 68) says "a captured request is unusable once its timestamp ages past this, so
  nonces need only be remembered this long". But a timestamp may be ahead of the hub's
  clock by up to the window (line 170 takes the absolute difference), and the nonce is
  kept for the window from its arrival (line 133): a request from a clock that is ahead
  by d seconds is good for d seconds after its nonce has been forgotten, and is accepted
  again if it is delivered again. `SignedOnce` is about all requests that do not arrive
  ahead of their timestamp.
- `HubMembership` (`tangled`): two joins at once, or a leave during an
  update, can leave state and key that do not match.
- `HubMembership` (`keyLeft`): `client/join.py` says that "any failure before persist
  leaves no partial state" (lines 4 and 5), but the state is made and saved after the
  `try` that rolls back (86 to 94): a missing field in the hub's answer, or a disk that
  is full, leaves the key file without a state. So do a crash and a key file that cannot
  be deleted.
- `HubMembership` (`strayed`): a migration pulls with the client it was given
  (`client/migrate.py`, line 55), and so does a cycle that outlives `stop()`; the cursor
  goes into whatever state is there by then (`client/sync_puller.py`, lines 49 to 51).
  After a leave and another join the new hub's state has the old hub's cursor, and
  transcripts older than it are never pulled.
- `TrashMigrate` (`late`, `mixed`): a version written while another thread
  moves the files can be archived unverified or removed; the bulk purge and the
  sweep take no transcript lock.
- `TrashMigrate` (`stuck`): the docstring of `_execute_moves` (`api/trash.py`, lines 27
  to 30) calls a deletion "all-or-nothing", but a rename that is refused in the roll-back
  is passed over (38 to 41) and leaves the files apart; the docstring says "atomically-ish"
  and the comment "best-effort". `Together` is stated without it.
- `TrashMigrate` (`Torn`): the manifest is truncated before it is written (line 77). A
  crash or an error in between leaves one that cannot be read: if it is the second
  deletion of an id, what the first has put in the trash is not listed any more (lines 96
  to 100) and a restore fails.
- `TrashMigrate` (`overtaken`): the comment on `_sweep_lock` (`client/migrate.py`, lines
  21 to 25) says that "the second caller re-lists and finds nothing left to do". But
  `upsert_path` reads the file outside the library's lock (`api/library_db.py`, lines
  414 to 444): a listing that read the original before a sweep moved it may enter its row
  after the sweep deleted it, and the next sweep reports a failure.
- `JobRunner` (`late`, `jolted`, `timely`, `crossed`): an emit that times out
  turns a complete job into a failed one. So does `_on_complete_dir` when it raises
  (`register_dir`, or a thread that cannot be started): the status is already complete
  (`api/jobs.py`, lines 103 to 107), the exception leaves `publish`, and the worker emits an
  `ErrorEvent` (`api/runner.py`, lines 155 to 160); if the worker has given up waiting,
  nobody reports it and the streams get no end (`jolted`). A stream that leaves while the queues
  are served can make the next one miss an item; a stream that attaches after the
  last event gets nothing. Two polls of one forwarded question that overlap
  (`crossed`) may apply the hub's answers in the wrong order: the older one, applied
  last, clears the result of a complete job. The comment in `api/routes_jobs.py`
  (lines 135 to 138) says "each write is a full overwrite from the hub's latest
  state, so it self-heals on the next poll"; but a job that has ended is not polled
  again. `AnswerBeforeComplete` and `StatusForward` are about the other jobs.
- `EmbedIndex`: an `upsert_path` commits what it has read, however old it is by then,
  so the text of an earlier version, or of a file that has been deleted, may come back
  into the index until the next walk. `SearchFresh` is about texts that have not come
  back since the search began; what is cached is dropped in either case.
- `EmbedIndex` (`forgot`, `Below`): a rebuild that is interrupted after the drop forgets
  the transcripts outside the known directories. And of those that the rebuild has
  indexed again, start-up's own scan drops the ones in unregistered directories below
  known ones, by the `LIKE` prefix described above: "transcripts outside the startup dirs
  silently vanish from the library", as the comment in `_migrate` (`api/library_db.py`,
  lines 338 to 346) says of what the rebuild is to prevent.
- `FolderWatch` (`owed`, `raced`): audio that changes while it is being
  transcribed, or before its sidecar is edited, counts as transcribed
  (`Masked`); a watcher that ends forgets what was waiting; two starts at once
  can leave a thread nobody can stop.

## 5. Proofs

Every theorem is for all values of the constants (any number of threads,
transcripts, jobs, streams, entries, hubs, faults) under the named assumptions of
the module, which say that bounds are numbers, that sets of actors are disjoint,
that null values are outside the types they extend and, in `HubEdits`, that
imported documents are well-formed (a device exports what a hub or the writer
wrote). TLC evaluates every `ASSUME` on the runs of its module. Each proof has the
same shape: an inductive invariant, which TLC has checked on the run's instance
before it was proved, one lemma for each part of it with one step per action, and
a last step that combines them. The bounds on operations, faults and the clock
appear as guards only, so the proofs hold for any value of them.

| Module | Theorems | About |
|---|---|---|
| `HubEditsProofs` | `TypeCorrect`, `LogDecides`, `LogAppendOnly`, `AckedSafe`, `TxtFollowsJson`, `CounterNeverBehind`, `ReplayGivesDisk` | `TypeOK`, `HistoryDecides`, `HistoryAppendOnly`, `AckedInHistory`, `TxtMatchesJson`, `CounterDominates`, `ReplayMatchesLive` |
| `WorkspaceProofs` | `FileIsSound`, `IdentityIsOne`, `StoreImplementsIdentity` | `FileSound`, `OneIdentity`, `ImplementsIdentity` |
| `EmbedProofs` | `VectorsTrue`, `SearchesExact`, `UpgradeRebuilds` | `VectorOfText`, `SearchExact`, `Rebuilt` |
| `SyncProofs` | `FeedTyped`, `CursorNeverAhead` | `TypeOK`, `NothingBehindCursor` |
| `LibraryProofs` | `SkippingSound`, `AnswersMatchDisk` | `SkipSound`, `AnswerMatchesDisk` of `LibraryIndex` |
| `LibraryProofs` | `CapturesKept`, `PokesKept`, `UploadsReported`, `AcceptedOnce` | `NoCaptureLost`, `NoLostPoke`, `RecordsTrue`, `SignedOnce` of `UploadPath` |
| `MembershipProofs` | `TokensOnce`, `FilesAlwaysAgree` | `TokenOnce`, `FilesAgree` |
| `TrashProofs` | `TrashedOnlyVerified`, `LastVersionKept`, `SweepsNeverFailFalsely`, `TrashIsSound` | `VerifiedBeforeTrashed`, `Kept`, `NoFalseFailure`, `TrashSound` |
| `JobProofs` | `SlotsNeverLeak`, `AnswersStored`, `StreamsAreKept`, `StatusMovesForward` | `SlotsAccounted`, `AnswerBeforeComplete`, `StreamsKept`, `StatusForward` |
| `JobProofs` | `WatchTyped`, `FilesNotForgotten`, `WatcherControlled` | `WatchTypeOK`, `NoFileForgotten`, `ThreadControlled` of `FolderWatch` |

### The arguments

**HubEdits.** `TypeInv` adds `Control`: what a thread has in hand at each program
counter.
- `LogDecides`: a document is well-formed when each clock is that of an op no
  other op on the key beats, the first of equal ones, and the value is that op's.
  The invariant adds `InHand`: a document about to be written is well-formed too,
  because it was read from disk, and `merge_op`, `relabel` and the summary
  preserve this. No lock is needed, so unlocked transcriptions do not disturb it.
- `LogAppendOnly`: here the lock matters. `Owner` says that a thread with a
  document in hand holds its transcript's lock and that the document's log extends
  the one on disk; a transcription resets that one to the empty log, which every
  log extends.
- `AckedSafe`: `Logged` adds that the op of a PATCH past its merge is in the log it
  is about to write, and in the one on disk once written, unless a transcription
  has replaced the sidecar.
- `TxtFollowsJson` has the hypothesis `Undisturbed`: no crashes, I/O errors or
  transcriptions, each of which leaves a text of another version by design (4), and
  which the run `quiet_replay` leaves out too. `Rendered` says that the text is that
  of the document unless the holder of the lock is about to write it.
- `CounterNeverBehind` allows every disturbance and has the hypothesis
  `OneTranscript`: the lock of the transcript covers `get_lamport` to
  `bump_lamport_to` only then (4). `Stamped` bounds the Lamport of an op in hand by
  the counter, or by the value the thread is about to save.
- `ReplayGivesDisk` follows from `LogDecides` and three facts about `replay_history`
  for every log: sorting by rank loses and repeats no op (`RankSorts`, by counting),
  the loop has a value after any number of ops (`LoopDefined`), and after them each
  key has the clock and value of the first op that none of those on it beats
  (`Tracks`). The last two are inductions over data, done by the least number for
  which the fact would fail (`LeastNumber`). Of equal clocks the sort keeps the one
  that arrived first in front, as the live merge does.

**WorkspaceStore.** Until two saves overlap, the one thread that saves owns the tmp
file, and the record in its hand has the file's id and a counter not behind it
(`Owned`). This gives the whole file and the refinement: each rename of `_save` is
a `WorkspaceIdentity` step or a stutter. One identity needs less: once there is a
file, every record in a thread, in the tmp or in the file has its id (`Ident`),
overlapping saves or not.

**EmbedIndex.** `VectorOfText` needs that the worker's batch agrees with the table
wherever an id is still there (`BatchCurrent`), hence that a new chunk's id is that
of no chunk, embedding or batch (`IdsDistinct`, `EmbeddingsBehind`: AUTOINCREMENT),
and, because the rebuild drops the counter with the table, that the worker has
nothing in hand while it runs (`IdleAtStart`). `SearchExact` needs that the cached
matrix is about chunks that are there, that is, that every write which removes one
also drops it (`CacheCurrent`), and that no present text counts as gone (`PastGone`);
how old the text is that a thread commits plays no part. `Rebuilt` needs, at each
statement of the rebuild, which transcripts it has still to index (`OwedKnown`), and
that no thread has a text in hand before the table is there (`HandsEmpty`).

**SyncFeed.** For a transcript that is not exposed, the invariant says where its
present version is while the cursor, or the cursor that a pull under way will save,
is at or past its file time (`Safe`, `Minded`). A rename that is not late makes the
file newer than everything seen so far (`Bounded`), and the file time names the
transcript (`Alone`): of two with one file time, a page that ends between them would
skip one.

**UploadPath.** A positive answer that the runtime waits for belongs to a stored
request of the entry in its hands (`Waiting`), so audio that is unlinked is on the
hub (`Held`), and so is all that is reported as sent (`SentStored`, `Reported`).
`Tried` and `Listed` say that an entry `pending()` did not return has poked since;
`Signatures` that an accepted request is too old, or came before its time, or has its
nonce kept as long as its timestamp is good.

**HubMembership.** The token of a device is spent and no other device has it
(`TokensSpent`). Until joins and leaves have met (`Untangled`), a join works alone on
a laptop without a state, so the key it saves is the one it registered; an update
under way has a copy of the present state (`CopyCurrent`); and a key without a state
is that of a join or leave under way, or one that `keyLeft` accounts for (`KeyOwned`).
Until a client outlives a leave, every client is of the state's hub (`CursorsOurs`).

**TrashMigrate.** Three parts: what each sweep has read, and that the original it is
about to move is the version it verified or a late one (`Checked`); where the last
version written is while files are moved out, back and rolled back (`Home`,
`Clear`); and, as long as one thread at a time is on the files, how far its renames
have come, and that the manifest was written before the first of them (`Filled`,
`InManifest`, `Halfway`; a transcription has the `.txt` there before the `.json`,
`Writing`). `NoFalseFailure` needs that a row without a file is one that a sweep
is about to remove (`Swept`). Numbering of versions and the two locks (`Numbered`, `Locked`) tie them.

**JobRunner.** The invariant says of each worker what it can still have posted, so
that a status which has ended is final (`MailSound`); of each forwarded question who
may still write to it (`ProxyPolled`); and of each stream where the loop of `publish`
is in the live list the stream is in (`StreamListed`, `StreamAwaits`): the list
changes under the loop, and only what `jolted` records makes it skip. A worker whose
publish raised has still to report it (`Reported`).

**LibraryIndex.** `SkipSound` holds whatever overlaps. An mtime that is neither the
file's nor that of a trash copy that may come back is `Dead`, and stays so because
the clock has passed it; a text read under the stat `m` is that of `m`, or none, or
`m` is dead (`TextsTrue`). For `AnswerMatchesDisk`, a listing that a change has
overtaken knows a directory mtime older than the change (`Moved`): all it does about
that file may be wrong, and the next walk looks at the directory again. So a file
that has not changed since the mtimes the reconciler remembers has its row, unless a
scan of a directory above has dropped it (`hidden`), and no
row is of a file that was gone by then (`Reflected`); during a walk the same holds of
what has been walked, with respect to the mtimes read before it (`Progress`), and
becomes `Reflected` when these are remembered at its end. Taken the mtimes after the
walk, this step fails, as in the mutant. `Times` says that a listing's mtimes cover
every change older than its turn; `Apart` and `LocksHeld` who else is active when a
file changes.

**FolderWatch.** `ControlInv` says that the threads nobody has told to stop are, one
start at a time, the controller's own, and that a batch under way is that of a live
thread. `Written` says that no audio is of the future, and that a version which is
owed or which a job has read was written. With both `NoFileForgotten` is inductive: each step that takes a file out of one place (event,
queue, batch, job, outbox) puts it in the next, and the steps that do not are those
the property names (a file that waits in a watcher that ends, a sidecar written after
the audio changed).

### Only model-checked

- Liveness: `LocksReleased`, `JobEnds`, `CatchesUp`, `Delivered`,
  `EventuallyEmbedded`, `FileTranscribed`. The prover does not handle fairness.

## 6. Hazards without a property

Beside the hazards of `PROJECT.json`, all of which some property covers, four
are left: a bulk relabel between ops (a limit of `relabel.py`, see 4); the tmp file that a
transcription and a handler share (`WorkspaceStore` has that pattern at the
grain of file operations, `HubEdits` does not); two writes in one tick of the
file clock in `LibraryIndex` (`SyncFeed` and `FolderWatch` have shared ticks);
renames within a watched folder, which depend on the observer library.

## 7. Plan

1. Sidecar writes at the grain of file operations in `HubEdits`.
2. A pure-algorithm module for the speaker merge (`merger.py`).
3. The recorder's SD queue over power loss (`firmware/esp32-recorder`).

## 8. Not modelled

- `api/storage.py`: no handler, job or client calls it.
- Firmware and Android app: other languages and processes; their uploads and
  deltas follow the protocols of `UploadPath` and `SyncFeed`.
- The transcription pipeline, embeddings and ranking: inference and numbers. The
  models use that a transcription reads the audio at some moment, can be
  cancelled and returns a document.
- Configuration, TLS, server start-up, CLI and the desktop UI: plain I/O and
  caches of API answers.
- Parts of modelled components: forwarding of edits of synced transcripts to the
  hub (they arrive there as ops with any observed clock), staging of imported
  audio and its 24-hour sweep, stateless bearer and LAN checks, full-text and
  phonetic search, directories that disappear.
