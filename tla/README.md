# Formal models of the Ermao library server

TLA+ models of the parts of the API server (`apps/api-python`) whose correctness depends on order,
interleaving, failure and restart, with TLC runs on small instances and TLAPS proofs for every
value of the constants. Paths below are relative to `apps/api-python/app/` unless they start with
`docs/`.

## 1. The system

One SQLite database is shared by an API process (FastAPI handlers, a few background threads) and one
worker process (`worker/main.py`). The worker is a single loop that, in turn, cleans up removed
libraries, expires uploads, runs file moves, requests scheduled scans and executes one import task.
Every write is a short transaction; files are read and parsed between transactions. Whatever a step
read in one transaction may therefore be out of date in the next.

| component | state it keeps | operations | what makes it hard | what must hold |
|---|---|---|---|---|
| Import queue, `modules/imports/infrastructure/readable_resource/task_queue.py` | `LibraryImportTask` rows, scan gaps | request a scan or Book work, claim, advance a phase, succeed, fail, recover at start | rows deleted while they run, terminal writes that fail, restarts | a request runs at most once; terminal rows never come back; nothing stays RUNNING unowned; nothing queued waits for ever |
| Consumer, `.../readable_resource/worker.py`, `worker/main.py` | control state in memory | claim, discovery, Book run, finish, close once after an error, pause | an exception at any point, fatal and repeated errors | success is only reported for a completed run |
| Source-tree scan, `modules/imports/application/readable_resource/scan_source_tree.py` | scan gaps, source nodes, Books | open a round, walk, reconcile, prune, resolve, record failed ranges | unreadable directories, directories that vanish, cancellation in the middle | a range that was not enumerated stays recorded; unseen entries are pruned only after a complete listing |
| Identification, `modules/library/application/imported_book_metadata.py` | import revision, processed revision, pending flag | snapshot, inspect, apply if still current | optimistic concurrency across minutes of file I/O | metadata shown as identified belongs to the latest revision |
| Removal of sources and libraries | deleted rows, removal marker | delete Book sources, delete a member file, change organization mode, remove a library, clean up | they delete rows a scan or a run is using | no zombie rows, no lost ranges |
| Agent file moves, `modules/library/infrastructure/file_move_operations.py`, `.../application/execute_file_moves.py` | operation and entry rows; files, index | submit, cancel, claim, a checkpoint for every entry, quarantine at start | files, index and rows cannot be one transaction; a cancel writes what it read before; crash between checkpoints | a stage never lies about the files; nothing moves twice; every claimed move releases its libraries |
| Agent file deletions, `.../application/file_deletions.py`, `modules/automation/application/deletions.py` | one row per plan, its payload in memory of the request | plan, execute, cancel, repeat | execute and cancel each write the whole payload back; directories deleted in part | a stage never lies; a repeated call spares a new source |
| Agent uploads, `modules/automation/application/uploads.py`, `.../infrastructure/uploads.py` | rows, staged bytes, journal | begin, append, complete, cancel, expire, clean up | bytes and row are not written together, nor are publication and journal; lost answers | what is published is what was announced, once; confirmed chunks stay; staging is removed |
| Metadata writeback, `modules/metadata/infrastructure/writeback_queue.py`, `.../application/execute_standard_writeback.py` | intents, targets, leases, counters, a prepared copy beside the file | enqueue, expand, claim, prepare, publish, journal, cancel, recover | leases that lapse under their owner; counters beside rows; a discarded Book or a moved file | a file is replaced at most once; a stage never lies; counters cover rows; every target ends |
| What excludes the six kinds of file work, `infrastructure/file_operation_conflicts.py` | none of its own: it reads the rows above | asked at each claim | four claims ask in four ways; rows outlive their workers | two kinds do not meet in one library but where a claim does not ask; libraries open again |
| Lookup queue and organize jobs, `services/metadata_lookup_queue.py`, `services/organize_scheduler.py` | jobs, tasks, leases, attempts, retry times | create, recognize, delete, claim, search, retry, apply, recover | late answers, jobs re-created under a running lookup, imports of the same Book | a waiting job has a task; completed means applied; imports go first; every task ends |
| Download and Kindle tasks | rows | enqueue, run, finish | network I/O | not modelled |
| Scan coordinator and watcher | timers, dirty paths, in memory | debounce, periodic and start-up admission | events during a scan | a change is eventually scanned |
| Reader progress | revision per resource and user | report, merge, conflict | several devices, out-of-order reports | a stale report never overwrites a newer one |
| Backup, maintenance, updates | maintenance flag, archive | quiesce, dump, restore | writes during a dump | restore yields a consistent database |
| Auth, OPDS, media, shelf, publications, mobile API, clients | tables read and written by single handlers | CRUD | none of their own | sequential; left to tests |

`PROJECT.json` lists each with its status.

## 2. Plan

1. **Core (done).** `ImportQueue` with its abstract specification `ImportPromise`, then the
   proofs of its type invariant, its exclusion and ownership invariants and the refinement.
2. **Scan rounds (done).** `ScanScopes`, the algebra of scan scopes, and `ScanRound`, the loop
   and the walk of one scan against a file tree that changes while it is read.
3. **File operations (done).** One module per kind of work, `FileMoves`, `FileDeletions`,
   `AutomationUploads` and `Writebacks`, each with its own checkpoints and faults, and `FileActivity`,
   which composes them with imports: the exclusion that `ImportQueue` takes for granted (its lock
   `busy`) is here what the claims ask of the rows.
4. **Lookups (done).** `LookupQueue`: organize jobs, their tasks, the thread that serves them and the
   imports of the same Books.
5. **Proofs of 3 and 4 (done).** One module of theorems per component, and `FileActivityProofs`, which
   carries the invariants of the components into their composition.

Next: reader progress merged from several devices, the scan coordinator with its watcher and the
admission of periodic scans, then task tables with the same shape (download, Kindle, the schedule of
organize runs). Every invariant and action property of the passing runs is stated by a theorem.

## 3. Modules

### ImportQueue

State: `task` is the table of rows, numbered in the order in which the queue serves them
(`created_at`, `id`); `last` counts the rows ever inserted; `gap` is the gap table as a set of scopes;
`meta` the metadata row of each Book; `book` the Books that exist; `lib` and `busy` say which
libraries are being removed or locked out by a file operation; `worker` is the consumer's control
state and vanishes in a crash. `orphan` and `owed` are history variables: rows whose end this process
could not write, and Books that a started discovery has yet to enumerate.

Each action is one write transaction of the code, and file I/O falls between actions.

| action | code |
|---|---|
| `RequestBookWork`, `RequestLibraryScan`, `RequestSourceScan`, `ContinueBookTask` | `request_book_work`, `request_library_scan`, `request_source_scan`, `continue_book_task`: each inserts a row of its own |
| `DeleteBookSources`, `DeleteMemberSource`, `ChangeOrganizationMode` | `manage_source_tree.py` |
| `RequestLibraryRemoval`, `CleanUpLibrary` | the removal marker and the cleanup batches of the worker loop |
| `Start`, `RecoverInterrupted` | worker construction, `fail_interrupted_tasks_on_startup` |
| `Claim` | `next_queued` and `mark_running` with `claim_book_task`, one transaction |
| `BeginRound`, `VisitBook`, `PruneBook`, `EndRound`, `ScanFails`, `ScanFailsUnrecorded`, `ScanUnavailable` | one round of `ScanLibrarySourceTree` |
| `AfterScan`, `ResourcesEnd`, `SomeResourcesFail`, `RunFails` | `_execute_book` and `ProcessBookResources` |
| `IdentifyLoad`, `IdentifyApply`, `IdentifyStale` | `IdentifyImportedBook` |
| `FinishCancelled`, `FinishSuccess`, `FinishFailure`, `FinishRaises`, `Close`, `CloseCancelled` | `_finish`, `_record_execution_failure` |
| `LoseRow`, `Crash` | the exception handler of the loop, the end of the process |

Abstractions. A scope is a whole library or one Book's anchor; category directories between them are
part of the whole library. All scans prune missing entries (scans that preserve them come only from
uploads). Deleting sources takes several transactions in the code and is one step here. A user's edit
of a Book during identification is a nondeterministic stale result. Whether a resource changed on disk
is a free choice of the scan. A regular-file Book can be incomplete only as part of a directory, never
as a failed range of its own. Periodic and start-up admission (skip when work is active) only removes
requests and is left out.

### ImportPromise

What a caller may rely on, per request: it is accepted or discarded, executed at most once by the
single consumer, ended once, and a row whose end was lost is closed only by the next start. The
instance in `ImportQueue` maps `state` to the rows' states and `current` to the row the worker holds.

### LibraryShare

How kinds of work share libraries, as an abstract specification with the kinds, the libraries and what the
claim of each kind asks for as constants: in one step one kind at most takes libraries, and only those that
none of the kinds it asks for holds; anything may be given back. `FileActivity` implements it with its six
kinds of work (`SharesLibraries`), whose rows it maps to what they hold (`HeldBy`), and `ImportQueue` with
two, imports and file operations (`ImportsShareLibraries`). So the lock `busy`, all that the queue sees of
file operations, is used there by the rules that the rows of the operations keep here.

### ScanScopes and ScanRound

`ScanScopes` translates the functions of `scan_policy.py` on sets of scopes over a small tree of paths:
containment, `Merge`, `Record` (merge into the gap table), `Clear` (what a completed scope resolves),
and what a scope says about the paths below it.

`ScanRound` is `_execute_scopes` with `_walk`. State: `disk` and `broken` are the file tree and the
entries that cannot be read; `node` the indexed entries; `gap` the gap table; `want`, `pending`,
`scope`, `visited`, `failed` the variables of the loop; `todo`, `open`, `seen`, `bad` those of a walk:
directories on its stack, directories listed but not yet pruned, the children each showed, and the
failed paths. `owed` (requested and not read since) and `steady` (indexed and on the disk since the
round began) are history variables.

| action | code |
|---|---|
| `Open`, `Finish`, `Cancel` | start, end and cancellation of `_execute_scopes` |
| `ListParent`, `ConfirmAbsent` | a scope whose path is not indexed: its parent is scanned first, then it counts as absent |
| `DirectoryUnreadable`, `ConfirmMissing`, `ConfirmFails` | `path_is_readable_directory`, then `_confirmed_missing_parent`; the disk may change between the two |
| `ObserveFile`, `ObserveAborts` | a scope that is a regular file |
| `StartWalk`, `List`, `ListFails`, `ListBreaks`, `Prune`, `WalkEnds` | the walk, one directory at a time |
| `WalkAborts`, `EmptyRootAborts`, `Crash` | the exception paths |
| `DiskChanges` | the file system |

Abstractions. A directory is listed in one step, though the code reads it in batches; a listing that
breaks off between batches is `ListBreaks`. The nested walks of category directories and the stack of a
resource directory are one set `todo`, and listed directories are pruned in any order, which allows
every order of the code. `_confirmed_missing_parent`, which climbs until it finds a directory that
exists, looks at the disk once. A scan without scopes behaves as one with the recursive scope of the
root, and a scan of one indexed directory as one with its recursive scope. The order of the scopes (`Orders`)
puts parents first; which of two unrelated names comes first is left open. A path is a file or a
directory for good; ignore rules, probing for resources, `PRESERVE` scans and libraries that allow an
empty root are left out.


### FileMoves

State: `moves` is the operation row with the stages of its entries; `files` and `index` say where an
entry's files are and where the index says they are; `mover` is the executor in memory; `moveCancel` a
cancel request between its reads and its write. `raced` is a history variable: operations whose row a
cancel overwrote after they were claimed. Entries keep the order of the plan, companions before the book.

| action | code |
|---|---|
| `Enqueue`, `CancelClaimed`, `CancelReads`, `CancelWrites` | `enqueue` and `cancel` of `file_move_operations.py`; a cancel that found the row QUEUED writes stages and status from what it read |
| `QuarantineMove`, `RecoveryEnds` | `next_recovery` and `prepare_recovery` when the worker starts |
| `ClaimMove` | `claim_next` |
| `SkipEntry`, `CancelEntry`, `LookEntry`, `CheckEntry`, `RereadCancel` | the head of the entry loop of `execute_file_moves.py`, up to the second look at the cancel flag |
| `PublishFiles` | `publish`: an error leaves files at the source, at both places or at the destination |
| `SavePublished`, `ApplyIndex`, `SaveCompleted`, `SaveFailure`, `FinishMove` | the checkpoints, the index transaction, the entry's exception handler, `finish` |
| `CommitFails`, `Escape`, `CrashMover`, `StartMover` | a commit that fails inside or outside the handler; the process |

Abstractions. Whether access, index and files pass validation is a free choice. SELECTs hold no snapshot,
hence the two steps of a cancel. `busy`, the libraries a claim finds taken by others, is a parameter of
`ClaimMove`: any set in `MovesNext`, the rows of the other modules in `FileActivity`.

### FileDeletions

State: `deletions` is one row per plan with its payload; `deleter` the execute request with the copy of
the stages it loaded; `deleteCancel` a cancel request with the payload it read; `content` what is at each
target (whole, in part, gone, or a new file put there since); `reindexed` the targets a scan was requested
for. `overwritten` is a history variable like `raced`.

| action | code |
|---|---|
| `PlanDeletion`, `StartDeletion` | `plan`, and the load and first save of `execute` in `application/file_deletions.py`; `MayExecute` is the conflict check of `SqlAlchemyDeleteStore.save` |
| `SkipTarget`, `LookTarget`, `MarkTarget`, `RemoveTarget`, `SaveRemoved`, `RequestScan`, `SettleTarget` | one target of `execute`, a step for each commit and each file operation |
| `CancelDeletion`, `SaveCancel` | `cancel` of `modules/automation/application/deletions.py` |
| `DeletionEscapes`, `CrashDeleters`, `NewSource` | an unforeseen error, the end of the API process, a user who fills the place again |

The module has no specification of its own: what it promises depends on `busy`, so it is checked in
`FileActivity`.

### AutomationUploads

State: `uploads` is the row (status, confirmed offset, `publication` and `saved` of the journal,
`cleaned`); `part` the staged chunks; `target` what the upload left at its target; `astray` the uploads
whose target directory is not the one they were staged in, or cannot be found; `uploader` what the
holder of the upload's file lock does next; `elapsed` the rows past `expires_at`; `scans` the requested
scans; `attempts` a history variable that counts publications.

| action | code |
|---|---|
| `BeginUpload` | `begin_upload`: receipt, capacity and row are one transaction |
| `AppendChunk`, `ConfirmChunk`, `RepeatChunk` | `append`: bytes first, row after; a repeated chunk is compared |
| `CompleteUpload`, `PreparePublication`, `PublishUpload`, `SaveUpload`, `RegisterUpload`, `SaveRefusal`, `CleanStaging` | `complete` with its exception handler |
| `DiscardRefused`, `ParentChanges` | `discard` keeps the staging when its directory was replaced or removed, which may happen and be undone at any time |
| `CancelUpload`, `UploadElapses`, `CleanupUpload` | `cancel`, the clock, the worker's `cleanup` |
| `SaveFails`, `UploadBreaks` | a commit that fails while the record in memory is ahead of it; a crash or an error outside the handler |

Abstractions. A chunk is a model value and a digest is the sequence of chunks it was made from. Backups of
replaced files and the removal of old history are left out.

### Writebacks

State: `intents` and `writes` are the preparation and target rows with their leases (`own` says that this
process holds it); `counts` the counters of `MetadataOpfQueueState`; `written` each target's file; `writer`
the thread that serves both kinds.

| action | code |
|---|---|
| `EnqueueIntent`, `EnqueueStandard`, `CancelStandard` | the admission of `writeback_queue.py` and `standard_writeback_store.py` |
| `WriteLapses`, `IntentLapses` | a lease that is not renewed for 60 s |
| `DiscardRelocated`, `RemoveWrite` | `discard_relocated_writebacks`; the cascade when a Book is deleted, which leaves the counters |
| `ClaimIntent`, `FinalizeIntent` | claim and `finalize_preparation` |
| `ClaimWrite` | `claim_next_target`; only a PENDING target asks for other file operations |
| `PrepareOpf`, `MarkPrepared`, `PublishOpf`, `CompleteOpf` | a sidecar, `services/metadata_file_writeback.py` |
| `BeginStandard`, `PrepareStandard`, `SavePrepared`, `PublishStandard`, `CancelPrepared`, `JournalStandard`, `RecordStandard`, `FailStandard` | `execute_standard_writeback.py`; `PublishStandard` looks at the file and at the cancel, and decides which of the two below follows |
| `SwapStandard`, `DiscardPrepared` | `publish` and `discard_prepared` of `standard_publication.py`, a step for each rename or removal |
| `WriteFails`, `CrashWriter`, `RestartWriter`, `RecoverWrites` | failed commits, the process, recovery with `reconcile_queue_state` |

Abstractions. The order of claims (`created_at`) is left open. A file (`written`) is as it was
("old"), as it was with a prepared copy beside it ("prepared"), renamed to its backup ("aside") or replaced
("new").

### FileActivity

Composes the four modules above with imports, reduced to the library that is imported (`importer`) and the
RUNNING rows (`importing`), as `ImportQueue` models the rest. `Blocked` is
`file_operation_blocks_library`; each kind of work hands its own part of it to the claims of the others.
Main thread: `RecoverImports`, `ClaimImport`, `FinishImport`, `StartMove`, `ServeMove` (with
`DiscardRelocated` in the index transaction); writeback thread: `StartWrite`, `ServeWrite`, `LeaseLapses`;
API process: `SubmitMove`, `SubmitWrite`, `ServeDeletion`, `DeleteFiles`, `ServeUpload`,
`FinishReplacement`, `ExpireReplacement`; `CrashWorker` and `StartWorker` take both threads down and up.
`late` is a history variable: writes whose lease lapsed. `Works` counts six kinds of work, standard writes and
sidecars apart, for the claims treat their leases differently. Deleted Books are left to `writebacks`.

### LookupQueue

State: `jobs` the organize jobs, `tasks` the lookup task of each (number, attempts, due, lease lapsed),
`books` the metadata row and the import row of each Book, `lookup` the thread. `applied` is a history
variable: tasks whose result reached the Book.

| action | code |
|---|---|
| `CreateRun`, `Recognize`, `DeleteJob`, `RemoveBook` | `modules/organize/infrastructure/jobs.py`, `services/organize_scheduler.py`; a Book that is deleted |
| `RequestImport`, `StartImport`, `EndImport` | imports of the Book, as far as a lookup sees them |
| `RecoverLookups`, `ClaimLookup` | `recover_stale_lookup_tasks`, `claim_next_lookup_task` |
| `LoadLookup`, `SearchLookup`, `FinishLookup`, `RetryLookup`, `ApplyLookup`, `PublishCover`, `RecordLookup`, `EnqueueIntents`, `LookupFailed` | `process_metadata_lookup_task` of `services/metadata_lookup_queue.py` |
| `LookupDue`, `LookupLapses` | the clock |
| `LookupCommitFails`, `CrashLookups`, `StartLookups` | faults |

Abstractions. What providers answer and whether something matches are free choices. An unresolved
lookup (`EndUnresolved`) sets the other jobs of the Book REVIEWING (`mark_book_reviewing`), unless the Book was
applied before; which of the two was read is a free choice. `fresh` is the guard
that `ApplyLookup` compares: an import of the Book changes it. `import_task_id` is never set on lookup
tasks, so the branch that waits for it is left out, as is `cancel_organize_job`, which has no caller. A
lease matters only once its owner has died, so only such leases lapse.
## 4. Runs

| run | instance | what it shows |
|---|---|---|
| `scan` | one library, a directory Book and a file Book, 5 rows of which 2 requested, one fault | scans that fail half way, deletions during scans and a crash never lose a range (`GapCoversOwed`), success means complete and identified (`SucceededScanIsComplete`, `SuccessIsIdentified`), a finished scan leaves no unidentified Book without work (`ScanQueuesUnidentified`), identified metadata is current (`CompletedIsCurrent`), every RUNNING row has an owner (`RunningIsOwned`) |
| `libraries` | two libraries with one Book each, all kinds of work, 4 rows, one fault, one file operation | types, refinement of `ImportPromise` (`KeepsPromise`) |
| `live` | one library, one Book, one fault, one file operation, fairness | imports and file operations take libraries as `LibraryShare` allows (`ImportsShareLibraries`), requests are served and started rows are closed |
| `file_gap` | one regular-file Book | violation: see section 7 |
| `round` | 5 paths: two directories, one with a subdirectory and a file; two rounds, two changes of the disk, one fault, fairness | unread ranges stay recorded (`OwedIsRecorded`), entries that stayed on the disk are never pruned (`SteadyEntriesStay`), a round over readable directories ends (`RoundEndsIfReadable`) |
| `round_loop` | as `round` with one round | violation: see section 7 |
| `round_flap` | as `round` with one round | violation: see section 7 |
| `file_moves` | a book and its sidecar moved within a library, then a book moved to another; two faults, fairness | stages tell where files and index are (`OutcomeIsTrue`), an entry in flight keeps its libraries locked (`MovingIsLocked`), settled entries stay (`SettledEntriesStay`), no file moves twice, whatever a cancel overwrites (`FilesMoveOnce`), a book is not reported as left behind by its companion (`BooksKeepCompanions`), claimed moves end (`ClaimedMovesEnd`) |
| `uploads` | a book of two chunks and a cover of one, right and wrong chunks, room for one upload, two faults, fairness | the target holds what was announced (`PublishedIsPromised`), put there once (`PublishedOnce`), outcomes are true (`UploadOutcomeIsTrue`), confirmed chunks stay (`ConfirmedChunksStay`), staging goes unless its directory was replaced or removed (`StagingIsRemoved`) |
| `writebacks` | an intent of two sidecars, a standard write, a queue for two targets, two faults, fairness | outcomes are true (`WriteOutcomeIsTrue`), counters cover rows (`CountersCoverRows`), a file is replaced once (`ReplacedOnce`), targets end (`TargetsEnd`) |
| `lookups` | one Book with two jobs, three tasks, one retry, one import requested from outside, one fault, fairness | waiting jobs have tasks (`JobsHaveTasks`), completed means applied (`CompletedIsApplied`), results never overwrite a Book under import (`ImportsComeFirst`), tasks end (`LookupsEnd`) |
| `file_activity` | one operation of each kind on one library, two of them submitted, one fault, fairness | two kinds of work never meet in a library but in the five pairs of `Meetings` (`LibrariesAreShared`; section 7 lists these and what is not counted), and take libraries as `LibraryShare` allows (`SharesLibraries`), deletions tell the truth and spare new files (`DeletionIsTrue`, `NewSourceStays`), locked libraries open again (`LibrariesReopen`) |

In `round` one directory is the anchor of a directory resource, so that scopes inside it grow to it.
Two rounds let a gap left by the first be resolved, wrongly or rightly, by the second; two changes let a
directory vanish and come back, or fail and recover, inside one round. Fairness is on the loop and the
walk together: the consumer executes the round it started; nothing is assumed of the disk.

Bounds of the file operations. In `file_moves` the first operation has the one relation between entries
that the executor looks at (a companion and its book) and the second has two libraries; two faults allow a
crash during the recovery from a failed commit. `uploads` needs two chunks for one to be confirmed while
the next is not, and a wrong chunk for a digest that fails; a replacement differs only in its conflict
check, which `file_activity` covers. In `writebacks` the intent's two targets and the standard write do not
all fit, so an expansion is deferred; two faults allow a Book to be deleted and a restart to correct the
counters. `file_activity` has every pair of kinds on one library, in both orders; what needs three kinds at
once is not reached (no claim asks for more than one other at a time), and a cancel, an expiry, a new
file or a replaced directory is combined with no second operation: their interleavings with their own operation are what matters,
and the single runs have them. A crash of the worker counts once though it takes two threads. `lookups`
needs two jobs because the index allows one unresolved job per Book, and three tasks because recognizing a
job again replaces its task.

Fairness of the file operations and lookups. A thread goes on with what it has claimed; requests under way
go on; a dead worker is started again (not in `writebacks`, whose `TargetsEnd` excuses a paused or dead
thread); recovery runs at its start; clocks advance, so leases lapse and uploads expire; cleanup of uploads
runs every minute. In `writebacks` the claim of a target is strongly fair: the thread takes targets first
or in turn with intents, and an intent that finds no room waits before it is tried again, so intents cannot
keep a claimable target waiting for ever. In `lookups` claims are weakly fair and imports that were
requested start and end. No requests, cancels, discards or faults are fair.

Deadlock is not checked in these runs either: every operation is submitted at most once (or up to a bound),
and after that the threads are idle.

Bounds (`ImportQueue`). `MaxTask` bounds rows ever inserted, `MaxRequest` those inserted by callers, `MaxFault`
crashes and failed terminal writes, `MaxFileOp` file operations. Five rows let a scan queue work for
both Books, run it, be re-requested and scan again; two Books distinguish a range that failed from its
sibling that was read; one fault is enough because recovery leaves nothing of the previous process but
the tables. Deadlock is not checked: when the bounds are used up and the queue is empty, an idle
consumer has nothing to do.

Fairness (`live`). The worker is one loop which never waits for anything but the time when a step of
it can run, so its steps together are weakly fair (`WF` on the disjunction, not on each: a step may be
passed over for another). The process supervisor starts a dead worker again, and a file operation
ends. The consumer may pause for good after a fatal error; both properties make the exception
explicit. No fairness is assumed for requests, faults or removals.

## 5. Proofs

`ImportQueueProofs` proves, for every set of libraries and Books and every bound:

- `TypeCorrect`: `Spec => []TypeOK`.
- `WorkerRowInvariant`: the row that the worker holds was inserted, the worker at rest holds none, and
  in the phases of a Book run it is a Book row. `TypeOK` alone is not inductive enough for the
  actions that update `task[me]`, and every other proof uses this strengthening.
- `ImportsExcludeFileOperations`: `Spec => []FileExclusion`. Inductive on its own given the types:
  only `Claim` makes a row RUNNING and only `BeginFileOperation` locks a library, and each checks the
  other in its own transaction.
- `ImportsShareWithFileOperations`: `Spec => ImportsShareLibraries`, the refinement of `LibraryShare`: a
  step that begins a file operation is a step of the kind "file", every other one of the kind "import".
- `EveryRunIsOwned`: `Spec => []RunningIsOwned`. `RecoverInterrupted` establishes it, the worker's
  steps keep it because they let go of a row only together with its terminal write or with its entry
  in `orphan`.
- `QueueKeepsPromise`: `Spec => KeepsPromise`, one lemma per group of actions, each showing which
  action of `ImportPromise` (or stutter) the group maps to.

`ImportOutcomeProofs` says what a finished run leaves behind. About identification:

- `IdentifiedIsCurrent`: `Spec => []CompletedIsCurrent`. One lemma (`MetaSteps`) lists what a step can do
  to the metadata of a Book; only `IdentifyApply` makes it COMPLETED, and its guard is the check of the
  revision.
- `SuccessMeansIdentified`: `Spec => SuccessIsIdentified`, from the invariant `RunRevision`: while a Book
  row runs, the worker's revision is at most the Book's, and a run about to succeed has processed it. The
  first half is what makes a stale result tolerable when another run has identified the Book since.

About discoveries and their gaps:

- `OwedBooksAreCovered`: `Spec => []GapCoversOwed`, and
- `SuccessfulScanIsComplete`: `Spec => SucceededScanIsComplete`,

both from the invariant `GapInv`. `GapCoversOwed` alone is not inductive: a RUNNING row covers what it owes
only until its round opens, since from then on its failure records nothing more. `GapInv` therefore
counts only rows whose round has not opened (`Unopened`), and adds that what the walk has seen is not owed
(`OwedUnread`), that queued rows have no round, and that a discovery about to succeed owes nothing
(`CompleteRead`).

- `DiscoveryLeavesNoneUnserved`: `Spec => ScanQueuesUnidentified`, from the invariant `ReadInv`: while a
  discovery walks, each Book it has read and that still exists is served (`Served`): it is identified, or a
  queued row waits for it, or the deletion of one of its sources has dropped its identification since. No
  step of others takes a waiting row or an identification from a Book otherwise, and the consumer claims
  nothing while it walks.

Assumptions are the named ASSUMEs of `ImportQueue`: Books belong to libraries, there is a library,
libraries and Books are disjoint, bounds are natural numbers; the other modules name theirs likewise
(`MoveAssumption`, `DeletionAssumption`, `UploadAssumption`, `WriteAssumption`, `ActivityAssumption`,
`LookupAssumption`, and `PathAssumption` and `ScanAssumption`, which say that paths have their parents
among them, that what lies in a directory does not lie in a file, and that disk and index start as trees).
TLC evaluates them on every run.

The file operations and lookups are proved in modules of their own, again for every value of the constants:

- `FileMovesProofs`, from `MoveInv` (`MovesInductive`): types, an operation executing whenever one of its
  entries is in flight, and what the executor knows of its entry at each point. `OutcomeIsTrue` alone is not
  inductive: nothing in the stages says that the files are at the destination when the executor saves
  FILES_PUBLISHED, or that they are untouched when it saves FAILED. Theorems: `MovesKeepTypes`, `MovesTellTheTruth`,
  `MovesStayLocked`, `MovesSettleOnce`. `MovesMoveOnce` (`FilesMoveOnce`) speaks of every operation, so it has an
  invariant of its own, `PlacesInv`: files that left their source are behind every point where they would be moved.
  `MovesKeepCompanions` (`BooksKeepCompanions`) needs `BookInv` beside
  it: without faults an operation waits as a whole or not at all, the executor leaves none of its entries
  waiting behind it, and `kept` is no older than the companions it speaks of.
- `AutomationUploadsProofs`, from `UploadInv` (`UploadsInductive`): a publication is journalled before the
  target is written, a row whose journal names no publication has an empty target, what is staged when PUBLISHING is saved has
  the announced digest, and the staging never holds less than was confirmed. Theorems: `UploadsPublishWhatWasPromised`, `UploadsPublishOnce`,
  `UploadsTellTheTruth`, `UploadsKeepConfirmedChunks`.
- `WritebacksProofs`, from `WriteInv` (`WritesInductive`): what stages say of files, what the thread knows of
  the target it holds (also once it lost the row, and between any two renames, removals and commits), that an intent has no targets before it is expanded, and that
  the queue is finite, which `Cardinality` needs. Theorems: `WritesTellTheTruth`, `WritesAreCounted`,
  `WritesReplaceOnce`.
- `LookupQueueProofs`, from `LookupInv` (`LookupsInductive`): what the thread knows of its job and task,
  which may be replaced under it, and that a fresh guard means the Book is not pending. Theorems:
  `LookupsKeepTypes`, `WaitingJobsHaveTasks`, `CompletedLookupsWereApplied`, `LookupsLetImportsGoFirst`.
- `FileActivityProofs` carries the invariants of the parts into the composition: each action of
  `FileActivity` is a step of one part (two for the index transaction and the crash) and a stutter of the
  others. `ActivityInv` (`ActivityInductive`) adds `DeletionInv` and three parts of its own.
  `LibrariesAreShared` speaks of threads in memory while the claims read rows, and rows outlive crashes, so
  it follows from `Exclusive`, which says of the rows that which kinds of work may name one
  library, and from what ties each thread to its row (`WriterOwns`, `LapsedAreLate`, the invariants of the parts).
  `Exclusive` in turn follows from the shape of each step: only one kind of work takes libraries in it, and
  its claim found them free (`OnlyTakes`, `Vacant`). The same fact, step by step, is the refinement of
  `LibraryShare` (`ActivitySharesLibraries`). Theorems: `ActivityKeepsTypes`, `LibrariesStayShared`, `DeletionsTellTheTruth`,
  `DeletionsSpareNewSources`. A sidecar is written only under its lease or once it has lapsed (`WriterOwns`), which
  is what keeps moves away from it.

- `ScanRoundProofs`, from `ScanInv` (`ScanInvariant`), for every set of paths, every tree of files and every
  request. First the algebra of `ScanScopes`: containment is an order in which two ranges that meet are
  comparable, merging keeps for each range one that encloses it, recording loses nothing that was pending
  and clearing only what the completed scope lists. Neither invariant of the runs is inductive.
  `OwedIsRecorded` needs to know during a walk where what is owed will be noticed: below a directory that
  is still to be listed or was not listable, or among what the pruning of a listed one settles
  (`WalkDebt`); and since the loop takes a scope for absent when its visited parent does not show it,
  that whatever is owed below such an entry is under a recorded recursive range which covers the
  parent too (`AbsentInv`). Both rest on the shape of the walk: the directories in hand form one tree
  below the scope, and below a listed one they all lie under children it showed (`HandInv`); disk and
  index are trees (`TreeInv`). `SteadyEntriesStay` needs `SteadyInv`: a steady entry under a listed directory lies under a
  child that the listing showed, however much later the pruning comes. Theorems: `ScanTypeOK`,
  `OwedIsAlwaysRecorded`, `SteadyEntriesAlwaysStay`.

Only model-checked: the liveness properties (`QueuedIsServed`, `RunningIsClosed`, `RoundEndsIfReadable`,
`ClaimedMovesEnd`, `StagingIsRemoved`, `TargetsEnd`, `LookupsEnd`, `LibrariesReopen`), which the prover
does not reach.
Only proved, and checked by no run of their own: `FileExclusion`, which `ImportsShareLibraries` implies, and
`LookupsTypeOK`.

## 6. Not modelled

File contents, parsers and metadata providers; HTTP, authorization and rendering; logging; the clients.
The components with status `not_modelled` in `PROJECT.json` are either planned (section 2) or have no
protocol of their own.

## 7. Findings

- `file_gap`: `docs/architecture-decisions.md:62` says gaps record only incomplete ranges. A
  re-import of a regular file never opens a scan round, so its failure records a gap for the file, and
  its later success clears nothing. The gap stays until a scan of a directory above it completes, and
  makes every whole-Book run of that Book enumerate it again.
- `round_loop`: `docs/architecture-decisions.md:61` says that an access failure fails the task. When a
  scope's path is not indexed and its indexed parent directory exists but cannot be read, the loop of
  `_execute_scopes` puts the parent in front of the scope again and again: the parent is recorded as
  incomplete but never becomes visited. The task stays RUNNING and blocks the only consumer.
- `round_flap`: `docs/architecture-decisions.md:63` says that what was not completely enumerated is not
  reported as success. A requested directory that is gone when its turn comes is replaced by its parent,
  non-recursively; a missing file is instead looked up again. If the directory is back when the parent is
  listed, the round succeeds without reading it. Its range stays in the gap table, also when it is
  really gone.

What else the models know of and except, by name, in the properties:

- `LibrariesAreShared` (`Meetings`): the claim of a move asks for imports, leases and other moves, not for a
  deletion or a replacement that is under way; imports, deletions and replacements do not ask for the leases
  of sidecars, so each may work on a library while an OPF is written there. Not counted at all are writes whose
  lease has lapsed (a PREPARED sidecar is claimed again without asking for what took the library since, even
  a move), operations and plans whose row a cancel overwrote, and a deletion that is cancelled while it runs,
  which finishes the target it is at.
- `WriteOutcomeIsTrue`: the cancellation of a prepared standard write removes the copy first and commits
  after. A crash or a failed commit in between leaves a PREPARED row without a copy, which no run
  cannot decide: it ends in RECOVERY_REQUIRED with the file as it was.
- `StagingIsRemoved` (`astray`): cleanup keeps the staging of an upload as long as the directory it was
  staged in is not at its place ("Retain uncertain staging", `uploads.py:559`), so that of a directory that was
  replaced for good stays for ever and is looked at every five minutes.
- `LibrariesReopen` (`Abandoned`): a deletion left DELETING and a replacement in RECOVERY_REQUIRED lock
  their library out of imports until a person settles them, though `docs/architecture-decisions.md:29` says
  that what needs recovery does not block other tasks. A replacement whose journal commit failed is saved
  as RECOVERY_REQUIRED without a conflict check.
- `raced`, `overwritten`: a cancel of a move, and of a deletion, writes back what it read. When the worker
  claimed the operation or advanced a stage in between, that is lost: the stages may then say that nothing was written, and the library is open
  to others while the worker goes on. No file moves twice all the same (`FilesMoveOnce`).
- `BooksKeepCompanions`: after a crash between a companion and its book, cancelling the requeued operation
  reports the book as cancelled though its companion has moved.
- `UploadOutcomeIsTrue`: an upload saved but not yet registered expires without a scan of its file.
- `CountersCoverRows`: a Book that is deleted leaves its writebacks in the counters until the next start,
  so the queue may refuse work it has room for.
- `LookupsEnd` (`LeftPending`): a crash during an import leaves `metadata_pending` set, and lookups of
  the Book are passed over until another import of it. The lookup path pauses for the life of the process
  when the unique index refuses the status it writes to a job.
- `EnqueueIntents` of `LookupQueue`: writeback intents are a transaction of their own; one that fails or a
  queue that is full loses them although the lookup is reported as completed.
