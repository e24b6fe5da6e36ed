# CivicJournal-Time in TLA+

This directory holds TLA+ models of CivicJournal-Time, the TLC configurations that
check them on small instances, and proofs, checked by TLAPS, of what holds for every
instance. Paths are relative to the repository (`src/core/page.rs`); `PROJECT.json`
maps every definition to the lines it models, lists the runs, the mutants that show
each property can fail, the hazards the properties are for, and the findings.

    tlc -config rollup_inorder.cfg MCTimeManager.tla
    tlapm TimeManagerProofs.tla

## 1. The system

A *journal* records leaves (a change to a container, with a timestamp) in pages. Level
0 pages hold leaves; a page covers a fixed time window. When a page is full, too old,
or no longer covers the time of the next leaf, it is *finalized*: hashed, stored, and
*rolled up* into the active page of the next level, as a child hash, as net patches, or
both. A parent finalized by that is rolled up in turn. Beside the journal there is the
*turnstile*: a ledger of tickets for payloads that go to an external database, with a
parking lot of failed ones and a retry job.

| Component | State | Operations | Interacts with |
|---|---|---|---|
| Time hierarchy manager (`core/time_manager.rs`) | `active_pages`, `last_finalized_page_ids` / `_hashes` (a mutex each), the id generator | `add_leaf`, `perform_rollup` (recursive), `finalize_and_rollup_page`, `apply_retention_policies`, getters | storage backend (awaits), called by Journal, queries, snapshots |
| Pages (`core/page.rs`) | one page: id, window, content, previous hash, first and last child time | `new_with_id`, `add_leaf`, `add_thrall_hash`, `merge_net_patches`, `should_finalize`, `recalculate_...` | owned by the manager, cloned in and out of its map |
| Storage (`storage/mod.rs`, `storage/memory.rs`) | pages by (level, id) | store, load, load by hash, list, delete | manager, queries, snapshots |
| File storage (`storage/file.rs`) | one file a page in a directory a level; the archive of a backup | the same, `backup_journal`, `restore_journal` | the journal's directory, shared by every task |
| Journal API (`api/async_api.rs`, `sync_api.rs`) | `last_leaf_hash` (mutex held over the whole append) | `append_leaf` (asynchronous only), `get_page`, queries, `create_snapshot`, retention | manager, query engine; two journals on one directory share the files and nothing else |
| Turnstile (`turnstile/mod.rs`) | last leaf hash, pending table, committed set, orphan and success events, state file | `append`, `confirm_ticket`, `retry_next_pending`, `load_state`, `persist_state` | application and database through a callback; `ffi/c_ffi.rs` |
| Snapshots (`core/snapshot_manager.rs`) | none | `create_snapshot`: read pages and active leaves, store a snapshot page | manager, storage |
| Query engine (`query/engine.rs`) | none | inclusion proofs, state at a time, deltas, page integrity | manager, storage |
| Merkle tree (`core/merkle.rs`) | none | build, prove, verify | pages, queries, snapshots |
| Configuration (`config`, `types/time.rs`) and `init` (`lib.rs`) | the static `CONFIG`, set once; the global logger | load, environment overrides, validate, fall back on defaults | everything is built from it |
| Leaves, FFI, demo, error types | none that changes | conversion | everything |

What is hard here:

* `add_leaf` clones the active page, lets go of the map, works, awaits the storage and
  inserts the clone again. `Journal::append_leaf` admits one call at a time, but the
  manager is public, shared and documented as thread-safe.
* The cascade: finalizing a stale parent starts a rollup inside a rollup; a parent
  found again in the storage is reopened; an empty one is dropped and its id reverted;
  a store may fail at any of these places.
* Leaves out of order, against pages with fixed windows and three kinds of age.
* Restarts: nothing of the manager is read back; the turnstile reads its state file,
  which is not written atomically and may have been edited.
* The turnstile's order of memory change, save and reply, with late and lost reports.
* Queries and snapshots hold no lock: they list, ask for the active page and load pages
  one after the other, while pages are retired, stored, reopened and deleted.
* Page files are written in place and archives are swapped in two steps: a full disk or
  a crash can come after each, and what it leaves is read by everybody.

What makes each component correct: accepted leaves are in one page, once, and stay;
pages keep to window and size; every finalized page is in one parent, whose hashes
resolve; pages of a level chain; stored pages do not change; calls return; retention
deletes only what a level's own policy names, from the old end. For the
turnstile: the ledger is rooted, a committed ticket is not pending again, tickets and
acknowledgements outlive failing saves and restarts unless the state file itself is lost,
retries are bounded and end. A reader's answer has what was
stored when it asked, and is exact when nothing moves; a Merkle proof verifies for its
leaf and no other. What was written to a file is read back under any later compression
setting, a backup holds it, and a restore brings back the archive and nothing else. The
journal's acknowledged leaves chain, and only a failed write loses one. The configuration
in force is one the manager can work with.

## 2. The modules

| Module | Content |
|---|---|
| `Pages` | pages as records and the operations on one page; the configuration and its assumption; no variables |
| `TimeManager` | the manager and its storage: a call of `add_leaf` as steps, the cascade as a stack of frames |
| `TimeManagerProps` | type invariant, safety, action and liveness properties |
| `MCTimeManager` | constants for TLC: small hierarchies, ages, content types, times |
| `TimeManagerProofs` | theorems about `TimeManager`: types, stacks, bounds of pages |
| `LeafProofs` | theorems about leaves and leaf pages, and what each step of a call does |
| `HierarchyProofs` | theorems about the pages above them, for leaves in order |
| `Retention` | `TimeManager` with sweeps of `apply_retention_policies` between the steps of `add_leaf` |
| `RetentionProps`, `MCRetention`, `RetentionProofs` | its properties, constants for TLC, and theorems |
| `Turnstile`, `TurnstileProps`, `MCTurnstile`, `TurnstileProofs` | the same for the turnstile |
| `Merkle` | the tree of a list of hashes, proofs of leaves and their verification; no variables |
| `Readers`, `ReadersProps`, `MCReaders`, `ReadersProofs` | `TimeManager` with one query or snapshot going on between its steps; theorems, also about `Merkle` |
| `Startup` | `init`: loading, validating and publishing the configuration |
| `Journal`, `MCJournal`, `JournalProofs` | `Startup` and `TimeManager` composed to the asynchronous API, with a synchronous reader; theorems, also about `Startup` |
| `LeafLog` | what the journal promises about leaves: a write-behind log. `JournalImplementsLog` proves that `Journal` implements it |
| `FileStorage`, `MCFileStorage`, `FileStorageProofs` | page files, backup and restore; theorems |

`Pages` <- `TimeManager` <- `TimeManagerProps` <- `MCTimeManager`, `TimeManagerProofs`
(EXTENDS). `Retention` and `Readers` extend `TimeManager`; `Readers` takes `Merkle` too, and
`Journal` takes `Startup`. The proofs build on each other in the same way:
`TimeManagerProofs` <- `LeafProofs` <- `HierarchyProofs` <- `JournalProofs` (whose every step
is a step of `Next` or leaves the manager alone), and `LeafProofs` <- `RetentionProofs`,
`ReadersProofs` (where every step is a step of `Next`, or leaves the manager alone, or only
takes pages out of the store). `Turnstile` and `FileStorage` stand by themselves: the first as
`src/turnstile` does, the second because the manager sees only the set of pages that
`KeptPageReadBack` says it gets back.

### Pages

A page is one record whose unused content stays empty. The fields correspond to
`JournalPage`: `start` is `creation_timestamp`, `kids` the thrall hashes, `first` and
`last` the child times, `prev` the previous page's hash. `end_time` is a function of
the start and the level. The hash of a page is the term of what the digest covers, so
hashes are equal exactly when the digested data is; for pages with hashes and patches
the patches are *not* covered, as in the code. A leaf is its id (every leaf gets a
fresh one, which is hashed), time and `obj`; its payload either is an object with one
field that is not null (`obj` names the field) or gives no patches (`None`). Times are
natural numbers of seconds.

### TimeManager

State: `active_pages` and the store are sets of pages, `lastFinalized` joins the two
maps of ids and hashes, `nextPageId` is the generator. For every task inside
`add_leaf`, `pc`, `call`, `page` and `frames` are its place in the code, its arguments,
the page it owns, and the activations of `perform_rollup`. `Payloads` is what callers
append: any of `Objects`, or `None`.

| Place (`pc`) | Actions | Code |
|---|---|---|
| idle | `CallAddLeaf` | `append_leaf` / a caller of `add_leaf` |
| take | `TakeActivePage`, `RetireActivePage`, `FindNoActivePage` | `get_or_create_active_page_for_leaf` under the lock |
| create | `CreatePage` | the rest of it, after the lock |
| have | `PreFinalize`, `AppendLeaf` | `add_leaf` 413-449 |
| insert | `KeepActivePage` | 475-481 |
| store, track | `StorePage`, `TrackFinalized` | the three copies of finalization (in `add_leaf`, `finalize_and_rollup_page`, `perform_rollup`) |
| load | `LoadChild`, `ChildMissing` | `perform_rollup` 635-653 |
| stale | `RetireStaleParent`, `ParentNotStale` | 659-704 |
| parent | `ReuseParent`, `ReopenParent`, `CreateParent` | `get_or_create_active_parent_page` and the merge, 706-827 |
| settle | `DiscardParent`, `FinalizeParent`, `KeepParent` | 828-942 |
| return | `ReturnToParent`, `ReturnToAddLeaf` | the callers' continuation |
| store, load, create, parent | `StorageFails` | an error of `store_page`, `load_page_by_hash` (635) or `load_page` (285, 302, 358) goes up through every caller |
| any | `Restart` | the process stops; `TimeHierarchyManager::new` |

Where a step ends: at a lock of `active_pages` released, or a page written, since that
is where another task, an error or a crash comes in between. Reads of two of the three
maps that follow each other without an await in between on storage are one step, and so
are the two insertions into the id and hash maps after a store. `Reverted` is one step.
`CreatePage`, `ReopenParent` and `CreateParent` are one step each although `load_page` is
awaited between the reading of the last finalized id and the new id (285, 302, 358). Only
the new page's link to the previous one, and whether a parent is reopened, depend on that
read. With one call at a time nothing writes in between, and a page deleted
by a sweep there is as good as deleted before the step or after it; with overlapping calls
(`rollup_shared`) the properties checked do not speak of links, and a parent that is
reopened is tested against the window and its space as it was read.

### Retention

`retention` is the configuration, chosen at the start and never changed: the global
section and the policy of every level (`EffectivePolicy` is the one in force). A sweep
is `BeginSweep`, where the time is read once; then for every level `ListLevel` (or
`ListFails`, which skips the level), a `DeletePage` or `DeleteFails` for each page named
by the listing, and `NextLevel`. It holds no lock, so any step of `add_leaf` may come in
between, and a page is deleted by level and id, whatever is stored under that name by
then. A listing is one step, although `FileStorage` reads one file after the other; pages
are deleted in order of their end time under `KeepNPages` (equal ones in any order: the
sort is unstable) and in any order otherwise, as `FileStorage` lists them in the order of
the directory. Sweeps do not overlap each other.

### Turnstile

Its methods take `&mut self`, so calls do not overlap. A call is a step that changes
memory, up to `persist_state`, and a `Save...` step that writes the file and does the
rest of the call; a crash (`Restart`) or an error (`SaveFails`) can take the place of
the second. `file` is what `load_state` would read. `fs::write` truncates the file in
place, so a save that fails or is interrupted (`InterruptedWrite`) leaves the old file
or one that is `cut` off; `new_with_storage` ignores the error of `load_state` and
starts from nothing (`wiped` is history: some process has). The process that could not
write goes on with its memory, and its next save makes the file whole.
`RestartTampered` is a state file with an edited payload: another one, which is what the
code's mismatch branch (-2) is for, or text that is not JSON, on which every retry of the
entry returns the error of `compute_hash` and changes nothing (`RetryUnreadable`).
Application and database are outside the repository:
`held` are the tickets the application may still report on, at any time and either
way, also after a restart, and a retry's callback answers anything. A hash is the term <<previous hash,
kind, body>>; the kind stands for the `type` field of the turnstile's own leaves, and
a payload of the application is taken never to equal one of those. Messages,
`last_error`, and a payload that `append` refuses because it is not JSON (before it
changes anything), are left out. An orphan leaf's
message and time are not part of its term; its previous hash is, which tells any two
of them apart.

### Readers

`reader` is the call going on, or the last one with its answer; a query is a record of the
arguments. A step is what a reader does between two awaits: `List` (or `ListFails`),
the looks at the active page (`ListActive`, `HoldActive`, `ActiveId`, `ActiveLeaves`),
and the load of one page (`TryHint`, `LoadFor...`, or `LoadFails`). `AddLeafStep` is any
step of `add_leaf`, `DeletePage` a deletion by another task, `RestartAll` the end of the
process. `seen` is history and read by properties only: what the store held and what had
been accepted when the call began, and whether anything moved since.

| Query | Code |
|---|---|
| proof | `get_leaf_inclusion_proof_with_hint`: the hinted page, else active id, list, pages by id, then the leaf again by its hash |
| state | `reconstruct_container_state`: list, active id looked up in the store, pages by start |
| report | `get_delta_report_paginated` (and `get_delta_report`, which is `limit` = None): list, two looks at the active page, pages by start; the scan ends when the slice is full |
| integrity | `get_page_chain_integrity`: list, active page, pages by id |
| snapshot | `create_snapshot`: every level listed and loaded, active leaves, baselines, the page |

A query names the `api` it is made through. A synchronous journal has a manager of its own,
in which there is never an active page (`ActiveSeen`), so what it answers is about the
stored leaves; it takes part only where the store is one of files (`DirectoryOrder`, which
also lets listings come in any order).

A leaf belongs to the container `ContainerOf` its field; one whose payload is no object
counts as another container's. `snapshot.enabled` is taken as set, and what a snapshot
page says of itself is its `id`, the call number for its time, states, last leaves and
the links to the page before and to the last snapshot; no property reads the links.

### Merkle

`MerkleNodes` is the function from height to level that `MerkleTree::nodes` is, with the
last node of an odd level paired with itself; `MerkleProof` and `ProofVerifies` are
`get_proof` and `verify_merkle_proof`. Hashes are terms. The proof queries exercise them on
the leaf lists of the pages a run reaches; that they are right for lists of any length is
proved (`MerkleProofExact`).

### Startup

`conf` is the static `CONFIG`, `logger` the global logger. A configuration has the fields
that the validation reads. Paths are the cases it tells apart, `AgeLimit` stands for 2^63
(an age from there on is negative after the cast to i64), `Features` for the compression
algorithms compiled in. `InitLibrary` is `init`: the file is loaded and validated, or the
defaults are taken; with a logger in place it returns an error before `CONFIG` is set.

### Journal and LeafLog

`OpenJournal` takes the configuration in force, provided it is the one this instance is
about (`Describes`) and its backend can be made. `CallAppend` takes the mutex of
`last_leaf_hash` (`Unlocked`: nobody is inside `add_leaf`) and makes the leaf; `Proceed` is
a step of `add_leaf`, the last of which remembers the leaf's hash if it returns Ok. `links`
keeps what the leaf was given as a parent. `get_page` is two steps beside them, the store
and the active page. The synchronous `Journal` has no append: the model has it as a second
journal on the same files, whose `get_page` ends at the store (`SyncPageNotFound`); on
memory storage it would have an empty store of its own, so `ReadersAt` leaves it out.

`LeafLog` has leaves in memory, leaves in the store, and acknowledgements; the mapping is
in `Journal`: durable are the leaves of stored pages, volatile those of active pages and of
pages in a call's hand that are not stored. A cascade, a reopened parent and the reversal
of an id are stutters; storing a leaf page is `Persist`, a failed store `Fault`.

### FileStorage

A page is a key (level, id) and a content; a file is too short for a header, cut after it,
whole, or a directory. `store_page` is `BeginStore` (the file is truncated), `WriteSome` and
`FinishStore`; `backup_journal` walks the files (`ZipFile`) into `tmp`, then removes the old
archive and renames (`saved`); `restore_journal` clears the directory file by file, opens
the archive and extracts. `StoreFails`, `RenameFails`, `ExtractFails` and `CrashAndReopen`
(with a compression setting that may be another) come between any two of these. `kept`
and `promised` are history: what a caller may count on.

Assumed of the environment: one store and one backup at a time; a restore runs on a
journal that is not in use (nothing in `src/` calls it on a live one; the tests restore
into a new directory); a finished write survives the crash of the process; a search by
hash is one step.

## 3. What is checked

Every passing property has a mutant in `PROJECT.json`: a plausible bug in the mapped
code under which the same run finds it violated.

| Run | Instance | Shows |
|---|---|---|
| `rollup_inorder` | 3 levels (windows of 2, 4, 8 s), 2 items a page, 5 leaves at times 0-8 in order, one appender as in `append_leaf`, parents age with their window, one failing call of the storage | `EveryPageRolledUp`, `ChildHashesResolve`, `PageChains`, `FinalizedPagesReadOnly`, `CallsReturn` |
| `rollup_anyorder` | 3 levels, 3 leaves at times 0-5 in any order, operation times up to 1 s apart, short ages, a different content type per level, leaves with and without object payloads | `AcceptedLeafHeldOnce`, `LeafPageChain`, `NetPatchesFollowChildren`, `StoredLeavesStay` |
| `rollup_shared` | 2 levels, two overlapping calls, 3 leaves, a failing call of the storage, a restart; symmetric in the appenders | `TypeOK`, `PageBounds`, `RecursionBounded`, `LeafNeverDuplicated` |
| `retention` | 2 levels, 4 leaves in order, 2 sweeps at either of two times, a failing listing or deletion, a restart; five configurations: kept leaves under a global period, the newest page of each level, an age of 0 above a global period, no leaf pages at all, everything by age | `RetentionTypeOK`, `KeptLeavesHeldOnce`, `DeletesOldEnd`, `OnlyPolicyDeletes`, `KeptLevelsStay` |
| `readers` | 2 levels, 3 leaves in order with and without a field of the container, one query of 13 (proofs with and without a hint, states, reports with a slice, an empty range; three through a synchronous journal), file listings in any order, one fault: a failing read, a deleted page or a restart | `ReaderTypeOK`, `ReportHasStoredLeaves`, `QuietReportExact`, `StateFollowsStore`, `StoredLeafProved` |
| `snapshots` | 2 levels, patches alone on the upper one, 4 leaves at times that include the end of the first page of patches, one snapshot or integrity check (of either journal), file listings in any order, one fault | `ChainChecked`, `SnapshotFollowsStore` |
| `journal` | 20 configuration files (each limit of the validation and one step beyond it), 3 environments; 2 levels, 4 leaves in order, 2 appenders, one failing call of the storage, one reset, one `get_page` of either journal | `ConfigInForce`, `AckedLeavesChain`, `GotPageHoldsItsLeaves`, `ImplementsLog` |
| `filestorage` | a leaf page and a page of level 1, 2 contents (symmetric), compression on and off, 3 stores, a deletion, 2 backups, a restore, one fault | `KeptPageReadBack`, `BackupHoldsKeptPages`, `RestoredFilesExact` |
| `turnstile` | 2 payloads with 2 timestamps, 2 appends, `max_retries` 1 and up to 2 rejections, 2 faults (a save that fails or is cut short, a crash, an edited file) | `TypeOK`, `LedgerRooted`, `CommittedOnce`, `EventsResolve`, `TicketsKept`, `AcknowledgedStay`, `RetryBudget`, `ParkingLotEmpties` |

Why the bounds are enough. Three levels are the least in which a rollup starts a rollup
that is neither the first nor the last, and in which a stale parent's own parent can be
stale. Two items make a page fill up with the second leaf; five leaves in windows of 2,
4 and 8 seconds fill and outdate pages of every level, and 0-8 crosses a window of the
coarsest one. For leaves in any order three are enough to leave a window, come back
into it and leave it again. Two calls give every interleaving of two clones of one
page. Two faults allow a failed save followed by a crash. Two sweeps
list a level before and after a page is finalized, and the times let the first find
pages that are not yet due. Three leaves in pages of two make a reader
meet a page that is active at one of its reads and stored at another, and a full page with
the next one of its window beside it; in `snapshots`
four leaves in pages of one second finalize a page of patches before the snapshot, which
needs at least a child merged and a later one. Three stores write both files and one of
them again, under an archive; two backups are an old archive and a new one, and the
restore can come after either. The four leaves of `journal` fill a page, start the
next one and chain over a failed append. The `CHECK_DEADLOCK FALSE` of
all runs is due to the bounds: once the calls are used up and done, nothing is left to
do.

Bounds that only limit the search: `MaxLeaves`, `MaxStoreFailures`, `MaxRestarts`,
`Lateness`, `OpLag`; `MaxAppends`, `MaxAttempts` (rejections an application may still
report on an entry), `MaxFaults`; `MaxQueries`, `MaxResets`, `MaxReads`, `MaxStores`,
`MaxDeletes`, `MaxBackups`, `MaxRestores`. `Lateness = 0` and `OpLag = 0` is a caller that
appends in time order through `Journal::append_leaf`; the properties of
`rollup_inorder` need it (see the findings).

Fairness. `CallsReturn` assumes weak fairness of each task's steps: the runtime polls a
task that can go on, and a store that keeps failing ends the call. `Restart` is not
part of that run. `ParkingLotEmpties` assumes that a call in `persist_state` comes to
its end and that the retry job calls `retry_next_pending` again and again
(TURNSTILE.md describes it as a background task); nothing is assumed of the
application, which may never report. An entry it never hears of again is resolved by
the retries alone, unless its payload, or that of an older one, no longer parses
(`Blocked`).

### Where the code and its documents disagree

Three runs expect a violation, of a property taken from the repository's own words:

* `restart_overwrites`: ids start again at 0 after a restart, and stored pages are
  overwritten with their leaves (`StoredLeavesStay`).
* `late_leaf_drops_parent`: a leaf of an older window replaces an active parent that
  was never finalized; the children it had are in no parent (`EveryPageRolledUp`).
* `snapshot_forgets`: a page of patches is finalized before its last child is merged,
  and a snapshot takes it to cover that child's leaves (`SnapshotReflectsState`).
  `SnapshotFollowsStore`, which holds, has this as its condition (`BaselineIsWhole`: the
  page has everything written at a time before its end).

Divergences that have no run of their own, followed as the code has them. The first
two can be seen by giving a passing run the constants named:

* An age of 0 disables the age trigger of leaf pages only (`types/time.rs:173`): at
  `time_manager.rs:841` parents are finalized with every child, and the next child
  rewrites them. `rollup_inorder` therefore gives parents the age of their window; with
  `MaxAge` 0 `FinalizedPagesReadOnly` fails.
* "Thread-safe" (`time_manager.rs:50`): two overlapping calls of `add_leaf` on the
  manager lose an accepted leaf (`time_manager.rs:478`); `AcceptedLeafHeldOnce` fails
  with two appenders. `Journal::append_leaf` never overlaps them.
* The retry_success leaf is added after the save (`turnstile/mod.rs:288`) and is gone
  after a crash, so the saved ledger does not only grow.
* An interrupted save cuts the turnstile's state file, which is then taken for none
  (`turnstile/mod.rs:164`): the next process has no ticket, no leaf and the initial hash,
  although TURNSTILE.md:123 parks payloads "so no data is lost". `TicketsKept`,
  `AcknowledgedStay` and the second part of `CommittedOnce` hold until a process starts
  from such a file; without `~wiped` they fail in the run `turnstile`.
* A retry calls the database before it saves (`turnstile/mod.rs:281`, 287). After a crash
  or restart in between, or after a failed save, the state file has the ticket pending
  and the next process offers it to the database again, which has its row. `CommittedOnce`
  therefore speaks, over restarts, of tickets that were reported committed.
* An entry whose payload is edited into something that is not JSON stays pending for
  ever (`turnstile/mod.rs:273`, where the error returns before anything is counted), and as
  the oldest it keeps all others from being retried; only a report of the application
  resolves it. A wrong hash does give the entry up (274). `ParkingLotEmpties` fails
  without `Blocked`.
* A snapshot leaves out a leaf dated exactly at the end of the page of patches it starts
  from: ends are exclusive, so the leaf belongs to the next window (`time_manager.rs:242`),
  but only leaves later than the end are added (`snapshot_manager.rs:280`).
  `SnapshotFollowsStore` allows this leaf to be missing (`AtTheEdge`) and fails in its
  run otherwise.
* Turnstile: `prev_leaf_hash` is advanced by orphan leaves although TURNSTILE.md:365 and
  :494 call it unchanged; two outstanding tickets share an anchor, so the ledger is a
  tree (`LedgerRooted` says no more); a retry gives up at `>= max_retries`,
  `confirm_ticket` at `>`, TURNSTILE.md:433 says "exceeds"; the -2 of a mismatch is not
  saved; `append` returns an error with the ticket already pending.
* Manager: `add_leaf` returns the id of the page it finalized first and not of the page
  that took the leaf; a failing store of a retired page loses accepted leaves although
  ROLLUP.md:747 lets the caller retry (`ImplementsLog` allows just this loss).
* Queries: pages are sorted by their start, and a directory is listed in any order
  (`file.rs`), so a full page and the next one of its window are replayed in either order
  (`query/engine.rs:268`): a reconstructed state may show the earlier of two writes, and a
  report be out of order. `StateFollowsStore` and `QuietReportExact` therefore have
  `ListedInOrder` as a condition and fail without it; the memory backend lists by id,
  which is the order of making until a restart.
* Queries: a page's leaves are read up to the first that is too late, so one that came
  late behind it is missed; a state is rebuilt from the store alone; a report counts a
  page twice that is stored and still active; the integrity hash of an active leaf page
  is that of the empty page.
* Snapshots: SNAPSHOT.md:282 names the hash of a leaf page as the preceding one, the
  code takes the highest level among equals; NEXT_PAGE_ID starts at 0 again in every
  process, and a new snapshot overwrites the old one of the same id.
* Backup: README.md:87 promises "Atomic restore operations", but the directory is cleared
  before the archive is opened; the manifest (README.md:88) is never verified on restore.
  The old archive is removed before the new one is renamed, and the clean-up after a
  failing rename removes the new one as well. A crash during a restore leaves no journal
  directory, and the next backup replaces the good archive by an empty one.
* Startup: `lib.rs:64-67` says `init` fails on a file that cannot be parsed, it takes the
  defaults, which are not validated; the number of levels is not checked although a level
  is a u8, nor that `snapshot.dedicated_level` is none of them; a bare relative
  `base_path` that does not exist is refused (its parent is the empty path). The WASM
  journal is built from a parsed configuration that is never validated
  (`ffi/wasm_ffi.rs:57`).
* `sync_api.rs:70-72` promises the page or `PageNotFound`; a page that is active in the
  journal that appends is not found, whatever it holds.

## 4. What is proved

For every value of the constants that satisfies the assumptions (`ConfigAssumption` is
what `validate_time_hierarchy` accepts), from `Spec` without fairness:

`TimeManagerProofs`
* `SpecTypeOK`, `SpecRecursionBounded`. The types alone are not inductive: that the
  page being tracked belongs to the level of the frame on top, that a frame below the
  top has its child, and that a call outside the rollup has no frames have to be known
  too. `IInv` is `TypeOK` and `StackOK`: the k-th frame works on level k-1, a page in
  hand has the level of the stack's depth, a stack never exceeds the hierarchy. One
  lemma per group of actions; each step changes one call only (`Mine`, `OthersKept`).
* `SpecPageBounds`. A page is tested when it is obtained, and the test is used only
  later, by a call that has let go of the map; `BInv` adds that a page in hand is within
  its bounds, suits the leaf while the call is at "have", and has space at "insert".
  It holds because the tests are about the call's own clone, however many calls overlap.

`LeafProofs`
* `SpecLeafNeverDuplicated`, for overlapping calls, failing stores and restarts. `LInv`: a
  leaf that has not been appended is in no page, ids of leaves are not used again, and an
  occurrence of a leaf determines the id of its page and its place there. A page that
  passes from the map to a call and on to the store keeps id and leaves (`StepInherits`).
* `SerialAcceptedLeafHeldOnce`, `SerialStoredLeavesStay`, under `[]Serial` (no two calls are
  inside `add_leaf`), the second under `[]NoRestart`. `GInv` says where the page of a leaf
  can be: ids are below the generator and belong to one level, what is stored has content
  (so its id is never given back), a leaf page in hand is the active one grown or not yet
  stored, an active leaf page is not in the store. `SInv` adds that a leaf is stored once
  the rollup has begun, `AcceptedKept` that it is in some page; with `LInv` it is in one.
* `SerialLeafPageChain`, with `CInv`: the page tracked last is the tip, nothing stored
  follows it, and every leaf page still open does.

`HierarchyProofs`, under `InOrder`, `[]Serial` and, but for the third, `[]NoRestart`
* `InOrderPagesReadOnly`. `OInv`: a stored parent is full or its window ended, a call's
  trigger is the newest time, so `Reopenable` is false and no stored page is written again.
* `InOrderHashesResolve`, from `HInv`: every hash in a parent or in a frame is that of a
  stored page, and stored pages do not change.
* `InOrderPagesRolledUp`. `RollupOK`: each stored page below the root is merged in exactly
  one page around, or is the child of a frame that has not merged it yet and is merged
  nowhere; no active parent is dropped with children in it.
* `InOrderPageChains`: `CInv` again at every level, with parents in the hand of a frame.
* `SpecNetPatchesFollowChildren`, from `Spec` alone: the patches of a level 1 page are the fold of
  its children's last writes, whatever overlaps, fails or restarts. A step appends at most one
  child and merges its patches over those there; that the fold over the longer list is
  the merge is by induction over the list.

`RetentionProofs`, from `RSpec`
* `RetentionTypes`, `RetentionPageBounds`: the two invariants of `TimeManagerProofs` survive
  sweeps. No step of a rollup relies on a page being still in the store: `ShrinkOK` takes
  any pages out of it, and `SweepShrinks` shows that this is all a sweep does.
* `RetentionKeepsLevels` (`KeptLevelsStay`): the invariant is that a sweep at a level that
  keeps its pages has nothing to delete (`KeptLevelSpared`); `add_leaf` writes over a page
  only under the same level and id.
* `RetentionKeepsLeaves` (`KeptLeavesHeldOnce`), under `[]Serial`: a deletion above level 0
  takes no leaf away, because pages above have none (`ContentOK`), so `QInv` survives.
* `RetentionDeletesByPolicy` (`OnlyPolicyDeletes`), under `[]Serial`. `GInv` survives any
  deletion. `DoomedOK` keeps the reason for which a page was named: it is in the store
  under the id and window it had at the listing (`SameStart`: a page written again keeps
  them), and the n pages the policy spares are there as well and stay spared.

`JournalProofs`, from `JSpec`, for any number of callers
* `JournalIsManager`: a journal's behaviour is one of `Spec` with `[]Serial /\ []NoRestart`.
  The mutex of `Journal::append_leaf` is what the theorems above assume; so they hold of the
  journal (`JournalHoldsAcceptedLeaves`, `JournalLeafPagesChain`, `JournalStoredLeavesStay`,
  `JournalHierarchySound`).
* `JournalChainsLeaves` (`AckedLeavesChain`). `AckInv`: `last_leaf_hash` is the leaf
  acknowledged last since the last reset, the call going on has it as its parent unless
  the caller named one, and its leaf is newer than all acknowledged ones.
* `JournalImplementsLog`: initial states map to initial states; each step is a `Receive`,
  `Persist`, `Acknowledge` or `Fault` of `LeafLog`, or a stutter, by the places a step can
  move leaves between (`StepMovesLeaves`). `JournalLosesNothing` is what the log promises,
  and hence the journal: nothing acknowledged is lost while no write failed.
* `JournalGetsWholePages` (`GotPageHoldsItsLeaves`), for `OpLag = 0`: `append_leaf` passes one
  time for the leaf and the operation. `PInv`: the page whose id a caller is told has its
  leaf, wherever it is; `ReadOK`: what `get_page` owes its caller between its look at the
  store and its look at the active page.

`FileStorageProofs`, from `FSpec`
* `FilesKeepPages`, `BackupsHoldPages`, `RestoresAreExact`. `FInv`: a kept page has its file
  whole and is not being written; what a walk has still to visit is not yet needed in the
  archive and what it has visited is there; a swap in progress has the new archive whole
  under the other name; a restore's files are the archive's up to where it is.

`TurnstileProofs`
* `SpecTypeOK`, `SpecLedgerRooted`. `Sound` of memory and of the
  state file: rooted; tickets and leaves disjoint; tickets are data; and no leaf of the
  ledger chains from the last leaf. The last part is what makes a repeated `append`
  safe, and it must hold of the file as well, since a crash brings the file back.
* `SpecTicketsKept`, `SpecAcknowledgedStay`, for saves that fail or are cut short and
  any restarts. `DInv`: what was handed out or acknowledged is covered by memory, unless
  a process has started from a cut file, and by the file, unless it is cut off now; what
  is being saved is covered by memory, so that the save makes a cut file whole again.
* `SpecCommittedOnce`, from both: what was reported committed is in the ledger, and what is
  in the ledger is not pending.
* `SpecEventsResolve`, `SpecRetryBudget`: invariants of memory and file in the same way.

`ReadersProofs`, from `DSpec` (any calls of `add_leaf`, failing reads, pages deleted by another
task, restarts)
* `MerkleProofExact`, `MerkleProofSound`, for lists of any length. By induction over the
  height: climbing the proof of leaf i reaches the node over i at every level
  (`ClimbFollowsNodes`), and terms are equal only if what they cover is.
* `SpecReaderTypeOK`. `DInv` is what the proofs above say of the manager (`IInv`, `BInv`,
  `LInv`, none of which a deletion disturbs), that a page is stored once, and the types of a
  reader at each of its places (`ReaderOK`).
* `SpecStoredLeafProved`, under `[]Serial`. A reader looks at the store several times, and the
  page may be finalized, merged and written again in between. `Apart(x)` says that no call
  will write leaf x again; it holds of every leaf that was in the store when the reader began
  (`SeenApart`), for with one call at a time a page that is stored is no longer the active
  one. So a page with x that is in the store at the end was there, the same, at every look
  (`NotWritten`). `ProofOK`: the page is still to be loaded, or is the one that was loaded.
* `SpecReportHasStoredLeaves`, under `[]Serial`, for `Lateness = 0`. `ReportOK`: the leaf has
  been found, or its page is still listed. A page is read only up to its first leaf that is
  too late, hence the leaves of a page must be in order (`SortedInv`); with a late leaf the
  report ends before it (section 3).

`JournalProofs`, from `StartupSpec`
* `ConfigInForceHolds`: whatever the file, the environment and the features are, the
  hierarchy in force meets what `Pages!ConfigAssumption` asks for, which is what the
  theorems about the manager rest on. The defaults, which nothing validates, are shown to.

What these assume, and why the code justifies it:

* `Serial`: `Journal::append_leaf` holds the mutex of `last_leaf_hash` over the whole call.
  It is proved of the journal and not assumed there, and it is the reader's neighbour in
  `Readers` that is assumed to be one; the manager by itself, shared by two
  tasks, loses an accepted leaf (section 3).
* `NoRestart`: a restart forgets active pages and starts the ids again (`restart_overwrites`).
  Where the property is conditional on no restart already, it is not assumed.
* `InOrder`: `Lateness = 0`, and a parent's maximal age is at least its window. For late
  leaves the properties are false (`late_leaf_drops_parent`); a parent of a smaller age is
  finalized early and written again (section 3, an age of 0).
* `Lateness = 0` for `SpecReportHasStoredLeaves`: a report reads a page up to its first leaf that
  is too late, so one that came late behind it is missed (section 3).
* `NoneIsNoRecord`, `NoneIsNoPolicy`: `Option::None` is neither a page, nor what is
  remembered of one, nor a policy.

TLC checked each inductive invariant on the run of its module before it was proved.

Induction over data. The library's induction theorems take an operator as a parameter, which
the provers cannot instantiate. Where a proof needs induction over the numbers, it is over a
set of them: the least one outside would have a predecessor inside (`Induction` in
`TimeManagerProofs`, from the well-foundedness of < on the naturals). So what the folds of `Pages`
and the functions of `Merkle` compute is proved for lists of every length.

Model-checked only:

* `DeletesOldEnd`: while leaves come in any order and sweeps overlap appends, the argument is about
  the pages a sweep has listed but not yet deleted together with the chain that is being
  extended, under five policies.
* `QuietReportExact`, `StateFollowsStore`: they say in which order leaves are returned or applied,
  which is a statement about `SetToSortSeq` of the listing (defined by CHOOSE over
  permutations), and for a slice about positions in it.
* `ChainChecked`, `SnapshotFollowsStore`: the answer is a fold over such a list.
* Liveness (`CallsReturn`, `ParkingLotEmpties`) and anything about ENABLED, which the provers
  do not cover.

No module declares a RECURSIVE operator.

## 5. What is not modelled, and the plan

Not modelled for good: the TOML parser, error types, logging, the demo (which drives a
PostgreSQL server), the C and WASM glue, test helpers, and `time/hierarchy.rs`, whose
arithmetic the manager repeats. Left out of what is modelled: `ts_proof`, SHA-256 (taken as injective) and the Merkle tree under a page hash,
timestamps before 1970 or out of range, `storage_path = None` of the turnstile (nothing to
restart from), edits of the turnstile's state file other than of a pending payload, payloads
that are objects with several or null fields, a restore into a
journal that is in use, two backups at once, page files that are changed from outside (so that
a hash no longer fits), an error of the storage inside `get_page`, and a call of `append_leaf`
that its caller drops before it ends (a retired page that is out of the map and not yet stored
would be lost, as after a failing store).

What is left, all proofs:

1. `DeletesOldEnd`: the chain of `CInv` with the pages below the oldest one cut off, for
   sweeps that end where they began.
2. `StateFollowsStore` without its quiet part, on `FoundOrListed` of `ReadersProofs` and the order
   in which pages are taken from `todo`; then the quiet properties, for which the sorted list
   of a finite set has to be characterised first.
