# moonclip: specifications, model checking and proofs

TLA+ modules for the checkpoint store of moonclip (`src/`), the TLC
configurations that check them on small instances, and TLAPS proofs of their
central invariants. Line numbers are those of the sources in `src/`; the map in
`PROJECT.json` names, for every definition, the lines it stands for.

## 1. The system

A training process saves its state every few hundred steps. A checkpoint
(*snapshot*) is a full or a delta against the last full. A manifest lists the
snapshots; everything else follows from what it lists. Around it:

| component | source | state | operations | interacts with |
|---|---|---|---|---|
| save pipeline | `coordinator/mod.rs` `save_sync_in_pool` | the snapshot in the making, the pin on its base | choose base, write pack, record, retention, persist, wait for readers, unlink, notify | manifest lock, registry, merger channel, syncer |
| retention | `mod.rs` `apply_retention`, `manifest.rs` | none of its own | cap of fulls, cap of all, rollback and pinned exempt | inside the save, under the manifest lock |
| manifest on disk | `manifest_io.rs` | `manifest.json`, one `ranks.json` per snapshot, `ranks_written` | persist, load | every writer |
| merger | `merger.rs` | command channel, claim | stride folding, full merge (checked and forced), unlink | registry, manifest lock, pending deletes |
| in-flight registry | `inflight.rs` | pins, claims | pin, try_claim, bounded waits | save, merger, loads |
| loads | `mod.rs` `load`, `load_latest` | pins | find, pin, read, find base, read base | manifest lock, registry, merger |
| pins | `mod.rs` `set_pinned`, `sync_pins` | flag in the manifest, `pins.json` | pin, unpin | retention |
| recovery | `recovery.rs` | none | examine orphans, put back or delete | the start of a process |
| saver thread | `saver.rs` | busy flag, error, channel | submit, flush, wait_idle, shutdown | the save pipeline, all callers |
| remote sync | `remote_sync.rs` | command channel, pending deletes, save counter, the bucket | notify_save, sync_now, walk, transfers, deletes | local disk, the writers, the caller of `sync_now` |
| restore | `mod.rs` `restore_from_remote` | none | manifest, filter, files | the bucket, a new machine |
| multi-rank saves | `mod.rs` `create_snapshot`, `save_rank`, `finalize_snapshot` | unfinalised snapshots, a manifest and a merger per process | choose base, list, write the packs, collect, publish | the directory and `manifest.json` they share |
| lock healing | `mod.rs` `lock_manifest` | `manifest_stale`, poison | reread after a panic | all |
| tensor pipeline | `tensor.rs`, `mod.rs` `save_rank_tensors`, `load_in_pool`, `retain_base` | the base kept in memory | alias, skip, delta or full; encode, decode | save, load, merge |
| byte filters | `delta.rs`, `shuffle.rs`, `compression.rs`, `cast.rs`, `pack.rs`, `hash.rs` | none (pure) | XOR, byte planes, frames, casts | tensor pipeline |
| local backend | `storage.rs` | directories, files, partial files | `put` (one file operation after another), delete, `remove_dir` | the filesystem and its cache, other processes |
| S3 client | `s3.rs` | requests under way, multipart uploads | put in one request or in parts, get, exists, list, retries | the service, over a network |
| transfers | `remote_sync.rs` `copy_absent`, `copy_files`, `Budget` | bytes held, files not yet taken, the first failure | list both sides, copy what is missing, several at once | both backends |
| bindings | `python.rs`, `python/moonclip/` | - | arguments, `save_final` | the coordinator |

What is hard about it:

* **Concurrency.** Saves, merges, loads, pins and the syncer share one
  manifest and one directory. The expensive work (writing a pack, reading one,
  waiting for readers, unlinking, uploading) is done without the manifest lock,
  with decisions taken before it and published after it.
* **Several processes.** The ranks of a job, each with its copy of the manifest
  and its own merger, work on one directory; pins are not shared between them.
* **Failure.** Any storage operation may fail between two others; the process
  may be killed anywhere; the machine may be lost or lose power, with the
  filesystem's cache. A request may be lost, or its answer, or be answered 200
  with an error inside. Deletes are best effort.
* **Ordering.** "Publish first, delete after" on the disk; packs before the
  manifest in the bucket; orphans in the order of their steps at recovery.
* **Settings that change.** A process is started again over the same store with
  another compression, other casts, another state dict; old packs stay as they
  were written.
* **Waiting.** Readers are waited for with a timeout, forced merges with a
  deadline, the saver's slot and the end of the saver without one.

The properties that make each part correct are those of section 4. The hazards
they are aimed at are listed, each at its line, in `PROJECT.json`.

## 2. Modules

```
Manifest            operators of manifest.rs, no state
  ManifestLemmas      what they keep: order, last full, places
  CheckpointStore     save, retention, persist, merger, registry, loads, pins, crash, recovery
    CheckpointStoreInv   the inductive invariants StoreInv, WholeInv and AckedInv
      MCCheckpointStore     model checking
      CheckpointStoreProofs (with ManifestLemmas)
AsyncSaver          the saver thread and its callers      -> implements SaveService
  AsyncSaverInv       the inductive invariant SaverInv
    MCAsyncSaver        model checking
    AsyncSaverProofs
RemoteSync          the syncer, the bucket, restore
  RemoteSyncInv       the inductive invariant SyncInv
    MCRemoteSync        model checking
    RemoteSyncProofs
MultiRank           several ranks over one store (EXTENDS Manifest)
  MultiRankInv        the inductive invariant RankInv
    MCMultiRank         model checking
    MultiRankProofs (with ManifestLemmas)
LocalStorage        put and delete over a filesystem       -> implements FileService
  LocalStorageInv     the inductive invariant StorageInv
    MCLocalStorage      model checking
    LocalStorageProofs
S3Client            the requests of a client, the service
  Transfers           one walk of the sync                 -> implements FileService
    TransfersInv        the inductive invariants UploadInv, CopyInv and MemoryInv
      MCTransfers         model checking
      TransfersProofs
ByteFilters         XOR delta, byte planes, frames; no state
  TensorPipeline      entries of a save, loads, full merges, the base in memory
    TensorPipelineInv   the inductive invariant TensorInv
      MCTensorPipeline    model checking
      TensorPipelineProofs (also the round trips of ByteFilters)
```

### CheckpointStore

One process over one store. The state is the disk (`packs`, `ranksFiles`,
`index`, `pinsFile`), the memory (`manifest`, `written`), the threads (`saver`,
`merger` with its `inbox` and the caller of `merge_now` in `force`, one
`reader` per load) and three histories (`acked`, `leaked`, `desc`).

* A critical section under the manifest lock is one action. Retention is the
  exception: it keeps the lock over one action per iteration of its two loops
  (`lock = "saver"`), because its exemptions are computed once, before them.
* Guards of the in-flight registry live exactly as long as a phase of their
  owner, so pins and claims are functions of where the threads are (`Pinned`,
  `Doomed`).
* A snapshot is an identifier, never reused (a UUID). `desc` holds its step and
  base, as the descriptor inside its pack does. Its pack is there or not: puts
  are atomic (`storage.rs:281-339`).
* Every storage write or delete has a variant that fails, halfway where the
  code can stop halfway (`PersistFails`). `Crash` may come between any two
  actions; `Open` is `Coordinator::new` with load and recovery. A start may also
  leave files it could not delete (`OpenLitters`), write nothing or a part of what it
  recovered back and run on (`OpenUnwritten`), fail to list the directory (`OpenBlind`), or
  be killed midway, with any of its deletes done, or all of them and the first of its
  writes (`StartKilled`). Each of these is one step: nothing else runs then.
  Reads do not fail (section 6).
* Snapshots of one process with `world_size = 1` are always finalised; the
  operators of `Manifest` keep `fin` apart from `snaps` for `MultiRank`.

### AsyncSaver and SaveService

`AsyncSaver` has one action per critical section of `saver.rs`; a wait on the
condition variable is a guard. `SaveService` says what a caller is promised: one
save at a time, written or failed, a failure told exactly once and before the
next save. The merger and the syncer die apart (`dead`). The refinement mapping
takes `accepted` to the job that holds the slot, `failed` to the error nobody has taken.

### RemoteSync

The bucket, the syncer with its queue of commands, the walk with several
transfers at once, the manifest read and put as two steps, the deletes, the
reply to `sync_now`; beside it the two threads that write and unlink, and the
loss of the machine with the restore on another. `Transfers` files are held at
once, each read before it is written. How retention and the merger choose what
to drop is CheckpointStore's: here any choice that keeps the bases of what stays.

### MultiRank

Every rank is a process: `mem[r]` is its manifest, `merger[r]` its merger,
`rank[r]` its `save_rank`, whose pin nobody else sees. `save` is the save as
rank 0 goes through it: `ChoosesBase` and `Lists` are the two critical
sections of `create_snapshot`, `Collects` is `collect_rank_shards`,
`Publishes`/`FailsToPublish` and `Unlinks` are `finalize_snapshot` with
retention. The barriers of `pytorch.py` are guards on the other ranks. A merger
works on the copy its process has (`Claims`, `MergesPack`, `PublishesMerge`,
`UnlinksMerged`, `Folds`); only `save_rank` and `finalize_snapshot` reload it.
`Restarts` kills the job and lets rank 0 recover, with the packs of the
other ranks found on the disk.

The index is written in one step: the order of its files is CheckpointStore's,
as are loads, user pins and rollback snapshots. Retention is a recursive
function here, of the same operators of `Manifest`. A notification that finds the merger
busy waits for it (`want = "again"`); those after it are the same look again, and are not
counted.

### FileService, LocalStorage

`FileService` is what the coordinator takes for granted: a file is one of the things
somebody put there or nothing, and what a put that is answered for left is still there
after a crash. `LocalStorage` has `write_parts` one file operation at a time, for
several calls at once: record the missing directories, make them, create the
partial file, write, sync, rename (with the retries of Windows), sync the
directory, sync the parents of the directories it made. Beside it: the start of a process,
which makes the root (`Opens`), `delete`, `remove_dir`, readers that hold a file open, a
kill of any of the calls, a power cut.

* Any operation up to the rename may fail, the making of the directories halfway,
  and the error goes to the caller. A sync of a directory that fails does not:
  `sync_dir` drops its error (`storage.rs:149-153`), and `BestEffort` either syncs or
  notes in `loose` that nobody will, and the put goes on to its Ok.
* The root, and what holds it, may be there for long, or be made by the start of a
  process, as `with_page_size` does with `create_dir_all` and no sync
  (`storage.rs:108`): then their entries are `loose` from the start, and a
  power cut may take the whole store.
* `dirs` and `file` are what processes see. `maybeDir` and `maybeFile` are what a
  power cut may leave of each entry: a change adds an outcome, a sync of the
  directory that holds it keeps the last. Entries are lost independently, the
  least a filesystem promises. Data that was not synced may come back as zeros.
* The walk up to the first existing directory is one step; `MOONCLIP_FSYNC=0` is
  the constant `Fsync`, and promises nothing. On Windows directories cannot be synced
  and the code does not try: the journal of NTFS is trusted, so no power
  cut is modelled there.
* `acked` is what a returned put answers for: a put none of whose syncs was refused, in
  directories that nobody still owes a sync, that were not refused one, and that are
  not those of a new root (`Named`). A put that finds a directory which another put
  has made and not yet synced syncs only what it made itself. All other puts return
  Ok as well and answer for nothing (section 4): `ImplementsFileService` and `Durability`
  say nothing of what they wrote after a power cut. `OkIsDurable`, the same without
  conditions, does not hold.

### S3Client and Transfers

`S3Client` has the calls of several threads over one bucket, one request per
step: the client's `do_request` with its attempts, `put` in one request or
`put_multipart` with create, parts, complete and abort, `get`, `exists`, `list`
page by page; and the service, which carries a request out (`Effect`). A
request may be lost (`RequestLost`), its answer may be (`AnswerLost`), it may be
refused, answered with what cannot be read, or answered 200 with an error in the
body (`CompleteFails`). Somebody may abort old uploads (`Sweeps`).

`Transfers` is `copy_absent` and `copy_files` over it, in both directions: the two
listings, or one `exists` per file when the second fails; the transfers, the
bytes they take from `Budget` and wait for, files deleted between listing and
reading, the first failure, panics. It refines what RemoteSync takes as one
read and one write per file.

* A key stands for its content: files of a store are written once. (`manifest.json`
  and `pins.json` are put by `RemoteSync`.)
* A page of a listing that says there is more and not where ends the listing as if it were
  whole (`CutShort`, `s3.rs:811-820`). Then a file that is there may be copied again; in
  a pull it is missed, and the walk's Ok is about what was listed.
* A panic takes a transfer anywhere in a read or a write, between `create` and `abort`
  too: the upload is lost with it (`Panics`, `orphans`). The look at the failure flag and the
  claim of the next file (`remote_sync.rs:575-578`) are one step: nothing is decided
  between them that another transfer could see.
* A request the client gave up on is not carried out later, and a completed upload
  answers 404 to a second complete.
* `call[c]` is one record per thread: which request, of which key, upload and part,
  at which attempt, and what the answer said.

### ByteFilters and TensorPipeline

What CheckpointStore calls "writing a pack" and "reading a pack". A save takes
any state (a subset of `Names` with values in `Tensors`), any choice of the
tensor that stores what several share (the order of the state dict), any verdict
of `pays_off`; it writes one entry per name. `Load` and `Merge` read them with
the packs' algorithms, `retained` is `retained_base`. A `Restart` changes
compression, casts and `keep_base_in_memory`, as a new process may.

* A byte is a bit: XOR and the byte planes never mix two of them. A hash is the
  bytes it stands for. A frame is its content behind a magic number, which is
  all that reading it with the wrong algorithm depends on.
* A wide element has two bytes. `half` keeps the upper one, `quant` a multiple
  of a scale taken from the tensor: one cast that is self-describing, one whose
  bytes mean nothing without their scale.
* An operation that may fail returns the set of its results, empty on failure: a cast
  refuses data that ends within an element (`Castable`), and the save fails.
* Each operation is one step; what happens to it when others merge, evict or
  crash is CheckpointStore's, where packs are never rewritten.

## 3. Bounds and fairness

Identifiers, saves, steps, faults, crashes, pins, forced merges, syncs, losses
are bounded by constants named `Max...`, spent in the guards.

* Store: 4 saves (3 in `store_concurrent`) give a full, its deltas, a second full and,
  with the merged snapshots, 6 or 8 identifiers: enough for a merge to race a
  save that diffs against its base, for both retention passes to work in one save and
  for a folded chain. One reader is one more pin than the save has. One fault and two
  kills are spent anywhere, a start included: a start may fail, or be killed midway and
  followed by one that is not, and what the second kill finds has been through a recovery.
* Saver: 2 callers and 3 saves let two submits wait for one slot while the
  error of a third is pending.
* Remote: 3 snapshots are a full, a delta and the full they are merged into;
  2 transfers let one fail while the other writes; one fault and one loss fall
  on any step. `remote_live` has 2 snapshots and a `pins.json`.
* Ranks: 2, 5 saves and 7 identifiers, one fault and one restart anywhere: a full, two
  deltas, their merge while the next delta is chosen, listed or written, and a
  save after that. The same run passes with 3 ranks and 4 saves (1.2 million states), and
  with 2 faults (3.8 million).
* Local store: 2 puts, of a pack two directories below the root or of `manifest.json` in the
  root, which is new or old; 2 operations, kills or power cuts that go wrong, so that a
  put can fail or be killed and the power go after that, and any number of syncs that
  are refused; a rename that is refused once (`Patience`) and goes through, or is given
  up on.
* Transfers: files of 1 and 2 bytes, which fit the budget of 3 together, and one of 4,
  larger than the budget, whose size the listing does not give, in two parts; so
  two may be in memory at once, and one may fail while the other writes. 2 transfers
  instead of 8, since
  the third would only wait with the second; 2 faults and 2 attempts instead of 3, so
  that a retry may succeed, or be given up on and be followed by one failure more.
  Pages of 2 keys.
* Tensors: 2 names and 3 values suffice for every kind of entry: two floats that
  are multiples of each other (quantized to the same bytes under two scales) and
  the bytes of one of them under a type that is not cast. 3 saves and a merge
  give a full, a delta, a delta over the merged full; one restart falls
  anywhere. All values have four bytes, whole elements: those that end within one, which
  only a save without casts stores, are left to the theorems (`UnshuffleInverts`,
  `Soundness`, `Faithfulness`), which hold for every length. Every tensor reaches
  `DELTA_MIN_SIZE`, cast or not: smaller ones are
  neither shared nor diffed, and stored in full or skipped.

Fairness is what the threads give:

* `SaverStep`, `MergerStep`, `LoadStep(r)`, `CallStep(c)`, `WorkerStep`,
  `SyncerStep`, `WalkStep`, `WorkerStep(w)`: a thread that can go on does (weak).
  Nothing obliges a caller to call, a request to fail or a bounded wait to time out.
* `ClientStep(c)` (weak): a request ends, in an answer or a timeout; the client sets
  one.
* `Step(p)` of `LocalStorage` (weak): operations on the filesystem return.
  Nobody is obliged to close a file held open: a put ends all the same.
* `ForceGivesUp` (strong): a forced merge that is refused again and again runs
  out of its deadline, which is a clock, even if between two refusals it is
  not waiting (`merger.rs:201-237`).
* `Open` (weak): a killed process is started again.
* With two callers at the saver's slot, weak fairness per caller suffices
  because the saves are finite; on an endless run the condition variable
  promises no order, and the code does not either. `Budget` is the same: the files are
  finite.

## 4. Runs

| run | shows |
|---|---|
| `store_concurrent` | With a reader, both merges, pins, rollback snapshots and timeouts: what is listed is readable (`ListedIsReadable`), what is pinned is on disk (`PinnedIsPresent`), retention spares what it exempts (`RetentionSpares`); saves end and `merge_now` answers (`SavesEnd`, `ForcedMergesEnd`). |
| `store_crash` | With a fault and two kills anywhere, in the middle of a start too: the inductive invariant (`WholeInv`), the index on disk loads (`IndexIsReadable`), an acknowledged save is never lost (`AckedSurvives`), no file is forgotten (`FilesAreAccountedFor`), a start deletes no complete snapshot, however it ends (`RecoverySparesComplete`). |
| `async_saver` | The inductive invariant (`SaverInv`), an Ok hides nothing (`OkMeansSettled`), the saver implements its service with fairness (`ImplementsService`), calls return (`CallsReturn`), dropping ends (`DropEnds`). |
| `remote_sync` | The inductive invariant (`SyncInv`), what `sync_now` acknowledged can be restored until this store drops it (`SyncedIsDurable`), a restored machine can load what it lists (`ListedIsReachable`) and diff against its base (`BaseIsLocal`), the bucket does not grow beyond the disk (`BucketIsBounded`), deleted files do not come back (`DeletedStaysDeleted`). |
| `remote_live` | With `pins.json` among the files, every `sync_now` returns (`SyncNowEnds`). |
| `tensor_data` | The inductive invariant (`TensorInv`), every snapshot loads what was saved (`LoadIsFaithful`), the base in memory is the base on disk (`RetainedIsBase`), a merged full loads as the delta it replaces (`MergeStandsIn`). |
| `multi_rank` | A finalized snapshot has every pack and every base (`FinalizedIsWhole`), the base a rank is reading stays on disk although no other process sees the pin (`RanksDiffLiveBase`), a finalize that returned Ok is never forgotten (`AckedIsListed`), finalized entries stay in the order of their steps (`TypeOK`, part of the inductive invariant `RankInv`). |
| `local_storage` | With failures, refused syncs, kills and power cuts anywhere, over a root that is new or old: the inductive invariant (`StorageInv`), partial files belong to somebody (`PartialFilesHaveAnOwner`), the store is a `FileService` that answers for the puts whose syncs were all carried out (`ImplementsFileService`), every put ends (`PutsEnd`). |
| `transfers` | The bytes in memory fit the budget (`MemoryIsBounded`), a walk that returns Ok copied what it listed (`DoneMeansCopied`), no upload is left behind that could be aborted (`UploadsHaveAnOwner`), the bucket is a `FileService` (`ImplementsFileService`), every walk ends (`WalkEnds`). |

Runs that end in a violation: what a comment or a doc of the repository says and the
code does not do.

| run | what happens |
|---|---|
| `store_retention` | Pass 1 of retention evicts the snapshot just saved when all other fulls are protected; the save returns Ok (`mod.rs:1941`). |
| `tensor_merge` | After a restart with another compression a full merge reads old packs with the new setting: from zstd to none it stores frames as tensors and unlinks the originals (`merger.rs:765`). |
| `rank_merge` | `save_final` asks every rank for a merge; a rank other than 0 merges on its own copy of the manifest and persists it. What rank 0 finalized meanwhile is listed without its packs, or not as finalized (`merger.rs:886`). `multi_rank` merges on rank 0 alone. |

A configuration disables deadlock checking where the system may stop: all
bounds are spent, the walk has ended, or the saver has been dropped.

### Known gaps without a run of their own

Each of these can be reproduced with the modules as they are; none is part of a
passing run's claim.

* *A run that went back in steps.* Recovery admits orphans by step, meets a delta
  before its base and deletes a complete checkpoint (`recovery.rs:186`).
  `RecoverySparesComplete` fails in `MCCheckpointStore` with `Rewind = TRUE`,
  `MaxIds = 5`, `MaxFull = 2`, `MaxDeltasPerFull = 3`, `FullEvery = 6`,
  `MaxTotal = 4`, no rollback, readers, pins or forced merges, `Stride = 2`,
  `MaxChainDepth = 9`, `MaxStep = 3`, `MaxSaves = 3`, `MaxFaults = 2`,
  `MaxCrashes = 1`.
* *The last save of a run.* `save_final` returns without an error although its
  checkpoint failed: `merge_now` and `sync_now` wait without taking the error
  (`mod.rs:418`, `pytorch.py:1213-1223`). Invariant `FinalIsSaved` of `AsyncSaver`,
  one caller, `MaxJobs = 2`.
* *A sync cut short.* The deletes of a merge reach the bucket before the manifest
  that no longer names the files; a machine lost then leaves nothing to restore
  (`remote_sync.rs:180`, against 447-450). `BackupSurvives` of `RemoteSync` with
  `SyncEvery = 2`, `Transfers = 2`, `MaxSnaps = 3`, `MaxSyncs = 1`, no pins, faults or
  losses.
* *A base that is merged while it is chosen.* `create_snapshot` chooses its base in one
  critical section and lists the delta in the next; a merge may claim and publish
  between them, and the snapshot is finalized with a base that is gone (`mod.rs:719`;
  the comment at 755-760, "Rank 0 already refused a doomed base in
  `create_snapshot`; this covers a merge that starts afterwards", passes over a claim
  made in between). `EveryFinalizedLoads` in `MultiRank.cfg`. The properties of
  `multi_rank` leave these snapshots out by name (`overtaken`) and hold of all others.
* *A failed multi-rank save* leaves its entry unfinalized, and no merge of that base
  happens until retention drops the group; `merger.rs:651-652` calls that
  condition temporary.
* *`pins.json`* is rewritten by every pin but skipped by name once the bucket has one, so
  only its first version is ever uploaded (`remote_sync.rs:541`; its comment at 464-467
  counts one rewritten file, `manifest.json`).
* *Retries of POST.* `s3.rs:356-357` says that every request is idempotent. A create
  whose answer was lost begins a second upload and forgets the first (the
  `orphans` of `UploadsHaveAnOwner`); a complete whose answer was lost is answered 404
  the second time, and the put fails although the object is there.
* *A sync that is refused.* `sync_dir` drops the error of a filesystem that will not sync a
  directory, and `put` returns Ok for a file, or a new directory, whose name may not be on
  the device (`storage.rs:149-153`, 319-336). The code says so and means it, "should not
  fail a checkpoint over it"; the caller is not told.
* *The directory of a new store.* `with_page_size` makes the root and what is missing above it and
  syncs none of their entries (`storage.rs:108`); every put finds them existing and
  skips them too. A power cut may take a store whose puts all returned Ok, until
  something else makes the filesystem write that entry. The comment at
  158-172 gives the reason why a new directory's parent must be synced.
  This gap, the one before and the one after it are the three conditions of `Named`:
  `OkIsDurable`, which has none, fails as a property under `LocalStorage.cfg`.
* *A directory two puts need.* A put syncs the names of the directories it made. One
  that finds a directory another put made and has not yet synced returns Ok before that
  name is on the device (`storage.rs:173`; `Named` in `LocalStorage`).
* *Partial files of a killed process* are hidden from `list` and removed by nothing; they
  also keep their directory (`storage.rs`; `PartialFilesHaveAnOwner` says whose they
  are).
* *Twins.* A tensor whose name matches no cast rule is "stored as it arrived"
  (`cast.rs:131`), except when it equals another tensor with a rule: duplicates are
  found before the cast and inherit their owner's (`tensor.rs:173`); `LoadIsFaithful`
  allows for it by name.

## 5. Proofs

`CheckpointStoreProofs` proves, for any set of readers, any caps, any stride and any
bounds, from `ManifestAssumption` and `StoreAssumption` alone:

* `TypeCorrect`: `Spec => []TypeOK`.
* `InvariantHolds`: `Spec => []StoreInv`. `ListedIsReadable` is not inductive:
  a save records a delta whose base it chose long before, so one needs that
  the base is still listed, hence that nobody claims what is pinned
  (`SaveIsSound`), that no delta appears on a claimed full
  (`MergeIsSound`), that whoever unlinks has first left manifest and index and seen
  that nobody is inside (`PinsAreSound`), and that identifiers are fresh
  (`NamesAreFresh`). The proof has a step per action; the lemmas on what each
  operator of `Manifest` drops are in `ManifestLemmas`.
* `ListedReadable`, `IndexReadable`, `PinnedPresent`: the three properties the
  invariant is for.
* `FilesAccounted`: `Spec => []FilesAreAccountedFor`, through `FilesAreHeld`, which
  says exactly when a thread has a file in hand (a recorded save has not, a merge that
  was published has what it replaced).
* `RetentionSparesExempt`: `Spec => RetentionSpares`. What is exempt is decided once and
  then compared with a list that moves: dropping a snapshot that is not exempt makes
  nothing else exempt (`RollbackShrinks`), so what was protected at the start covers
  it throughout (`RetentionIsBound`).
* `OrderHolds`: `Spec => []OrderInv`. The list is a vector: no two snapshots in one
  place, none past the end, through `push`, `retain`, the stable sort and recovery. If no
  run goes back in steps, they grow along it and from a base to its delta, and
  nothing is ahead of the clock. What `Vec` operations do to places is counted with
  cardinalities (`DropOrder`, `PushOrder`, `SortOrder`, `Ends`).
* `RecoverySpares`: assuming `~Rewind`, `Spec => RecoverySparesComplete`: a base is older
  than its delta, so a start looks at it first, in whatever order a `HashMap` gives; a start that
  fails or is killed deletes a part of what a whole one would (`Tidies`, `StartsTidy`).
  With `Rewind` the property fails (section 4).
* `AckedStays`: assuming `NothingExempt`, `MaxFull # 0` and `~Rewind`,
  `Spec => []AckedSurvives`. The property needs the first two: under a cap of no
  fulls, or beside older fulls that are pinned or kept for a rollback, retention takes the
  snapshot just saved (`store_retention`), whose save returns Ok all the same. The
  third makes "newest in the list" and "newest by step" the same. The
  argument: something as new as what was acknowledged is listed in memory and on
  disk (`Covers`). Retention spares the snapshot just recorded and the last full, which
  is its base (`LastStaysLast`); a fold drops nothing newer than the delta that
  survives; a merged full is as new as all it replaces, and goes before the base of a
  save in flight (`MergedGoesBefore`): either it takes the last full along or is
  older than it.

`MultiRankProofs` proves, for any number of ranks, saves, faults and kills, any caps and any
stride, from `MultiRankAssumption` and `OneMerger` (only the caller of rank 0 asks for
merges; `rank_merge` shows what happens otherwise):

* `RankInvariant`: `Spec => []RankInv`. Every process has a list of its own, so what one
  may rely on is what all lists agree on. Whenever rank 0 has listed a snapshot that
  others write, its list is the index they read (`ListsInv`); what a merge or
  retention gives up is in neither before its files go (`MergeInv`, `SaveInv`); a base is
  finalized, older, and a full for good, and the packs were diffed against the base of the
  descriptor or, by rank 0, against nothing (`NamesInv`); and no merge claims the base
  of what is listed, which is the only thing that keeps the merger away from a pin it
  cannot see (`MergeInv`, last line, and `RanksInv`). The snapshots that slip in between the two
  sections of `create_snapshot` are `overtaken`: nothing is claimed of their bases.
  `apply_retention` is a recursive function here; `Turns` shows that such a function does
  what its definition says at every turn, `TurnsStay` that it stays in a set no turn leaves,
  and so what retention leaves has whole chains in the old order (`RetainedIsPruned`).
* `RankTypes`, `FinalizedStaysWhole`, `RanksReadLiveBase`: its consequences.
* `AckedStaysListed`: assuming also `NoRollback` and `MaxFull # 0`,
  `Spec => []AckedIsListed`, along the argument of `AckedStays`: retention spares the
  newest and its base (`RetainedKeepsNewest`), a merged full covers what it was made of.
  One thing differs: nobody pins the base between the two sections of `create_snapshot`,
  so a merge may take it; then nothing is diffed against its successor as long as that save
  lasts, and no merge can claim the successor (`LastStaysLast`).

`RemoteSyncProofs` proves, for any number of snapshots, transfers, calls, faults and
losses of the machine, from `SyncAssumption` alone:

* `SyncInvariant`: `Spec => []SyncInv`. Files, the manifest and the deletes reach the bucket
  by different ways, so what it can restore depends on how far each has come
  (`AskedInv` for the call under way, `BucketInv` for all that were answered Ok).
  A manifest names whole chains only (`IsManifest`), read by the syncer at one time
  and put at a later one; the base of the next save stays on the disk because a merge
  takes it with its deltas or is older (`SaverInv`, `MergerInv`, `UpInv`); a file that
  has to leave the bucket has left the disk for good (`DeadInv`), as names are not used
  twice (`WriterInv`).
* `DurableStays`, `ListedStaysReachable`, `BaseStaysLocal`, `BillIsBounded`,
  `DeletedForGood`: the properties of `remote_sync` (`BillInv` for the fourth).

`AsyncSaverProofs` proves, for any set of callers and any number of saves:

* `SaverInvariant`: the slot is in exactly one place (`SlotInv`), a save is
  accepted only when no error is pending (`ErrorInv`), identifiers are used
  once (`FreshInv`), what a call owes is never forgotten (`OwedInv`).
* `OneInFlight`, `OkIsSettled`: its consequences.
* `ImplementsServiceSafely`: every step is a step of `SaveService` or a stutter.

`TensorPipelineProofs` begins with the filters: `Unshuffle` inverts `Shuffle` for every length and
width (`UnshuffleInverts`: positions are recomposed from quotient and remainder),
a delta inverts (`DeltaInverts`) and a frame does (`FrameInverts`).

It then proves, for any names, tensors, settings and bounds, from
`TensorAssumption` and `~MergeAnyAlgo` (a merge meets snapshots of its own
algorithm only; `tensor_merge` shows what happens otherwise):

* `Soundness`: `Spec => []TensorInv`. That a snapshot loads depends on another
  one: a skip needs that its full still has the bytes, behind an alias or not
  (`KnownTo`), a delta that the full has, under the same name, the very bytes it
  was computed against (`IsDelta`), also when they came from memory
  (`RetainedSound`). So the invariant says what each kind of entry relies on,
  and is kept because a merge takes a full only together with all of its deltas
  (`BaseSound`).
* `Faithfulness`, `Retention`, `StandingIn`: the properties it is for.

`LocalStorageProofs` proves, for any tree of directories, any number of puts,
and any number of failures, kills and power cuts, from `StorageAssumption` alone:

* `StorageInvariant`: `Spec => []StorageInv`. That a power cut takes nothing
  answered for depends on every directory above the file, up to the root and beyond. A
  directory whose name may be lost is owed by some call or loose (`DirsAreOwed`), since
  whoever makes it has recorded it as missing before (`MkdirInv`, which needs that the
  directories above a file form a chain), or made it as part of the root, for
  nobody to sync; a call that climbs has synced its file and what it no
  longer owes, unless a sync was refused to it (`ClimbInv`); so when it returns, none
  was refused, and nobody else owes or has left loose a directory
  it relies on, there is one outcome left for each entry above the file (`AckedInv`).
  Which syncs are refused, and whether the root is new, is left open: no assumption
  excludes either.
  Nothing unflushed is ever renamed (`FlushInv`).
* `PartialFilesOwned`: its consequence for partial files (`TempInv`).
* `Durability`: assuming `Fsync`, `Spec => ImplementsFileService`: a rename is
  `Replace`, the return of a put `Acknowledge` if `Named` holds, a power cut `Crash`; all other
  steps stutter. It promises durability to exactly the puts that are `Named`; that
  content is whole it promises of all.

`TransfersProofs` proves, for any files, sizes, limits, transfers and faults, from
`S3Assumption` and `TransfersAssumption` alone (the latter says that there are finitely
many workers, at least one, that the walk is not one of them, and that the budget has a
byte):

* `PartsFit`: `part_size_for` never cuts an object into more parts than
  `MAX_PARTS` less the headroom, never below the minimum size, and the parts hold all
  of it and less than one part more.
* `UploadInvariant`: `Spec => []UploadInv`. An unfinished upload belongs to a call
  that has its identifier *and* is at a part, the complete or the abort
  (`OwnerInv`): every way out of `put_multipart` before the upload is gone goes
  through the abort. It needs what fields a call has at each request
  (`CallShape`), that a transfer moves on only when its request is over (`BusyInv`)
  and that files come from a listing (`FileShape`).
* `UploadsOwned`, `BucketIsFileService`: the two properties it is for. The latter
  rests on `BucketInv`: a put is answered Ok only in a step in which the object is
  stored, the retry of one that was stored before included.
* `CopyInvariant`, `DoneIsCopied`: `Spec => []CopyInv` and with it `DoneMeansCopied`.
  A file that was listed is at the destination, not yet taken, in a worker's hands, gone
  from the source, or the failure of somebody is already noted (`Accounted`), and a
  walk ends in Ok only when the last three are empty. It needs what each answer says
  of its key to whoever asked (`WalkHears`, `WorkerHears`).
* `MemoryInvariant`, `MemoryFits`: `Spec => []MemoryInv` and with it `MemoryIsBounded`.
  What `Budget` counts is the sum of what the files in memory asked for, never above
  the limit, through takes, failures and panics (`BudgetInv`). Nobody asks for less than
  the file has, except that a file above the limit, or of unknown size, asks for all
  of it and so shares the memory with files of no bytes only. The sum is a fold over
  a set: `SumFacts` is shown by taking a function on subsets that adds one member at
  a time (`Adds`) and, for its existence, a smallest set that has none
  (`SmallestSet`).

Only model-checked: all liveness (so the fairness half of `ImplementsService`), and
`AckedSurvives` and `AckedIsListed` with pins or rollback fulls.

Induction: a set of naturals that is not empty has a least member (`LeastNumber`, from the
library's well-founded induction), which is enough for "the first" and "the last" of a
vector, for the turns of `apply_retention` and for a sum over a finite set. What other
recursive definitions compute for every input stays with TLC.

## 6. Not modelled, and the plan

Left out for good: signing, XML text, ETags and credentials (`s3.rs`), the thread
pool, profiling, error types, argument conversion, GPU staging, log lines, direct
I/O, the arithmetic of the float formats, the content of zstd frames, the estimate of
`pays_off`.

In this order:

1. *Reads that fail.* A read error while an orphan is examined deletes it
   (`recovery.rs:23`); the stores of the models fail on writes and deletes only.
2. *ManifestHealing*: the poisoned lock, `manifest_stale`, the reread
   (`mod.rs:521`). A panic leaves any prefix of the statements of a critical section,
   which the models take as one step.
3. *Remote*: a save while a restore works on its copy of the manifest
   (`mod.rs:1536`), fetches of single snapshots,
   ranged reads, the deletes of the bucket request by request, `sync_prefix` over the
   caller's own files.
4. A second process that writes `pins.json`.
5. Proofs: `AckedSurvives` with pins, under a policy that leaves retention something else
   to evict.
