-------------------------- MODULE CheckpointStore ---------------------------
(***************************************************************************)
(* One process with one store (world_size = 1): the save pipeline and its  *)
(* retention, the background merger, loads, pins, and a crash with the     *)
(* recovery that follows it.  The actors share                             *)
(*   - the manifest in memory, under the manifest lock,                    *)
(*   - the in-flight registry (src/src/inflight.rs): who reads what, and   *)
(*     which snapshots a merge has claimed,                                *)
(*   - the disk: packs, ranks.json files, the index (manifest.json) and    *)
(*     pins.json.                                                          *)
(* A critical section is one action, except the retention loops: they hold *)
(* the lock over one action per iteration.  Work done without the lock     *)
(* (reading, writing a pack, waiting for readers, unlinking) is made of    *)
(* actions of its own, so that everything else may come in between.        *)
(***************************************************************************)
EXTENDS Manifest, Sequences

CONSTANTS
    Readers,        \* threads that load
    Stride,         \* MergerConfig.stride
    MaxChainDepth,  \* MergerConfig.max_chain_depth
    Timeouts,       \* may a bounded wait expire?
    Rewind,         \* may a save go back in steps (a rolled back run)?
    MaxStep,        \* bound: the largest step of a save
    MaxSaves,       \* bound: saves started
    MaxFaults,      \* bound: storage operations that fail
    MaxCrashes,     \* bound: times the process is killed
    MaxPinCalls,    \* bound: calls of pin and unpin
    MaxForces       \* bound: calls of merge_now

ASSUME StoreAssumption ==
    /\ Stride \in Nat
    /\ MaxChainDepth \in Nat
    /\ Timeouts \in BOOLEAN
    /\ Rewind \in BOOLEAN
    /\ {MaxStep, MaxSaves, MaxFaults, MaxCrashes, MaxPinCalls, MaxForces} \subseteq Nat

VARIABLES
    packs,       \* disk: snapshots whose pack is complete
    ranksFiles,  \* disk: snapshots whose ranks.json is there
    index,       \* disk: the manifest as manifest.json has it
    pinsFile,    \* disk: pins.json
    manifest,    \* memory: the manifest
    written,     \* memory: Manifest.ranks_written
    lock,        \* who keeps the manifest lock over several actions
    desc,        \* the step and the base of every identifier taken so far
    nextId,      \* the next fresh identifier
    saver,       \* the save pipeline
    merger,      \* the merger thread
    inbox,       \* the merger's command channel
    force,       \* the caller of merge_now
    reader,      \* the loads
    up,          \* is the process running?
    clock,       \* the step of the last save, of the newest snapshot after a start
    acked,       \* the step of the last save that returned Ok, kept over crashes
    leaked,      \* snapshots whose files were knowingly left behind
    budget       \* what is left of each bound on the environment

disk    == <<packs, ranksFiles, index, pinsFile>>
memory  == <<manifest, written>>
names   == <<desc, nextId>>
threads == <<saver, merger, inbox, force, reader>>
vars    == <<disk, memory, lock, names, threads, up, clock, acked, leaked, budget>>

\* wait_idle: no save in flight.
IdleSaver  == [pc |-> "idle", id |-> None, evicted |-> {}, protected |-> {}]
IdleMerger == [pc |-> "idle", claim |-> {}, left |-> {}, last |-> None, id |-> None,
               forced |-> FALSE]
IdleReader == [pc |-> "idle", id |-> None]

-----------------------------------------------------------------------------
(* The in-flight registry.  A PinGuard lives exactly as long as a phase of *)
(* its owner, and so does a ClaimGuard: who is where says what is pinned.  *)

BaseOf(i) == IF desc.base[i] = None THEN {} ELSE {desc.base[i]}

\* From the choice of the base until the save is recorded.
SaverPins ==
    IF saver.pc \in {"write", "record", "fulls", "total", "persist"}
    THEN BaseOf(saver.id) ELSE {}

\* pin_and_fetch's guard, which outlives the one load_in_pool nests in it.
ReaderPins(r) ==
    IF reader[r].pc \in {"pinned", "found", "base", "rebase"}
    THEN {reader[r].id} \cup BaseOf(reader[r].id) ELSE {}

Pinned == SaverPins \cup UNION {ReaderPins(r) : r \in Readers}

Doomed == merger.claim

-----------------------------------------------------------------------------
(* Storage.                                                                *)

Spend(what) == /\ budget[what] > 0
               /\ budget' = [budget EXCEPT ![what] = @ - 1]

Unwritten(m) == m.fin \ written

\* manifest_io::persist: the ranks of every snapshot that has no file yet,
\* then the index, replaced whole.
Persist(m) ==
    /\ ranksFiles' = ranksFiles \cup Unwritten(m)
    /\ written' = (written \cup m.fin) \cap m.snaps
    /\ index' = m

\* It stops at the first write that fails: some of the ranks files, or all
\* of them and no index.
PersistFails(m) ==
    /\ Spend("fault")
    /\ \E got \in SUBSET Unwritten(m) :
        /\ ranksFiles' = ranksFiles \cup got
        /\ written' = IF got = Unwritten(m)
                      THEN (written \cup m.fin) \cap m.snaps ELSE written
    /\ UNCHANGED index

\* One snapshot of unlink_snapshots: its pack, then its ranks.json.
UnlinkFiles(i) ==
    /\ packs' = packs \ {i}
    /\ ranksFiles' = ranksFiles \ {i}
    /\ UNCHANGED <<leaked, budget>>

\* A failed delete is ignored, and the file stays.
UnlinkFails(i) ==
    /\ Spend("fault")
    /\ \/ /\ i \in packs
          /\ ranksFiles' = ranksFiles \ {i}
          /\ UNCHANGED packs
       \/ /\ i \in ranksFiles
          /\ packs' = packs \ {i}
          /\ UNCHANGED ranksFiles
    /\ leaked' = leaked \cup {i}

-----------------------------------------------------------------------------
(* A save: Core::save_sync_in_pool.                                        *)

Fresh(step, base) ==
    /\ nextId <= MaxIds
    /\ desc' = [desc EXCEPT !.step[nextId] = step, !.base[nextId] = base]
    /\ nextId' = nextId + 1

SaveSteps == IF Rewind THEN 1 .. MaxStep ELSE {clock + 1} \cap (1 .. MaxStep)

\* Mutant: a base a merge has claimed is picked up all the same.
BaseForDoomedToo(step) ==
    IF ShouldForceFull(manifest, desc, step) THEN None ELSE LastFull(manifest, desc)

\* The base of a save at `step`: none if a full is forced, and none if a
\* merge has claimed the last full.
BaseFor(step) ==
    LET full == LastFull(manifest, desc)
    IN  IF ShouldForceFull(manifest, desc, step) \/ full \in Doomed THEN None ELSE full

\* Choosing the base and pinning it are one critical section.
SaveBegin ==
    /\ up /\ lock = "free" /\ saver.pc = "idle"
    /\ Spend("save")
    /\ \E step \in SaveSteps :
        /\ Fresh(step, BaseFor(step))
        /\ clock' = step
    /\ saver' = [IdleSaver EXCEPT !.pc = "write", !.id = nextId]
    /\ UNCHANGED <<disk, memory, lock, merger, inbox, force, reader, up, acked, leaked>>

\* save_rank_tensors: the base is read off the disk for the diff, then the
\* pack is put in one piece.  A base that is not there is an error.
WritePack ==
    /\ up /\ saver.pc = "write"
    /\ IF BaseOf(saver.id) \subseteq packs
       THEN /\ packs' = packs \cup {saver.id}
            /\ saver' = [saver EXCEPT !.pc = "record"]
       ELSE /\ saver' = IdleSaver
            /\ UNCHANGED packs
    /\ UNCHANGED <<ranksFiles, index, pinsFile, memory, lock, names, merger, inbox,
                   force, reader, up, clock, acked, leaked, budget>>

WritePackFails ==
    /\ up /\ saver.pc = "write"
    /\ Spend("fault")
    /\ saver' = IdleSaver
    /\ UNCHANGED <<disk, memory, lock, names, merger, inbox, force, reader, up, clock,
                   acked, leaked>>

PinsOnDisk(m) == IF pinsFile.present THEN SyncPins(m, desc, pinsFile.steps) ELSE m

\* The push, then apply_retention up to its first loop.  What it may not
\* drop is decided once, before anything goes.
RecordSave ==
    /\ up /\ lock = "free" /\ saver.pc = "record"
    /\ LET m == PinsOnDisk(Push(manifest, saver.id, TRUE))
       IN  /\ manifest' = m
           /\ saver' = [saver EXCEPT !.pc = "fulls",
                                     !.protected = ProtectedIds(m, desc)]
    /\ lock' = "saver"
    /\ UNCHANGED <<disk, written, names, merger, inbox, force, reader, up, clock, acked,
                   leaked, budget>>

\* pins.json cannot be read: the save fails, and the push stands.
RecordSaveFails ==
    /\ up /\ lock = "free" /\ saver.pc = "record"
    /\ Spend("fault")
    /\ manifest' = Push(manifest, saver.id, TRUE)
    /\ saver' = IdleSaver
    /\ UNCHANGED <<disk, written, lock, names, merger, inbox, force, reader, up, clock,
                   acked, leaked>>

\* Mutant: the second round of retention forgets what the first one evicted.
EvictForgets(gone) ==
    /\ manifest' = Drop(manifest, gone)
    /\ saver' = [saver EXCEPT !.evicted = gone]
    /\ UNCHANGED <<disk, written, lock, names, merger, inbox, force, reader, up, clock,
                   acked, leaked, budget>>

Evict(gone) ==
    /\ manifest' = Drop(manifest, gone)
    /\ saver' = [saver EXCEPT !.evicted = @ \cup gone]
    /\ UNCHANGED <<disk, written, lock, names, merger, inbox, force, reader, up, clock,
                   acked, leaked, budget>>

RetentionMovesTo(pc) ==
    /\ saver' = [saver EXCEPT !.pc = pc]
    /\ UNCHANGED <<disk, memory, lock, names, merger, inbox, force, reader, up, clock,
                   acked, leaked, budget>>

\* Pass 1: while there are too many fulls, the oldest one that is not
\* protected goes, with every delta against it.
EvictGroup ==
    LET full == OldestRemovableFull(manifest, desc, saver.protected)
    IN  /\ up /\ saver.pc = "fulls"
        /\ OverFullCap(manifest, desc) /\ full # None
        /\ Evict(GroupOf(manifest, desc, full))

FullsCapped ==
    /\ up /\ saver.pc = "fulls"
    /\ \/ ~OverFullCap(manifest, desc)
       \/ OldestRemovableFull(manifest, desc, saver.protected) = None
    /\ RetentionMovesTo("total")

\* Pass 2: while there are too many snapshots, the oldest one that nothing
\* depends on goes, alone.
EvictOldest ==
    LET oldest == OldestRemovable(manifest, desc, saver.protected)
    IN  /\ up /\ saver.pc = "total"
        /\ OverTotalCap(manifest) /\ oldest # None
        /\ Evict({oldest})

TotalCapped ==
    /\ up /\ saver.pc = "total"
    /\ \/ ~OverTotalCap(manifest)
       \/ OldestRemovable(manifest, desc, saver.protected) = None
    /\ RetentionMovesTo("persist")

\* Mutant: the lock is held over an unlink that waits for readers.
PersistSaveKeepsLock ==
    /\ up /\ saver.pc = "persist"
    /\ Persist(manifest)
    /\ saver' = [saver EXCEPT !.pc = "unlink", !.protected = {}]
    /\ lock' = IF saver.evicted = {} THEN "free" ELSE "saver"
    /\ acked' = desc.step[saver.id]
    /\ UNCHANGED <<packs, pinsFile, manifest, names, merger, inbox, force, reader,
                   up, clock, leaked, budget>>

\* The lock is released, the base unpinned, and only then is anything
\* unlinked.
PersistSave ==
    /\ up /\ saver.pc = "persist"
    /\ Persist(manifest)
    /\ saver' = [saver EXCEPT !.pc = "unlink", !.protected = {}]
    /\ lock' = "free"
    /\ acked' = desc.step[saver.id]
    /\ UNCHANGED <<packs, pinsFile, manifest, names, merger, inbox, force, reader, up,
                   clock, leaked, budget>>

\* Mutant: what was evicted is unlinked although the index still names it.
PersistSaveFailsUnlinks ==
    /\ up /\ saver.pc = "persist"
    /\ PersistFails(manifest)
    /\ saver' = [saver EXCEPT !.pc = "unlink", !.protected = {}]
    /\ lock' = "free"
    /\ UNCHANGED <<packs, pinsFile, manifest, names, merger, inbox, force, reader, up,
                   clock, acked, leaked>>

\* What was evicted is gone from memory and still in the index: its files
\* are left alone.
PersistSaveFails ==
    /\ up /\ saver.pc = "persist"
    /\ PersistFails(manifest)
    /\ saver' = IdleSaver
    /\ lock' = "free"
    /\ leaked' = leaked \cup saver.evicted
    /\ UNCHANGED <<packs, pinsFile, manifest, names, merger, inbox, force, reader, up,
                   clock, acked>>

\* unlink_snapshots, with RETENTION_UNLINK_WAIT.
SaveReadersGone ==
    /\ up /\ saver.pc = "unlink"
    /\ saver.evicted \cap Pinned = {}
    /\ saver' = [saver EXCEPT !.pc = "unlinking"]
    /\ UNCHANGED <<disk, memory, lock, names, merger, inbox, force, reader, up, clock,
                   acked, leaked, budget>>

SaveUnlinkTimesOut ==
    /\ up /\ Timeouts /\ saver.pc = "unlink"
    /\ saver.evicted \cap Pinned # {}
    /\ leaked' = leaked \cup saver.evicted
    /\ saver' = [saver EXCEPT !.pc = "unlinking", !.evicted = {}]
    /\ UNCHANGED <<disk, memory, lock, names, merger, inbox, force, reader, up, clock,
                   acked, budget>>

SaveUnlinkOne ==
    /\ up /\ saver.pc = "unlinking"
    /\ \E i \in saver.evicted :
        /\ UnlinkFiles(i) \/ UnlinkFails(i)
        /\ saver' = [saver EXCEPT !.evicted = @ \ {i}]
    /\ UNCHANGED <<index, pinsFile, memory, lock, names, merger, inbox, force, reader,
                   up, clock, acked>>

\* The merger is notified last.
SaveEnd ==
    /\ up /\ saver.pc = "unlinking" /\ saver.evicted = {}
    /\ saver' = IdleSaver
    /\ inbox' = Append(inbox, "check")
    /\ UNCHANGED <<disk, memory, lock, names, merger, force, reader, up, clock, acked,
                   leaked, budget>>

SaverStep ==
    \/ WritePack \/ RecordSave
    \/ EvictGroup \/ FullsCapped \/ EvictOldest \/ TotalCapped
    \/ PersistSave \/ SaveReadersGone \/ SaveUnlinkOne \/ SaveEnd

SaverFault == WritePackFails \/ RecordSaveFails \/ PersistSaveFails \/ SaveUnlinkTimesOut

-----------------------------------------------------------------------------
(* The merger thread: DeltaMerger, do_stride_merge, do_full_merge_within.  *)

Command(c) == inbox # <<>> /\ Head(inbox) = c

ReadyFor(c) ==
    /\ up /\ merger.pc = "idle" /\ Command(c)
    /\ inbox' = Tail(inbox)

ChainTooDeep == Cardinality(PendingDeltas(manifest, desc)) >= MaxChainDepth

\* What a stride merge would drop now, if it should run and can.
Foldable ==
    IF \/ Stride = 0
       \/ Cardinality(PendingDeltas(manifest, desc)) < Stride
       \/ Superseded(manifest, desc) \cap Pinned # {}
    THEN {}
    ELSE Superseded(manifest, desc)

\* The depth limit comes first, whatever the stride.
CheckChain ==
    /\ ReadyFor("check") /\ lock = "free"
    /\ ChainTooDeep
    /\ merger' = [IdleMerger EXCEPT !.pc = "full"]
    /\ UNCHANGED <<disk, memory, lock, names, saver, force, reader, up, clock, acked,
                   leaked, budget>>

NothingToFold ==
    /\ ReadyFor("check") /\ lock = "free"
    /\ ~ChainTooDeep /\ Foldable = {}
    /\ UNCHANGED <<disk, memory, lock, names, saver, merger, force, reader, up, clock,
                   acked, leaked, budget>>

\* Claimed and published in one critical section; unlinked after it.
FoldStride ==
    /\ ReadyFor("check") /\ lock = "free"
    /\ ~ChainTooDeep /\ Foldable # {}
    /\ LET m == Drop(manifest, Foldable)
       IN  /\ manifest' = m
           /\ Persist(m)
    /\ merger' = [IdleMerger EXCEPT !.pc = "unlink", !.claim = Foldable, !.left = Foldable]
    /\ UNCHANGED <<packs, pinsFile, lock, names, saver, force, reader, up, clock, acked,
                   leaked, budget>>

\* The list in memory is put back.
FoldStrideFails ==
    /\ ReadyFor("check") /\ lock = "free"
    /\ ~ChainTooDeep /\ Foldable # {}
    /\ PersistFails(Drop(manifest, Foldable))
    /\ UNCHANGED <<packs, pinsFile, manifest, lock, names, saver, merger, force, reader,
                   up, clock, acked, leaked>>

TakeForce ==
    /\ ReadyFor("force")
    /\ merger' = [IdleMerger EXCEPT !.pc = "full", !.forced = TRUE]
    /\ UNCHANGED <<disk, memory, lock, names, saver, force, reader, up, clock, acked,
                   leaked, budget>>

\* Mutant: the caller of a forced merge is never told.
EndMergeSilently ==
    /\ merger' = IdleMerger
    /\ UNCHANGED force

\* The claim is dropped, and a caller that waits for the outcome has it.
EndMerge ==
    /\ merger' = IdleMerger
    /\ force' = IF merger.forced THEN "none" ELSE force

MergeBase == LastFull(manifest, desc)

MergeDeltas == DeltasOf(manifest, desc, MergeBase)

MergeClaim == {MergeBase} \cup MergeDeltas

LastDelta == Last(manifest, MergeDeltas)

NothingToMerge == MergeBase = None \/ LastDelta = None

\* Mutant: the claim does not ask who is inside.
MergeBusyUnpinned == Unfinalized(manifest, desc, MergeBase) # {}

\* A rank that has not finalized, or somebody inside the inputs.
MergeBusy == Unfinalized(manifest, desc, MergeBase) # {} \/ MergeClaim \cap Pinned # {}

FullMergeSkips ==
    /\ up /\ lock = "free" /\ merger.pc = "full"
    /\ NothingToMerge
    /\ EndMerge
    /\ UNCHANGED <<disk, memory, lock, names, saver, inbox, reader, up, clock, acked,
                   leaked, budget>>

\* An opportunistic merge stands down, a forced one waits for a reader to
\* leave, a second at most, and tries again.
FullMergeBusy ==
    /\ up /\ lock = "free" /\ merger.pc = "full"
    /\ ~NothingToMerge /\ MergeBusy
    /\ IF merger.forced
       THEN merger' = [merger EXCEPT !.pc = "busy"] /\ UNCHANGED force
       ELSE EndMerge
    /\ UNCHANGED <<disk, memory, lock, names, saver, inbox, reader, up, clock, acked,
                   leaked, budget>>

ForceRetries ==
    /\ up /\ merger.pc = "busy"
    /\ merger' = [merger EXCEPT !.pc = "full"]
    /\ UNCHANGED <<disk, memory, lock, names, saver, inbox, force, reader, up, clock,
                   acked, leaked, budget>>

\* FORCED_MERGE_WAIT is over.
ForceGivesUp ==
    /\ up /\ Timeouts /\ merger.pc = "busy"
    /\ EndMerge
    /\ UNCHANGED <<disk, memory, lock, names, saver, inbox, reader, up, clock, acked,
                   leaked, budget>>

\* The merged snapshot is a full at the step of the newest delta.
FullMergeClaims ==
    /\ up /\ lock = "free" /\ merger.pc = "full"
    /\ ~NothingToMerge /\ ~MergeBusy
    /\ Fresh(desc.step[LastDelta], None)
    /\ merger' = [merger EXCEPT !.pc = "write", !.claim = MergeClaim,
                                !.last = LastDelta, !.id = nextId]
    /\ UNCHANGED <<disk, memory, lock, saver, inbox, force, reader, up, clock, acked,
                   leaked, budget>>

\* Without the lock: the newest delta and the base are read, the merged pack
\* is put.  Retention does not look at claims, so they may be gone.
WriteMerged ==
    /\ up /\ merger.pc = "write"
    /\ IF {merger.last} \cup BaseOf(merger.last) \subseteq packs
       THEN /\ packs' = packs \cup {merger.id}
            /\ merger' = [merger EXCEPT !.pc = "publish"]
            /\ UNCHANGED force
       ELSE /\ EndMerge
            /\ UNCHANGED packs
    /\ UNCHANGED <<ranksFiles, index, pinsFile, memory, lock, names, saver, inbox,
                   reader, up, clock, acked, leaked, budget>>

WriteMergedFails ==
    /\ up /\ merger.pc = "write"
    /\ Spend("fault")
    /\ EndMerge
    /\ UNCHANGED <<disk, memory, lock, names, saver, inbox, reader, up, clock, acked,
                   leaked>>

MergedManifest ==
    SortByStep(Push(Drop(manifest, merger.claim), merger.id, TRUE), desc)

\* Published before anything it replaces is deleted.
PublishMerged ==
    /\ up /\ lock = "free" /\ merger.pc = "publish"
    /\ manifest' = MergedManifest
    /\ Persist(MergedManifest)
    /\ merger' = [merger EXCEPT !.pc = "unlink", !.left = merger.claim]
    /\ UNCHANGED <<packs, pinsFile, lock, names, saver, inbox, force, reader, up, clock,
                   acked, leaked, budget>>

PublishMergedFails ==
    /\ up /\ lock = "free" /\ merger.pc = "publish"
    /\ PersistFails(MergedManifest)
    /\ EndMerge
    /\ leaked' = leaked \cup {merger.id}
    /\ UNCHANGED <<packs, pinsFile, manifest, lock, names, saver, inbox, reader, up,
                   clock, acked>>

\* Mutant: the claim is taken for the wait.
MergeReadersIgnored ==
    /\ up /\ merger.pc = "unlink"
    /\ merger' = [merger EXCEPT !.pc = "unlinking"]
    /\ UNCHANGED <<disk, memory, lock, names, saver, inbox, force, reader, up, clock,
                   acked, leaked, budget>>

\* unlink_snapshots, with UNLINK_WAIT or what is left of the forced budget.
MergeReadersGone ==
    /\ up /\ merger.pc = "unlink"
    /\ merger.claim \cap Pinned = {}
    /\ merger' = [merger EXCEPT !.pc = "unlinking"]
    /\ UNCHANGED <<disk, memory, lock, names, saver, inbox, force, reader, up, clock,
                   acked, leaked, budget>>

MergeUnlinkTimesOut ==
    /\ up /\ Timeouts /\ merger.pc = "unlink"
    /\ merger.claim \cap Pinned # {}
    /\ leaked' = leaked \cup merger.claim
    /\ EndMerge
    /\ UNCHANGED <<disk, memory, lock, names, saver, inbox, reader, up, clock, acked,
                   budget>>

MergeUnlinkOne ==
    /\ up /\ merger.pc = "unlinking"
    /\ \E i \in merger.left :
        /\ UnlinkFiles(i) \/ UnlinkFails(i)
        /\ merger' = [merger EXCEPT !.left = @ \ {i}]
    /\ UNCHANGED <<index, pinsFile, memory, lock, names, saver, inbox, force, reader, up,
                   clock, acked>>

MergeEnd ==
    /\ up /\ merger.pc = "unlinking" /\ merger.left = {}
    /\ EndMerge
    /\ UNCHANGED <<disk, memory, lock, names, saver, inbox, reader, up, clock, acked,
                   leaked, budget>>

MergerStep ==
    \/ CheckChain \/ NothingToFold \/ FoldStride \/ TakeForce
    \/ FullMergeSkips \/ FullMergeBusy \/ ForceRetries \/ FullMergeClaims
    \/ WriteMerged \/ PublishMerged
    \/ MergeReadersGone \/ MergeUnlinkOne \/ MergeEnd

MergerFault ==
    \/ FoldStrideFails \/ WriteMergedFails \/ PublishMergedFails
    \/ ForceGivesUp \/ MergeUnlinkTimesOut

-----------------------------------------------------------------------------
(* The callers: merge_now, pin and unpin, load.                            *)

\* merge_now waits for the save in flight, then queues the command.  Bound:
\* one command at a time.
CallMergeNow ==
    /\ up /\ saver.pc = "idle" /\ force = "none"
    /\ ~merger.forced /\ \A k \in 1 .. Len(inbox) : inbox[k] # "force"
    /\ Spend("force")
    /\ force' = "waiting"
    /\ inbox' = Append(inbox, "force")
    /\ UNCHANGED <<disk, memory, lock, names, saver, merger, reader, up, clock, acked,
                   leaked>>

\* FORCED_MERGE_WAIT + FORCED_MERGE_GRACE: the caller stops waiting, the
\* command stays.
CallerStopsWaiting ==
    /\ up /\ Timeouts /\ force = "waiting"
    /\ force' = "none"
    /\ UNCHANGED <<disk, memory, lock, names, saver, merger, inbox, reader, up, clock,
                   acked, leaked, budget>>

\* Mutant: the base's flag is set with the delta's, full or not.
RepinnedWithBase(step, on) ==
    LET target == PinTarget(manifest, desc, step)
        both   == {target, desc.base[target]}
    IN  [manifest EXCEPT !.pinned = IF on THEN @ \cup both ELSE @ \ both]

Repinned(step, on) ==
    LET target == PinTarget(manifest, desc, step)
    IN  [manifest EXCEPT !.pinned = IF on THEN @ \cup {target} ELSE @ \ {target}]

\* What pins.json says after the call; without a file it starts from the
\* manifest's flags.
PinnedSteps(m, step, on) ==
    LET steps == IF pinsFile.present
                 THEN pinsFile.steps
                 ELSE {desc.step[i] : i \in m.pinned \cap m.fin}
    IN  [present |-> TRUE, steps |-> (steps \ {step}) \cup (IF on THEN {step} ELSE {})]

\* set_pinned: the flag, the manifest if the flag changed, then the file.
SetPinned ==
    /\ up /\ lock = "free"
    /\ Spend("pin")
    /\ \E step \in 1 .. MaxStep, on \in BOOLEAN :
        LET m == Repinned(step, on)
        IN  /\ PinTarget(manifest, desc, step) # None
            /\ manifest' = m
            /\ pinsFile' = PinnedSteps(m, step, on)
            /\ IF m = manifest
               THEN UNCHANGED <<ranksFiles, written, index>>
               ELSE Persist(m)
    /\ UNCHANGED <<packs, lock, names, threads, up, clock, acked, leaked>>

\* The manifest could not be written, and the flag stands in memory only; or
\* it was, and pins.json was not.
SetPinnedFails ==
    /\ up /\ lock = "free"
    /\ budget["pin"] > 0
    /\ \E step \in 1 .. MaxStep, on \in BOOLEAN :
        LET m == Repinned(step, on)
        IN  /\ PinTarget(manifest, desc, step) # None /\ m # manifest
            /\ manifest' = m
            /\ PersistFails(m) \/ (Spend("fault") /\ Persist(m))
    /\ UNCHANGED <<packs, pinsFile, lock, names, threads, up, clock, acked, leaked>>

\* A load starts from an identifier that was listed when the caller looked:
\* load_latest's, taken under the lock and kept after it, or an earlier
\* list_snapshots's.  flush comes first.
LoadBegin(r) ==
    /\ up /\ lock = "free" /\ saver.pc = "idle" /\ reader[r].pc = "idle"
    /\ \E i \in manifest.fin :
        reader' = [reader EXCEPT ![r] = [pc |-> "picked", id |-> i]]
    /\ UNCHANGED <<disk, memory, lock, names, saver, merger, inbox, force, up, clock,
                   acked, leaked, budget>>

LoadMovesTo(r, pc) ==
    /\ reader' = [reader EXCEPT ![r].pc = pc]
    /\ UNCHANGED <<disk, memory, lock, names, saver, merger, inbox, force, up, clock,
                   acked, leaked, budget>>

\* pin_and_fetch: found and pinned in one critical section.
LoadPins(r) ==
    /\ up /\ lock = "free" /\ reader[r].pc = "picked"
    /\ LoadMovesTo(r, IF reader[r].id \in manifest.snaps THEN "pinned" ELSE "unlisted")

\* load_in_pool looks it up a second time.
LoadFinds(r) ==
    /\ up /\ lock = "free" /\ reader[r].pc = "pinned"
    /\ LoadMovesTo(r, IF reader[r].id \in manifest.snaps THEN "found" ELSE "notfound")

\* Its own pack.  A delta whose tensors were all stored in full needs no base.
LoadReads(r) ==
    /\ up /\ reader[r].pc = "found"
    /\ IF reader[r].id \in packs
       THEN \/ LoadMovesTo(r, "loaded")
            \/ BaseOf(reader[r].id) # {} /\ LoadMovesTo(r, "base")
       ELSE LoadMovesTo(r, "missing")

\* The base's entries, under the lock again.
LoadFindsBase(r) ==
    /\ up /\ lock = "free" /\ reader[r].pc = "base"
    /\ LoadMovesTo(r, IF BaseOf(reader[r].id) \subseteq manifest.snaps
                      THEN "rebase" ELSE "notfound")

LoadReadsBase(r) ==
    /\ up /\ reader[r].pc = "rebase"
    /\ LoadMovesTo(r, IF BaseOf(reader[r].id) \subseteq packs THEN "loaded" ELSE "missing")

\* The call returns: the data, or an error.
LoadEnd(r) ==
    /\ up /\ reader[r].pc \in {"loaded", "unlisted", "notfound", "missing"}
    /\ reader' = [reader EXCEPT ![r] = IdleReader]
    /\ UNCHANGED <<disk, memory, lock, names, saver, merger, inbox, force, up, clock,
                   acked, leaked, budget>>

LoadStep(r) ==
    LoadPins(r) \/ LoadFinds(r) \/ LoadReads(r) \/ LoadFindsBase(r) \/ LoadReadsBase(r)
        \/ LoadEnd(r)

-----------------------------------------------------------------------------
(* A crash, and the start that follows: Coordinator::new, with             *)
(* load_manifest and recover_or_reclaim_orphans.                           *)

\* SIGKILL: the disk is what is left.  A put is atomic (a temporary file,
\* fsync, a rename), so nothing is half written.
Crash ==
    /\ up /\ Spend("crash")
    /\ up' = FALSE
    /\ manifest' = EmptyManifest /\ written' = {}
    /\ lock' = "free"
    /\ saver' = IdleSaver /\ merger' = IdleMerger /\ inbox' = <<>> /\ force' = "none"
    /\ reader' = [r \in Readers |-> IdleReader]
    /\ clock' = 0
    /\ leaked' = {}
    /\ UNCHANGED <<disk, names, acked>>

\* manifest_io::load: what has no readable ranks.json is dropped, with the
\* deltas on it.  A store without an index is an empty one.
LoadedManifest ==
    Drop(index, {i \in index.snaps : ~({i} \cup BaseOf(i) \subseteq ranksFiles)})

\* Directories under snapshots/ that the manifest does not name, and those
\* of them that hold a complete pack.
Orphans == (packs \cup ranksFiles) \ LoadedManifest.snaps

Intact == Orphans \cap packs

\* The order they are looked at: by step, and between equal steps in the
\* order a HashMap happens to give.
TieBreaks ==
    {t \in [Intact -> 1 .. Cardinality(Intact)] :
        \A i, j \in Intact : t[i] = t[j] => i = j}

Earlier(t, i, j) ==
    \/ desc.step[i] < desc.step[j]
    \/ desc.step[i] = desc.step[j] /\ t[i] < t[j]

\* Mutant: only what the loaded manifest lists counts as a base.
RecoveredOntoListed(t) ==
    {i \in Intact : BaseOf(i) \subseteq LoadedManifest.snaps}

\* A delta goes back only if its base is listed by then.
Recovered(t) ==
    {i \in Intact :
        \A b \in BaseOf(i) :
            b \in LoadedManifest.snaps \/ (b \in Intact /\ Earlier(t, b, i))}

\* Pushed in that order, and then all sorted by step.
RecoveredManifest(t) ==
    LET back   == Recovered(t)
        pushed == [LoadedManifest EXCEPT
                    !.snaps = @ \cup back,
                    !.fin = @ \cup back,
                    !.pos = [i \in SnapIds |->
                        IF i \in back
                        THEN Cardinality(LoadedManifest.snaps)
                             + Cardinality({j \in back : ~Earlier(t, i, j)})
                        ELSE LoadedManifest.pos[i]]]
    IN  IF back = {} THEN LoadedManifest ELSE SortByStep(pushed, desc)

\* What was not recovered, while `back` was, is deleted, but for the packs of
\* P and the ranks.json of R; of what was, the ranks.json of W are written.
Reclaims(back, P, R, W) ==
    /\ packs' = packs \ (Orphans \ (back \cup P))
    /\ ranksFiles' = (ranksFiles \ (Orphans \ (back \cup R))) \cup W

\* Packs and ranks.json of which none was recovered.
SomeLeft(F, back) == SUBSET ((F \cap Orphans) \ back)

\* persist goes along the vector, and may not come to its end.
Prefixes(t, back) ==
    {W \in SUBSET back : \A i \in W : \A j \in back \ W : Earlier(t, i, j)}

NewestStep(m) == IF Newest(m) = None THEN 0 ELSE desc.step[Newest(m)]

Starts(m) ==
    /\ manifest' = m
    /\ up' = TRUE
    /\ clock' = NewestStep(m)
    /\ UNCHANGED <<pinsFile, lock, names, threads, acked>>

\* Nothing is written back unless something was recovered.
Recovers(t, back, P, R) ==
    /\ Reclaims(back, P, R, back)
    /\ Starts(RecoveredManifest(t))
    /\ written' = manifest'.snaps
    /\ index' = IF back = {} THEN index ELSE manifest'
    /\ leaked' = P \cup R

Open ==
    /\ ~up
    /\ \E t \in TieBreaks : Recovers(t, Recovered(t), {}, {})
    /\ UNCHANGED budget

\* Files that could not be deleted: it is logged, they are left to the next
\* start.
OpenLitters ==
    /\ ~up
    /\ Spend("fault")
    /\ \E t \in TieBreaks :
        LET back == Recovered(t)
        IN  \E P \in SomeLeft(packs, back), R \in SomeLeft(ranksFiles, back) :
                P \cup R # {} /\ Recovers(t, back, P, R)

\* What was recovered could not be written back, or not all of it: it is
\* logged, and the process runs on with what it has in memory.
OpenUnwritten ==
    /\ ~up
    /\ Spend("fault")
    /\ \E t \in TieBreaks :
        LET back == Recovered(t)
        IN  /\ back # {}
            /\ Starts(RecoveredManifest(t))
            /\ \E W \in Prefixes(t, back) :
                /\ Reclaims(back, {}, {}, W)
                /\ written' = IF W = back THEN manifest'.snaps ELSE LoadedManifest.snaps
    /\ leaked' = {}
    /\ UNCHANGED index

\* The process is killed as it starts: among the deletes, which a HashMap
\* orders, or among the writes that follow.
StartKilled ==
    /\ ~up
    /\ Spend("crash")
    /\ \E t \in TieBreaks :
        LET back == Recovered(t)
        IN  \/ \E P \in SomeLeft(packs, back), R \in SomeLeft(ranksFiles, back) :
                    Reclaims(back, P, R, {})
            \/ \E W \in Prefixes(t, back) : Reclaims(back, {}, {}, W)
    /\ UNCHANGED <<index, pinsFile, memory, lock, names, threads, up, clock, acked, leaked>>

\* snapshots/ could not be listed: the manifest stands as it was loaded, and
\* what it does not name stays.
OpenBlind ==
    /\ ~up
    /\ Spend("fault")
    /\ manifest' = LoadedManifest
    /\ written' = LoadedManifest.snaps
    /\ up' = TRUE
    /\ clock' = NewestStep(LoadedManifest)
    /\ leaked' = Orphans
    /\ UNCHANGED <<disk, lock, names, threads, acked>>

Start == Open \/ OpenLitters \/ OpenUnwritten \/ OpenBlind \/ StartKilled

-----------------------------------------------------------------------------
Init ==
    /\ packs = {} /\ ranksFiles = {} /\ index = EmptyManifest
    /\ pinsFile = [present |-> FALSE, steps |-> {}]
    /\ manifest = EmptyManifest /\ written = {} /\ lock = "free"
    /\ desc = [step |-> [i \in SnapIds |-> 0], base |-> [i \in SnapIds |-> None]]
    /\ nextId = 1
    /\ saver = IdleSaver /\ merger = IdleMerger /\ inbox = <<>> /\ force = "none"
    /\ reader = [r \in Readers |-> IdleReader]
    /\ up = TRUE /\ clock = 0 /\ acked = 0 /\ leaked = {}
    /\ budget = [save |-> MaxSaves, fault |-> MaxFaults, crash |-> MaxCrashes,
                 pin |-> MaxPinCalls, force |-> MaxForces]

Next ==
    \/ SaveBegin \/ SaverStep \/ SaverFault
    \/ MergerStep \/ MergerFault
    \/ CallMergeNow \/ CallerStopsWaiting
    \/ SetPinned \/ SetPinnedFails
    \/ \E r \in Readers : LoadBegin(r) \/ LoadStep(r)
    \/ Crash \/ Start

Spec == Init /\ [][Next]_vars

\* The threads run, readers finish what they started, and a forced merge that
\* is refused over and over runs out of its deadline.  The process is started
\* again.  No call has to be made, nothing has to fail, and no other wait has
\* to time out.
Fairness ==
    /\ WF_vars(SaverStep)
    /\ WF_vars(MergerStep)
    /\ \A r \in Readers : WF_vars(LoadStep(r))
    /\ SF_vars(ForceGivesUp)
    /\ WF_vars(Open)

FairSpec == Spec /\ Fairness

-----------------------------------------------------------------------------
(* Properties.                                                             *)

\* Every variable holds a value of its kind.
TypeOK ==
    /\ packs \subseteq SnapIds /\ ranksFiles \subseteq SnapIds
    /\ index \in Manifests /\ manifest \in Manifests
    /\ pinsFile \in [present : BOOLEAN, steps : SUBSET Nat]
    /\ written \subseteq SnapIds
    /\ lock \in {"free", "saver"}
    /\ desc \in Descriptors
    /\ nextId \in 1 .. MaxIds + 1
    /\ saver \in [pc : {"idle", "write", "record", "fulls", "total", "persist",
                         "unlink", "unlinking"},
                   id : SnapIds \cup {None},
                   evicted : SUBSET SnapIds,
                   protected : SUBSET (SnapIds \cup {None})]
    /\ merger \in [pc : {"idle", "full", "busy", "write", "publish", "unlink",
                          "unlinking"},
                    claim : SUBSET SnapIds, left : SUBSET SnapIds,
                    last : SnapIds \cup {None}, id : SnapIds \cup {None},
                    forced : BOOLEAN]
    /\ inbox \in Seq({"check", "force"})
    /\ force \in {"none", "waiting"}
    /\ reader \in [Readers -> [pc : {"idle", "picked", "pinned", "found", "base",
                                     "rebase", "loaded", "unlisted", "notfound",
                                     "missing"},
                               id : SnapIds \cup {None}]]
    /\ up \in BOOLEAN
    /\ clock \in Nat /\ acked \in Nat
    /\ leaked \subseteq SnapIds
    /\ budget \in [{"save", "fault", "crash", "pin", "force"} -> Nat]

\* What the manifest in memory lists can be loaded: its pack is on disk, and
\* the base it was computed against is listed too.  A save records a delta
\* long after it chose the base; a merge or retention may have dropped it.
ListedIsReadable ==
    \A i \in manifest.snaps : i \in packs /\ BaseOf(i) \subseteq manifest.snaps

\* Whenever the process is killed, what the index names can be loaded after
\* the restart: pack, ranks.json and base.  "Publish first, delete after",
\* with writes that fail and two threads that both drop snapshots.
IndexIsReadable ==
    \A i \in index.snaps :
        i \in packs /\ i \in ranksFiles /\ BaseOf(i) \subseteq index.snaps

\* No file goes while somebody who pinned it is inside: neither the base a
\* save is diffing against nor the packs a load is reading, however late the
\* load pinned them.
PinnedIsPresent == Pinned \subseteq packs

\* A save that returned Ok is never lost to a later save, merge, crash or
\* recovery: the newest snapshot, on disk and in memory, is at least as new.
AckedSurvives ==
    /\ acked <= NewestStep(index)
    /\ up => acked <= NewestStep(manifest)

\* Whatever lies on disk is listed, is in somebody's hands, or was knowingly
\* left for the next start (a reader outlasted the wait, a delete failed).
InHands ==
    {saver.id} \cup saver.evicted \cup {merger.id} \cup merger.left

FilesAreAccountedFor ==
    up => (packs \cup ranksFiles) \subseteq (manifest.snaps \cup leaked \cup InHands)

\* Retention never drops a rollback snapshot, a snapshot pinned here or in
\* pins.json, or the base one of those needs, not even with its group.
PinnedNow ==
    IF pinsFile.present
    THEN {i \in manifest.fin : desc.step[i] \in pinsFile.steps}
    ELSE manifest.pinned

Exempt == RollbackIds(manifest, desc) \cup PinnedNow \cup UNION {BaseOf(i) : i \in PinnedNow}

RetentionSpares ==
    [][(lock = "saver" /\ up') =>
        (manifest.snaps \ manifest'.snaps) \cap Exempt = {}]_vars

\* A start never deletes a complete snapshot whose base is there, listed or
\* recoverable itself, whatever it is killed at or fails at.
RecoverySparesComplete ==
    [][~up =>
        \A i \in Intact :
            BaseOf(i) \subseteq (LoadedManifest.snaps \cup Intact) => i \in packs']_vars

\* Retention never takes the newest snapshot.
RetentionKeepsNewest ==
    [][(lock = "saver" /\ up') => Newest(manifest) \in manifest'.snaps]_vars

\* Every save comes to its end: the wait for readers does without its
\* timeout, because nobody waits for a reader under the lock readers need.
SavesEnd == (saver.pc # "idle") ~> (saver.pc = "idle")

\* merge_now gets an answer, readers or not.
ForcedMergesEnd == (force = "waiting") ~> (force = "none")
=============================================================================
