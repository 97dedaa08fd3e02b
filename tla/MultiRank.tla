----------------------------- MODULE MultiRank ------------------------------
(***************************************************************************)
(* A save by several ranks (create_snapshot, save_rank, finalize_snapshot  *)
(* of src/src/coordinator/mod.rs, called by save of                        *)
(* src/python/moonclip/pytorch.py): every rank is a process with a         *)
(* manifest of its own in memory, a merger of its own and pins nobody else *)
(* sees, over one directory.  Rank 0 chooses the base and lists the        *)
(* snapshot, the ranks write a pack each, and after a barrier rank 0       *)
(* collects the packs and publishes.                                       *)
(*                                                                         *)
(* The files of a snapshot that are not packs are written with the index   *)
(* here: CheckpointStore has their order.  So does it have the loads.      *)
(***************************************************************************)
EXTENDS Manifest

CONSTANTS
    Ranks,          \* the processes, 0 among them
    Merging,        \* ranks whose caller asks for merges (merge_now)
    Stride,         \* MergerConfig.stride
    MaxChainDepth,  \* MergerConfig.max_chain_depth
    MaxSteps,       \* bound: saves
    MaxFaults,      \* bound: storage operations that fail
    MaxRestarts     \* bound: times the job is killed

ASSUME MultiRankAssumption ==
    /\ 0 \in Ranks
    /\ Merging \subseteq Ranks
    /\ {Stride, MaxChainDepth, MaxSteps, MaxFaults, MaxRestarts} \subseteq Nat

VARIABLES
    packs,      \* disk: <<i, r>> when the pack of rank r for i is there
    index,      \* disk: manifest.json
    desc,       \* the step and the base every snapshot is listed with
    over,       \* the base the pack of each rank was diffed against
    nextId,
    mem,        \* the manifest each process has in memory
    save,       \* the save as rank 0 sees it
    rank,       \* save_rank of each process
    merger,     \* the merger thread of each process
    want,       \* what it was asked for, and whether again since it began
    step,       \* the step of the last save begun
    acked,      \* the step of the last finalize that returned Ok
    overtaken,  \* snapshots whose base a merge claimed before they were listed
    faults, restarts

vars == <<packs, index, desc, over, nextId, mem, save, rank, merger, want, step,
          acked, overtaken, faults, restarts>>

NoSave   == [at |-> "idle", id |-> None, base |-> None, gone |-> {}]
NoRank   == [at |-> "idle", base |-> None]
NoMerger == [at |-> "idle", id |-> None, base |-> None, last |-> None,
             claim |-> {}, left |-> {}]

Fault == faults < MaxFaults /\ faults' = faults + 1

\* InFlight of each process: what it pins and what its merger claims.
Pinned(r) == IF rank[r].at = "writing" THEN {rank[r].base} \ {None} ELSE {}

IsWhole(i) == \A r \in Ranks : <<i, r>> \in packs

Fresh == nextId \in SnapIds /\ nextId' = nextId + 1

-----------------------------------------------------------------------------
(* create_snapshot, in two critical sections.                              *)

\* The first: what the next snapshot is diffed against.
ChoosesBase ==
    /\ save.at = "idle"
    /\ step < MaxSteps
    /\ step' = step + 1
    /\ LET full == LastFull(mem[0], desc)
       IN  save' = [NoSave EXCEPT !.at = "chosen",
                        !.base = IF \/ ShouldForceFull(mem[0], desc, step + 1)
                                    \/ full \in merger[0].claim
                                 THEN None ELSE full]
    /\ UNCHANGED <<packs, index, desc, over, nextId, mem, rank, merger, want, acked,
                   overtaken, faults, restarts>>

\* The second: the snapshot is listed, not finalized.  When the index
\* cannot be written, the error ends the save and the entry stays in memory.
Lists ==
    /\ save.at = "chosen"
    /\ Fresh
    /\ desc' = [step |-> [desc.step EXCEPT ![nextId] = step],
                base |-> [desc.base EXCEPT ![nextId] = save.base]]
    /\ mem' = [mem EXCEPT ![0] = Push(@, nextId, FALSE)]
    /\ overtaken' = IF save.base \in merger[0].claim \/ save.base \notin mem[0].snaps \cup {None}
                    THEN overtaken \cup {nextId} ELSE overtaken
    /\ \/ index' = mem'[0] /\ save' = [save EXCEPT !.at = "open", !.id = nextId] /\ UNCHANGED faults
       \/ Fault /\ save' = NoSave /\ UNCHANGED index
    /\ UNCHANGED <<packs, over, rank, merger, want, step, acked, restarts>>

-----------------------------------------------------------------------------
(* save_rank, by every process at once.                                    *)

\* Reload, find the snapshot, find and pin its base.
StartsRank(r) ==
    /\ save.at = "open" /\ rank[r].at = "idle"
    /\ mem' = [mem EXCEPT ![r] = index]
    /\ LET base == desc.base[save.id]
       IN  rank' = [rank EXCEPT ![r] =
                IF save.id \notin index.snaps
                THEN [NoRank EXCEPT !.at = "failed"]
                ELSE [at |-> "writing", base |-> IF base \in index.snaps THEN base ELSE None]]
    /\ UNCHANGED <<packs, index, desc, over, nextId, save, merger, want, step, acked,
                   overtaken, faults, restarts>>

HasBase(r) == rank[r].base # None => <<rank[r].base, r>> \in packs

\* Mutant: the rank adds its entry to the manifest it read and writes it back.
WritesPackAndIndex(r) ==
    /\ rank[r].at = "writing" /\ HasBase(r)
    /\ packs' = packs \cup {<<save.id, r>>}
    /\ over' = [over EXCEPT ![save.id][r] = rank[r].base]
    /\ rank' = [rank EXCEPT ![r].at = "saved"]
    /\ index' = mem[r]
    /\ UNCHANGED <<desc, nextId, mem, save, merger, want, step, acked,
                   overtaken, faults, restarts>>

\* The pack is written, and nothing else.
WritesPack(r) ==
    /\ rank[r].at = "writing" /\ HasBase(r)
    /\ packs' = packs \cup {<<save.id, r>>}
    /\ over' = [over EXCEPT ![save.id][r] = rank[r].base]
    /\ rank' = [rank EXCEPT ![r].at = "saved"]
    /\ UNCHANGED <<index, desc, nextId, mem, save, merger, want, step, acked,
                   overtaken, faults, restarts>>

FailsRank(r) ==
    /\ rank[r].at = "writing"
    /\ IF HasBase(r) THEN Fault ELSE UNCHANGED faults
    /\ rank' = [rank EXCEPT ![r] = [NoRank EXCEPT !.at = "failed"]]
    /\ UNCHANGED <<packs, index, desc, over, nextId, mem, save, merger, want, step,
                   acked, overtaken, restarts>>

\* The error of a rank ends the save.  The snapshot stays listed.
Abandons ==
    /\ save.at = "open"
    /\ \E r \in Ranks : rank[r].at = "failed"
    /\ \A r \in Ranks : rank[r].at \in {"failed", "saved"}
    /\ save' = NoSave
    /\ rank' = [r \in Ranks |-> NoRank]
    /\ UNCHANGED <<packs, index, desc, over, nextId, mem, merger, want, step, acked,
                   overtaken, faults, restarts>>

-----------------------------------------------------------------------------
(* finalize_snapshot, by rank 0 after the barrier.                         *)

\* Reload, and read what the packs say of themselves.
Collects ==
    /\ save.at = "open"
    /\ \A r \in Ranks : rank[r].at = "saved"
    /\ mem' = [mem EXCEPT ![0] = index]
    /\ save' = [save EXCEPT !.at = "collected"]
    /\ rank' = [r \in Ranks |-> NoRank]
    /\ UNCHANGED <<packs, index, desc, over, nextId, merger, want, step, acked,
                   overtaken, faults, restarts>>

\* apply_retention: both loops, one removal after the other.
Retained(m) ==
    LET protected == ProtectedIds(m, desc)
        one[n \in 0 .. MaxIds] ==
            IF n = 0 THEN m
            ELSE LET k == one[n - 1]
                     oldest == OldestRemovableFull(k, desc, protected)
                 IN  IF OverFullCap(k, desc) /\ oldest # None
                     THEN Drop(k, GroupOf(k, desc, oldest)) ELSE k
        two[n \in 0 .. MaxIds] ==
            IF n = 0 THEN one[MaxIds]
            ELSE LET k == two[n - 1]
                     oldest == OldestRemovable(k, desc, protected)
                 IN  IF OverTotalCap(k) /\ oldest # None THEN Drop(k, {oldest}) ELSE k
    IN  two[MaxIds]

Finalized == [mem[0] EXCEPT !.fin = @ \cup {save.id}]

CanFinalize == save.at = "collected" /\ save.id \in mem[0].snaps /\ IsWhole(save.id)

\* An entry that is not finalized names no packs, so when retention drops one
\* with its base the files are left to the next start.
Publishes ==
    /\ CanFinalize
    /\ mem' = [mem EXCEPT ![0] = Retained(Finalized)]
    /\ index' = mem'[0]
    /\ save' = [save EXCEPT !.at = "unlink", !.gone = Finalized.fin \ mem'[0].snaps]
    /\ UNCHANGED <<packs, desc, over, nextId, rank, merger, want, step, acked,
                   overtaken, faults, restarts>>

\* Not listed any more, a pack short, or the index cannot be written: then
\* what retention dropped is gone from memory alone.
FailsToPublish ==
    /\ save.at = "collected"
    /\ IF CanFinalize
       THEN Fault /\ mem' = [mem EXCEPT ![0] = Retained(Finalized)]
       ELSE UNCHANGED <<faults, mem>>
    /\ save' = NoSave
    /\ UNCHANGED <<packs, index, desc, over, nextId, rank, merger, want, step, acked,
                   overtaken, restarts>>

\* The evicted files go, the merger is told, and the call returns Ok.
Unlinks ==
    /\ save.at = "unlink"
    /\ packs' = {p \in packs : p[1] \notin save.gone}
    /\ want' = [want EXCEPT ![0] = IF merger[0].at # "idle" THEN "again"
                                   ELSE IF @ = "none" THEN "check" ELSE @]
    /\ acked' = IF save.id \in overtaken THEN acked ELSE desc.step[save.id]
    /\ save' = NoSave
    /\ UNCHANGED <<index, desc, over, nextId, mem, rank, merger, step, overtaken,
                   faults, restarts>>

-----------------------------------------------------------------------------
(* The merger of a process, over the manifest of that process.             *)

\* merge_now, when its caller is in none of the calls above.
MergeNow(r) ==
    /\ r \in Merging /\ want[r] = "none" /\ merger[r].at = "idle"
    /\ rank[r].at = "idle" /\ save.at # "open"
    /\ (r = 0 => save.at = "idle")
    /\ DeltasOf(mem[r], desc, LastFull(mem[r], desc)) # {}
    /\ want' = [want EXCEPT ![r] = "force"]
    /\ UNCHANGED <<packs, index, desc, over, nextId, mem, save, rank, merger, step,
                   acked, overtaken, faults, restarts>>

Depth(r) == Cardinality(PendingDeltas(mem[r], desc))

FullIsWanted(r) ==
    \/ want[r] = "force"
    \/ want[r] = "check" /\ Depth(r) >= MaxChainDepth

FoldIsWanted(r) == want[r] = "check" /\ 0 < Stride /\ Depth(r) \in Stride .. MaxChainDepth - 1

Base(r) == LastFull(mem[r], desc)

Inputs(r) == {Base(r)} \cup DeltasOf(mem[r], desc, Base(r))

\* Mutant: a snapshot the ranks are writing does not hold the merge back.
CanMergeOpen(r) ==
    /\ Base(r) # None /\ Inputs(r) # {Base(r)}
    /\ Inputs(r) \cap Pinned(r) = {}

CanMerge(r) ==
    /\ Base(r) # None /\ Inputs(r) # {Base(r)}
    /\ Unfinalized(mem[r], desc, Base(r)) = {}
    /\ Inputs(r) \cap Pinned(r) = {}

CanFold(r) ==
    /\ Superseded(mem[r], desc) # {}
    /\ Superseded(mem[r], desc) \cap Pinned(r) = {}

\* The command is done with; a notify that came meanwhile is the next one.
Sleeps(r) == want' = [want EXCEPT ![r] = IF @ = "again" THEN "check" ELSE "none"]

\* Nothing to merge, or busy: the next notify tries again, and a forced
\* merge gives up in the end.
StandsDown(r) ==
    /\ merger[r].at = "idle" /\ want[r] # "none"
    /\ ~(FullIsWanted(r) /\ CanMerge(r))
    /\ ~(FoldIsWanted(r) /\ CanFold(r))
    /\ Sleeps(r)
    /\ UNCHANGED <<packs, index, desc, over, nextId, mem, save, rank, merger, step,
                   acked, overtaken, faults, restarts>>

Folds(r) ==
    /\ merger[r].at = "idle"
    /\ FoldIsWanted(r) /\ CanFold(r)
    /\ mem' = [mem EXCEPT ![r] = Drop(@, Superseded(@, desc))]
    /\ index' = mem'[r]
    /\ merger' = [merger EXCEPT ![r] = [NoMerger EXCEPT !.at = "unlink",
                                            !.claim = Superseded(mem[r], desc)]]
    /\ UNCHANGED <<packs, desc, over, nextId, save, rank, want, step, acked,
                   overtaken, faults, restarts>>

\* The list in memory is put back.
FailsToFold(r) ==
    /\ merger[r].at = "idle"
    /\ FoldIsWanted(r) /\ CanFold(r)
    /\ Fault
    /\ Sleeps(r)
    /\ UNCHANGED <<packs, index, desc, over, nextId, mem, save, rank, merger, step,
                   acked, overtaken, restarts>>

\* do_full_merge_within looks, claims and fixes what it will write.
Claims(r) ==
    /\ merger[r].at = "idle"
    /\ FullIsWanted(r) /\ CanMerge(r)
    /\ Fresh
    /\ LET last == Last(mem[r], Inputs(r) \ {Base(r)})
       IN  /\ desc' = [desc EXCEPT !.step[nextId] = desc.step[last]]
           /\ merger' = [merger EXCEPT ![r] = [at |-> "writing", id |-> nextId,
                            base |-> Base(r), last |-> last, claim |-> Inputs(r),
                            left |-> Ranks]]
    /\ UNCHANGED <<packs, index, over, mem, save, rank, want, step, acked, overtaken,
                   faults, restarts>>

Readable(r, k) == {<<merger[r].base, k>>, <<merger[r].last, k>>} \subseteq packs

MergesPack(r) ==
    /\ merger[r].at = "writing"
    /\ \E k \in merger[r].left :
        /\ Readable(r, k)
        /\ packs' = packs \cup {<<merger[r].id, k>>}
        /\ merger' = [merger EXCEPT ![r].left = @ \ {k}]
    /\ UNCHANGED <<index, desc, over, nextId, mem, save, rank, want, step, acked,
                   overtaken, faults, restarts>>

\* A pack that cannot be read or written, or the index at the end: the packs
\* written so far are left to the next start.
FailsToMerge(r) ==
    /\ merger[r].at = "writing"
    /\ IF \A k \in merger[r].left : Readable(r, k) THEN Fault ELSE UNCHANGED faults
    /\ merger' = [merger EXCEPT ![r] = NoMerger]
    /\ Sleeps(r)
    /\ UNCHANGED <<packs, index, desc, over, nextId, mem, save, rank, step, acked,
                   overtaken, restarts>>

Merged(m, w) == SortByStep(Push(Drop(m, w.claim), w.id, TRUE), desc)

\* Mutant: the merge publishes the list it looked at, without what was
\* finalized while it wrote.
PublishesOldList(r) ==
    /\ merger[r].at = "writing" /\ merger[r].left = {}
    /\ mem' = [mem EXCEPT ![r] =
            Merged(Drop(@, {i \in @.snaps : desc.step[i] > desc.step[merger[r].last]}), merger[r])]
    /\ index' = mem'[r]
    /\ merger' = [merger EXCEPT ![r].at = "unlink"]
    /\ UNCHANGED <<packs, desc, over, nextId, save, rank, want, step, acked,
                   overtaken, faults, restarts>>

\* Under the lock, on the list as it is by then.
PublishesMerge(r) ==
    /\ merger[r].at = "writing" /\ merger[r].left = {}
    /\ mem' = [mem EXCEPT ![r] = Merged(@, merger[r])]
    /\ index' = mem'[r]
    /\ merger' = [merger EXCEPT ![r].at = "unlink"]
    /\ UNCHANGED <<packs, desc, over, nextId, save, rank, want, step, acked,
                   overtaken, faults, restarts>>

\* The files go when this process does not read them, and are left to the
\* next start when it does for too long.
UnlinksMerged(r) ==
    /\ merger[r].at = "unlink"
    /\ packs' = IF merger[r].claim \cap Pinned(r) = {}
                THEN {p \in packs : p[1] \notin merger[r].claim} ELSE packs
    /\ merger' = [merger EXCEPT ![r] = NoMerger]
    /\ Sleeps(r)
    /\ UNCHANGED <<index, desc, over, nextId, mem, save, rank, step, acked,
                   overtaken, faults, restarts>>

-----------------------------------------------------------------------------
(* The job is killed and starts again; rank 0 recovers.                    *)

Orphans == {i \in SnapIds : \E r \in Ranks : <<i, r>> \in packs} \ index.snaps

\* Its base, as the first of its packs says.
DescribedBase(i) == over[i][0]

\* Steps grow, so a base comes before its deltas in the order of steps.
ComesBack(i) ==
    /\ i \in Orphans /\ IsWhole(i)
    /\ LET b == DescribedBase(i)
       IN  \/ b \in index.snaps \cup {None}
           \/ b \in Orphans /\ IsWhole(b) /\ DescribedBase(b) = None

\* Mutant: what came back stays where it was pushed.
RecoveredUnsorted(back) ==
    [index EXCEPT !.snaps = @ \cup back, !.fin = @ \cup back,
                  !.pos = [i \in SnapIds |-> IF i \in back THEN MaxIds + i ELSE @[i]]]

Recovered(back) ==
    LET m == [index EXCEPT
                !.snaps = @ \cup back, !.fin = @ \cup back,
                !.pos = [i \in SnapIds |-> IF i \in back THEN MaxIds + i ELSE @[i]]]
    IN  SortByStep(m, desc)

Restarts ==
    /\ restarts < MaxRestarts
    /\ restarts' = restarts + 1
    /\ LET back == {i \in SnapIds : ComesBack(i)}
       IN  /\ index' = IF back = {} THEN index ELSE Recovered(back)
           /\ packs' = {p \in packs : p[1] \in index.snaps \cup back}
           /\ desc' = [desc EXCEPT !.base =
                    [i \in SnapIds |-> IF i \in back THEN DescribedBase(i) ELSE @[i]]]
    /\ \E early \in SUBSET (Ranks \ {0}) :
            mem' = [r \in Ranks |-> IF r \in early THEN index ELSE index']
    /\ save' = NoSave
    /\ rank' = [r \in Ranks |-> NoRank]
    /\ merger' = [r \in Ranks |-> NoMerger]
    /\ want' = [r \in Ranks |-> "none"]
    /\ UNCHANGED <<over, nextId, step, acked, overtaken, faults>>

-----------------------------------------------------------------------------
Init ==
    /\ packs = {}
    /\ index = EmptyManifest
    /\ desc = [step |-> [i \in SnapIds |-> 0], base |-> [i \in SnapIds |-> None]]
    /\ over = [i \in SnapIds |-> [r \in Ranks |-> None]]
    /\ nextId = 1
    /\ mem = [r \in Ranks |-> EmptyManifest]
    /\ save = NoSave
    /\ rank = [r \in Ranks |-> NoRank]
    /\ merger = [r \in Ranks |-> NoMerger]
    /\ want = [r \in Ranks |-> "none"]
    /\ step = 0 /\ acked = 0 /\ overtaken = {}
    /\ faults = 0 /\ restarts = 0

MergerStep(r) ==
    \/ StandsDown(r) \/ Folds(r) \/ FailsToFold(r)
    \/ Claims(r) \/ MergesPack(r) \/ FailsToMerge(r)
    \/ PublishesMerge(r) \/ UnlinksMerged(r)

Next ==
    \/ ChoosesBase \/ Lists \/ Abandons
    \/ Collects \/ Publishes \/ FailsToPublish \/ Unlinks
    \/ \E r \in Ranks :
        StartsRank(r) \/ WritesPack(r) \/ FailsRank(r) \/ MergeNow(r) \/ MergerStep(r)
    \/ Restarts

Spec == Init /\ [][Next]_vars

-----------------------------------------------------------------------------
(* Properties.                                                             *)

\* Types; and a list is a vector whose finalized entries are in the order of
\* their steps, which every "newest" and "last" of the coordinator reads off
\* the end (last_full_snapshot, recovery and do_full_merge_within sort).
IsVector(m) ==
    /\ m \in Manifests
    /\ m.fin \subseteq m.snaps
    /\ {m.pos[i] : i \in m.snaps} = 1 .. Cardinality(m.snaps)
    /\ \A i, j \in m.fin : m.pos[i] < m.pos[j] => desc.step[i] <= desc.step[j]

TypeOK ==
    /\ packs \subseteq SnapIds \X Ranks
    /\ desc \in Descriptors
    /\ IsVector(index)
    /\ \A r \in Ranks :
        /\ IsVector(mem[r])
        /\ rank[r] \in [at : {"idle", "writing", "saved", "failed"}, base : {None} \cup SnapIds]
        /\ merger[r].at \in {"idle", "writing", "unlink"}
        /\ want[r] \in {"none", "check", "force", "again"}
    /\ save.at \in {"idle", "chosen", "open", "collected", "unlink"}
    /\ acked <= step

\* A snapshot the index calls finalized has the pack of every rank, and a
\* pack that is a delta has the base it was diffed against, listed and on
\* disk: no process unlinked what another one relies on
\* (save_rank_in_pool, finalize_snapshot, do_full_merge_within).
Loads(i) ==
    /\ IsWhole(i)
    /\ desc.base[i] \in index.fin \cup {None}
    /\ \A r \in Ranks : over[i][r] # None => <<over[i][r], r>> \in packs

FinalizedIsWhole == \A i \in index.fin \ overtaken : Loads(i)

\* The same of the snapshots whose base was merged between the two critical
\* sections of create_snapshot.  It does not hold (see the README).
EveryFinalizedLoads == \A i \in index.fin : Loads(i)

\* While a rank writes a delta the pack it reads is on disk, although no
\* other process knows of its pin: what holds their mergers back is the
\* unfinalized snapshot in the index (do_full_merge_within, "Busy").
RanksDiffLiveBase ==
    \A r \in Ranks : rank[r].at = "writing" /\ save.id \notin overtaken => HasBase(r)

\* A finalize that returned Ok is not forgotten: the index always lists a
\* whole snapshot of that step or a later one, across merges, failed saves
\* and restarts ("One writer, no lock").
AckedIsListed ==
    acked > 0 => \E i \in index.fin : desc.step[i] >= acked /\ IsWhole(i)
=============================================================================
