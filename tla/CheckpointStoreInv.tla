------------------------- MODULE CheckpointStoreInv --------------------------
(***************************************************************************)
(* The inductive invariant behind the safety of CheckpointStore: what the  *)
(* save pipeline, the merger and the loads may rely on of one another      *)
(* while none of them holds the manifest lock.  Of its own it says who     *)
(* keeps whose files on disk:                                              *)
(*   - the base of a save in flight is listed until the save is recorded,  *)
(*     because a merge does not claim what is pinned and a save does not   *)
(*     choose what is claimed;                                             *)
(*   - once a merge has claimed a full, no delta against it can appear;    *)
(*   - whoever deletes files has taken them off the manifest and the index *)
(*     before, and has seen that nobody was inside; nobody can enter after *)
(*     that, since one enters only what is listed.                         *)
(* On top of it: whose hands the files are in that no list names, what     *)
(* retention promised to spare, the order of the vector, and, where        *)
(* nothing is pinned or kept for a rollback, what keeps the newest         *)
(* snapshot as new as the last save that returned Ok.                      *)
(***************************************************************************)
EXTENDS CheckpointStore

\* An identifier that has not been handed out is nowhere, and a base is a
\* full that was handed out before its delta.
NamesAreFresh ==
    /\ \A i \in packs \cup ranksFiles \cup written \cup index.snaps \cup manifest.snaps :
        i < nextId
    /\ \A i \in SnapIds :
        /\ i >= nextId => desc.base[i] = None
        /\ \A b \in BaseOf(i) : b < nextId /\ desc.base[b] = None

\* The manifest in memory and the index: all finalized, readable, and what
\* is noted as written is.
MemoryIsSound ==
    /\ manifest.fin = manifest.snaps
    /\ ListedIsReadable
    /\ written \cap manifest.snaps \subseteq ranksFiles

IndexIsSound ==
    /\ index.fin = index.snaps
    /\ IndexIsReadable

\* The snapshot a save is about to record.
Pending(i) == i < nextId /\ i \notin manifest.snaps /\ i \notin written

SaveIsSound ==
    /\ saver.pc \in {"idle", "write", "record"} => saver.evicted = {}
    /\ saver.pc \in {"write", "record"} =>
        /\ Pending(saver.id) /\ saver.id # None
        /\ saver.id \notin merger.claim
        /\ BaseOf(saver.id) \subseteq manifest.snaps
    /\ saver.pc = "record" => saver.id \in packs
    /\ saver.pc # "idle" => saver.id # None /\ saver.id < nextId
    /\ saver.evicted \cap manifest.snaps = {}
    /\ \A i \in saver.evicted : i < nextId
    /\ saver.pc \in {"unlink", "unlinking"} => saver.evicted \cap index.snaps = {}
    /\ SaverPins \cap Doomed = {}

\* The snapshot a merge is about to publish, and what it will replace.
MergeIsSound ==
    /\ merger.pc \in {"idle", "full", "busy"} => merger.claim = {}
    /\ merger.left \subseteq merger.claim
    /\ merger.pc \notin {"unlink", "unlinking"} => merger.left = {}
    /\ \A i \in merger.claim : i < nextId
    /\ merger.pc \in {"write", "publish"} =>
        /\ Pending(merger.id) /\ merger.id # None
        /\ merger.id \notin merger.claim \cup saver.evicted
        /\ saver.pc \in {"write", "record"} => merger.id # saver.id
        /\ desc.base[merger.id] = None
        /\ \A i \in manifest.snaps \ merger.claim : BaseOf(i) \cap merger.claim = {}
    /\ merger.pc = "publish" => merger.id \in packs
    /\ merger.pc \in {"unlink", "unlinking"} =>
        merger.claim \cap (manifest.snaps \cup index.snaps) = {}

\* Nobody is inside what is being deleted, and what is pinned is there.
PinsAreSound ==
    /\ PinnedIsPresent
    /\ saver.pc = "unlinking" => saver.evicted \cap Pinned = {}
    /\ merger.pc = "unlinking" => merger.claim \cap Pinned = {}

\* A process that is not running has no memory and no threads.
DownIsIdle ==
    ~up =>
        /\ manifest = EmptyManifest /\ written = {}
        /\ saver = IdleSaver /\ merger = IdleMerger
        /\ \A r \in Readers : reader[r].pc = "idle"

\* The invariant: no identifier is used twice, memory and index are sound,
\* and each thread keeps what the others rely on.
StoreInv ==
    /\ NamesAreFresh
    /\ MemoryIsSound
    /\ IndexIsSound
    /\ SaveIsSound
    /\ MergeIsSound
    /\ PinsAreSound
    /\ DownIsIdle

-----------------------------------------------------------------------------
(* What else holds, on top of StoreInv.                                    *)

\* Files that nothing lists yet, or no longer, and that a thread still has
\* to record or to delete.
Held ==
    (IF saver.pc = "record" THEN {saver.id} ELSE {}) \cup saver.evicted
        \cup (IF merger.pc = "publish" THEN {merger.id} ELSE {}) \cup merger.left

FilesAreHeld == up => packs \cup ranksFiles \subseteq manifest.snaps \cup leaked \cup Held

\* What retention decided to spare covers what is exempt as it goes on.
Retaining == saver.pc \in {"fulls", "total", "persist"}

RetentionIsBound ==
    /\ lock = "saver" <=> Retaining
    /\ Retaining => Exempt \subseteq saver.protected

Ascending(m) ==
    \A i, j \in m.snaps : m.pos[i] <= m.pos[j] => desc.step[i] <= desc.step[j]

\* Unless a run goes back, steps grow along the vector and from a base to
\* its delta, and nothing is ahead of the clock.
StepsGrow ==
    /\ \A i \in SnapIds : \A b \in BaseOf(i) : desc.step[b] < desc.step[i]
    /\ Ascending(manifest) /\ Ascending(index)
    /\ up => \A i \in manifest.snaps : desc.step[i] <= clock
    /\ saver.pc = "write" \/ saver.pc = "record" \/ Retaining => desc.step[saver.id] = clock
    /\ merger.pc \in {"write", "publish"} =>
        /\ desc.step[merger.id] <= clock
        /\ \A i \in merger.claim : desc.step[i] <= desc.step[merger.id]

\* The invariant of the order.
OrderInv ==
    /\ Placed(manifest) /\ Placed(index)
    /\ ~Rewind => StepsGrow

\* All of it that holds whatever is pinned.
WholeInv ==
    /\ StoreInv
    /\ FilesAreHeld
    /\ RetentionIsBound
    /\ OrderInv

\* Nothing is pinned and no full is kept for a rollback.
NothingExempt == (RollbackInterval = 0 \/ MaxRollback = 0) /\ MaxPinCalls = 0

NothingPinned ==
    /\ manifest.pinned = {} /\ index.pinned = {} /\ ~pinsFile.present
    /\ budget["pin"] = 0
    /\ saver.protected = {}

\* What is being saved is newer than all there is.
SavedIsNewest ==
    saver.pc \in {"write", "record"} =>
        /\ \A i \in manifest.snaps : desc.step[i] < desc.step[saver.id]
        /\ merger.pc \in {"write", "publish"} => desc.step[merger.id] < desc.step[saver.id]

\* The base of the save in flight is the last full, and what is recorded is
\* the last snapshot.
LastStaysLast ==
    /\ saver.pc = "write" \/ saver.pc = "record" \/ Retaining =>
        BaseOf(saver.id) \subseteq {LastFull(manifest, desc)}
    /\ Retaining =>
        /\ saver.id \in manifest.snaps
        /\ \A j \in manifest.snaps \ {saver.id} : manifest.pos[j] < manifest.pos[saver.id]

\* The last full is an input of the merge, or will be behind its result.
MergedGoesBefore ==
    merger.pc \in {"write", "publish"} =>
        LET last == LastFull(manifest, desc)
        IN  last # None /\ last \notin merger.claim => desc.step[merger.id] < desc.step[last]

\* Somebody is as new as what was acknowledged.
Covers(m) == acked = 0 \/ \E i \in m.snaps : acked <= desc.step[i]

AckedInv ==
    /\ NothingPinned /\ SavedIsNewest /\ LastStaysLast /\ MergedGoesBefore
    /\ Covers(index) /\ (up => Covers(manifest))
=============================================================================
