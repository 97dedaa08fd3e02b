----------------------- MODULE CheckpointStoreProofs ------------------------
(***************************************************************************)
(* The theorems about CheckpointStore, for every value of its constants:   *)
(* TypeOK /\ StoreInv is inductive, and it implies the safety properties   *)
(* that say nothing that is listed, indexed or pinned loses its files.     *)
(* One lemma for each group of actions, one step for each action and under *)
(* it one for each part of the invariant.                                  *)
(***************************************************************************)
EXTENDS CheckpointStoreInv, ManifestLemmas

-----------------------------------------------------------------------------
(* Type correctness.                                                       *)

Budgets == [{"save", "fault", "crash", "pin", "force"} -> Nat]

\* Every budget is a number, so spending keeps it one.
LEMMA SpendKeepsType ==
    ASSUME TypeOK, NEW what \in {"save", "fault", "crash", "pin", "force"}, Spend(what)
    PROVE  budget' \in Budgets
BY DEF Spend, TypeOK, Budgets

\* Both ways a persist can go leave sets of identifiers and a manifest.
LEMMA PersistKeepsType ==
    ASSUME TypeOK, NEW m \in Manifests
    PROVE  /\ Persist(m) \/ PersistFails(m) =>
                /\ ranksFiles' \subseteq SnapIds
                /\ written' \subseteq SnapIds
                /\ index' \in Manifests
           /\ PersistFails(m) => budget' \in Budgets
<1>1. CASE Persist(m)
  BY <1>1, SpendKeepsType DEF Persist, PersistFails, Unwritten, TypeOK, Manifests
<1>2. CASE PersistFails(m)
  BY <1>2, SpendKeepsType DEF Persist, PersistFails, Unwritten, TypeOK, Manifests
<1> QED
  BY <1>1, <1>2

\* A delete leaves sets of identifiers.
LEMMA UnlinkKeepsType ==
    ASSUME TypeOK, NEW i \in SnapIds, UnlinkFiles(i) \/ UnlinkFails(i)
    PROVE  /\ packs' \subseteq SnapIds
           /\ ranksFiles' \subseteq SnapIds
           /\ leaked' \subseteq SnapIds
           /\ budget' \in Budgets
<1>1. CASE UnlinkFiles(i)
  BY <1>1 DEF UnlinkFiles, TypeOK, Budgets
<1>2. CASE UnlinkFails(i)
  BY <1>2, SpendKeepsType DEF UnlinkFails, TypeOK
<1> QED
  BY <1>1, <1>2

\* Handing out an identifier.
LEMMA FreshKeepsType ==
    ASSUME TypeOK, NEW step \in Nat, NEW base \in SnapIds \cup {None}, Fresh(step, base)
    PROVE  /\ desc' \in Descriptors
           /\ nextId \in SnapIds
           /\ nextId' \in 1 .. MaxIds + 1
<1>1. nextId \in SnapIds /\ nextId' \in 1 .. MaxIds + 1
  BY ManifestAssumption, SMTT(30) DEF Fresh, TypeOK, SnapIds
<1>2. desc \in Descriptors /\ desc' = [desc EXCEPT !.step[nextId] = step, !.base[nextId] = base]
  BY DEF Fresh, TypeOK
<1>3. /\ desc' = [step |-> [desc.step EXCEPT ![nextId] = step],
                 base |-> [desc.base EXCEPT ![nextId] = base]]
      /\ desc.step \in [SnapIds -> Nat]
      /\ desc.base \in [SnapIds -> SnapIds \cup {None}]
  BY <1>2 DEF Descriptors
<1> QED
  BY <1>1, <1>3 DEF Descriptors

\* Retention protects identifiers (and the None a full has for a base).
LEMMA ProtectedAreIds ==
    ASSUME NEW m \in Manifests, NEW d \in Descriptors
    PROVE  ProtectedIds(m, d) \subseteq SnapIds \cup {None}
BY DEF ProtectedIds, RollbackIds, Fulls, Manifests, Descriptors

\* Pins another process set change flags and nothing else.
LEMMA PinsOnDiskIsManifest ==
    ASSUME NEW m \in Manifests
    PROVE  /\ PinsOnDisk(m) \in Manifests
           /\ PinsOnDisk(m).snaps = m.snaps
           /\ PinsOnDisk(m).fin = m.fin
BY SyncPinsIsManifest DEF PinsOnDisk

\* The manifest a save records into.
LEMMA RecordedManifest ==
    ASSUME TypeOK, NEW i \in SnapIds
    PROVE  /\ PinsOnDisk(Push(manifest, i, TRUE)) \in Manifests
           /\ PinsOnDisk(Push(manifest, i, TRUE)).snaps = manifest.snaps \cup {i}
           /\ PinsOnDisk(Push(manifest, i, TRUE)).fin = manifest.fin \cup {i}
<1>1. /\ Push(manifest, i, TRUE) \in Manifests
      /\ Push(manifest, i, TRUE).snaps = manifest.snaps \cup {i}
      /\ Push(manifest, i, TRUE).fin = manifest.fin \cup {i}
  BY PushIsManifest DEF TypeOK
<1> QED
  BY <1>1, PinsOnDiskIsManifest

\* What the save pipeline does keeps every variable of its kind.
LEMMA SaveKeepsType ==
    ASSUME TypeOK, SaveIsSound, SaveBegin \/ SaverStep \/ SaverFault
    PROVE  TypeOK'
<1> USE DEF disk, memory, names, threads
<1>1. CASE SaveBegin
  <2>1. PICK step \in SaveSteps : Fresh(step, BaseFor(step)) /\ clock' = step
    BY <1>1 DEF SaveBegin
  <2>2. step \in Nat
    BY StoreAssumption DEF SaveSteps
  <2>3. BaseFor(step) \in SnapIds \cup {None}
    BY LookUps DEF BaseFor, TypeOK, Manifests
  <2>4. /\ desc' \in Descriptors
        /\ nextId \in SnapIds
        /\ nextId' \in 1 .. MaxIds + 1
    BY <2>1, <2>2, <2>3, FreshKeepsType
  <2>5. budget' \in Budgets
    BY <1>1, SpendKeepsType DEF SaveBegin
  <2> QED
    BY <1>1, <2>1, <2>2, <2>4, <2>5, ZenonT(60) DEF SaveBegin, IdleSaver, TypeOK, Budgets
<1>2. CASE WritePack
  BY <1>2, SMTT(30) DEF WritePack, IdleSaver, TypeOK, SaveIsSound
<1>3. CASE WritePackFails
  BY <1>3, SpendKeepsType DEF WritePackFails, IdleSaver, TypeOK, Budgets
<1>4. saver.pc = "record" => saver.id \in SnapIds
  BY DEF SaveIsSound, TypeOK
<1>5. CASE RecordSave
  <2>1. saver.id \in SnapIds
    BY <1>4, <1>5 DEF RecordSave
  <2>2. manifest' \in Manifests
    BY <1>5, <2>1, RecordedManifest DEF RecordSave
  <2>3. ProtectedIds(manifest', desc) \subseteq SnapIds \cup {None}
    BY <2>2, ProtectedAreIds DEF TypeOK
  <2>4. saver' = [saver EXCEPT !.pc = "fulls", !.protected = ProtectedIds(manifest', desc)]
    BY <1>5 DEF RecordSave
  <2> QED
    BY <1>5, <2>2, <2>3, <2>4, ZenonT(60) DEF RecordSave, TypeOK
<1>6. CASE RecordSaveFails
  <2>1. manifest' \in Manifests
    BY <1>4, <1>6, PushIsManifest DEF RecordSaveFails, TypeOK
  <2> QED
    BY <1>6, <2>1, SpendKeepsType DEF RecordSaveFails, IdleSaver, TypeOK, Budgets
<1>7. ASSUME NEW gone \in SUBSET SnapIds, Evict(gone)
      PROVE  TypeOK'
  <2>1. manifest' \in Manifests
    BY <1>7, DropIsManifest DEF Evict, TypeOK
  <2> QED
    BY <1>7, <2>1 DEF Evict, TypeOK
<1>8. CASE EvictGroup
  BY <1>7, <1>8 DEF EvictGroup, GroupOf, TypeOK, Manifests
<1>9. CASE EvictOldest
  <2>1. OldestRemovable(manifest, desc, saver.protected) \in SnapIds
    BY <1>9, LookUps DEF EvictOldest, TypeOK, Manifests
  <2> QED
    BY <1>7, <1>9, <2>1 DEF EvictOldest
<1>10. CASE FullsCapped \/ TotalCapped
  BY <1>10 DEF FullsCapped, TotalCapped, RetentionMovesTo, TypeOK
<1>11. CASE PersistSave
  <2>1. /\ ranksFiles' \subseteq SnapIds
        /\ written' \subseteq SnapIds
        /\ index' \in Manifests
    BY <1>11, PersistKeepsType DEF PersistSave, TypeOK
  <2>2. desc.step[saver.id] \in Nat
    BY <1>11 DEF PersistSave, SaveIsSound, TypeOK, Descriptors
  <2> QED
    BY <1>11, <2>1, <2>2 DEF PersistSave, TypeOK
<1>12. CASE PersistSaveFails
  <2>1. /\ ranksFiles' \subseteq SnapIds
        /\ written' \subseteq SnapIds
        /\ index' \in Manifests
        /\ budget' \in Budgets
    BY <1>12, PersistKeepsType DEF PersistSaveFails, TypeOK
  <2> QED
    BY <1>12, <2>1 DEF PersistSaveFails, IdleSaver, TypeOK, Budgets
<1>13. CASE SaveReadersGone
  <2>1. UNCHANGED <<disk, memory, lock, names, merger, inbox, force, reader, up, clock,
                    acked, leaked, budget>>
    BY <1>13 DEF SaveReadersGone
  <2>2. saver' = [saver EXCEPT !.pc = "unlinking"]
    BY <1>13 DEF SaveReadersGone
  <2> QED
    BY <2>1, <2>2, ZenonT(60) DEF TypeOK, disk, memory, names
<1>14. CASE SaveUnlinkTimesOut
  BY <1>14 DEF SaveUnlinkTimesOut, TypeOK
<1>15. CASE SaveUnlinkOne
  <2>1. PICK i \in saver.evicted :
            /\ UnlinkFiles(i) \/ UnlinkFails(i)
            /\ saver' = [saver EXCEPT !.evicted = @ \ {i}]
    BY <1>15 DEF SaveUnlinkOne
  <2>2. /\ packs' \subseteq SnapIds
        /\ ranksFiles' \subseteq SnapIds
        /\ leaked' \subseteq SnapIds
        /\ budget' \in Budgets
    BY <2>1, UnlinkKeepsType DEF TypeOK
  <2> QED
    <3>1. UNCHANGED <<index, pinsFile, memory, lock, names, merger, inbox, force, reader,
                      up, clock, acked>>
      BY <1>15 DEF SaveUnlinkOne
    <3> QED
      BY <2>1, <2>2, <3>1, ZenonT(60) DEF TypeOK, Budgets
<1>16. CASE SaveEnd
  BY <1>16 DEF SaveEnd, IdleSaver, TypeOK
<1> QED
  BY <1>1, <1>2, <1>3, <1>5, <1>6, <1>8, <1>9, <1>10, <1>11, <1>12, <1>13, <1>14, <1>15,
     <1>16
  DEF SaverStep, SaverFault

\* What a full merge makes of the manifest.
LEMMA MergedIsManifest ==
    ASSUME TypeOK, merger.id \in SnapIds
    PROVE  /\ MergedManifest \in Manifests
           /\ MergedManifest.snaps = (manifest.snaps \ merger.claim) \cup {merger.id}
           /\ MergedManifest.fin = (manifest.fin \ merger.claim) \cup {merger.id}
<1>1. /\ Drop(manifest, merger.claim) \in Manifests
      /\ Drop(manifest, merger.claim).snaps = manifest.snaps \ merger.claim
      /\ Drop(manifest, merger.claim).fin = manifest.fin \ merger.claim
  BY DropIsManifest DEF TypeOK
<1> DEFINE pushed == Push(Drop(manifest, merger.claim), merger.id, TRUE)
<1>2. /\ pushed \in Manifests
      /\ pushed.snaps = (manifest.snaps \ merger.claim) \cup {merger.id}
      /\ pushed.fin = (manifest.fin \ merger.claim) \cup {merger.id}
  <2> DEFINE kept == Drop(manifest, merger.claim)
  <2>1. kept \in Manifests /\ pushed = Push(kept, merger.id, TRUE)
    BY <1>1
  <2>2. /\ Push(kept, merger.id, TRUE) \in Manifests
        /\ Push(kept, merger.id, TRUE).snaps = kept.snaps \cup {merger.id}
        /\ Push(kept, merger.id, TRUE).fin = kept.fin \cup {merger.id}
    <3> HIDE DEF kept
    <3> QED
      BY <2>1, PushIsManifest
  <2> QED
    BY <1>1, <2>2
<1>3. MergedManifest = SortByStep(pushed, desc)
  BY DEF MergedManifest
<1> HIDE DEF pushed
<1> QED
  BY <1>2, <1>3, SortIsManifest

\* Where the merger may be, and what it holds.
Mergers == [pc : {"idle", "full", "busy", "write", "publish", "unlink", "unlinking"},
            claim : SUBSET SnapIds, left : SUBSET SnapIds,
            last : SnapIds \cup {None}, id : SnapIds \cup {None},
            forced : BOOLEAN]

\* A merge ends, whatever its outcome.
LEMMA EndMergeKeepsType ==
    ASSUME TypeOK, EndMerge
    PROVE  merger' \in Mergers /\ force' \in {"none", "waiting"}
<1>1. merger' \in Mergers
  BY DEF EndMerge, IdleMerger, Mergers
<1>2. force' = "none" \/ force' = force
  BY Zenon DEF EndMerge
<1> QED
  BY <1>1, <1>2 DEF TypeOK

\* What the merger does keeps every variable of its kind.
LEMMA MergeKeepsType ==
    ASSUME TypeOK, MergeIsSound, MergerStep \/ MergerFault
    PROVE  TypeOK'
<1> USE DEF disk, memory, names, threads
<1>1. ASSUME NEW c \in {"check", "force"}, ReadyFor(c)
      PROVE  inbox' \in Seq({"check", "force"})
  BY <1>1 DEF ReadyFor, Command, TypeOK
<1>2. CASE CheckChain
  BY <1>1, <1>2 DEF CheckChain, IdleMerger, TypeOK
<1>3. CASE NothingToFold
  BY <1>1, <1>3 DEF NothingToFold, TypeOK
<1>4. CASE TakeForce
  BY <1>1, <1>4 DEF TakeForce, IdleMerger, TypeOK
<1>5. Foldable \subseteq SnapIds /\ Drop(manifest, Foldable) \in Manifests
  BY LookUps, DropIsManifest DEF Foldable, TypeOK, Manifests
<1>6. CASE FoldStride
  <2>1. inbox' \in Seq({"check", "force"})
    BY <1>1, <1>6 DEF FoldStride
  <2>2. /\ ranksFiles' \subseteq SnapIds
        /\ written' \subseteq SnapIds
        /\ index' \in Manifests
    BY <1>5, <1>6, PersistKeepsType DEF FoldStride
  <2> QED
    BY <1>5, <1>6, <2>1, <2>2 DEF FoldStride, IdleMerger, TypeOK
<1>7. CASE FoldStrideFails
  <2>1. inbox' \in Seq({"check", "force"})
    BY <1>1, <1>7 DEF FoldStrideFails
  <2>2. /\ ranksFiles' \subseteq SnapIds
        /\ written' \subseteq SnapIds
        /\ index' \in Manifests
        /\ budget' \in Budgets
    BY <1>5, <1>7, PersistKeepsType DEF FoldStrideFails
  <2> QED
    BY <1>7, <2>1, <2>2 DEF FoldStrideFails, TypeOK, Budgets
<1>8. CASE FullMergeSkips \/ ForceGivesUp
  <2>1. merger' \in Mergers /\ force' \in {"none", "waiting"}
    BY <1>8, EndMergeKeepsType DEF FullMergeSkips, ForceGivesUp
  <2> QED
    BY <1>8, <2>1 DEF FullMergeSkips, ForceGivesUp, TypeOK, Mergers
<1>9. CASE FullMergeBusy
  <2>1. merger' \in Mergers /\ force' \in {"none", "waiting"}
    <3>1. CASE merger.forced
      BY <1>9, <3>1 DEF FullMergeBusy, TypeOK, Mergers
    <3>2. CASE ~merger.forced
      BY <1>9, <3>2, EndMergeKeepsType DEF FullMergeBusy
    <3> QED
      BY <3>1, <3>2
  <2> QED
    BY <1>9, <2>1 DEF FullMergeBusy, TypeOK, Mergers
<1>10. CASE ForceRetries
  BY <1>10 DEF ForceRetries, TypeOK
<1>11. CASE FullMergeClaims
  <2>1. MergeClaim \subseteq SnapIds
    <3>1. MergeBase # None /\ MergeBase \in manifest.fin \cup {None}
      BY <1>11, LookUps DEF FullMergeClaims, NothingToMerge, MergeBase, TypeOK
    <3> QED
      BY <3>1 DEF MergeClaim, MergeDeltas, DeltasOf, TypeOK, Manifests
  <2>2. LastDelta \in SnapIds
    BY <1>11, LastIsMember
    DEF FullMergeClaims, NothingToMerge, LastDelta, MergeDeltas, DeltasOf, TypeOK, Manifests
  <2>3. Fresh(desc.step[LastDelta], None)
    BY <1>11 DEF FullMergeClaims
  <2>4. /\ desc' \in Descriptors
        /\ nextId \in SnapIds
        /\ nextId' \in 1 .. MaxIds + 1
    BY <2>2, <2>3, FreshKeepsType DEF TypeOK, Descriptors
  <2> QED
    BY <1>11, <2>1, <2>2, <2>4 DEF FullMergeClaims, TypeOK
<1>12. CASE WriteMerged
  <2>1. merger.pc = "write" /\ merger.id \in SnapIds
    BY <1>12 DEF WriteMerged, MergeIsSound, TypeOK
  <2>2. CASE {merger.last} \cup BaseOf(merger.last) \subseteq packs
    <3>1. packs' = packs \cup {merger.id}
      BY <1>12, <2>2 DEF WriteMerged
    <3>2. merger' = [merger EXCEPT !.pc = "publish"]
      BY <1>12, <2>2 DEF WriteMerged
    <3>3. UNCHANGED <<ranksFiles, index, pinsFile, memory, lock, names, saver, inbox,
                      force, reader, up, clock, acked, leaked, budget>>
      BY <1>12, <2>2 DEF WriteMerged
    <3> QED
      BY <2>1, <3>1, <3>2, <3>3, ZenonT(60) DEF TypeOK, memory, names
  <2>3. CASE ~({merger.last} \cup BaseOf(merger.last) \subseteq packs)
    <3>1. merger' \in Mergers /\ force' \in {"none", "waiting"} /\ packs' = packs
      BY <1>12, <2>3, EndMergeKeepsType DEF WriteMerged
    <3> QED
      BY <1>12, <3>1 DEF WriteMerged, TypeOK, Mergers
  <2> QED
    BY <2>2, <2>3
<1>13. CASE WriteMergedFails
  <2>1. merger' \in Mergers /\ force' \in {"none", "waiting"} /\ budget' \in Budgets
    BY <1>13, EndMergeKeepsType, SpendKeepsType DEF WriteMergedFails
  <2> QED
    BY <1>13, <2>1 DEF WriteMergedFails, TypeOK, Mergers, Budgets
<1>14. merger.pc = "publish" => merger.id \in SnapIds
  BY DEF MergeIsSound, TypeOK
<1>15. CASE PublishMerged
  <2>1. MergedManifest \in Manifests
    BY <1>14, <1>15, MergedIsManifest DEF PublishMerged
  <2>2. /\ ranksFiles' \subseteq SnapIds
        /\ written' \subseteq SnapIds
        /\ index' \in Manifests
    BY <1>15, <2>1, PersistKeepsType DEF PublishMerged
  <2> QED
    BY <1>15, <2>1, <2>2 DEF PublishMerged, TypeOK
<1>16. CASE PublishMergedFails
  <2>1. MergedManifest \in Manifests
    BY <1>14, <1>16, MergedIsManifest DEF PublishMergedFails
  <2>2. /\ ranksFiles' \subseteq SnapIds
        /\ written' \subseteq SnapIds
        /\ index' \in Manifests
        /\ budget' \in Budgets
    BY <1>16, <2>1, PersistKeepsType DEF PublishMergedFails
  <2>3. merger' \in Mergers /\ force' \in {"none", "waiting"}
    BY <1>16, EndMergeKeepsType DEF PublishMergedFails
  <2> QED
    BY <1>14, <1>16, <2>2, <2>3 DEF PublishMergedFails, TypeOK, Budgets, Mergers
<1>17. CASE MergeReadersGone
  BY <1>17 DEF MergeReadersGone, TypeOK
<1>18. CASE MergeEnd
  <2>1. merger' \in Mergers /\ force' \in {"none", "waiting"}
    BY <1>18, EndMergeKeepsType DEF MergeEnd
  <2> QED
    BY <1>18, <2>1 DEF MergeEnd, TypeOK, Mergers
<1>19. CASE MergeUnlinkTimesOut
  <2>1. merger' \in Mergers /\ force' \in {"none", "waiting"}
    BY <1>19, EndMergeKeepsType DEF MergeUnlinkTimesOut
  <2> QED
    BY <1>19, <2>1 DEF MergeUnlinkTimesOut, TypeOK, Mergers
<1>20. CASE MergeUnlinkOne
  <2>1. PICK i \in merger.left :
            /\ UnlinkFiles(i) \/ UnlinkFails(i)
            /\ merger' = [merger EXCEPT !.left = @ \ {i}]
    BY <1>20 DEF MergeUnlinkOne
  <2>2. /\ packs' \subseteq SnapIds
        /\ ranksFiles' \subseteq SnapIds
        /\ leaked' \subseteq SnapIds
        /\ budget' \in Budgets
    BY <2>1, UnlinkKeepsType DEF TypeOK
  <2> QED
    BY <1>20, <2>1, <2>2 DEF MergeUnlinkOne, TypeOK, Budgets
<1> QED
  BY <1>2, <1>3, <1>4, <1>6, <1>7, <1>8, <1>9, <1>10, <1>11, <1>12, <1>13, <1>15, <1>16,
     <1>17, <1>18, <1>19, <1>20
  DEF MergerStep, MergerFault

\* Pinning and unpinning change one flag.
LEMMA RepinnedIsManifest ==
    ASSUME TypeOK, NEW step, NEW on \in BOOLEAN, PinTarget(manifest, desc, step) # None
    PROVE  /\ Repinned(step, on) \in Manifests
           /\ Repinned(step, on).snaps = manifest.snaps
           /\ Repinned(step, on).fin = manifest.fin
<1>1. PinTarget(manifest, desc, step) \in manifest.fin \cup {None}
  BY LookUps DEF TypeOK
<1>2. PinTarget(manifest, desc, step) \in SnapIds /\ manifest \in Manifests
  BY <1>1 DEF TypeOK, Manifests
<1> QED
  BY <1>2 DEF Repinned, Manifests

\* What the callers do keeps every variable of its kind.
LEMMA CallersKeepType ==
    ASSUME TypeOK,
           \/ CallMergeNow \/ CallerStopsWaiting \/ SetPinned \/ SetPinnedFails
           \/ \E r \in Readers : LoadBegin(r) \/ LoadStep(r)
    PROVE  TypeOK'
<1> USE DEF disk, memory, names, threads
<1>1. CASE CallMergeNow
  <2>1. budget' \in Budgets
    BY <1>1, SpendKeepsType DEF CallMergeNow
  <2> QED
    BY <1>1, <2>1 DEF CallMergeNow, TypeOK, Budgets
<1>2. CASE CallerStopsWaiting
  BY <1>2 DEF CallerStopsWaiting, TypeOK
<1>3. CASE SetPinned
  <2>1. PICK step \in 1 .. MaxStep, on \in BOOLEAN :
            /\ PinTarget(manifest, desc, step) # None
            /\ manifest' = Repinned(step, on)
            /\ pinsFile' = PinnedSteps(Repinned(step, on), step, on)
            /\ IF Repinned(step, on) = manifest
               THEN UNCHANGED <<ranksFiles, written, index>>
               ELSE Persist(Repinned(step, on))
    BY <1>3 DEF SetPinned
  <2>2. manifest' \in Manifests
    BY <2>1, RepinnedIsManifest
  <2>3. step \in Nat
    BY StoreAssumption
  <2>4. pinsFile' \in [present : BOOLEAN, steps : SUBSET Nat]
    <3>1. pinsFile.steps \subseteq Nat
      BY DEF TypeOK
    <3>2. {desc.step[i] : i \in Repinned(step, on).pinned \cap Repinned(step, on).fin}
            \subseteq Nat
      BY <2>1, <2>2 DEF TypeOK, Manifests, Descriptors
    <3> QED
      BY <2>1, <2>3, <3>1, <3>2 DEF PinnedSteps
  <2>5. /\ ranksFiles' \subseteq SnapIds
        /\ written' \subseteq SnapIds
        /\ index' \in Manifests
    <3>1. CASE Repinned(step, on) = manifest
      BY <2>1, <3>1 DEF TypeOK
    <3>2. CASE Repinned(step, on) # manifest
      BY <2>1, <2>2, <3>2, PersistKeepsType
    <3> QED
      BY <3>1, <3>2
  <2>6. budget' \in Budgets
    BY <1>3, SpendKeepsType DEF SetPinned
  <2> QED
    BY <1>3, <2>2, <2>4, <2>5, <2>6 DEF SetPinned, TypeOK, Budgets
<1>4. CASE SetPinnedFails
  <2>1. PICK step \in 1 .. MaxStep, on \in BOOLEAN :
            /\ PinTarget(manifest, desc, step) # None
            /\ manifest' = Repinned(step, on)
            /\ \/ PersistFails(Repinned(step, on))
               \/ Spend("fault") /\ Persist(Repinned(step, on))
    BY <1>4 DEF SetPinnedFails
  <2>2. manifest' \in Manifests
    BY <2>1, RepinnedIsManifest
  <2>3. /\ ranksFiles' \subseteq SnapIds
        /\ written' \subseteq SnapIds
        /\ index' \in Manifests
        /\ budget' \in Budgets
    BY <2>1, <2>2, PersistKeepsType, SpendKeepsType
  <2> QED
    <3>1. UNCHANGED <<packs, pinsFile, lock, names, threads, up, clock, acked, leaked>>
      BY <1>4 DEF SetPinnedFails
    <3> QED
      BY <2>2, <2>3, <3>1 DEF TypeOK, Budgets
<1>5. ASSUME NEW r \in Readers, LoadBegin(r)
      PROVE  TypeOK'
  <2>1. PICK i \in manifest.fin : reader' = [reader EXCEPT ![r] = [pc |-> "picked", id |-> i]]
    BY <1>5 DEF LoadBegin
  <2>2. i \in SnapIds
    BY DEF TypeOK, Manifests
  <2>3. [pc |-> "picked", id |-> i]
            \in [pc : {"idle", "picked", "pinned", "found", "base", "rebase", "loaded",
                       "unlisted", "notfound", "missing"},
                id : SnapIds \cup {None}]
    BY <2>2
  <2> QED
    BY <1>5, <2>1, <2>3 DEF LoadBegin, TypeOK
<1>6. ASSUME NEW r \in Readers, LoadStep(r)
      PROVE  TypeOK'
  <2>1. ASSUME NEW pc \in {"pinned", "found", "base", "rebase", "loaded", "unlisted",
                           "notfound", "missing"},
               LoadMovesTo(r, pc)
        PROVE  TypeOK'
    BY <2>1, SMTT(30) DEF LoadMovesTo, TypeOK
  <2>2. CASE LoadPins(r) \/ LoadFinds(r) \/ LoadReads(r) \/ LoadFindsBase(r)
                \/ LoadReadsBase(r)
    BY <2>1, <2>2 DEF LoadPins, LoadFinds, LoadReads, LoadFindsBase, LoadReadsBase
  <2>3. CASE LoadEnd(r)
    BY <2>3 DEF LoadEnd, IdleReader, TypeOK
  <2> QED
    BY <1>6, <2>2, <2>3 DEF LoadStep
<1> QED
  BY <1>1, <1>2, <1>3, <1>4, <1>5, <1>6

\* What recovery makes of the index it loaded.
LEMMA RecoveredIsManifest ==
    ASSUME TypeOK, NEW t
    PROVE  /\ LoadedManifest \in Manifests
           /\ LoadedManifest.fin =
                index.fin \ {i \in index.snaps : ~({i} \cup BaseOf(i) \subseteq ranksFiles)}
           /\ LoadedManifest.snaps =
                index.snaps \ {i \in index.snaps : ~({i} \cup BaseOf(i) \subseteq ranksFiles)}
           /\ RecoveredManifest(t) \in Manifests
           /\ RecoveredManifest(t).snaps = LoadedManifest.snaps \cup Recovered(t)
           /\ RecoveredManifest(t).fin = LoadedManifest.fin \cup Recovered(t)
<1> DEFINE lost == {i \in index.snaps : ~({i} \cup BaseOf(i) \subseteq ranksFiles)}
<1>1. /\ LoadedManifest \in Manifests
      /\ LoadedManifest.snaps = index.snaps \ lost
      /\ LoadedManifest.fin = index.fin \ lost
  <2> HIDE DEF lost
  <2>1. index \in Manifests
    BY DEF TypeOK
  <2>2. /\ Drop(index, lost) \in Manifests
        /\ Drop(index, lost).snaps = index.snaps \ lost
        /\ Drop(index, lost).fin = index.fin \ lost
    BY <2>1, DropIsManifest
  <2> QED
    BY <2>2 DEF LoadedManifest, lost
<1>3. Recovered(t) \subseteq SnapIds
  BY DEF Recovered, Intact, TypeOK
<1> DEFINE pushed == [LoadedManifest EXCEPT
                        !.snaps = @ \cup Recovered(t),
                        !.fin = @ \cup Recovered(t),
                        !.pos = [i \in SnapIds |->
                            IF i \in Recovered(t)
                            THEN Cardinality(LoadedManifest.snaps)
                                 + Cardinality({j \in Recovered(t) : ~Earlier(t, i, j)})
                            ELSE LoadedManifest.pos[i]]]
<1>4. /\ pushed \in Manifests
      /\ pushed.snaps = LoadedManifest.snaps \cup Recovered(t)
      /\ pushed.fin = LoadedManifest.fin \cup Recovered(t)
  <2>1. /\ Cardinality(LoadedManifest.snaps) \in Nat
        /\ \A i \in SnapIds :
                Cardinality({j \in Recovered(t) : ~Earlier(t, i, j)}) \in Nat
    <3>1. \A i \in SnapIds : {j \in Recovered(t) : ~Earlier(t, i, j)} \in SUBSET SnapIds
      BY <1>3
    <3>2. LoadedManifest.snaps \in SUBSET SnapIds
      BY <1>1 DEF Manifests
    <3> QED
      BY <3>1, <3>2, IdSetSize
  <2> DEFINE pos == [i \in SnapIds |->
                        IF i \in Recovered(t)
                        THEN Cardinality(LoadedManifest.snaps)
                             + Cardinality({j \in Recovered(t) : ~Earlier(t, i, j)})
                        ELSE LoadedManifest.pos[i]]
  <2>2. LoadedManifest.pos \in [SnapIds -> Nat]
    BY <1>1 DEF Manifests
  <2>3. pos \in [SnapIds -> Nat]
    BY <2>1, <2>2
  <2>4. pushed = [LoadedManifest EXCEPT !.snaps = @ \cup Recovered(t),
                                        !.fin = @ \cup Recovered(t), !.pos = pos]
    OBVIOUS
  <2> HIDE DEF pos, pushed
  <2> QED
    BY <1>1, <1>3, <2>3, <2>4 DEF Manifests
<1>5. RecoveredManifest(t) =
        IF Recovered(t) = {} THEN LoadedManifest ELSE SortByStep(pushed, desc)
  BY DEF RecoveredManifest
<1> HIDE DEF pushed
<1>6. /\ SortByStep(pushed, desc) \in Manifests
      /\ SortByStep(pushed, desc).snaps = pushed.snaps
      /\ SortByStep(pushed, desc).fin = pushed.fin
  BY <1>4, SortIsManifest
<1> QED
  BY <1>1, <1>4, <1>5, <1>6

\* A crash and a start keep every variable of its kind.
LEMMA RestartKeepsType ==
    ASSUME TypeOK, Crash \/ Start
    PROVE  TypeOK'
<1> USE DEF disk, memory, names, threads
<1>1. CASE Crash
  <2>1. budget' \in Budgets
    BY <1>1, SpendKeepsType DEF Crash
  <2>2. IdleSaver \in [pc : {"idle", "write", "record", "fulls", "total", "persist",
                            "unlink", "unlinking"},
                      id : SnapIds \cup {None},
                      evicted : SUBSET SnapIds,
                      protected : SUBSET (SnapIds \cup {None})]
    BY DEF IdleSaver
  <2>3. IdleMerger \in Mergers
    BY DEF IdleMerger, Mergers
  <2>4. reader' \in [Readers -> [pc : {"idle", "picked", "pinned", "found", "base",
                                      "rebase", "loaded", "unlisted", "notfound",
                                      "missing"},
                                id : SnapIds \cup {None}]]
    BY <1>1 DEF Crash, IdleReader
  <2>5. inbox' \in Seq({"check", "force"})
    BY <1>1 DEF Crash
  <2>6. /\ manifest' \in Manifests /\ saver' = IdleSaver /\ merger' = IdleMerger
        /\ written' = {} /\ lock' = "free" /\ force' = "none" /\ up' = FALSE
        /\ clock' = 0 /\ leaked' = {}
        /\ UNCHANGED <<packs, ranksFiles, index, pinsFile, desc, nextId, acked>>
    BY <1>1, EmptyIsManifest DEF Crash
  <2> QED
    <3>1. /\ packs' \subseteq SnapIds /\ ranksFiles' \subseteq SnapIds
          /\ index' \in Manifests /\ manifest' \in Manifests
          /\ pinsFile' \in [present : BOOLEAN, steps : SUBSET Nat]
          /\ desc' \in Descriptors /\ nextId' \in 1 .. MaxIds + 1
          /\ acked' \in Nat
      BY <2>6 DEF TypeOK
    <3>2. /\ written' \subseteq SnapIds /\ lock' \in {"free", "saver"}
          /\ force' \in {"none", "waiting"} /\ up' \in BOOLEAN
          /\ clock' \in Nat /\ leaked' \subseteq SnapIds
      BY <2>6
    <3>3. saver' = IdleSaver /\ merger' = IdleMerger
      BY <2>6
    <3> QED
      BY <2>1, <2>2, <2>3, <2>4, <2>5, <3>1, <3>2, <3>3, ZenonT(60)
      DEF TypeOK, Budgets, Mergers
<1>2. \A m \in Manifests : NewestStep(m) \in Nat
  BY LookUps DEF NewestStep, TypeOK, Manifests, Descriptors
<1>3. Orphans \subseteq SnapIds
  BY DEF Orphans, TypeOK
<1>4. \A t : RecoveredManifest(t) \in Manifests /\ Recovered(t) \subseteq SnapIds
  BY RecoveredIsManifest DEF Recovered, Intact, TypeOK
<1>5. LoadedManifest \in Manifests
  BY RecoveredIsManifest
<1>6. ASSUME NEW t, NEW back \in SUBSET SnapIds, NEW P, NEW R,
             NEW W \in SUBSET back, Reclaims(back, P, R, W)
      PROVE  packs' \subseteq SnapIds /\ ranksFiles' \subseteq SnapIds
  BY <1>6 DEF Reclaims, TypeOK
<1>7. ASSUME NEW m \in Manifests, Starts(m),
             packs' \subseteq SnapIds, ranksFiles' \subseteq SnapIds, index' \in Manifests,
             written' \subseteq SnapIds, leaked' \subseteq SnapIds, budget' \in Budgets
      PROVE  TypeOK'
  <2>1. manifest' \in Manifests /\ clock' \in Nat /\ up' \in BOOLEAN
    BY <1>2, <1>7 DEF Starts
  <2> QED
    BY <1>7, <2>1 DEF Starts, TypeOK, Budgets
<1>8. CASE Open \/ OpenLitters
  <2>1. PICK t \in TieBreaks, P \in SUBSET SnapIds, R \in SUBSET SnapIds :
            Recovers(t, Recovered(t), P, R)
    BY <1>8, <1>3 DEF Open, OpenLitters, SomeLeft
  <2>2. RecoveredManifest(t) \in Manifests /\ RecoveredManifest(t).snaps \subseteq SnapIds
    BY <1>4 DEF Manifests
  <2>3. packs' \subseteq SnapIds /\ ranksFiles' \subseteq SnapIds
    BY <1>4, <1>6, <2>1 DEF Recovers
  <2>4. index' \in Manifests /\ written' \subseteq SnapIds /\ leaked' \subseteq SnapIds
    BY <2>1, <2>2 DEF Recovers, Starts, TypeOK
  <2>5. budget' \in Budgets
    BY <1>8, SpendKeepsType DEF Open, OpenLitters, TypeOK, Budgets
  <2> QED
    BY <1>7, <2>1, <2>2, <2>3, <2>4, <2>5 DEF Recovers
<1>9. CASE OpenUnwritten
  <2>1. PICK t \in TieBreaks :
            /\ Starts(RecoveredManifest(t))
            /\ \E W \in SUBSET Recovered(t) :
                /\ Reclaims(Recovered(t), {}, {}, W)
                /\ written' \in {manifest'.snaps, LoadedManifest.snaps}
    BY <1>9 DEF OpenUnwritten, Prefixes
  <2>2. /\ RecoveredManifest(t) \in Manifests /\ RecoveredManifest(t).snaps \subseteq SnapIds
        /\ LoadedManifest.snaps \subseteq SnapIds
    BY <1>4, <1>5 DEF Manifests
  <2>3. packs' \subseteq SnapIds /\ ranksFiles' \subseteq SnapIds
    BY <1>4, <1>6, <2>1
  <2>4. index' \in Manifests /\ written' \subseteq SnapIds /\ leaked' \subseteq SnapIds
    BY <1>9, <2>1, <2>2 DEF OpenUnwritten, Starts, TypeOK
  <2>5. budget' \in Budgets
    BY <1>9, SpendKeepsType DEF OpenUnwritten
  <2> QED
    BY <1>7, <2>1, <2>2, <2>3, <2>4, <2>5
<1>10. CASE StartKilled
  <2>1. PICK t \in TieBreaks : \E P, R : \E W \in SUBSET Recovered(t) :
            Reclaims(Recovered(t), P, R, W)
    BY <1>10 DEF StartKilled, Prefixes
  <2>2. packs' \subseteq SnapIds /\ ranksFiles' \subseteq SnapIds
    BY <1>4, <1>6, <2>1
  <2>3. budget' \in Budgets
    BY <1>10, SpendKeepsType DEF StartKilled
  <2>4. UNCHANGED <<index, pinsFile, memory, lock, names, threads, up, clock, acked, leaked>>
    BY <1>10 DEF StartKilled
  <2> QED
    BY <2>2, <2>3, <2>4 DEF TypeOK, Budgets
<1>11. CASE OpenBlind
  <2>1. budget' \in Budgets
    BY <1>11, SpendKeepsType DEF OpenBlind
  <2>2. LoadedManifest.snaps \subseteq SnapIds
    BY <1>5 DEF Manifests
  <2>3. /\ manifest' \in Manifests /\ written' \subseteq SnapIds /\ up' \in BOOLEAN
        /\ clock' \in Nat /\ leaked' \subseteq SnapIds
    BY <1>2, <1>3, <1>5, <1>11, <2>2 DEF OpenBlind
  <2>4. UNCHANGED <<disk, lock, names, threads, acked>>
    BY <1>11 DEF OpenBlind
  <2> QED
    BY <2>1, <2>3, <2>4 DEF TypeOK, Budgets
<1> QED
  BY <1>1, <1>8, <1>9, <1>10, <1>11 DEF Start

-----------------------------------------------------------------------------
(* The initial states.                                                     *)

\* Nothing is listed, claimed or pinned in a new store.
LEMMA InitIsSound == Init => TypeOK /\ StoreInv
<1> SUFFICES ASSUME Init PROVE TypeOK /\ StoreInv
  OBVIOUS
<1>1. TypeOK
  <2>1. desc \in Descriptors
    BY ManifestAssumption DEF Init, Descriptors
  <2>2. budget \in Budgets
    BY StoreAssumption DEF Init, Budgets
  <2>3. saver = IdleSaver /\ merger \in Mergers
    BY DEF Init, IdleMerger, Mergers
  <2>4. nextId \in 1 .. MaxIds + 1
    BY ManifestAssumption DEF Init
  <2>5. reader \in [Readers -> [pc : {"idle"}, id : {None}]]
    BY DEF Init, IdleReader
  <2> QED
    BY <2>1, <2>2, <2>3, <2>4, <2>5, EmptyIsManifest
    DEF Init, TypeOK, Budgets, Mergers, IdleSaver
<1>2. StoreInv
  BY DEF Init, StoreInv, NamesAreFresh, MemoryIsSound, ListedIsReadable, IndexIsSound,
         IndexIsReadable, SaveIsSound, MergeIsSound, PinsAreSound, DownIsIdle, Pending,
         PinnedIsPresent, Pinned, SaverPins, ReaderPins, Doomed, BaseOf, EmptyManifest,
         IdleSaver, IdleMerger, IdleReader
<1> QED
  BY <1>1, <1>2

-----------------------------------------------------------------------------
(* What the actions are made of.                                           *)

\* What becomes of ranks files, of `written` and of the index when memory is
\* persisted, whole or in part.
LEMMA PersistIsSound ==
    ASSUME NEW m, m.fin = m.snaps,
           Persist(m) \/ PersistFails(m),
           written \cap m.snaps \subseteq ranksFiles
    PROVE  /\ ranksFiles \subseteq ranksFiles'
           /\ ranksFiles' \subseteq ranksFiles \cup m.snaps
           /\ written' \subseteq written \cup m.snaps
           /\ written' \cap m.snaps \subseteq ranksFiles'
           /\ Persist(m) => index' = m /\ m.snaps \subseteq ranksFiles'
           /\ PersistFails(m) => index' = index
BY DEF Persist, PersistFails, Unwritten

\* The part of TypeOK the safety proof uses, one fact at a time.
Types ==
    /\ SnapIds \subseteq Int /\ None \notin SnapIds
    /\ packs \subseteq SnapIds /\ ranksFiles \subseteq SnapIds /\ written \subseteq SnapIds
    /\ manifest \in Manifests /\ index \in Manifests /\ desc \in Descriptors
    /\ manifest.snaps \subseteq SnapIds /\ manifest.fin \subseteq SnapIds
    /\ index.snaps \subseteq SnapIds /\ index.fin \subseteq SnapIds
    /\ \A i \in SnapIds : desc.base[i] \in SnapIds \cup {None}
    /\ \A i \in SnapIds : BaseOf(i) \subseteq SnapIds
    /\ nextId \in Int
    /\ saver.id \in SnapIds \cup {None} /\ saver.evicted \subseteq SnapIds
    /\ merger.id \in SnapIds \cup {None}
    /\ merger.claim \subseteq SnapIds /\ merger.left \subseteq SnapIds
    /\ \A r \in Readers : reader[r].id \in SnapIds \cup {None}

\* TypeOK says all of it.
LEMMA TypesHold == TypeOK => Types
<1> SUFFICES ASSUME TypeOK PROVE Types
  OBVIOUS
<1>1. SnapIds \subseteq Int /\ None \notin SnapIds /\ nextId \in Int
  BY ManifestAssumption DEF SnapIds, None, TypeOK
<1>2. \A i \in SnapIds : desc.base[i] \in SnapIds \cup {None}
  BY DEF TypeOK, Descriptors
<1>3. \A i \in SnapIds : BaseOf(i) \subseteq SnapIds
  BY <1>2 DEF BaseOf
<1> QED
  BY <1>1, <1>2, <1>3 DEF TypeOK, Types, Manifests

\* The base of a delta is a full.
LEMMA BasesAreFulls ==
    ASSUME NamesAreFresh, NEW i \in SnapIds, NEW b \in BaseOf(i)
    PROVE  b # None /\ b < nextId /\ desc.base[b] = None
BY DEF NamesAreFresh, BaseOf

\* Handing out an identifier names it and its base, and leaves the names of
\* all others alone.
LEMMA FreshIsSound ==
    ASSUME TypeOK, NamesAreFresh, NEW step, NEW base \in SnapIds \cup {None},
           Fresh(step, base),
           base # None => base < nextId /\ desc.base[base] = None
    PROVE  /\ nextId \in SnapIds /\ nextId \in Int /\ nextId # None
           /\ nextId' = nextId + 1
           /\ \A i \in SnapIds : i < nextId =>
                desc'.base[i] = desc.base[i] /\ BaseOf(i)' = BaseOf(i)
           /\ \A i \in SnapIds : i = nextId =>
                desc'.base[i] = base /\ BaseOf(i)' = {base} \ {None}
           /\ \A i \in SnapIds :
                /\ i >= nextId' => desc'.base[i] = None
                /\ \A b \in BaseOf(i)' : b < nextId' /\ desc'.base[b] = None
<1>1. nextId \in SnapIds /\ nextId' = nextId + 1
  BY ManifestAssumption DEF Fresh, TypeOK, SnapIds
<1>2. nextId \in Int /\ nextId # None
  BY <1>1, ManifestAssumption DEF SnapIds, None
<1>3. desc.base \in [SnapIds -> SnapIds \cup {None}]
  BY DEF TypeOK, Descriptors
<1>4. desc'.base = [desc.base EXCEPT ![nextId] = base]
  BY DEF Fresh, TypeOK, Descriptors
<1>5. \A i \in SnapIds : desc'.base[i] = IF i = nextId THEN base ELSE desc.base[i]
  BY <1>3, <1>4
<1>6. \A i \in SnapIds : i < nextId => i # nextId
  BY <1>2, ManifestAssumption DEF SnapIds
<1>7. \A i \in SnapIds : BaseOf(i)' = IF i = nextId THEN {base} \ {None} ELSE BaseOf(i)
  BY <1>5 DEF BaseOf
<1>8. ASSUME NEW i \in SnapIds
      PROVE  /\ i >= nextId' => desc'.base[i] = None
             /\ \A b \in BaseOf(i)' : b < nextId' /\ desc'.base[b] = None
  <2>1. i >= nextId' => i >= nextId /\ i # nextId
    BY <1>1, <1>2, ManifestAssumption DEF SnapIds
  <2>2. CASE i = nextId
    BY <1>1, <1>2, <1>5, <1>7, <2>1, <2>2, ManifestAssumption DEF SnapIds
  <2>3. CASE i # nextId
    <3>1. ASSUME NEW b \in BaseOf(i)
          PROVE  b \in SnapIds /\ b < nextId /\ b # nextId /\ b < nextId' /\ desc.base[b] = None
      BY <1>1, <1>2, <1>3, <1>6, <3>1, ManifestAssumption DEF NamesAreFresh, BaseOf, SnapIds
    <3> QED
      BY <1>5, <1>7, <2>1, <2>3, <3>1 DEF NamesAreFresh
  <2> QED
    BY <2>2, <2>3
<1> QED
  BY <1>1, <1>2, <1>5, <1>6, <1>7, <1>8

-----------------------------------------------------------------------------
(* The save pipeline, the merger, the callers.                             *)

\* Every step of the save pipeline keeps the invariant.
LEMMA SaveKeepsInv ==
    ASSUME TypeOK, StoreInv, SaveBegin \/ SaverStep \/ SaverFault
    PROVE  StoreInv'
<1> USE DEF disk, memory, names, threads
<1>1. CASE SaveBegin
  <2>1. PICK step \in SaveSteps : Fresh(step, BaseFor(step))
    BY <1>1 DEF SaveBegin
  <2> DEFINE base == BaseFor(step)
  <2>2. \/ base = None
        \/ /\ base \in manifest.snaps /\ base \notin Doomed
           /\ desc.base[base] = None /\ base < nextId
    <3>1. LastFull(manifest, desc) \in manifest.fin \cup {None}
      BY LookUps DEF TypeOK
    <3>2. LastFull(manifest, desc) # None => desc.base[LastFull(manifest, desc)] = None
      BY LookUps DEF TypeOK
    <3> QED
      BY <3>1, <3>2 DEF BaseFor, StoreInv, MemoryIsSound, NamesAreFresh
  <2>3. base \in SnapIds \cup {None} /\ Fresh(step, base)
    BY <2>1, <2>2 DEF TypeOK, Manifests
  <2>4. /\ saver' = [pc |-> "write", id |-> nextId, evicted |-> {}, protected |-> {}]
        /\ saver.pc = "idle" /\ up
        /\ UNCHANGED <<packs, ranksFiles, index, manifest, written, merger, reader, up>>
    BY <1>1 DEF SaveBegin, IdleSaver
  <2> HIDE DEF base
  <2>5. /\ nextId \in SnapIds /\ nextId \in Int /\ nextId # None
        /\ nextId' = nextId + 1
        /\ \A i \in SnapIds : i < nextId =>
             desc'.base[i] = desc.base[i] /\ BaseOf(i)' = BaseOf(i)
        /\ \A i \in SnapIds : i = nextId =>
             desc'.base[i] = base /\ BaseOf(i)' = {base} \ {None}
        /\ \A i \in SnapIds :
             /\ i >= nextId' => desc'.base[i] = None
             /\ \A b \in BaseOf(i)' : b < nextId' /\ desc'.base[b] = None
    BY <2>2, <2>3, FreshIsSound DEF StoreInv
  <2>6. Types
    BY TypesHold
  <2>7. NamesAreFresh'
    <3>1. \A i \in SnapIds : i < nextId => i < nextId'
      BY <2>5, <2>6 DEF Types
    <3> QED
      BY <2>4, <2>5, <2>6, <3>1 DEF StoreInv, NamesAreFresh, Types
  <2>8. MemoryIsSound' /\ IndexIsSound'
    <3>1. \A i \in manifest.snaps \cup index.snaps : BaseOf(i)' = BaseOf(i)
      BY <2>5, <2>6 DEF StoreInv, NamesAreFresh, Types
    <3> QED
      BY <2>4, <3>1
      DEF StoreInv, MemoryIsSound, ListedIsReadable, IndexIsSound, IndexIsReadable
  <2>9. SaveIsSound'
    BY <2>2, <2>4, <2>5, <2>6
    DEF StoreInv, NamesAreFresh, SaveIsSound, MergeIsSound, Pending, SaverPins, Doomed,
        Types
  <2>10. MergeIsSound'
    <3>1. \A i \in manifest.snaps : BaseOf(i)' = BaseOf(i)
      BY <2>5, <2>6 DEF StoreInv, NamesAreFresh, Types
    <3>2. merger.pc \in {"write", "publish"} =>
            merger.id # nextId /\ desc'.base[merger.id] = desc.base[merger.id]
      <4>1. merger.pc \in {"write", "publish"} => merger.id \in SnapIds /\ merger.id < nextId
        BY <2>6 DEF StoreInv, MergeIsSound, Pending, Types
      <4>2. merger.id \in SnapIds /\ merger.id < nextId => merger.id # nextId
        BY <2>5, <2>6 DEF Types
      <4>3. merger.id \in SnapIds /\ merger.id < nextId =>
                desc'.base[merger.id] = desc.base[merger.id]
        BY <2>5
      <4> QED
        BY <4>1, <4>2, <4>3
    <3>3. \A i \in SnapIds : i < nextId => i < nextId'
      BY <2>5, <2>6 DEF Types
    <3>4. merger' = merger /\ manifest' = manifest /\ index' = index /\ written' = written
          /\ packs' = packs /\ saver'.id = nextId /\ saver'.evicted = {}
      BY <2>4
    <3> QED
      BY <2>6, <3>1, <3>2, <3>3, <3>4
      DEF StoreInv, MergeIsSound, Pending, Types
  <2>11. PinsAreSound'
    <3>1. SaverPins' \subseteq manifest.snaps
      BY <2>2, <2>4, <2>5 DEF SaverPins
    <3>2. \A i \in packs : i < nextId
      BY DEF StoreInv, NamesAreFresh
    <3>3. \A r \in Readers : ReaderPins(r) \subseteq packs
      BY DEF StoreInv, PinsAreSound, PinnedIsPresent, Pinned
    <3>4. \A r \in Readers : ReaderPins(r)' = ReaderPins(r)
      BY <2>4, <2>5, <2>6, <3>2, <3>3 DEF ReaderPins, Types
    <3> QED
      BY <2>4, <3>1, <3>4
      DEF StoreInv, PinsAreSound, PinnedIsPresent, Pinned, MemoryIsSound, ListedIsReadable,
          MergeIsSound
  <2>12. DownIsIdle'
    BY <2>4 DEF StoreInv, DownIsIdle
  <2> QED
    BY <2>7, <2>8, <2>9, <2>10, <2>11, <2>12 DEF StoreInv
<1>2. CASE WritePack
  <2>1. saver.pc = "write" /\ saver.id < nextId /\ saver.id \notin manifest.snaps
    BY <1>2 DEF WritePack, StoreInv, SaveIsSound, Pending
  <2>2. NamesAreFresh'
    BY <1>2, <2>1 DEF WritePack, StoreInv, NamesAreFresh, BaseOf
  <2>3. MemoryIsSound' /\ IndexIsSound'
    BY <1>2
    DEF WritePack, StoreInv, MemoryIsSound, ListedIsReadable, IndexIsSound,
        IndexIsReadable, BaseOf
  <2>4. SaveIsSound'
    BY <1>2, SMTT(30)
    DEF WritePack, IdleSaver, TypeOK, StoreInv, SaveIsSound, SaverPins, Doomed, Pending,
        BaseOf
  <2>5. MergeIsSound'
    BY <1>2 DEF WritePack, IdleSaver, TypeOK, StoreInv, SaveIsSound, MergeIsSound, Pending,
                BaseOf
  <2>6. PinsAreSound'
    BY <1>2 DEF WritePack, IdleSaver, TypeOK, StoreInv, SaveIsSound, PinsAreSound,
                PinnedIsPresent, Pinned, SaverPins, ReaderPins, BaseOf
  <2>7. DownIsIdle'
    BY <1>2 DEF WritePack, StoreInv, DownIsIdle
  <2> QED
    BY <2>2, <2>3, <2>4, <2>5, <2>6, <2>7 DEF StoreInv
<1>3. CASE WritePackFails \/ SaveEnd
  <2>1. /\ saver' = IdleSaver /\ up
        /\ UNCHANGED <<disk, memory, names, merger, reader, up>>
    BY <1>3 DEF WritePackFails, SaveEnd
  <2>2. NamesAreFresh' /\ MemoryIsSound' /\ IndexIsSound' /\ DownIsIdle'
    BY <2>1
    DEF StoreInv, NamesAreFresh, MemoryIsSound, ListedIsReadable, IndexIsSound,
        IndexIsReadable, DownIsIdle, BaseOf
  <2>3. SaveIsSound' /\ MergeIsSound'
    BY <2>1
    DEF IdleSaver, StoreInv, SaveIsSound, MergeIsSound, SaverPins, Doomed, Pending, BaseOf
  <2>4. PinsAreSound'
    BY <2>1 DEF IdleSaver, StoreInv, PinsAreSound, PinnedIsPresent, Pinned, SaverPins,
                ReaderPins, BaseOf
  <2> QED
    BY <2>2, <2>3, <2>4 DEF StoreInv
<1>4. CASE RecordSave
  <2>1. /\ saver.pc = "record" /\ saver.id \in SnapIds /\ saver.id < nextId
        /\ saver.id \in packs /\ saver.id \notin written
        /\ saver.id \notin merger.claim /\ saver.evicted = {}
        /\ BaseOf(saver.id) \subseteq manifest.snaps
        /\ BaseOf(saver.id) \cap merger.claim = {}
    BY <1>4 DEF RecordSave, StoreInv, SaveIsSound, Pending, SaverPins, Doomed, TypeOK
  <2>2. /\ manifest'.snaps = manifest.snaps \cup {saver.id}
        /\ manifest'.fin = manifest.fin \cup {saver.id}
    BY <1>4, <2>1, RecordedManifest DEF RecordSave
  <2>3. /\ saver'.pc = "fulls" /\ saver'.id = saver.id /\ saver'.evicted = {}
        /\ UNCHANGED <<disk, written, names, merger, reader, up>> /\ up
    BY <1>4, <2>1 DEF RecordSave, TypeOK
  <2>4. PICK id \in SnapIds : id = saver.id
    BY <2>1
  <2>5. NamesAreFresh' /\ IndexIsSound' /\ DownIsIdle'
    BY <2>1, <2>2, <2>3
    DEF StoreInv, NamesAreFresh, IndexIsSound, IndexIsReadable, DownIsIdle, BaseOf
  <2>6. MemoryIsSound'
    BY <2>1, <2>2, <2>3 DEF StoreInv, MemoryIsSound, ListedIsReadable, BaseOf
  <2>7. SaveIsSound'
    BY <2>1, <2>2, <2>3
    DEF StoreInv, SaveIsSound, SaverPins, Doomed, Pending, BaseOf
  <2>8. MergeIsSound'
    BY <2>1, <2>2, <2>3 DEF StoreInv, SaveIsSound, MergeIsSound, Pending, BaseOf
  <2>9. PinsAreSound'
    BY <2>1, <2>3 DEF StoreInv, PinsAreSound, PinnedIsPresent, Pinned, SaverPins,
                      ReaderPins, BaseOf
  <2> QED
    BY <2>5, <2>6, <2>7, <2>8, <2>9 DEF StoreInv
<1>5. CASE RecordSaveFails
  <2>1. /\ saver.pc = "record" /\ saver.id \in SnapIds /\ saver.id < nextId
        /\ saver.id \in packs /\ saver.id \notin written
        /\ saver.id \notin merger.claim /\ saver.evicted = {}
        /\ BaseOf(saver.id) \subseteq manifest.snaps
        /\ BaseOf(saver.id) \cap merger.claim = {}
    BY <1>5 DEF RecordSaveFails, StoreInv, SaveIsSound, Pending, SaverPins, Doomed, TypeOK
  <2>2. /\ manifest'.snaps = manifest.snaps \cup {saver.id}
        /\ manifest'.fin = manifest.fin \cup {saver.id}
    BY <1>5, <2>1, PushIsManifest DEF RecordSaveFails, TypeOK
  <2>3. /\ saver' = IdleSaver /\ up
        /\ UNCHANGED <<disk, written, names, merger, reader, up>>
    BY <1>5 DEF RecordSaveFails
  <2>5. NamesAreFresh' /\ IndexIsSound' /\ DownIsIdle'
    BY <2>1, <2>2, <2>3
    DEF StoreInv, NamesAreFresh, IndexIsSound, IndexIsReadable, DownIsIdle, BaseOf
  <2>6. MemoryIsSound'
    BY <2>1, <2>2, <2>3 DEF StoreInv, MemoryIsSound, ListedIsReadable, BaseOf
  <2>7. SaveIsSound'
    BY <2>1, <2>2, <2>3
    DEF IdleSaver, StoreInv, SaveIsSound, SaverPins, Doomed, Pending, BaseOf
  <2>8. MergeIsSound'
    BY <2>1, <2>2, <2>3 DEF IdleSaver, StoreInv, SaveIsSound, MergeIsSound, Pending, BaseOf
  <2>9. PinsAreSound'
    BY <2>1, <2>3 DEF IdleSaver, StoreInv, PinsAreSound, PinnedIsPresent, Pinned, SaverPins,
                      ReaderPins, BaseOf
  <2> QED
    BY <2>5, <2>6, <2>7, <2>8, <2>9 DEF StoreInv
<1>6. ASSUME NEW gone \in SUBSET SnapIds, Evict(gone), up,
             saver.pc \in {"fulls", "total"}, gone \subseteq manifest.snaps,
             \A i \in manifest.snaps \ gone : BaseOf(i) \cap gone = {}
      PROVE  StoreInv'
  <2>1. /\ manifest'.snaps = manifest.snaps \ gone
        /\ manifest'.fin = manifest.fin \ gone
    BY <1>6, DropIsManifest DEF Evict, TypeOK
  <2>2. /\ saver'.pc = saver.pc /\ saver'.id = saver.id
        /\ saver'.evicted = saver.evicted \cup gone
        /\ UNCHANGED <<disk, written, names, merger, reader, up>>
    BY <1>6 DEF Evict, TypeOK
  <2>3. NamesAreFresh' /\ IndexIsSound' /\ DownIsIdle'
    BY <1>6, <2>1, <2>2
    DEF StoreInv, NamesAreFresh, IndexIsSound, IndexIsReadable, DownIsIdle, BaseOf
  <2>4. MemoryIsSound'
    BY <1>6, <2>1, <2>2 DEF StoreInv, MemoryIsSound, ListedIsReadable, BaseOf
  <2>5. SaveIsSound'
    BY <1>6, <2>1, <2>2
    DEF StoreInv, NamesAreFresh, SaveIsSound, SaverPins, Doomed, Pending, BaseOf
  <2>6. MergeIsSound'
    BY <1>6, <2>1, <2>2 DEF StoreInv, MergeIsSound, Pending, BaseOf
  <2>7. PinsAreSound'
    BY <1>6, <2>2 DEF StoreInv, PinsAreSound, PinnedIsPresent, Pinned, SaverPins,
                      ReaderPins, BaseOf
  <2> QED
    BY <2>3, <2>4, <2>5, <2>6, <2>7 DEF StoreInv
<1>7. CASE EvictGroup
  <2> DEFINE full == OldestRemovableFull(manifest, desc, saver.protected)
             gone == GroupOf(manifest, desc, full)
  <2>1. full \in manifest.snaps /\ desc.base[full] = None
    BY <1>7, LookUps DEF EvictGroup, TypeOK, StoreInv, MemoryIsSound
  <2> HIDE DEF full
  <2>2. gone \subseteq manifest.snaps /\ gone \in SUBSET SnapIds
    BY DEF GroupOf, TypeOK, Manifests
  <2>3. \A i \in manifest.snaps \ gone : BaseOf(i) \cap gone = {}
    <3> SUFFICES ASSUME NEW i \in manifest.snaps \ gone, NEW b \in BaseOf(i), b \in gone
                 PROVE  FALSE
      OBVIOUS
    <3>1. b = desc.base[i] /\ b # None /\ desc.base[b] = None
      BY BasesAreFulls, TypesHold DEF BaseOf, StoreInv, Types
    <3>2. b # full /\ desc.base[b] # full
      BY <2>1, <3>1, TypesHold DEF GroupOf, Types
    <3> QED
      BY <3>2 DEF GroupOf
  <2>4. Evict(gone) /\ up /\ saver.pc \in {"fulls", "total"}
    BY <1>7 DEF EvictGroup, full
  <2> QED
    BY <1>6, <2>2, <2>3, <2>4
<1>8. CASE EvictOldest
  <2> DEFINE oldest == OldestRemovable(manifest, desc, saver.protected)
  <2>1. /\ oldest \in manifest.snaps
        /\ desc.base[oldest] # None \/ \A j \in manifest.snaps : desc.base[j] # oldest
    BY <1>8, LookUps DEF EvictOldest, TypeOK, StoreInv, MemoryIsSound
  <2> HIDE DEF oldest
  <2>2. {oldest} \subseteq manifest.snaps /\ {oldest} \in SUBSET SnapIds
    BY <2>1 DEF TypeOK, Manifests
  <2>3. \A i \in manifest.snaps \ {oldest} : BaseOf(i) \cap {oldest} = {}
    <3> SUFFICES ASSUME NEW i \in manifest.snaps, oldest \in BaseOf(i)
                 PROVE  FALSE
      OBVIOUS
    <3>1. oldest = desc.base[i] /\ desc.base[oldest] = None
      BY BasesAreFulls, TypesHold DEF BaseOf, StoreInv, Types
    <3> QED
      BY <2>1, <3>1
  <2>4. Evict({oldest}) /\ up /\ saver.pc \in {"fulls", "total"}
    BY <1>8 DEF EvictOldest, oldest
  <2> QED
    BY <1>6, <2>2, <2>3, <2>4
<1>9. CASE FullsCapped \/ TotalCapped
  <2>1. /\ saver.pc \in {"fulls", "total"} /\ saver'.pc \in {"total", "persist"}
        /\ saver'.id = saver.id /\ saver'.evicted = saver.evicted
        /\ up /\ UNCHANGED <<disk, memory, names, merger, reader, up>>
    BY <1>9 DEF FullsCapped, TotalCapped, RetentionMovesTo, TypeOK
  <2>2. NamesAreFresh' /\ MemoryIsSound' /\ IndexIsSound' /\ DownIsIdle'
    BY <2>1
    DEF StoreInv, NamesAreFresh, MemoryIsSound, ListedIsReadable, IndexIsSound,
        IndexIsReadable, DownIsIdle, BaseOf
  <2>3. SaveIsSound' /\ MergeIsSound'
    BY <2>1 DEF StoreInv, SaveIsSound, MergeIsSound, SaverPins, Doomed, Pending, BaseOf
  <2>4. PinsAreSound'
    BY <2>1 DEF StoreInv, PinsAreSound, PinnedIsPresent, Pinned, SaverPins, ReaderPins,
                BaseOf
  <2> QED
    BY <2>2, <2>3, <2>4 DEF StoreInv
<1>10. CASE PersistSave
  <2>1. Persist(manifest) /\ manifest.fin = manifest.snaps
    BY <1>10 DEF PersistSave, StoreInv, MemoryIsSound
  <2>2. /\ ranksFiles' \subseteq ranksFiles \cup manifest.snaps
        /\ ranksFiles \subseteq ranksFiles'
        /\ written' \subseteq written \cup manifest.snaps
        /\ written' \cap manifest.snaps \subseteq ranksFiles'
        /\ index' = manifest /\ manifest.snaps \subseteq ranksFiles'
    BY <2>1, PersistIsSound DEF StoreInv, MemoryIsSound
  <2>3. /\ saver.pc = "persist" /\ saver'.pc = "unlink"
        /\ saver'.id = saver.id /\ saver'.evicted = saver.evicted
        /\ up /\ UNCHANGED <<packs, manifest, names, merger, reader, up>>
    BY <1>10 DEF PersistSave, TypeOK
  <2>4. NamesAreFresh' /\ DownIsIdle'
    BY <2>2, <2>3 DEF StoreInv, NamesAreFresh, DownIsIdle, BaseOf
  <2>5. MemoryIsSound' /\ IndexIsSound'
    BY <2>1, <2>2, <2>3
    DEF StoreInv, MemoryIsSound, ListedIsReadable, IndexIsSound, IndexIsReadable, BaseOf
  <2>6. SaveIsSound'
    BY <2>2, <2>3 DEF StoreInv, SaveIsSound, SaverPins, Doomed, Pending, BaseOf
  <2>7. MergeIsSound'
    BY <2>2, <2>3 DEF StoreInv, MergeIsSound, Pending, BaseOf
  <2>8. PinsAreSound'
    BY <2>2, <2>3 DEF StoreInv, PinsAreSound, PinnedIsPresent, Pinned, SaverPins,
                      ReaderPins, BaseOf
  <2> QED
    BY <2>4, <2>5, <2>6, <2>7, <2>8 DEF StoreInv
<1>11. CASE PersistSaveFails
  <2>1. PersistFails(manifest) /\ manifest.fin = manifest.snaps
    BY <1>11 DEF PersistSaveFails, StoreInv, MemoryIsSound
  <2>2. /\ ranksFiles' \subseteq ranksFiles \cup manifest.snaps
        /\ ranksFiles \subseteq ranksFiles'
        /\ written' \subseteq written \cup manifest.snaps
        /\ written' \cap manifest.snaps \subseteq ranksFiles'
        /\ index' = index
    BY <2>1, PersistIsSound DEF StoreInv, MemoryIsSound
  <2>3. /\ saver.pc = "persist" /\ saver' = IdleSaver
        /\ up /\ UNCHANGED <<packs, manifest, names, merger, reader, up>>
    BY <1>11 DEF PersistSaveFails
  <2>4. NamesAreFresh' /\ DownIsIdle'
    BY <2>2, <2>3 DEF StoreInv, NamesAreFresh, DownIsIdle, BaseOf
  <2>5. MemoryIsSound' /\ IndexIsSound'
    BY <2>1, <2>2, <2>3
    DEF StoreInv, MemoryIsSound, ListedIsReadable, IndexIsSound, IndexIsReadable, BaseOf
  <2>6. SaveIsSound'
    BY <2>2, <2>3 DEF IdleSaver, StoreInv, SaveIsSound, SaverPins, Doomed, Pending, BaseOf
  <2>7. MergeIsSound'
    BY <2>2, <2>3 DEF IdleSaver, StoreInv, MergeIsSound, Pending, BaseOf
  <2>8. PinsAreSound'
    BY <2>2, <2>3 DEF IdleSaver, StoreInv, PinsAreSound, PinnedIsPresent, Pinned, SaverPins,
                      ReaderPins, BaseOf
  <2> QED
    BY <2>4, <2>5, <2>6, <2>7, <2>8 DEF StoreInv
<1>12. CASE SaveReadersGone \/ SaveUnlinkTimesOut
  <2>1. /\ saver.pc = "unlink" /\ saver'.pc = "unlinking" /\ saver'.id = saver.id
        /\ saver'.evicted \subseteq saver.evicted /\ saver'.evicted \cap Pinned = {}
        /\ up /\ UNCHANGED <<disk, memory, names, merger, reader, up>>
    BY <1>12 DEF SaveReadersGone, SaveUnlinkTimesOut, TypeOK
  <2>2. NamesAreFresh' /\ MemoryIsSound' /\ IndexIsSound' /\ DownIsIdle'
    BY <2>1
    DEF StoreInv, NamesAreFresh, MemoryIsSound, ListedIsReadable, IndexIsSound,
        IndexIsReadable, DownIsIdle, BaseOf
  <2>3. SaveIsSound' /\ MergeIsSound'
    BY <2>1 DEF StoreInv, SaveIsSound, MergeIsSound, SaverPins, Doomed, Pending, BaseOf
  <2>4. PinsAreSound'
    BY <2>1 DEF StoreInv, PinsAreSound, PinnedIsPresent, Pinned, SaverPins, ReaderPins,
                BaseOf
  <2> QED
    BY <2>2, <2>3, <2>4 DEF StoreInv
<1>13. CASE SaveUnlinkOne
  <2>1. PICK i \in saver.evicted :
            /\ UnlinkFiles(i) \/ UnlinkFails(i)
            /\ saver' = [saver EXCEPT !.evicted = @ \ {i}]
    BY <1>13 DEF SaveUnlinkOne
  <2>2. /\ packs \ {i} \subseteq packs' /\ packs' \subseteq packs
        /\ ranksFiles \ {i} \subseteq ranksFiles' /\ ranksFiles' \subseteq ranksFiles
    BY <2>1 DEF UnlinkFiles, UnlinkFails
  <2>3. /\ saver.pc = "unlinking" /\ saver'.pc = "unlinking" /\ saver'.id = saver.id
        /\ saver'.evicted = saver.evicted \ {i}
        /\ up /\ UNCHANGED <<index, memory, names, merger, reader, up>>
    BY <1>13, <2>1 DEF SaveUnlinkOne, TypeOK
  <2>4. i \notin manifest.snaps /\ i \notin index.snaps /\ i \notin Pinned
    BY <2>3 DEF StoreInv, SaveIsSound, PinsAreSound
  <2>5. NamesAreFresh' /\ DownIsIdle'
    BY <2>2, <2>3 DEF StoreInv, NamesAreFresh, DownIsIdle, BaseOf
  <2>6. MemoryIsSound' /\ IndexIsSound'
    BY <2>2, <2>3, <2>4
    DEF StoreInv, MemoryIsSound, ListedIsReadable, IndexIsSound, IndexIsReadable, BaseOf
  <2>7. SaveIsSound'
    BY <2>2, <2>3 DEF StoreInv, SaveIsSound, SaverPins, Doomed, Pending, BaseOf
  <2>8. MergeIsSound'
    BY <2>1, <2>2, <2>3, <2>4 DEF StoreInv, MergeIsSound, Pending, BaseOf
  <2>9. PinsAreSound'
    <3>1. Pinned' = Pinned
      BY <2>3 DEF Pinned, SaverPins, ReaderPins, BaseOf
    <3> QED
      BY <2>2, <2>3, <2>4, <3>1 DEF StoreInv, PinsAreSound, PinnedIsPresent
  <2> QED
    BY <2>5, <2>6, <2>7, <2>8, <2>9 DEF StoreInv
<1> QED
  BY <1>1, <1>2, <1>3, <1>4, <1>5, <1>7, <1>8, <1>9, <1>10, <1>11, <1>12, <1>13
  DEF SaverStep, SaverFault

\* Every step of the merger keeps the invariant.
LEMMA MergeKeepsInv ==
    ASSUME TypeOK, StoreInv, MergerStep \/ MergerFault
    PROVE  StoreInv'
<1> USE DEF disk, memory, names, threads
<1>1. Types
  BY TypesHold
<1>2. ASSUME merger' = IdleMerger, up,
             UNCHANGED <<disk, memory, names, saver, reader, up>>
      PROVE  StoreInv'
  <2>1. NamesAreFresh' /\ MemoryIsSound' /\ IndexIsSound' /\ DownIsIdle'
    BY <1>2
    DEF StoreInv, NamesAreFresh, MemoryIsSound, ListedIsReadable, IndexIsSound,
        IndexIsReadable, DownIsIdle, BaseOf
  <2>2. SaveIsSound' /\ MergeIsSound'
    BY <1>2
    DEF IdleMerger, StoreInv, SaveIsSound, MergeIsSound, SaverPins, Doomed, Pending, BaseOf
  <2>3. PinsAreSound'
    BY <1>2 DEF IdleMerger, StoreInv, PinsAreSound, PinnedIsPresent, Pinned, SaverPins,
                ReaderPins, BaseOf
  <2> QED
    BY <2>1, <2>2, <2>3 DEF StoreInv
<1>3. CASE FullMergeSkips \/ ForceGivesUp \/ WriteMergedFails \/ MergeUnlinkTimesOut
             \/ MergeEnd
  <2>1. EndMerge /\ up /\ UNCHANGED <<disk, memory, names, saver, reader, up>>
    BY <1>3
    DEF FullMergeSkips, ForceGivesUp, WriteMergedFails, MergeUnlinkTimesOut, MergeEnd
  <2> QED
    BY <1>2, <2>1 DEF EndMerge
<1>4. ASSUME merger'.pc \in {"full", "busy"}, merger'.claim = {}, merger'.left = {}, up,
             UNCHANGED <<disk, memory, names, saver, reader, up>>
      PROVE  StoreInv'
  <2>1. NamesAreFresh' /\ MemoryIsSound' /\ IndexIsSound' /\ DownIsIdle'
    BY <1>4
    DEF StoreInv, NamesAreFresh, MemoryIsSound, ListedIsReadable, IndexIsSound,
        IndexIsReadable, DownIsIdle, BaseOf
  <2>2. SaveIsSound' /\ MergeIsSound'
    BY <1>4 DEF StoreInv, SaveIsSound, MergeIsSound, SaverPins, Doomed, Pending, BaseOf
  <2>3. PinsAreSound'
    BY <1>4 DEF StoreInv, PinsAreSound, PinnedIsPresent, Pinned, SaverPins, ReaderPins,
                BaseOf
  <2> QED
    BY <2>1, <2>2, <2>3 DEF StoreInv
<1>5. CASE CheckChain \/ TakeForce
  BY <1>4, <1>5 DEF CheckChain, TakeForce, ReadyFor, IdleMerger
<1>6. CASE NothingToFold
  <2>1. /\ merger.pc = "idle" /\ up
        /\ UNCHANGED <<disk, memory, names, saver, merger, reader, up>>
    BY <1>6 DEF NothingToFold, ReadyFor
  <2>2. UNCHANGED <<Pinned, SaverPins, Doomed>>
    BY <2>1 DEF Pinned, SaverPins, ReaderPins, Doomed, BaseOf
  <2> QED
    BY <2>1, <2>2
    DEF StoreInv, NamesAreFresh, MemoryIsSound, ListedIsReadable, IndexIsSound,
        IndexIsReadable, SaveIsSound, MergeIsSound, PinsAreSound, PinnedIsPresent,
        DownIsIdle, Pending, BaseOf
<1>7. CASE FullMergeBusy \/ ForceRetries
  <2>1. \/ EndMerge
        \/ merger' = [merger EXCEPT !.pc = "busy"]
        \/ merger' = [merger EXCEPT !.pc = "full"]
    BY <1>7 DEF FullMergeBusy, ForceRetries
  <2>2. /\ merger.pc \in {"full", "busy"} /\ up
        /\ UNCHANGED <<disk, memory, names, saver, reader, up>>
    BY <1>7 DEF FullMergeBusy, ForceRetries
  <2>3. CASE EndMerge
    BY <1>2, <2>2, <2>3 DEF EndMerge
  <2>4. CASE ~EndMerge
    <3>1. merger'.pc \in {"full", "busy"} /\ merger'.claim = {} /\ merger'.left = {}
      BY <2>1, <2>2, <2>4 DEF TypeOK, StoreInv, MergeIsSound
    <3> QED
      BY <1>4, <2>2, <3>1
  <2> QED
    BY <2>3, <2>4
<1>8. /\ Foldable \subseteq manifest.snaps /\ Foldable \cap Pinned = {}
      /\ \A i \in Foldable : desc.base[i] # None
      /\ Drop(manifest, Foldable).snaps = manifest.snaps \ Foldable
      /\ Drop(manifest, Foldable).fin = manifest.fin \ Foldable
  <2>1. Foldable \subseteq Superseded(manifest, desc) /\ Foldable \cap Pinned = {}
    BY DEF Foldable
  <2>2. /\ Superseded(manifest, desc) \subseteq manifest.fin
        /\ \A i \in Superseded(manifest, desc) : desc.base[i] # None
    BY LookUps DEF TypeOK
  <2> QED
    BY <2>1, <2>2, DropIsManifest DEF TypeOK, StoreInv, MemoryIsSound
<1>9. CASE FoldStride
  <2>1. manifest' = Drop(manifest, Foldable) /\ Persist(Drop(manifest, Foldable))
    BY <1>9 DEF FoldStride
  <2>2. manifest'.snaps = manifest.snaps \ Foldable /\ manifest'.fin = manifest'.snaps
    BY <1>8, <2>1 DEF StoreInv, MemoryIsSound
  <2>3. /\ ranksFiles \subseteq ranksFiles'
        /\ ranksFiles' \subseteq ranksFiles \cup manifest'.snaps
        /\ written' \subseteq written \cup manifest'.snaps
        /\ written' \cap manifest'.snaps \subseteq ranksFiles'
        /\ index' = manifest' /\ manifest'.snaps \subseteq ranksFiles'
    <3>1. written \cap manifest'.snaps \subseteq ranksFiles
      BY <2>2 DEF StoreInv, MemoryIsSound
    <3> QED
      BY <2>1, <2>2, <3>1, PersistIsSound
  <2>4. /\ merger'.pc = "unlink" /\ merger'.claim = Foldable /\ merger'.left = Foldable
        /\ up /\ UNCHANGED <<packs, names, saver, reader, up>>
    BY <1>9 DEF FoldStride, ReadyFor, IdleMerger
  <2>5. \A i \in manifest'.snaps : BaseOf(i) \subseteq manifest'.snaps
    <3> SUFFICES ASSUME NEW i \in manifest'.snaps, NEW b \in BaseOf(i)
                 PROVE  b \in manifest.snaps \ Foldable
      BY <2>2
    <3>1. b \in manifest.snaps
      BY <2>2 DEF StoreInv, MemoryIsSound, ListedIsReadable
    <3>2. desc.base[b] = None
      BY <1>1, <2>2, BasesAreFulls DEF StoreInv, Types
    <3> QED
      BY <1>8, <3>1, <3>2
  <2>6. NamesAreFresh' /\ DownIsIdle'
    BY <2>2, <2>3, <2>4 DEF StoreInv, NamesAreFresh, DownIsIdle, BaseOf
  <2>7. MemoryIsSound' /\ IndexIsSound'
    BY <2>2, <2>3, <2>4, <2>5
    DEF StoreInv, MemoryIsSound, ListedIsReadable, IndexIsSound, IndexIsReadable, BaseOf
  <2>8. SaveIsSound'
    <3>1. UNCHANGED SaverPins
      BY <2>4 DEF SaverPins, BaseOf
    <3>2. SaverPins \cap Foldable = {}
      BY <1>8 DEF Pinned
    <3>3. saver.pc \in {"write", "record"} => BaseOf(saver.id) = SaverPins
      BY DEF SaverPins
    <3>4. UNCHANGED BaseOf(saver.id)
      BY <2>4 DEF BaseOf
    <3> QED
      BY <1>8, <2>2, <2>3, <2>4, <3>1, <3>2, <3>3, <3>4
      DEF StoreInv, SaveIsSound, Doomed, Pending
  <2>9. MergeIsSound'
    BY <1>8, <2>2, <2>3, <2>4 DEF StoreInv, NamesAreFresh, MergeIsSound, Pending, BaseOf
  <2>10. PinsAreSound'
    BY <2>4 DEF StoreInv, PinsAreSound, PinnedIsPresent, Pinned, SaverPins, ReaderPins,
                BaseOf
  <2> QED
    BY <2>6, <2>7, <2>8, <2>9, <2>10 DEF StoreInv
<1>10. CASE FoldStrideFails
  <2>1. PersistFails(Drop(manifest, Foldable))
    BY <1>10 DEF FoldStrideFails
  <2>2. /\ up /\ UNCHANGED <<packs, manifest, names, saver, merger, reader, up>>
    BY <1>10 DEF FoldStrideFails, ReadyFor
  <2>3. PICK m : m = Drop(manifest, Foldable)
    OBVIOUS
  <2>4. m.snaps \subseteq manifest.snaps /\ m.fin = m.snaps
    BY <1>8, <2>3 DEF StoreInv, MemoryIsSound
  <2>5. /\ ranksFiles \subseteq ranksFiles'
        /\ ranksFiles' \subseteq ranksFiles \cup m.snaps
        /\ written' \subseteq written \cup m.snaps
        /\ written' \cap manifest.snaps \subseteq ranksFiles'
        /\ index' = index
    <3>1. written \cap m.snaps \subseteq ranksFiles
      BY <2>4 DEF StoreInv, MemoryIsSound
    <3>2. PersistFails(m)
      BY <2>1, <2>3
    <3>3. written' = written \/ written' \subseteq m.snaps
      BY <3>2 DEF PersistFails
    <3> QED
      BY <2>4, <3>1, <3>2, <3>3, PersistIsSound DEF StoreInv, MemoryIsSound
  <2>6. NamesAreFresh' /\ DownIsIdle'
    BY <2>2, <2>4, <2>5 DEF StoreInv, NamesAreFresh, DownIsIdle, BaseOf
  <2>7. MemoryIsSound' /\ IndexIsSound'
    BY <2>2, <2>5
    DEF StoreInv, MemoryIsSound, ListedIsReadable, IndexIsSound, IndexIsReadable, BaseOf
  <2>8. SaveIsSound' /\ MergeIsSound'
    BY <2>2, <2>4, <2>5
    DEF StoreInv, SaveIsSound, MergeIsSound, SaverPins, Doomed, Pending, BaseOf
  <2>9. PinsAreSound'
    BY <2>2 DEF StoreInv, PinsAreSound, PinnedIsPresent, Pinned, SaverPins, ReaderPins,
                BaseOf
  <2> QED
    BY <2>6, <2>7, <2>8, <2>9 DEF StoreInv
<1>11. CASE FullMergeClaims
  <2>1. /\ merger.pc = "full" /\ MergeClaim \cap Pinned = {} /\ MergeBase # None
        /\ Unfinalized(manifest, desc, MergeBase) = {}
        /\ Fresh(desc.step[LastDelta], None) /\ up
        /\ UNCHANGED <<disk, memory, saver, reader, up>>
    BY <1>11 DEF FullMergeClaims, NothingToMerge, MergeBusy
  <2>2. /\ merger'.pc = "write" /\ merger'.claim = MergeClaim /\ merger'.left = {}
        /\ merger'.id = nextId
    BY <1>11 DEF FullMergeClaims, TypeOK, StoreInv, MergeIsSound
  <2>3. /\ nextId \in SnapIds /\ nextId \in Int /\ nextId # None
        /\ nextId' = nextId + 1
        /\ \A i \in SnapIds : i < nextId =>
             desc'.base[i] = desc.base[i] /\ BaseOf(i)' = BaseOf(i)
        /\ \A i \in SnapIds : i = nextId =>
             desc'.base[i] = None /\ BaseOf(i)' = {None} \ {None}
        /\ \A i \in SnapIds :
             /\ i >= nextId' => desc'.base[i] = None
             /\ \A b \in BaseOf(i)' : b < nextId' /\ desc'.base[b] = None
    BY <2>1, FreshIsSound DEF StoreInv
  <2>4. MergeBase \in manifest.snaps /\ desc.base[MergeBase] = None
    BY <2>1, LookUps DEF MergeBase, TypeOK, StoreInv, MemoryIsSound
  <2>5. MergeClaim \subseteq manifest.snaps
    BY <2>4 DEF MergeClaim, MergeDeltas, DeltasOf, StoreInv, MemoryIsSound
  <2>6. \A i \in manifest.snaps \ MergeClaim : BaseOf(i) \cap MergeClaim = {}
    <3> SUFFICES ASSUME NEW i \in manifest.snaps \ MergeClaim, NEW b \in BaseOf(i),
                        b \in MergeClaim
                 PROVE  FALSE
      OBVIOUS
    <3>1. b = desc.base[i] /\ b # None /\ desc.base[b] = None
      BY <1>1, BasesAreFulls DEF BaseOf, StoreInv, Types
    <3>2. b = MergeBase
      BY <2>1, <3>1 DEF MergeClaim, MergeDeltas, DeltasOf
    <3> QED
      BY <3>1, <3>2 DEF MergeClaim, MergeDeltas, DeltasOf, StoreInv, MemoryIsSound
  <2>7. \A i \in SnapIds : i < nextId => i < nextId' /\ i # nextId
    BY <1>1, <2>3 DEF Types
  <2>8. \A i \in packs \cup manifest.snaps \cup index.snaps : i < nextId /\ i \in SnapIds
    BY <1>1 DEF StoreInv, NamesAreFresh, Types
  <2>9. NamesAreFresh'
    BY <1>1, <2>1, <2>3, <2>7 DEF StoreInv, NamesAreFresh, Types
  <2>10. MemoryIsSound' /\ IndexIsSound' /\ DownIsIdle'
    BY <2>1, <2>3, <2>8
    DEF StoreInv, MemoryIsSound, ListedIsReadable, IndexIsSound, IndexIsReadable, DownIsIdle
  <2>11. UNCHANGED <<SaverPins, Pinned>>
    <3>1. saver.pc \in {"write", "record", "fulls", "total", "persist"} =>
                saver.id \in SnapIds /\ saver.id < nextId
      BY <1>1 DEF StoreInv, SaveIsSound, Types
    <3>2. UNCHANGED SaverPins
      <4>1. saver.id \in SnapIds /\ saver.id < nextId => UNCHANGED BaseOf(saver.id)
        BY <2>1, <2>3
      <4> QED
        BY <2>1, <3>1, <4>1 DEF SaverPins
    <3>3. \A r \in Readers : ReaderPins(r) \subseteq packs
      BY DEF StoreInv, PinsAreSound, PinnedIsPresent, Pinned
    <3>4. \A r \in Readers : ReaderPins(r)' = ReaderPins(r)
      BY <2>1, <2>3, <2>8, <3>3 DEF ReaderPins
    <3> QED
      BY <3>2, <3>4 DEF Pinned
  <2>12. SaveIsSound'
    <3>1. saver.pc \in {"write", "record"} => UNCHANGED BaseOf(saver.id)
      BY <1>1, <2>1, <2>3 DEF StoreInv, SaveIsSound, Pending, Types
    <3>2. SaverPins \cap MergeClaim = {}
      BY <2>1 DEF Pinned
    <3>3. saver.pc # "idle" => saver.id < nextId'
      BY <1>1, <2>7 DEF StoreInv, SaveIsSound, Types
    <3>4. saver.pc \in {"write", "record"} => saver.id \notin MergeClaim
      BY <2>5 DEF StoreInv, SaveIsSound, Pending
    <3>5. \A i \in saver.evicted : i < nextId'
      BY <1>1, <2>7 DEF StoreInv, SaveIsSound, Types
    <3> QED
      BY <2>1, <2>2, <2>11, <3>1, <3>2, <3>3, <3>4, <3>5
      DEF StoreInv, SaveIsSound, Doomed, Pending
  <2>13. MergeIsSound'
    <3>1. \A i \in MergeClaim : i < nextId' /\ i # nextId
      BY <2>5, <2>7, <2>8
    <3>2. nextId \notin manifest.snaps /\ nextId \notin written
      BY <1>1, <2>7 DEF StoreInv, NamesAreFresh, Types
    <3>3. /\ nextId \notin saver.evicted
          /\ saver.pc \in {"write", "record"} => nextId # saver.id
      BY <1>1, <2>7 DEF StoreInv, SaveIsSound, Types
    <3>4. \A i \in manifest.snaps \ MergeClaim : BaseOf(i)' \cap MergeClaim = {}
      BY <2>3, <2>6, <2>8
    <3>5. nextId < nextId'
      BY <2>3
    <3> QED
      BY <2>1, <2>2, <2>3, <3>1, <3>2, <3>3, <3>4, <3>5 DEF MergeIsSound, Pending
  <2>14. PinsAreSound'
    BY <2>1, <2>2, <2>11 DEF StoreInv, PinsAreSound, PinnedIsPresent
  <2> QED
    BY <2>9, <2>10, <2>12, <2>13, <2>14 DEF StoreInv
<1>12. CASE WriteMerged
  <2>1. CASE {merger.last} \cup BaseOf(merger.last) \subseteq packs
    <3>1. /\ merger.pc = "write" /\ merger'.pc = "publish" /\ merger'.id = merger.id
          /\ merger'.claim = merger.claim /\ merger'.left = merger.left
          /\ packs' = packs \cup {merger.id}
          /\ up /\ UNCHANGED <<ranksFiles, index, memory, names, saver, reader, up>>
      BY <1>12, <2>1 DEF WriteMerged, TypeOK
    <3>2. NamesAreFresh'
      BY <3>1 DEF StoreInv, NamesAreFresh, MergeIsSound, Pending, BaseOf
    <3>3. MemoryIsSound' /\ IndexIsSound' /\ DownIsIdle'
      BY <3>1
      DEF StoreInv, MemoryIsSound, ListedIsReadable, IndexIsSound, IndexIsReadable,
          DownIsIdle, BaseOf
    <3>4. SaveIsSound' /\ MergeIsSound'
      BY <3>1 DEF StoreInv, SaveIsSound, MergeIsSound, SaverPins, Doomed, Pending, BaseOf
    <3>5. PinsAreSound'
      BY <3>1 DEF StoreInv, PinsAreSound, PinnedIsPresent, Pinned, SaverPins, ReaderPins,
                  BaseOf
    <3> QED
      BY <3>2, <3>3, <3>4, <3>5 DEF StoreInv
  <2>2. CASE ~({merger.last} \cup BaseOf(merger.last) \subseteq packs)
    <3>1. EndMerge /\ up /\ UNCHANGED <<disk, memory, names, saver, reader, up>>
      BY <1>12, <2>2 DEF WriteMerged
    <3> QED
      BY <1>2, <3>1 DEF EndMerge
  <2> QED
    BY <2>1, <2>2
<1>13. merger.pc = "publish" =>
        /\ merger.id \in SnapIds /\ merger.id \in packs /\ merger.id < nextId
        /\ merger.id \notin written /\ merger.id \notin merger.claim \cup saver.evicted
        /\ merger.id \notin manifest.snaps /\ BaseOf(merger.id) = {}
        /\ MergedManifest.snaps = (manifest.snaps \ merger.claim) \cup {merger.id}
        /\ MergedManifest.fin = (manifest.fin \ merger.claim) \cup {merger.id}
  BY <1>1, MergedIsManifest DEF StoreInv, MergeIsSound, Pending, Types, BaseOf
<1>14. CASE PublishMerged
  <2>1. /\ merger.pc = "publish" /\ manifest' = MergedManifest /\ Persist(MergedManifest)
        /\ up /\ UNCHANGED <<packs, names, saver, reader, up>>
    BY <1>14 DEF PublishMerged
  <2>2. /\ manifest'.snaps = (manifest.snaps \ merger.claim) \cup {merger.id}
        /\ manifest'.fin = manifest'.snaps
    BY <1>13, <2>1 DEF StoreInv, MemoryIsSound
  <2>3. /\ merger'.pc = "unlink" /\ merger'.claim = merger.claim
        /\ merger'.left = merger.claim /\ merger'.id = merger.id
    BY <1>14 DEF PublishMerged, TypeOK
  <2>4. /\ ranksFiles \subseteq ranksFiles'
        /\ ranksFiles' \subseteq ranksFiles \cup manifest'.snaps
        /\ written' \subseteq written \cup manifest'.snaps
        /\ written' \cap manifest'.snaps \subseteq ranksFiles'
        /\ index' = manifest' /\ manifest'.snaps \subseteq ranksFiles'
    <3>1. written \cap manifest'.snaps \subseteq ranksFiles
      BY <1>13, <2>1, <2>2 DEF StoreInv, MemoryIsSound
    <3> QED
      BY <2>1, <2>2, <3>1, PersistIsSound
  <2>5. \A i \in manifest'.snaps : i \in packs /\ BaseOf(i) \subseteq manifest'.snaps
    BY <1>13, <2>1, <2>2 DEF StoreInv, MemoryIsSound, ListedIsReadable, MergeIsSound
  <2>6. NamesAreFresh' /\ DownIsIdle'
    BY <1>13, <2>1, <2>2, <2>4 DEF StoreInv, NamesAreFresh, DownIsIdle, BaseOf
  <2>7. MemoryIsSound' /\ IndexIsSound'
    BY <2>1, <2>2, <2>4, <2>5
    DEF MemoryIsSound, ListedIsReadable, IndexIsSound, IndexIsReadable, BaseOf
  <2>8. SaveIsSound'
    <3>1. UNCHANGED SaverPins
      BY <2>1 DEF SaverPins, BaseOf
    <3>2. SaverPins \cap merger.claim = {}
      BY DEF StoreInv, SaveIsSound, Doomed
    <3>3. saver.pc \in {"write", "record"} => BaseOf(saver.id) = SaverPins
      BY DEF SaverPins
    <3>4. UNCHANGED BaseOf(saver.id)
      BY <2>1 DEF BaseOf
    <3>5. saver.pc \in {"write", "record"} => saver.id # merger.id
      BY <2>1 DEF StoreInv, MergeIsSound
    <3> QED
      BY <1>13, <2>1, <2>2, <2>3, <2>4, <3>1, <3>2, <3>3, <3>4, <3>5
      DEF StoreInv, SaveIsSound, Doomed, Pending
  <2>9. MergeIsSound'
    BY <1>13, <2>1, <2>2, <2>3, <2>4 DEF StoreInv, MergeIsSound
  <2>10. PinsAreSound'
    BY <2>1, <2>3 DEF StoreInv, PinsAreSound, PinnedIsPresent, Pinned, SaverPins,
                      ReaderPins, BaseOf
  <2> QED
    BY <2>6, <2>7, <2>8, <2>9, <2>10 DEF StoreInv
<1>15. CASE PublishMergedFails
  <2>1. /\ merger.pc = "publish" /\ PersistFails(MergedManifest) /\ merger' = IdleMerger
        /\ up /\ UNCHANGED <<packs, manifest, names, saver, reader, up>>
    BY <1>15 DEF PublishMergedFails, EndMerge
  <2>2. PICK m : m = MergedManifest
    OBVIOUS
  <2>3. m.snaps = (manifest.snaps \ merger.claim) \cup {merger.id} /\ m.fin = m.snaps
    BY <1>13, <2>1, <2>2 DEF StoreInv, MemoryIsSound
  <2>4. /\ ranksFiles \subseteq ranksFiles'
        /\ ranksFiles' \subseteq ranksFiles \cup m.snaps
        /\ written' \subseteq written \cup m.snaps
        /\ written' \cap manifest.snaps \subseteq ranksFiles'
        /\ index' = index
    <3>1. written \cap m.snaps \subseteq ranksFiles
      BY <1>13, <2>1, <2>3 DEF StoreInv, MemoryIsSound
    <3>2. PersistFails(m)
      BY <2>1, <2>2
    <3>3. written' = written \/ written' \subseteq m.snaps
      BY <3>2 DEF PersistFails
    <3> QED
      BY <2>3, <3>1, <3>2, <3>3, PersistIsSound DEF StoreInv, MemoryIsSound
  <2>5. NamesAreFresh' /\ DownIsIdle'
    BY <1>13, <2>1, <2>3, <2>4 DEF StoreInv, NamesAreFresh, DownIsIdle, BaseOf
  <2>6. MemoryIsSound' /\ IndexIsSound'
    BY <2>1, <2>4
    DEF StoreInv, MemoryIsSound, ListedIsReadable, IndexIsSound, IndexIsReadable, BaseOf
  <2>7. SaveIsSound'
    <3>1. saver.pc \in {"write", "record"} => saver.id # merger.id
      BY <2>1 DEF StoreInv, MergeIsSound
    <3> QED
      BY <2>1, <2>3, <2>4, <3>1
      DEF IdleMerger, StoreInv, SaveIsSound, SaverPins, Doomed, Pending, BaseOf
  <2>8. MergeIsSound'
    BY <2>1 DEF IdleMerger, MergeIsSound
  <2>9. PinsAreSound'
    BY <2>1 DEF IdleMerger, StoreInv, PinsAreSound, PinnedIsPresent, Pinned, SaverPins,
                ReaderPins, BaseOf
  <2> QED
    BY <2>5, <2>6, <2>7, <2>8, <2>9 DEF StoreInv
<1>16. CASE MergeReadersGone
  <2>1. /\ merger.pc = "unlink" /\ merger'.pc = "unlinking" /\ merger'.id = merger.id
        /\ merger'.claim = merger.claim /\ merger'.left = merger.left
        /\ merger.claim \cap Pinned = {}
        /\ up /\ UNCHANGED <<disk, memory, names, saver, reader, up>>
    BY <1>16 DEF MergeReadersGone, TypeOK
  <2>2. NamesAreFresh' /\ MemoryIsSound' /\ IndexIsSound' /\ DownIsIdle'
    BY <2>1
    DEF StoreInv, NamesAreFresh, MemoryIsSound, ListedIsReadable, IndexIsSound,
        IndexIsReadable, DownIsIdle, BaseOf
  <2>3. SaveIsSound' /\ MergeIsSound'
    BY <2>1 DEF StoreInv, SaveIsSound, MergeIsSound, SaverPins, Doomed, Pending, BaseOf
  <2>4. PinsAreSound'
    BY <2>1 DEF StoreInv, PinsAreSound, PinnedIsPresent, Pinned, SaverPins, ReaderPins,
                BaseOf
  <2> QED
    BY <2>2, <2>3, <2>4 DEF StoreInv
<1>17. CASE MergeUnlinkOne
  <2>1. PICK i \in merger.left :
            /\ UnlinkFiles(i) \/ UnlinkFails(i)
            /\ merger' = [merger EXCEPT !.left = @ \ {i}]
    BY <1>17 DEF MergeUnlinkOne
  <2>2. /\ packs \ {i} \subseteq packs' /\ packs' \subseteq packs
        /\ ranksFiles \ {i} \subseteq ranksFiles' /\ ranksFiles' \subseteq ranksFiles
    BY <2>1 DEF UnlinkFiles, UnlinkFails
  <2>3. /\ merger.pc = "unlinking" /\ merger'.pc = "unlinking" /\ merger'.id = merger.id
        /\ merger'.claim = merger.claim /\ merger'.left = merger.left \ {i}
        /\ up /\ UNCHANGED <<index, memory, names, saver, reader, up>>
    BY <1>17, <2>1 DEF MergeUnlinkOne, TypeOK
  <2>4. /\ i \in merger.claim
        /\ i \notin manifest.snaps /\ i \notin index.snaps /\ i \notin Pinned
    BY <2>3 DEF StoreInv, MergeIsSound, PinsAreSound
  <2>5. NamesAreFresh' /\ DownIsIdle'
    BY <2>2, <2>3 DEF StoreInv, NamesAreFresh, DownIsIdle, BaseOf
  <2>6. MemoryIsSound' /\ IndexIsSound'
    BY <2>2, <2>3, <2>4
    DEF StoreInv, MemoryIsSound, ListedIsReadable, IndexIsSound, IndexIsReadable, BaseOf
  <2>7. SaveIsSound'
    BY <2>2, <2>3, <2>4 DEF StoreInv, SaveIsSound, SaverPins, Doomed, Pending, BaseOf
  <2>8. MergeIsSound'
    BY <2>2, <2>3 DEF StoreInv, MergeIsSound, Pending, BaseOf
  <2>9. PinsAreSound'
    <3>1. Pinned' = Pinned
      BY <2>3 DEF Pinned, SaverPins, ReaderPins, BaseOf
    <3> QED
      BY <2>2, <2>3, <2>4, <3>1 DEF StoreInv, PinsAreSound, PinnedIsPresent
  <2> QED
    BY <2>5, <2>6, <2>7, <2>8, <2>9 DEF StoreInv
<1> QED
  BY <1>3, <1>5, <1>6, <1>7, <1>9, <1>10, <1>11, <1>12, <1>14, <1>15, <1>16, <1>17
  DEF MergerStep, MergerFault

\* Every step of a caller keeps the invariant.
LEMMA CallersKeepInv ==
    ASSUME TypeOK, StoreInv,
           \/ CallMergeNow \/ CallerStopsWaiting \/ SetPinned \/ SetPinnedFails
           \/ \E r \in Readers : LoadBegin(r) \/ LoadStep(r)
    PROVE  StoreInv'
<1> USE DEF disk, memory, names, threads
<1>1. Types
  BY TypesHold
<1>2. CASE CallMergeNow \/ CallerStopsWaiting
  <2>1. UNCHANGED <<disk, memory, names, saver, merger, reader, up>>
    BY <1>2 DEF CallMergeNow, CallerStopsWaiting
  <2>2. UNCHANGED <<Pinned, SaverPins, Doomed>>
    BY <2>1 DEF Pinned, SaverPins, ReaderPins, Doomed, BaseOf
  <2> QED
    BY <2>1, <2>2
    DEF StoreInv, NamesAreFresh, MemoryIsSound, ListedIsReadable, IndexIsSound,
        IndexIsReadable, SaveIsSound, MergeIsSound, PinsAreSound, PinnedIsPresent,
        DownIsIdle, Pending, BaseOf
<1>3. CASE SetPinned \/ SetPinnedFails
  <2>1. /\ manifest'.snaps = manifest.snaps /\ manifest'.fin = manifest.fin
        /\ \/ UNCHANGED <<ranksFiles, written, index>>
           \/ Persist(manifest') \/ PersistFails(manifest')
    BY <1>3, RepinnedIsManifest DEF SetPinned, SetPinnedFails
  <2>2. UNCHANGED <<packs, names, saver, merger, reader, up>> /\ up
    BY <1>3 DEF SetPinned, SetPinnedFails
  <2>3. /\ ranksFiles \subseteq ranksFiles'
        /\ ranksFiles' \subseteq ranksFiles \cup manifest.snaps
        /\ written' \subseteq written \cup manifest.snaps
        /\ written' \cap manifest.snaps \subseteq ranksFiles'
        /\ \/ index' = index
           \/ /\ index'.snaps = manifest.snaps /\ index'.fin = manifest.fin
              /\ manifest.snaps \subseteq ranksFiles'
    <3>1. written \cap manifest.snaps \subseteq ranksFiles
      BY DEF StoreInv, MemoryIsSound
    <3>2. CASE UNCHANGED <<ranksFiles, written, index>>
      BY <3>1, <3>2
    <3>3. CASE Persist(manifest') \/ PersistFails(manifest')
      <4>1. PICK m : m = manifest'
        OBVIOUS
      <4>2. Persist(m) \/ PersistFails(m)
        BY <3>3, <4>1
      <4>3. m.snaps = manifest.snaps /\ m.fin = manifest.fin /\ m.fin = m.snaps
        BY <2>1, <4>1 DEF StoreInv, MemoryIsSound
      <4> QED
        BY <3>1, <4>2, <4>3, PersistIsSound
    <3> QED
      BY <2>1, <3>2, <3>3
  <2>4. NamesAreFresh' /\ DownIsIdle'
    BY <2>1, <2>2, <2>3 DEF StoreInv, NamesAreFresh, DownIsIdle, BaseOf
  <2>5. MemoryIsSound'
    BY <2>1, <2>2, <2>3 DEF StoreInv, MemoryIsSound, ListedIsReadable, BaseOf
  <2>6. IndexIsSound'
    BY <2>2, <2>3
    DEF StoreInv, MemoryIsSound, ListedIsReadable, IndexIsSound, IndexIsReadable, BaseOf
  <2>7. SaveIsSound'
    BY <2>1, <2>2, <2>3 DEF StoreInv, SaveIsSound, SaverPins, Doomed, Pending, BaseOf
  <2>8. MergeIsSound'
    BY <2>1, <2>2, <2>3 DEF StoreInv, MergeIsSound, Pending, BaseOf
  <2>9. PinsAreSound'
    BY <2>2 DEF StoreInv, PinsAreSound, PinnedIsPresent, Pinned, SaverPins, ReaderPins,
                BaseOf
  <2> QED
    BY <2>4, <2>5, <2>6, <2>7, <2>8, <2>9 DEF StoreInv
<1>4. ASSUME NEW r \in Readers, up,
             UNCHANGED <<disk, memory, names, saver, merger, up>>,
             \A q \in Readers : ReaderPins(q)' \subseteq ReaderPins(q) \cup manifest.snaps
      PROVE  StoreInv'
  <2>1. UNCHANGED <<SaverPins, Doomed>>
    BY <1>4 DEF SaverPins, Doomed, BaseOf
  <2>2. Pinned' \subseteq Pinned \cup manifest.snaps
    BY <1>4, <2>1 DEF Pinned
  <2>3. NamesAreFresh' /\ MemoryIsSound' /\ IndexIsSound' /\ DownIsIdle'
    BY <1>4
    DEF StoreInv, NamesAreFresh, MemoryIsSound, ListedIsReadable, IndexIsSound,
        IndexIsReadable, DownIsIdle, BaseOf
  <2>4. SaveIsSound' /\ MergeIsSound'
    BY <1>4, <2>1 DEF StoreInv, SaveIsSound, MergeIsSound, Pending, BaseOf
  <2>5. PinsAreSound'
    BY <1>4, <2>2
    DEF StoreInv, PinsAreSound, PinnedIsPresent, MemoryIsSound, ListedIsReadable,
        SaveIsSound, MergeIsSound
  <2> QED
    BY <2>3, <2>4, <2>5 DEF StoreInv
<1>5. ASSUME NEW r \in Readers, LoadBegin(r) \/ LoadStep(r)
      PROVE  StoreInv'
  <2>1. up /\ UNCHANGED <<disk, memory, names, saver, merger, up>>
    BY <1>5 DEF LoadBegin, LoadStep, LoadPins, LoadFinds, LoadReads, LoadFindsBase,
                LoadReadsBase, LoadEnd, LoadMovesTo
  <2>2. \A q \in Readers \ {r} : reader'[q] = reader[q]
    BY <1>5 DEF LoadBegin, LoadStep, LoadPins, LoadFinds, LoadReads, LoadFindsBase,
                LoadReadsBase, LoadEnd, LoadMovesTo, TypeOK
  <2>3. \/ reader'[r].pc \in {"idle", "picked", "loaded", "unlisted", "notfound", "missing"}
        \/ /\ reader'[r].id = reader[r].id
           /\ \/ reader[r].pc \in {"pinned", "found", "base", "rebase"}
              \/ reader[r].id \in manifest.snaps
    BY <1>5 DEF LoadBegin, LoadStep, LoadPins, LoadFinds, LoadReads, LoadFindsBase,
                LoadReadsBase, LoadEnd, LoadMovesTo, IdleReader, TypeOK
  <2>4. \A q \in Readers \ {r} : ReaderPins(q)' = ReaderPins(q)
    BY <2>1, <2>2 DEF ReaderPins, BaseOf
  <2>5. ReaderPins(r)' \subseteq ReaderPins(r) \cup manifest.snaps
    <3>1. CASE reader'[r].pc \in {"idle", "picked", "loaded", "unlisted", "notfound",
                                  "missing"}
      BY <3>1 DEF ReaderPins
    <3>2. CASE reader'[r].id = reader[r].id /\ reader[r].id \in manifest.snaps
      <4>1. ReaderPins(r)' \subseteq {reader[r].id} \cup BaseOf(reader[r].id)
        BY <2>1, <3>2 DEF ReaderPins, BaseOf
      <4>2. BaseOf(reader[r].id) \subseteq manifest.snaps
        BY <3>2 DEF StoreInv, MemoryIsSound, ListedIsReadable
      <4> QED
        BY <3>2, <4>1, <4>2
    <3>3. CASE /\ reader'[r].id = reader[r].id
               /\ reader[r].pc \in {"pinned", "found", "base", "rebase"}
      BY <2>1, <3>3 DEF ReaderPins, BaseOf
    <3> QED
      BY <2>3, <3>1, <3>2, <3>3
  <2>6. \A q \in Readers : ReaderPins(q)' \subseteq ReaderPins(q) \cup manifest.snaps
    BY <2>4, <2>5
  <2> QED
    BY <1>4, <2>1, <2>6
<1> QED
  BY <1>2, <1>3, <1>5

-----------------------------------------------------------------------------
(* A crash, and the start that follows.                                    *)

\* What the starts that look for orphans have in common, the one that is
\* killed among them: `P` and `R` are what is left, `W` what is written back.
Tidies(t, P, R, W) ==
    /\ W \subseteq Recovered(t)
    /\ packs' = packs \ (Orphans \ (Recovered(t) \cup P))
    /\ ranksFiles' = (ranksFiles \ (Orphans \ (Recovered(t) \cup R))) \cup W
    /\ UNCHANGED <<pinsFile, lock, names, threads, acked>>
    /\ \/ /\ Starts(RecoveredManifest(t))
          /\ leaked' = P \cup R
          /\ index' \in {index, RecoveredManifest(t)}
          /\ written' \in {LoadedManifest.snaps, RecoveredManifest(t).snaps}
          /\ index' # index \/ written' # LoadedManifest.snaps => W = Recovered(t)
       \/ UNCHANGED <<index, memory, up, clock, leaked>>

\* There is no other start but the one that could not look.
LEMMA StartsTidy ==
    ASSUME Start
    PROVE  /\ ~up
           /\ \/ OpenBlind
              \/ \E t \in TieBreaks, P \in SUBSET Orphans, R \in SUBSET Orphans,
                    W \in SUBSET Intact : Tidies(t, P, R, W)
<1> \A t : Recovered(t) \subseteq Intact
  BY DEF Recovered
<1>1. CASE Open \/ OpenLitters
  <2>1. PICK t \in TieBreaks, P \in SUBSET Orphans, R \in SUBSET Orphans :
            Recovers(t, Recovered(t), P, R)
    BY <1>1 DEF Open, OpenLitters, SomeLeft
  <2>2. Tidies(t, P, R, Recovered(t))
    BY <2>1 DEF Tidies, Recovers, Reclaims, Starts
  <2> QED
    BY <1>1, <2>2 DEF Open, OpenLitters
<1>2. CASE OpenUnwritten
  <2>1. PICK t \in TieBreaks :
            /\ Starts(RecoveredManifest(t))
            /\ \E W \in SUBSET Recovered(t) :
                /\ Reclaims(Recovered(t), {}, {}, W)
                /\ written' = IF W = Recovered(t) THEN manifest'.snaps
                                                  ELSE LoadedManifest.snaps
    BY <1>2 DEF OpenUnwritten, Prefixes
  <2>2. PICK W \in SUBSET Recovered(t) : Tidies(t, {}, {}, W)
    BY <1>2, <2>1 DEF Tidies, OpenUnwritten, Reclaims, Starts
  <2> QED
    BY <1>2, <2>2 DEF OpenUnwritten
<1>3. CASE StartKilled
  <2>1. PICK t \in TieBreaks : \E P \in SUBSET Orphans, R \in SUBSET Orphans :
            \E W \in SUBSET Recovered(t) : Reclaims(Recovered(t), P, R, W)
    BY <1>3 DEF StartKilled, SomeLeft, Prefixes
  <2>2. PICK P \in SUBSET Orphans, R \in SUBSET Orphans, W \in SUBSET Recovered(t) :
            Reclaims(Recovered(t), P, R, W)
    BY <2>1
  <2>3. Tidies(t, P, R, W)
    BY <1>3, <2>2 DEF Tidies, StartKilled, Reclaims
  <2> QED
    BY <1>3, <2>3 DEF StartKilled
<1>4. CASE OpenBlind
  BY <1>4 DEF OpenBlind
<1> QED
  BY <1>1, <1>2, <1>3, <1>4 DEF Start

\* What a start lists has its pack, its ranks.json or a recovered entry in
\* its place, and its base; all of the index is among it.
LEMMA RecoveryIsSound ==
    ASSUME TypeOK, StoreInv, NEW t
    PROVE  /\ LoadedManifest.snaps = index.snaps
           /\ LoadedManifest.fin = LoadedManifest.snaps
           /\ RecoveredManifest(t).snaps = index.snaps \cup Recovered(t)
           /\ RecoveredManifest(t).fin = RecoveredManifest(t).snaps
           /\ Recovered(t) \subseteq packs /\ Recovered(t) \subseteq Orphans
           /\ Orphans \cap index.snaps = {}
           /\ \A i \in Recovered(t) : BaseOf(i) \subseteq index.snaps \cup Recovered(t)
<1>1. {i \in index.snaps : ~({i} \cup BaseOf(i) \subseteq ranksFiles)} = {}
  BY DEF StoreInv, IndexIsSound, IndexIsReadable
<1>2. /\ LoadedManifest.snaps = index.snaps
      /\ LoadedManifest.fin = index.fin
      /\ RecoveredManifest(t).snaps = LoadedManifest.snaps \cup Recovered(t)
      /\ RecoveredManifest(t).fin = LoadedManifest.fin \cup Recovered(t)
  BY <1>1, RecoveredIsManifest
<1>3. index.fin = index.snaps
  BY DEF StoreInv, IndexIsSound
<1>4. /\ Recovered(t) \subseteq packs /\ Recovered(t) \subseteq Orphans
      /\ Orphans \cap index.snaps = {}
  BY <1>2 DEF Recovered, Intact, Orphans
<1>5. ASSUME NEW i \in Recovered(t), NEW b \in BaseOf(i)
      PROVE  b \in index.snaps \cup Recovered(t)
  <2>1. i \in SnapIds
    BY <1>4 DEF TypeOK
  <2>2. BaseOf(b) = {}
    BY <2>1, BasesAreFulls DEF StoreInv, BaseOf
  <2>3. b \in LoadedManifest.snaps \/ b \in Intact
    BY DEF Recovered
  <2> QED
    BY <1>2, <2>2, <2>3 DEF Recovered
<1> QED
  BY <1>2, <1>3, <1>4, <1>5

\* A crash and a start keep the invariant.
LEMMA RestartKeepsInv ==
    ASSUME TypeOK, StoreInv, Crash \/ Start
    PROVE  StoreInv'
<1> USE DEF disk, memory, names, threads
<1>1. CASE Crash
  <2>1. /\ manifest' = EmptyManifest /\ written' = {} /\ up' = FALSE
        /\ saver' = IdleSaver /\ merger' = IdleMerger
        /\ reader' = [r \in Readers |-> IdleReader]
        /\ UNCHANGED <<disk, names>>
    BY <1>1 DEF Crash
  <2>2. NamesAreFresh' /\ IndexIsSound' /\ DownIsIdle'
    BY <2>1 DEF StoreInv, NamesAreFresh, IndexIsSound, IndexIsReadable, DownIsIdle, BaseOf,
                EmptyManifest, IdleReader
  <2>3. MemoryIsSound'
    BY <2>1 DEF MemoryIsSound, ListedIsReadable, EmptyManifest
  <2>4. SaveIsSound' /\ MergeIsSound'
    BY <2>1 DEF SaveIsSound, MergeIsSound, SaverPins, Doomed, IdleSaver, IdleMerger,
                EmptyManifest
  <2>5. Pinned' = {}
    BY <2>1 DEF Pinned, SaverPins, ReaderPins, IdleSaver, IdleReader
  <2>6. PinsAreSound'
    BY <2>5 DEF PinsAreSound, PinnedIsPresent
  <2> QED
    BY <2>2, <2>3, <2>4, <2>6 DEF StoreInv
<1>2. ASSUME ~up, UNCHANGED <<names, threads>>,
             manifest'.fin = manifest'.snaps, index'.fin = index'.snaps,
             packs' \subseteq packs, ranksFiles' \subseteq ranksFiles \cup packs,
             manifest'.snaps \cup index'.snaps \subseteq packs',
             index'.snaps \subseteq ranksFiles',
             written' \subseteq packs', written' \cap manifest'.snaps \subseteq ranksFiles',
             \A i \in manifest'.snaps : BaseOf(i) \subseteq manifest'.snaps,
             \A i \in index'.snaps : BaseOf(i) \subseteq index'.snaps,
             up' \/ UNCHANGED memory
      PROVE  StoreInv'
  <2>1. /\ saver = IdleSaver /\ merger = IdleMerger
        /\ \A r \in Readers : reader[r].pc = "idle"
    BY <1>2 DEF StoreInv, DownIsIdle
  <2>2. NamesAreFresh' /\ DownIsIdle'
    BY <1>2, <2>1 DEF StoreInv, NamesAreFresh, DownIsIdle, BaseOf
  <2>3. MemoryIsSound' /\ IndexIsSound'
    BY <1>2
    DEF MemoryIsSound, ListedIsReadable, IndexIsSound, IndexIsReadable, BaseOf
  <2>4. SaveIsSound' /\ MergeIsSound'
    BY <1>2, <2>1
    DEF SaveIsSound, MergeIsSound, SaverPins, Doomed, IdleSaver, IdleMerger
  <2>5. Pinned' = {}
    BY <1>2, <2>1 DEF Pinned, SaverPins, ReaderPins, IdleSaver
  <2>6. PinsAreSound'
    BY <2>5 DEF PinsAreSound, PinnedIsPresent
  <2> QED
    BY <2>2, <2>3, <2>4, <2>6 DEF StoreInv
<1>3. /\ index.snaps \subseteq packs /\ index.snaps \subseteq ranksFiles
      /\ index.fin = index.snaps
      /\ \A i \in index.snaps : BaseOf(i) \subseteq index.snaps
  BY DEF StoreInv, IndexIsSound, IndexIsReadable
<1>4. CASE Start /\ ~OpenBlind
  <2>1. ~up
    BY <1>4, StartsTidy
  <2>2. PICK t \in TieBreaks, P \in SUBSET Orphans, R \in SUBSET Orphans,
                W \in SUBSET Intact : Tidies(t, P, R, W)
    BY <1>4, StartsTidy
  <2>3. /\ RecoveredManifest(t).snaps = index.snaps \cup Recovered(t)
        /\ RecoveredManifest(t).fin = RecoveredManifest(t).snaps
        /\ LoadedManifest.snaps = index.snaps
        /\ Recovered(t) \subseteq packs
        /\ Orphans \cap index.snaps = {}
        /\ \A i \in Recovered(t) : BaseOf(i) \subseteq index.snaps \cup Recovered(t)
    BY RecoveryIsSound
  <2>4. /\ packs' \subseteq packs /\ ranksFiles' \subseteq ranksFiles \cup packs
        /\ index.snaps \cup Recovered(t) \subseteq packs'
        /\ index.snaps \cup W \subseteq ranksFiles'
    BY <1>3, <2>2, <2>3 DEF Tidies
  <2>5. CASE Starts(RecoveredManifest(t)) /\ index' = index
    <3>1. written' = index.snaps \/ (written' = index.snaps \cup Recovered(t) /\ W = Recovered(t))
      BY <2>1, <2>2, <2>3, <2>5 DEF Tidies, Starts
    <3> QED
      BY <1>2, <1>3, <2>1, <2>2, <2>3, <2>4, <2>5, <3>1 DEF Tidies, Starts
  <2>6. CASE Starts(RecoveredManifest(t)) /\ index' # index
    <3>1. W = Recovered(t) /\ index' = RecoveredManifest(t)
      BY <2>1, <2>2, <2>6 DEF Tidies, Starts
    <3>2. written' \subseteq index.snaps \cup Recovered(t)
      BY <2>1, <2>2, <2>3, <2>6 DEF Tidies, Starts
    <3> QED
      BY <1>2, <1>3, <2>1, <2>2, <2>3, <2>4, <2>6, <3>1, <3>2 DEF Tidies, Starts
  <2>7. CASE UNCHANGED <<index, memory, up, clock, leaked>>
    <3>1. manifest.snaps = {} /\ manifest.fin = {} /\ written = {}
      BY <2>1 DEF StoreInv, DownIsIdle, EmptyManifest
    <3> QED
      BY <1>2, <1>3, <2>1, <2>2, <2>4, <2>7, <3>1 DEF Tidies
  <2> QED
    BY <2>2, <2>5, <2>6, <2>7 DEF Tidies
<1>5. CASE OpenBlind
  <2>1. LoadedManifest.snaps = index.snaps /\ LoadedManifest.fin = index.snaps
    BY RecoveryIsSound
  <2>2. /\ ~up /\ up' /\ manifest' = LoadedManifest /\ written' = LoadedManifest.snaps
        /\ UNCHANGED <<disk, names, threads>>
    BY <1>5 DEF OpenBlind
  <2> QED
    BY <1>2, <1>3, <2>1, <2>2
<1> QED
  BY <1>1, <1>4, <1>5 DEF Start

-----------------------------------------------------------------------------
(* The theorems.                                                           *)

\* Whoever takes a step keeps the kinds and the invariant.
LEMMA NextKeepsInv ==
    ASSUME TypeOK, StoreInv, Next
    PROVE  TypeOK' /\ StoreInv'
<1>1. SaveIsSound /\ MergeIsSound
  BY DEF StoreInv
<1>2. CASE SaveBegin \/ SaverStep \/ SaverFault
  BY <1>1, <1>2, SaveKeepsType, SaveKeepsInv
<1>3. CASE MergerStep \/ MergerFault
  BY <1>1, <1>3, MergeKeepsType, MergeKeepsInv
<1>4. CASE \/ CallMergeNow \/ CallerStopsWaiting \/ SetPinned \/ SetPinnedFails
           \/ \E r \in Readers : LoadBegin(r) \/ LoadStep(r)
  BY <1>4, CallersKeepType, CallersKeepInv
<1>5. CASE Crash \/ Start
  BY <1>5, RestartKeepsType, RestartKeepsInv
<1> QED
  BY <1>2, <1>3, <1>4, <1>5 DEF Next

\* TypeOK and StoreInv hold together in every reachable state, for any
\* retention policy, merge policy, set of readers and number of faults and
\* crashes: each needs the other to be inductive.
THEOREM InvariantHolds == Spec => [](TypeOK /\ StoreInv)
<1>1. Init => TypeOK /\ StoreInv
  BY InitIsSound
<1>2. TypeOK /\ StoreInv /\ [Next]_vars => (TypeOK /\ StoreInv)'
  <2> SUFFICES ASSUME TypeOK, StoreInv, [Next]_vars
               PROVE  TypeOK' /\ StoreInv'
    OBVIOUS
  <2>1. CASE Next
    BY <2>1, NextKeepsInv
  <2>2. CASE UNCHANGED vars
    <3>1. UNCHANGED <<Pinned, SaverPins, Doomed>>
      BY <2>2 DEF Pinned, SaverPins, ReaderPins, Doomed, BaseOf, vars, threads, names
    <3>2. StoreInv'
      BY <2>2, <3>1
      DEF vars, disk, memory, names, threads, StoreInv, NamesAreFresh, MemoryIsSound,
          ListedIsReadable, IndexIsSound, IndexIsReadable, SaveIsSound, MergeIsSound,
          PinsAreSound, PinnedIsPresent, DownIsIdle, Pending, BaseOf
    <3>3. TypeOK'
      BY <2>2 DEF vars, disk, memory, names, threads, TypeOK
    <3> QED
      BY <3>2, <3>3
  <2> QED
    BY <2>1, <2>2
<1> QED
  BY <1>1, <1>2, PTL DEF Spec

\* Every variable keeps its kind: no step takes an identifier, a flag or a
\* phase out of its range.
THEOREM TypeCorrect == Spec => []TypeOK
<1> QED
  BY InvariantHolds, PTL

\* What the manifest in memory lists has its pack on disk and its base in
\* the list, however saves, retention, merges, loads and starts interleave.
THEOREM ListedReadable == Spec => []ListedIsReadable
<1>1. StoreInv => ListedIsReadable
  BY DEF StoreInv, MemoryIsSound
<1> QED
  BY <1>1, InvariantHolds, PTL

\* What the index on disk lists has its pack, its ranks.json and its base:
\* the process can be killed at any instant.
THEOREM IndexReadable == Spec => []IndexIsReadable
<1>1. StoreInv => IndexIsReadable
  BY DEF StoreInv, IndexIsSound
<1> QED
  BY <1>1, InvariantHolds, PTL

\* No file is deleted while a save or a load that pinned it is inside.
THEOREM PinnedPresent == Spec => []PinnedIsPresent
<1>1. StoreInv => PinnedIsPresent
  BY DEF StoreInv, PinsAreSound
<1> QED
  BY <1>1, InvariantHolds, PTL

-----------------------------------------------------------------------------
(* No file is forgotten.                                                   *)

Savers == [pc : {"idle", "write", "record", "fulls", "total", "persist", "unlink", "unlinking"},
           id : SnapIds \cup {None}, evicted : SUBSET SnapIds,
           protected : SUBSET (SnapIds \cup {None})]

\* The files of a save and of retention are recorded, deleted or given up.
LEMMA SaveHolds ==
    ASSUME TypeOK, StoreInv, FilesAreHeld, SaveBegin \/ SaverStep \/ SaverFault
    PROVE  FilesAreHeld'
<1> USE DEF disk, memory, names, threads, Held
<1>1. packs \cup ranksFiles \subseteq manifest.snaps \cup leaked \cup Held
  <2>1. up
    BY DEF SaveBegin, SaverStep, SaverFault, WritePack, WritePackFails, RecordSave,
           RecordSaveFails, EvictGroup, EvictOldest, FullsCapped, TotalCapped, PersistSave,
           PersistSaveFails, SaveReadersGone, SaveUnlinkTimesOut, SaveUnlinkOne, SaveEnd
  <2> QED
    BY <2>1 DEF FilesAreHeld
<1>0. saver \in Savers
  BY DEF TypeOK, Savers
<1>2. saver.pc \in {"idle", "write", "record"} => saver.evicted = {}
  BY DEF StoreInv, SaveIsSound
<1>3. CASE SaveBegin \/ WritePackFails
  <2>1. /\ saver.pc # "record" /\ saver'.pc # "record" /\ saver'.evicted = {} /\ saver.evicted = {}
        /\ UNCHANGED <<packs, ranksFiles, manifest, leaked, merger>>
    <3>1. CASE SaveBegin
      BY <1>2, <3>1 DEF SaveBegin, IdleSaver
    <3>2. CASE WritePackFails
      BY <1>2, <3>2 DEF WritePackFails, IdleSaver
    <3> QED
      BY <1>3, <3>1, <3>2
  <2> QED
    BY <1>1, <2>1 DEF FilesAreHeld
<1>4. CASE WritePack
  <2>1. /\ saver.pc = "write" /\ saver'.evicted = saver.evicted
        /\ UNCHANGED <<ranksFiles, manifest, leaked, merger>>
        /\ \/ saver'.pc = "record" /\ saver'.id = saver.id /\ packs' = packs \cup {saver.id}
           \/ saver'.pc = "idle" /\ packs' = packs
    BY <1>0, <1>2, <1>4 DEF WritePack, IdleSaver, Savers
  <2> QED
    BY <1>1, <2>1 DEF FilesAreHeld
<1>5. CASE RecordSave \/ RecordSaveFails
  <2>1. saver.pc = "record" /\ saver.id \in SnapIds
    BY <1>5 DEF RecordSave, RecordSaveFails, StoreInv, SaveIsSound, TypeOK
  <2>2. manifest'.snaps = manifest.snaps \cup {saver.id}
    <3>1. CASE RecordSave
      BY <2>1, <3>1, RecordedManifest DEF RecordSave
    <3>2. CASE RecordSaveFails
      BY <2>1, <3>2, PushIsManifest DEF RecordSaveFails, TypeOK
    <3> QED
      BY <1>5, <3>1, <3>2
  <2>3. /\ saver'.pc # "record" /\ saver'.evicted = saver.evicted
        /\ UNCHANGED <<packs, ranksFiles, leaked, merger>>
    <3>1. CASE RecordSave
      BY <1>0, <3>1 DEF RecordSave, Savers
    <3>2. CASE RecordSaveFails
      BY <1>2, <2>1, <3>2 DEF RecordSaveFails, IdleSaver
    <3> QED
      BY <1>5, <3>1, <3>2
  <2> QED
    BY <1>1, <2>1, <2>2, <2>3 DEF FilesAreHeld
<1>6. CASE EvictGroup \/ EvictOldest
  <2>1. PICK gone : Evict(gone) /\ saver.pc # "record"
    BY <1>6 DEF EvictGroup, EvictOldest
  <2>2. manifest'.snaps = manifest.snaps \ gone
    BY <2>1, DropIsManifest DEF Evict, TypeOK
  <2>3. /\ saver'.pc # "record" /\ saver'.evicted = saver.evicted \cup gone
        /\ UNCHANGED <<packs, ranksFiles, leaked, merger>>
    BY <2>1 DEF Evict, TypeOK
  <2> QED
    BY <1>1, <2>1, <2>2, <2>3 DEF FilesAreHeld
<1>7. CASE FullsCapped \/ TotalCapped \/ SaveReadersGone
  <2>1. /\ saver.pc # "record" /\ saver'.pc # "record" /\ saver'.evicted = saver.evicted
        /\ UNCHANGED <<packs, ranksFiles, manifest, leaked, merger>>
    BY <1>7 DEF FullsCapped, TotalCapped, SaveReadersGone, RetentionMovesTo, TypeOK
  <2> QED
    BY <1>1, <2>1 DEF FilesAreHeld
<1>8. CASE PersistSave \/ PersistSaveFails \/ SaveUnlinkTimesOut
  <2>1. Persist(manifest) \/ PersistFails(manifest) => ranksFiles' \subseteq ranksFiles \cup manifest.snaps
    BY DEF Persist, PersistFails, Unwritten, StoreInv, MemoryIsSound
  <2>2. ranksFiles' \subseteq ranksFiles \cup manifest.snaps
    BY <1>8, <2>1 DEF PersistSave, PersistSaveFails, SaveUnlinkTimesOut
  <2>3. /\ saver.pc # "record" /\ saver'.pc # "record"
        /\ saver.evicted \subseteq saver'.evicted \cup leaked' /\ leaked \subseteq leaked'
        /\ UNCHANGED <<packs, manifest, merger>>
    <3>1. CASE PersistSave
      BY <1>0, <3>1 DEF PersistSave, Savers
    <3>2. CASE PersistSaveFails
      BY <3>2 DEF PersistSaveFails, IdleSaver
    <3>3. CASE SaveUnlinkTimesOut
      BY <1>0, <3>3 DEF SaveUnlinkTimesOut, Savers
    <3> QED
      BY <1>8, <3>1, <3>2, <3>3
  <2> QED
    BY <1>1, <2>2, <2>3 DEF FilesAreHeld
<1>9. CASE SaveUnlinkOne
  <2>1. PICK i \in saver.evicted :
            /\ UnlinkFiles(i) \/ UnlinkFails(i)
            /\ saver' = [saver EXCEPT !.evicted = @ \ {i}]
    BY <1>9 DEF SaveUnlinkOne
  <2>2. /\ packs' \cup ranksFiles' \subseteq packs \cup ranksFiles
        /\ leaked \subseteq leaked'
        /\ i \in packs' \cup ranksFiles' => i \in leaked'
    BY <2>1 DEF UnlinkFiles, UnlinkFails
  <2>3. /\ saver.pc # "record" /\ saver'.pc # "record" /\ saver'.evicted = saver.evicted \ {i}
        /\ UNCHANGED <<manifest, merger>>
    BY <1>9, <2>1 DEF SaveUnlinkOne, TypeOK
  <2> QED
    BY <1>1, <2>2, <2>3 DEF FilesAreHeld
<1>10. CASE SaveEnd
  <2>1. /\ saver.pc # "record" /\ saver'.pc # "record" /\ saver.evicted = {}
        /\ UNCHANGED <<packs, ranksFiles, manifest, leaked, merger>>
    BY <1>10 DEF SaveEnd, IdleSaver
  <2> QED
    BY <1>1, <2>1 DEF FilesAreHeld
<1> QED
  BY <1>3, <1>4, <1>5, <1>6, <1>7, <1>8, <1>9, <1>10 DEF SaverStep, SaverFault

\* The files of a merge, and of what it replaces.
LEMMA MergeHolds ==
    ASSUME TypeOK, StoreInv, FilesAreHeld, MergerStep \/ MergerFault
    PROVE  FilesAreHeld'
<1> USE DEF disk, memory, names, threads, Held
<1>0. merger \in Mergers
  BY DEF TypeOK, Mergers
<1>1. packs \cup ranksFiles \subseteq manifest.snaps \cup leaked \cup Held
  BY DEF FilesAreHeld, MergerStep, MergerFault, CheckChain, NothingToFold, FoldStride, TakeForce,
         FullMergeSkips, FullMergeBusy, ForceRetries, FullMergeClaims, WriteMerged, PublishMerged,
         MergeReadersGone, MergeUnlinkOne, MergeEnd, FoldStrideFails, WriteMergedFails,
         PublishMergedFails, ForceGivesUp, MergeUnlinkTimesOut, ReadyFor
<1>2. /\ merger.pc \notin {"unlink", "unlinking"} => merger.left = {}
      /\ merger.left \subseteq merger.claim
  BY DEF StoreInv, MergeIsSound
<1>3. CASE CheckChain \/ NothingToFold \/ TakeForce \/ FullMergeSkips \/ FullMergeBusy
           \/ ForceRetries \/ FullMergeClaims \/ ForceGivesUp \/ WriteMergedFails
           \/ MergeReadersGone \/ MergeEnd
  <2>1. /\ merger.pc # "publish" /\ merger'.pc # "publish" /\ merger.left \subseteq merger'.left
        /\ UNCHANGED <<packs, ranksFiles, manifest, leaked, saver>>
    <3>1. CASE CheckChain \/ NothingToFold \/ TakeForce
      BY <1>2, <3>1 DEF CheckChain, NothingToFold, TakeForce, IdleMerger, ReadyFor
    <3>2. CASE FullMergeSkips \/ ForceGivesUp \/ WriteMergedFails \/ MergeEnd
      BY <1>2, <3>2
      DEF FullMergeSkips, ForceGivesUp, WriteMergedFails, MergeEnd, EndMerge, IdleMerger
    <3>3. CASE FullMergeBusy
      BY <1>0, <1>2, <3>3 DEF FullMergeBusy, EndMerge, IdleMerger, Mergers
    <3>4. CASE ForceRetries \/ MergeReadersGone
      BY <1>0, <3>4 DEF ForceRetries, MergeReadersGone, Mergers
    <3>5. CASE FullMergeClaims
      BY <1>0, <3>5 DEF FullMergeClaims, Mergers
    <3> QED
      BY <1>3, <3>1, <3>2, <3>3, <3>4, <3>5
  <2> QED
    BY <1>1, <2>1 DEF FilesAreHeld
<1>4. CASE FoldStride \/ FoldStrideFails
  <2> DEFINE gone == Foldable
  <2> HIDE DEF gone
  <2>1. Drop(manifest, gone).snaps = manifest.snaps \ gone /\ Drop(manifest, gone).fin \subseteq manifest.snaps
    BY DropIsManifest DEF TypeOK, StoreInv, MemoryIsSound
  <2>2. /\ merger.pc = "idle" /\ merger'.pc # "publish"
        /\ UNCHANGED <<packs, leaked, saver>>
        /\ \/ /\ manifest' = Drop(manifest, gone) /\ merger'.left = gone
              /\ Persist(Drop(manifest, gone))
           \/ manifest' = manifest /\ merger' = merger /\ PersistFails(Drop(manifest, gone))
    BY <1>4 DEF FoldStride, FoldStrideFails, ReadyFor, IdleMerger, gone
  <2>3. ranksFiles' \subseteq ranksFiles \cup manifest.snaps
    BY <2>1, <2>2 DEF Persist, PersistFails, Unwritten
  <2> QED
    BY <1>1, <1>2, <2>1, <2>2, <2>3 DEF FilesAreHeld
<1>5. CASE WriteMerged
  <2>1. /\ merger.pc = "write" /\ merger'.left \subseteq {} /\ merger.left = {}
        /\ UNCHANGED <<ranksFiles, manifest, leaked, saver>>
        /\ \/ merger'.pc = "publish" /\ merger'.id = merger.id /\ packs' = packs \cup {merger.id}
           \/ merger'.pc = "idle" /\ packs' = packs
    BY <1>2, <1>5 DEF WriteMerged, EndMerge, IdleMerger, TypeOK
  <2> QED
    BY <1>1, <2>1 DEF FilesAreHeld
<1>6. CASE PublishMerged \/ PublishMergedFails
  <2>1. merger.id \in SnapIds /\ merger.pc = "publish" /\ merger.left = {}
    BY <1>2, <1>6 DEF PublishMerged, PublishMergedFails, StoreInv, MergeIsSound, TypeOK
  <2>2. /\ MergedManifest.snaps = (manifest.snaps \ merger.claim) \cup {merger.id}
        /\ MergedManifest.fin = (manifest.fin \ merger.claim) \cup {merger.id}
    BY <2>1, MergedIsManifest
  <2>3. ranksFiles' \subseteq ranksFiles \cup manifest.snaps \cup {merger.id}
    BY <1>6, <2>2
    DEF PublishMerged, PublishMergedFails, Persist, PersistFails, Unwritten, StoreInv, MemoryIsSound
  <2>4. /\ merger'.pc # "publish"
        /\ UNCHANGED <<packs, saver>>
        /\ \/ manifest' = MergedManifest /\ merger'.left = merger.claim /\ leaked' = leaked
           \/ manifest' = manifest /\ leaked' = leaked \cup {merger.id}
    <3>1. CASE PublishMerged
      BY <1>0, <3>1 DEF PublishMerged, Mergers
    <3>2. CASE PublishMergedFails
      BY <3>2 DEF PublishMergedFails, EndMerge, IdleMerger
    <3> QED
      BY <1>6, <3>1, <3>2
  <2> QED
    BY <1>1, <2>1, <2>2, <2>3, <2>4 DEF FilesAreHeld
<1>7. CASE MergeUnlinkTimesOut
  <2>1. /\ merger.pc = "unlink" /\ merger'.pc # "publish" /\ leaked' = leaked \cup merger.claim
        /\ UNCHANGED <<packs, ranksFiles, manifest, saver>>
    BY <1>7 DEF MergeUnlinkTimesOut, EndMerge, IdleMerger
  <2> QED
    BY <1>1, <1>2, <2>1 DEF FilesAreHeld
<1>8. CASE MergeUnlinkOne
  <2>1. PICK i \in merger.left :
            /\ UnlinkFiles(i) \/ UnlinkFails(i)
            /\ merger' = [merger EXCEPT !.left = @ \ {i}]
    BY <1>8 DEF MergeUnlinkOne
  <2>2. /\ packs' \cup ranksFiles' \subseteq packs \cup ranksFiles
        /\ leaked \subseteq leaked'
        /\ i \in packs' \cup ranksFiles' => i \in leaked'
    BY <2>1 DEF UnlinkFiles, UnlinkFails
  <2>3. /\ merger.pc # "publish" /\ merger'.pc # "publish" /\ merger'.left = merger.left \ {i}
        /\ UNCHANGED <<manifest, saver>>
    BY <1>8, <2>1 DEF MergeUnlinkOne, TypeOK
  <2> QED
    BY <1>1, <2>2, <2>3 DEF FilesAreHeld
<1> QED
  BY <1>3, <1>4, <1>5, <1>6, <1>7, <1>8 DEF MergerStep, MergerFault

\* Callers write ranks files of listed snapshots only; a start deletes or
\* lists what it finds, or leaves it knowingly.
LEMMA OthersHold ==
    ASSUME TypeOK, StoreInv, FilesAreHeld,
           \/ CallMergeNow \/ CallerStopsWaiting \/ SetPinned \/ SetPinnedFails
           \/ \E r \in Readers : LoadBegin(r) \/ LoadStep(r)
           \/ Crash \/ Start
    PROVE  FilesAreHeld'
<1> USE DEF disk, memory, names, threads, Held
<1>1. CASE \/ CallMergeNow \/ CallerStopsWaiting
           \/ \E r \in Readers : LoadBegin(r) \/ LoadStep(r)
  <2>1. UNCHANGED <<up, packs, ranksFiles, manifest, leaked, saver, merger>>
    BY <1>1 DEF CallMergeNow, CallerStopsWaiting, LoadBegin, LoadStep, LoadPins, LoadFinds,
                LoadReads, LoadFindsBase, LoadReadsBase, LoadEnd, LoadMovesTo
  <2> QED
    BY <2>1 DEF FilesAreHeld
<1>2. CASE SetPinned \/ SetPinnedFails
  <2>1. PICK step \in 1 .. MaxStep, on \in BOOLEAN :
            /\ manifest' = Repinned(step, on)
            /\ \/ Persist(Repinned(step, on)) \/ PersistFails(Repinned(step, on))
               \/ UNCHANGED ranksFiles
    BY <1>2 DEF SetPinned, SetPinnedFails
  <2>2. Repinned(step, on).snaps = manifest.snaps /\ Repinned(step, on).fin = manifest.snaps
    BY DEF Repinned, TypeOK, Manifests, StoreInv, MemoryIsSound
  <2>3. ranksFiles' \subseteq ranksFiles \cup manifest.snaps /\ manifest'.snaps = manifest.snaps
    BY <2>1, <2>2 DEF Persist, PersistFails, Unwritten
  <2>4. UNCHANGED <<up, packs, leaked, saver, merger>>
    BY <1>2 DEF SetPinned, SetPinnedFails
  <2> QED
    BY <2>3, <2>4 DEF FilesAreHeld
<1>3. CASE Crash
  BY <1>3 DEF Crash, FilesAreHeld
<1>4. CASE Start /\ ~OpenBlind
  <2>1. PICK t \in TieBreaks, P \in SUBSET Orphans, R \in SUBSET Orphans,
                W \in SUBSET Intact : Tidies(t, P, R, W)
    BY <1>4, StartsTidy
  <2>2. /\ LoadedManifest.snaps = index.snaps
        /\ RecoveredManifest(t).snaps = index.snaps \cup Recovered(t)
    BY RecoveryIsSound
  <2>3. packs' \cup ranksFiles' \subseteq index.snaps \cup Recovered(t) \cup P \cup R
    BY <2>1, <2>2 DEF Tidies, Orphans
  <2>4. ~up
    BY <1>4, StartsTidy
  <2>5. up' => manifest'.snaps = index.snaps \cup Recovered(t) /\ leaked' = P \cup R
    BY <2>1, <2>2, <2>4 DEF Tidies, Starts
  <2> QED
    BY <2>3, <2>5 DEF FilesAreHeld
<1>5. CASE OpenBlind
  BY <1>5 DEF OpenBlind, FilesAreHeld, Orphans
<1> QED
  BY <1>1, <1>2, <1>3, <1>4, <1>5 DEF Start

\* Every file on the disk is listed, held by the save or the merge that put
\* it or has to delete it, or left behind knowingly: what is evicted in one
\* pass of retention and what a merge replaces are never forgotten.
THEOREM FilesHeld == Spec => []FilesAreHeld
<1>1. Init => FilesAreHeld
  BY DEF Init, FilesAreHeld
<1>2. TypeOK /\ StoreInv /\ FilesAreHeld /\ [Next]_vars => FilesAreHeld'
  <2> SUFFICES ASSUME TypeOK, StoreInv, FilesAreHeld, [Next]_vars
               PROVE  FilesAreHeld'
    OBVIOUS
  <2>1. CASE Next
    BY <2>1, SaveHolds, MergeHolds, OthersHold DEF Next
  <2>2. CASE UNCHANGED vars
    BY <2>2 DEF vars, disk, memory, names, threads, FilesAreHeld, Held
  <2> QED
    BY <2>1, <2>2
<1> QED
  BY <1>1, <1>2, InvariantHolds, PTL DEF Spec

\* A file on disk is listed, left behind knowingly, or in the hands of the
\* save or of the merge.
THEOREM FilesAccounted == Spec => []FilesAreAccountedFor
<1>1. FilesAreHeld => FilesAreAccountedFor
  BY DEF FilesAreHeld, Held, FilesAreAccountedFor, InHands
<1> QED
  BY <1>1, FilesHeld, PTL

-----------------------------------------------------------------------------
(* Retention takes nothing that is exempt.                                 *)

\* What one iteration evicts is not exempt: a full is only chosen if it is
\* not protected, and a delta of its group that were pinned would have made
\* it so.
LEMMA NoExemptGoes ==
    ASSUME TypeOK, StoreInv, RetentionIsBound, EvictGroup \/ EvictOldest
    PROVE  /\ Retaining /\ lock = "saver"
           /\ \E gone : Evict(gone) /\ gone \cap Exempt = {}
<1>1. Retaining /\ lock = "saver" /\ Exempt \subseteq saver.protected
  BY DEF EvictGroup, EvictOldest, Retaining, RetentionIsBound
<1>2. manifest \in Manifests /\ desc \in Descriptors
  BY DEF TypeOK
<1>3. CASE EvictGroup
  <2> DEFINE full == OldestRemovableFull(manifest, desc, saver.protected)
             gone == GroupOf(manifest, desc, full)
  <2>1. Evict(gone) /\ full # None
    BY <1>3 DEF EvictGroup
  <2>2. full \in Fulls(manifest, desc) \ saver.protected
    BY <2>1, FirstIsMember DEF OldestRemovableFull
  <2>3. full \notin Exempt
    BY <1>1, <2>2
  <2> HIDE DEF full
  <2>4. ASSUME NEW i \in gone, i \in Exempt
        PROVE  FALSE
    <3>1. i # full /\ i \in manifest.snaps /\ desc.base[i] = full
      BY <2>3, <2>4 DEF GroupOf
    <3>2. i \in SnapIds /\ full \in BaseOf(i)
      BY <1>2, <2>1, <3>1 DEF Manifests, BaseOf
    <3>3. i \notin RollbackIds(manifest, desc)
      BY <2>1, <3>1 DEF RollbackIds, Fulls, IsDelta
    <3>4. i \notin PinnedNow
      BY <2>3, <3>2 DEF Exempt
    <3>5. ASSUME NEW k \in PinnedNow
          PROVE  i \notin BaseOf(k)
      <4>1. k \in SnapIds
        BY <1>2 DEF PinnedNow, Manifests
      <4>2. \A b \in BaseOf(k) : desc.base[b] = None
        BY <4>1 DEF StoreInv, NamesAreFresh
      <4> QED
        BY <2>1, <3>1, <4>2
    <3> QED
      BY <2>4, <3>3, <3>4, <3>5 DEF Exempt
  <2> QED
    BY <1>1, <2>1, <2>4
<1>4. CASE EvictOldest
  <2> DEFINE oldest == OldestRemovable(manifest, desc, saver.protected)
  <2>1. Evict({oldest}) /\ oldest # None
    BY <1>4 DEF EvictOldest
  <2>2. oldest \notin saver.protected
    BY <2>1, FirstIsMember DEF OldestRemovable
  <2> HIDE DEF oldest
  <2>3. {oldest} \cap Exempt = {}
    BY <1>1, <2>2
  <2> QED
    BY <1>1, <2>1, <2>3
<1> QED
  BY <1>3, <1>4

\* Flags and files that were pinned stay so, or are evicted.
LEMMA ExemptShrinks ==
    ASSUME TypeOK, StoreInv, NEW gone, gone \cap Exempt = {},
           manifest' = Drop(manifest, gone), UNCHANGED <<desc, pinsFile>>
    PROVE  Exempt' \subseteq Exempt
<1>1. manifest \in Manifests /\ desc \in Descriptors /\ manifest.fin = manifest.snaps
  BY DEF TypeOK, StoreInv, MemoryIsSound
<1>2. RollbackIds(manifest, desc)' \subseteq RollbackIds(manifest, desc)
  <2>1. gone \cap RollbackIds(manifest, desc) = {}
    BY DEF Exempt
  <2>2. RollbackIds(Drop(manifest, gone), desc) \subseteq RollbackIds(manifest, desc)
    BY <1>1, <2>1, RollbackShrinks
  <2> QED
    BY <2>2
<1>3. PinnedNow' \subseteq PinnedNow
  BY DEF PinnedNow, Drop
<1>4. \A i : BaseOf(i)' = BaseOf(i)
  BY DEF BaseOf
<1> QED
  BY <1>2, <1>3, <1>4 DEF Exempt

\* What retention decides to spare is what is exempt when it starts.
LEMMA ExemptIsProtected ==
    ASSUME TypeOK, StoreInv, RecordSave
    PROVE  Exempt' \subseteq saver'.protected
<1>1. saver.id \in SnapIds
  BY DEF RecordSave, StoreInv, SaveIsSound, TypeOK
<1> DEFINE pushed == Push(manifest, saver.id, TRUE)
<1>2. pushed \in Manifests /\ pushed.fin = pushed.snaps
  <2>1. manifest \in Manifests /\ manifest.fin = manifest.snaps
    BY DEF TypeOK, StoreInv, MemoryIsSound
  <2>2. /\ pushed \in Manifests /\ pushed.snaps = manifest.snaps \cup {saver.id}
        /\ pushed.fin = manifest.fin \cup {saver.id}
    BY <1>1, <2>1, PushIsManifest
  <2> HIDE DEF pushed
  <2> QED
    BY <2>1, <2>2
<1>3. manifest' = PinsOnDisk(pushed) /\ UNCHANGED <<desc, pinsFile>>
  BY DEF RecordSave, disk, names
<1>4. saver'.protected = ProtectedIds(manifest', desc)
  BY DEF RecordSave, TypeOK
<1> HIDE DEF pushed
<1>5. PinnedNow' \subseteq manifest'.pinned
  BY <1>2, <1>3 DEF PinnedNow, PinsOnDisk, SyncPins, Manifests
<1>6. \A i : BaseOf(i)' \subseteq {desc.base[i]}
  BY <1>3 DEF BaseOf
<1>7. RollbackIds(manifest, desc)' = RollbackIds(manifest', desc)
  BY <1>3
<1> QED
  BY <1>4, <1>5, <1>6, <1>7 DEF Exempt, ProtectedIds

\* As long as retention goes on, it holds the lock, and what it spares is
\* what is exempt.
LEMMA RetentionStaysBound ==
    ASSUME TypeOK, StoreInv, RetentionIsBound, Next
    PROVE  RetentionIsBound'
<1> USE DEF disk, memory, names, threads, Retaining
<1>0. saver \in Savers
  BY DEF TypeOK, Savers
<1>1. CASE EvictGroup \/ EvictOldest
  <2>1. PICK gone : Evict(gone) /\ gone \cap Exempt = {}
    BY <1>1, NoExemptGoes
  <2>2. Retaining /\ lock = "saver"
    BY <1>1, NoExemptGoes
  <2>3. /\ saver'.pc = saver.pc /\ saver'.protected = saver.protected
        /\ manifest' = Drop(manifest, gone) /\ UNCHANGED <<lock, desc, pinsFile>>
    BY <1>0, <2>1 DEF Evict, Savers
  <2>4. Exempt' \subseteq Exempt
    BY <2>1, <2>3, ExemptShrinks
  <2> QED
    BY <2>2, <2>3, <2>4 DEF RetentionIsBound
<1>2. CASE RecordSave
  BY <1>0, <1>2, ExemptIsProtected DEF RecordSave, RetentionIsBound, Savers
<1>3. CASE UNCHANGED <<saver, lock>> /\ (lock = "saver" => UNCHANGED <<manifest, desc, pinsFile>>)
  BY <1>3 DEF RetentionIsBound, Exempt, PinnedNow, BaseOf
<1>4. CASE FullsCapped \/ TotalCapped
  <2>1. /\ Retaining /\ Retaining' /\ saver'.protected = saver.protected
        /\ UNCHANGED <<lock, manifest, desc, pinsFile>>
    BY <1>0, <1>4 DEF FullsCapped, TotalCapped, RetentionMovesTo, Savers
  <2> QED
    BY <2>1 DEF RetentionIsBound, Exempt, PinnedNow, BaseOf
<1>5. CASE ~Retaining' /\ lock' # "saver"
  BY <1>5 DEF RetentionIsBound
<1>6. CASE SaveBegin \/ WritePack \/ WritePackFails \/ RecordSaveFails \/ PersistSave
           \/ PersistSaveFails \/ SaveReadersGone \/ SaveUnlinkTimesOut \/ SaveUnlinkOne
           \/ SaveEnd \/ Crash
  <2>1. lock # "saver" \/ lock' = "free"
    BY <1>6 DEF RetentionIsBound, SaveBegin, WritePack, WritePackFails, RecordSaveFails,
       PersistSave, PersistSaveFails, SaveReadersGone, SaveUnlinkTimesOut, SaveUnlinkOne,
       SaveEnd, Crash
  <2>2. lock' \in {lock, "free"}
    BY <1>6 DEF SaveBegin, WritePack, WritePackFails, RecordSaveFails,
       PersistSave, PersistSaveFails, SaveReadersGone, SaveUnlinkTimesOut, SaveUnlinkOne,
       SaveEnd, Crash
  <2>3. ~Retaining'
    <3>1. CASE WritePack
      BY <1>0, <3>1 DEF WritePack, IdleSaver, Savers
    <3>2. CASE PersistSave \/ SaveReadersGone
      BY <1>0, <3>2 DEF PersistSave, SaveReadersGone, Savers
    <3>3. CASE SaveUnlinkTimesOut \/ SaveUnlinkOne
      <4>1. saver.pc \in {"unlink", "unlinking"} /\ saver'.pc = "unlinking"
        BY <1>0, <3>3 DEF SaveUnlinkTimesOut, SaveUnlinkOne, Savers
      <4> QED
        BY <4>1
    <3>4. CASE SaveBegin
      BY <3>4 DEF SaveBegin, IdleSaver
    <3>5. CASE WritePackFails \/ RecordSaveFails \/ PersistSaveFails \/ SaveEnd \/ Crash
      <4>1. saver' = IdleSaver
        BY <3>5, Zenon DEF WritePackFails, RecordSaveFails, PersistSaveFails, SaveEnd, Crash
      <4> QED
        BY <4>1 DEF IdleSaver
    <3> QED
      BY <1>6, <3>1, <3>2, <3>3, <3>4, <3>5
  <2> QED
    BY <1>5, <2>1, <2>2, <2>3
<1>7. CASE MergerStep \/ MergerFault
  <2>1. UNCHANGED <<saver, lock, pinsFile>> /\ (lock = "saver" => UNCHANGED <<manifest, desc>>)
    BY <1>7 DEF MergerStep, MergerFault, CheckChain, NothingToFold, FoldStride, TakeForce,
         FullMergeSkips, FullMergeBusy, ForceRetries, FullMergeClaims, WriteMerged, PublishMerged,
         MergeReadersGone, MergeUnlinkOne, MergeEnd, FoldStrideFails, WriteMergedFails,
         PublishMergedFails, ForceGivesUp, MergeUnlinkTimesOut
  <2> QED
    BY <1>3, <2>1
<1>8. CASE \/ CallMergeNow \/ CallerStopsWaiting \/ SetPinned \/ SetPinnedFails
           \/ \E r \in Readers : LoadBegin(r) \/ LoadStep(r)
  <2>1. UNCHANGED <<saver, lock, desc>> /\ (lock = "saver" => UNCHANGED <<manifest, pinsFile>>)
    BY <1>8 DEF CallMergeNow, CallerStopsWaiting, SetPinned, SetPinnedFails, LoadBegin, LoadStep,
       LoadPins, LoadFinds, LoadReads, LoadFindsBase, LoadReadsBase, LoadEnd, LoadMovesTo
  <2> QED
    BY <1>3, <2>1
<1>9. CASE Start
  <2>1. UNCHANGED <<saver, lock>> /\ ~up
    BY <1>9 DEF Start, Open, OpenLitters, OpenUnwritten, OpenBlind, StartKilled, Recovers, Starts
  <2>2. saver.pc = "idle"
    BY <2>1 DEF StoreInv, DownIsIdle, IdleSaver
  <2> QED
    BY <1>5, <2>1, <2>2 DEF RetentionIsBound
<1> QED
  BY <1>1, <1>2, <1>4, <1>6, <1>7, <1>8, <1>9 DEF Next, SaverStep, SaverFault

\* While retention holds the lock, what it decided to spare covers all that is
\* exempt, and nobody else holds the lock.
THEOREM RetentionBound == Spec => []RetentionIsBound
<1>1. Init => RetentionIsBound
  BY DEF Init, RetentionIsBound, Retaining, IdleSaver
<1>2. TypeOK /\ StoreInv /\ RetentionIsBound /\ [Next]_vars => RetentionIsBound'
  <2> SUFFICES ASSUME TypeOK, StoreInv, RetentionIsBound, UNCHANGED vars
               PROVE  RetentionIsBound'
    BY RetentionStaysBound
  <2> QED
    BY DEF vars, disk, memory, names, threads, RetentionIsBound, Retaining, Exempt, PinnedNow, BaseOf
<1> QED
  BY <1>1, <1>2, InvariantHolds, PTL DEF Spec

\* Retention never evicts a snapshot kept for a rollback, a pinned one or
\* the base of a pinned one, although it decides once what to spare and
\* the list of the newest rollback fulls moves with every eviction.
THEOREM RetentionSparesExempt == Spec => RetentionSpares
<1>1. TypeOK /\ StoreInv /\ RetentionIsBound /\ [Next]_vars =>
        [(lock = "saver" /\ up') => (manifest.snaps \ manifest'.snaps) \cap Exempt = {}]_vars
  <2> SUFFICES ASSUME TypeOK, StoreInv, RetentionIsBound, Next, lock = "saver", up'
               PROVE  (manifest.snaps \ manifest'.snaps) \cap Exempt = {}
    OBVIOUS
  <2>1. CASE EvictGroup \/ EvictOldest
    <3>1. PICK gone : Evict(gone) /\ gone \cap Exempt = {}
      BY <2>1, NoExemptGoes
    <3>2. manifest'.snaps = manifest.snaps \ gone
      BY <3>1, DropIsManifest DEF Evict, TypeOK
    <3> QED
      BY <3>1, <3>2
  <2>2. CASE ~(EvictGroup \/ EvictOldest)
    <3>1. up /\ Retaining
      BY DEF RetentionIsBound, Retaining, StoreInv, DownIsIdle, IdleSaver
    <3>2. UNCHANGED manifest
      <4>1. ~Crash /\ ~Start /\ ~RecordSave /\ ~RecordSaveFails
        BY <3>1 DEF Crash, Start, Open, OpenLitters, OpenUnwritten, OpenBlind, StartKilled, RecordSave, RecordSaveFails
      <4>2. CASE SaveBegin \/ SaverStep \/ SaverFault
        BY <2>2, <4>1, <4>2
        DEF SaverStep, SaverFault, SaveBegin, WritePack, WritePackFails, FullsCapped, TotalCapped,
            RetentionMovesTo, PersistSave, PersistSaveFails, SaveReadersGone, SaveUnlinkTimesOut,
            SaveUnlinkOne, SaveEnd, memory
      <4>3. CASE MergerStep \/ MergerFault
        BY <4>3 DEF MergerStep, MergerFault, CheckChain, NothingToFold, FoldStride, TakeForce,
         FullMergeSkips, FullMergeBusy, ForceRetries, FullMergeClaims, WriteMerged, PublishMerged,
         MergeReadersGone, MergeUnlinkOne, MergeEnd, FoldStrideFails, WriteMergedFails,
         PublishMergedFails, ForceGivesUp, MergeUnlinkTimesOut, memory
      <4>4. CASE \/ CallMergeNow \/ CallerStopsWaiting \/ SetPinned \/ SetPinnedFails
                 \/ \E r \in Readers : LoadBegin(r) \/ LoadStep(r)
        BY <4>4 DEF CallMergeNow, CallerStopsWaiting, SetPinned, SetPinnedFails, LoadBegin, LoadStep,
         LoadPins, LoadFinds, LoadReads, LoadFindsBase, LoadReadsBase, LoadEnd, LoadMovesTo, memory
      <4> QED
        BY <4>1, <4>2, <4>3, <4>4 DEF Next
    <3> QED
      BY <3>2
  <2> QED
    BY <2>1, <2>2
<1> QED
  BY <1>1, InvariantHolds, RetentionBound, PTL DEF Spec, RetentionSpares

-----------------------------------------------------------------------------
(* The order of the vector.                                                *)

\* A vector, in the order of the steps unless a run goes back.
Orderly(m) == Placed(m) /\ (~Rewind => Ascending(m))

\* The flags are no part of the order.
LEMMA SameOrder ==
    ASSUME NEW m, NEW n, n.snaps = m.snaps, n.pos = m.pos, Orderly(m)
    PROVE  Orderly(n)
BY DEF Orderly, Placed, Ascending

\* A snapshot no older than the others may be pushed.
LEMMA PushIsOrderly ==
    ASSUME TypeOK, NEW m \in Manifests, Orderly(m), NEW i \in SnapIds \ m.snaps,
           ~Rewind => \A j \in m.snaps : desc.step[j] <= desc.step[i]
    PROVE  Orderly(Push(m, i, TRUE))
<1> DEFINE new == Push(m, i, TRUE)
<1>1. Placed(new) /\ \A j \in m.snaps : new.pos[j] = m.pos[j] /\ new.pos[j] < new.pos[i]
  BY PushOrder DEF Orderly
<1>2. new.snaps = m.snaps \cup {i} /\ new.pos \in [SnapIds -> Nat] /\ m.snaps \in SUBSET SnapIds
  BY PushIsManifest DEF Manifests
<1>3. desc.step \in [SnapIds -> Nat]
  BY DEF TypeOK, Descriptors
<1> HIDE DEF new
<1>4. ASSUME ~Rewind, NEW j \in new.snaps, NEW k \in new.snaps, new.pos[j] <= new.pos[k]
      PROVE  desc.step[j] <= desc.step[k]
  <2>1. CASE j \in m.snaps /\ k \in m.snaps
    BY <1>1, <1>4, <2>1 DEF Orderly, Ascending
  <2>2. CASE k = i
    BY <1>2, <1>3, <1>4, <2>2
  <2>3. CASE j = i /\ k \in m.snaps
    BY <1>1, <1>2, <1>4, <2>3
  <2> QED
    BY <1>2, <2>1, <2>2, <2>3
<1>5. Orderly(new)
  BY <1>1, <1>4 DEF Orderly, Ascending
<1> QED
  BY <1>5 DEF new

\* Removing keeps the order.
LEMMA DropIsOrderly ==
    ASSUME NEW m \in Manifests, Orderly(m), NEW R
    PROVE  Orderly(Drop(m, R))
<1>1. Placed(Drop(m, R))
  BY DropPlaced DEF Orderly
<1>2. /\ Drop(m, R).snaps = m.snaps \ R
      /\ \A i, j \in m.snaps \ R : Drop(m, R).pos[i] <= Drop(m, R).pos[j] <=> m.pos[i] <= m.pos[j]
  BY DropIsManifest, DropOrder
<1> QED
  BY <1>1, <1>2 DEF Orderly, Ascending

\* Sorting makes it.
LEMMA SortIsOrderly ==
    ASSUME TypeOK, NEW m \in Manifests, \A i, j \in m.snaps : m.pos[i] = m.pos[j] => i = j
    PROVE  Orderly(SortByStep(m, desc))
<1> DEFINE new == SortByStep(m, desc)
<1>1. desc \in Descriptors /\ desc.step \in [SnapIds -> Nat]
  BY DEF TypeOK, Descriptors
<1>2. new.snaps = m.snaps /\ m.snaps \in SUBSET SnapIds
  BY SortIsManifest DEF Manifests
<1>3. /\ Placed(new)
      /\ \A i, j \in m.snaps : new.pos[i] <= new.pos[j] <=>
                    \/ desc.step[i] < desc.step[j]
                    \/ desc.step[i] = desc.step[j] /\ m.pos[i] <= m.pos[j]
  BY <1>1, SortOrder
<1> HIDE DEF new
<1>4. \A i, j \in new.snaps : new.pos[i] <= new.pos[j] => desc.step[i] <= desc.step[j]
  BY <1>1, <1>2, <1>3
<1>5. Orderly(new)
  BY <1>3, <1>4 DEF Orderly, Ascending
<1> QED
  BY <1>5 DEF new

\* A step that is neither a crash nor a start is one of a running process.
LEMMA RunsOn ==
    ASSUME Next, ~(Crash \/ Start)
    PROVE  up /\ up'
<1>1. CASE SaveBegin
  BY <1>1 DEF SaveBegin
<1>2. CASE SaverStep \/ SaverFault
  <2>1. up
    BY <1>2 DEF SaverStep, SaverFault, WritePack, WritePackFails, RecordSave,
       RecordSaveFails, EvictGroup, EvictOldest, FullsCapped, TotalCapped, PersistSave,
       PersistSaveFails, SaveReadersGone, SaveUnlinkTimesOut, SaveUnlinkOne, SaveEnd
  <2>2. UNCHANGED up
    BY <1>2 DEF SaverStep, SaverFault, WritePack, WritePackFails, RecordSave,
       RecordSaveFails, EvictGroup, EvictOldest, Evict, FullsCapped, TotalCapped,
       RetentionMovesTo, PersistSave, PersistSaveFails, SaveReadersGone,
       SaveUnlinkTimesOut, SaveUnlinkOne, SaveEnd
  <2> QED
    BY <2>1, <2>2
<1>3. CASE MergerStep \/ MergerFault
  BY <1>3 DEF MergerStep, MergerFault, CheckChain, NothingToFold, FoldStride, TakeForce,
     FullMergeSkips, FullMergeBusy, ForceRetries, FullMergeClaims, WriteMerged, PublishMerged,
     MergeReadersGone, MergeUnlinkOne, MergeEnd, FoldStrideFails, WriteMergedFails,
     PublishMergedFails, ForceGivesUp, MergeUnlinkTimesOut, ReadyFor
<1>4. CASE \/ CallMergeNow \/ CallerStopsWaiting \/ SetPinned \/ SetPinnedFails
           \/ \E r \in Readers : LoadBegin(r) \/ LoadStep(r)
  BY <1>4 DEF CallMergeNow, CallerStopsWaiting, SetPinned, SetPinnedFails, LoadBegin, LoadStep,
     LoadPins, LoadFinds, LoadReads, LoadFindsBase, LoadReadsBase, LoadEnd, LoadMovesTo
<1> QED
  BY <1>1, <1>2, <1>3, <1>4 DEF Next

\* While the process runs, a critical section leaves the vector alone,
\* removes from it, pushes the snapshot of the save, or publishes a merge;
\* and what is written to the index is what is in memory then.
LEMMA ListsChange ==
    ASSUME TypeOK, StoreInv, Next, up, up'
    PROVE  /\ index' \in {index, manifest'}
           /\ \/ /\ manifest'.snaps = manifest.snaps /\ manifest'.fin = manifest.fin
                 /\ manifest'.pos = manifest.pos
              \/ /\ EvictGroup \/ EvictOldest \/ FoldStride
                 /\ \E R : manifest' = Drop(manifest, R)
              \/ /\ (RecordSave \/ RecordSaveFails) /\ saver.pc = "record"
                 /\ manifest'.snaps = Push(manifest, saver.id, TRUE).snaps
                 /\ manifest'.fin = Push(manifest, saver.id, TRUE).fin
                 /\ manifest'.pos = Push(manifest, saver.id, TRUE).pos
              \/ PublishMerged /\ merger.pc = "publish" /\ manifest' = MergedManifest
<1> USE DEF disk, memory, names, threads
<1>1. CASE SaveBegin \/ SaverStep \/ SaverFault
  <2>1. CASE RecordSave \/ RecordSaveFails
    <3>1. index' = index /\ saver.pc = "record"
      BY <2>1 DEF RecordSave, RecordSaveFails
    <3>2. \A m : /\ PinsOnDisk(m).snaps = m.snaps /\ PinsOnDisk(m).fin = m.fin
                /\ PinsOnDisk(m).pos = m.pos
      <4>1. manifest \in Manifests
        BY DEF TypeOK
      <4> QED
        BY DEF PinsOnDisk, SyncPins
    <3> QED
      BY <2>1, <3>1, <3>2 DEF RecordSave, RecordSaveFails
  <2>2. CASE EvictGroup \/ EvictOldest
    BY <2>2 DEF EvictGroup, EvictOldest, Evict
  <2>3. CASE PersistSave \/ PersistSaveFails
    BY <2>3 DEF PersistSave, PersistSaveFails, Persist, PersistFails
  <2>4. CASE SaveBegin \/ WritePack \/ WritePackFails \/ FullsCapped \/ TotalCapped
             \/ SaveReadersGone \/ SaveUnlinkTimesOut \/ SaveUnlinkOne \/ SaveEnd
    BY <2>4 DEF SaveBegin, WritePack, WritePackFails, FullsCapped, TotalCapped, RetentionMovesTo,
             SaveReadersGone, SaveUnlinkTimesOut, SaveUnlinkOne, SaveEnd
  <2> QED
    BY <1>1, <2>1, <2>2, <2>3, <2>4 DEF SaverStep, SaverFault
<1>2. CASE MergerStep \/ MergerFault
  <2>1. CASE FoldStride \/ FoldStrideFails
    BY <2>1 DEF FoldStride, FoldStrideFails, Persist, PersistFails
  <2>2. CASE PublishMerged \/ PublishMergedFails
    BY <2>2 DEF PublishMerged, PublishMergedFails, Persist, PersistFails
  <2>3. CASE CheckChain \/ NothingToFold \/ TakeForce \/ FullMergeSkips \/ FullMergeBusy
             \/ ForceRetries \/ FullMergeClaims \/ WriteMerged \/ MergeReadersGone \/ MergeUnlinkOne
             \/ MergeEnd \/ WriteMergedFails \/ ForceGivesUp \/ MergeUnlinkTimesOut
    BY <2>3 DEF CheckChain, NothingToFold, TakeForce, FullMergeSkips, FullMergeBusy,
             ForceRetries, FullMergeClaims, WriteMerged, MergeReadersGone, MergeUnlinkOne,
             MergeEnd, WriteMergedFails, ForceGivesUp, MergeUnlinkTimesOut
  <2> QED
    BY <1>2, <2>1, <2>2, <2>3 DEF MergerStep, MergerFault
<1>3. CASE SetPinned \/ SetPinnedFails
  <2>1. PICK step \in 1 .. MaxStep, on \in BOOLEAN :
            /\ manifest' = Repinned(step, on)
            /\ Persist(manifest') \/ PersistFails(manifest') \/ UNCHANGED index
    BY <1>3 DEF SetPinned, SetPinnedFails
  <2>2. /\ manifest'.snaps = manifest.snaps /\ manifest'.fin = manifest.fin
        /\ manifest'.pos = manifest.pos
    BY <2>1 DEF Repinned, TypeOK, Manifests
  <2>3. index' \in {index, manifest'}
    BY <2>1 DEF Persist, PersistFails
  <2> QED
    BY <2>2, <2>3
<1>4. CASE \/ CallMergeNow \/ CallerStopsWaiting
           \/ \E r \in Readers : LoadBegin(r) \/ LoadStep(r)
  BY <1>4 DEF CallMergeNow, CallerStopsWaiting, LoadBegin, LoadStep, LoadPins, LoadFinds,
              LoadReads, LoadFindsBase, LoadReadsBase, LoadEnd, LoadMovesTo
<1>5. CASE Crash \/ Start
  BY <1>5 DEF Crash, Start, Open, OpenLitters, OpenUnwritten, OpenBlind, StartKilled, Recovers, Starts
<1> QED
  BY <1>1, <1>2, <1>3, <1>4, <1>5 DEF Next

\* The vector a merge publishes is sorted.
LEMMA MergedIsOrderly ==
    ASSUME TypeOK, StoreInv, Orderly(manifest), merger.pc = "publish"
    PROVE  Orderly(MergedManifest)
<1> DEFINE kept == Drop(manifest, merger.claim)
           pushed == Push(kept, merger.id, TRUE)
<1>1. merger.id \in SnapIds \ manifest.snaps
  BY DEF TypeOK, StoreInv, MergeIsSound, Pending
<1>2. kept \in Manifests /\ Placed(kept) /\ merger.id \in SnapIds \ kept.snaps
  BY <1>1, DropIsManifest, DropPlaced DEF TypeOK, Orderly
<1>3. pushed \in Manifests /\ Placed(pushed)
  <2> HIDE DEF kept
  <2> QED
    BY <1>2, PushOrder, PushIsManifest
<1>4. MergedManifest = SortByStep(pushed, desc)
  BY DEF MergedManifest
<1> HIDE DEF pushed
<1>5. \A i, j \in pushed.snaps : pushed.pos[i] = pushed.pos[j] => i = j
  BY <1>3 DEF Placed
<1> QED
  BY <1>3, <1>4, <1>5, SortIsOrderly

\* Both vectors stay in order while the process runs and no snapshot gets
\* its name.
LEMMA RunningKeepsOrder ==
    ASSUME TypeOK, StoreInv, OrderInv, Next, up, up', UNCHANGED desc
    PROVE  Orderly(manifest)' /\ Orderly(index)'
<1>1. Orderly(manifest) /\ Orderly(index)
  BY DEF OrderInv, StepsGrow, Orderly
<1>2. manifest \in Manifests
  BY DEF TypeOK
<1>3. PICK n : n = manifest'
  OBVIOUS
<1>4. Orderly(n)
  <2>1. CASE n.snaps = manifest.snaps /\ n.pos = manifest.pos
    BY <1>1, <2>1, SameOrder
  <2>2. ASSUME NEW R, n = Drop(manifest, R)
        PROVE  Orderly(n)
    BY <1>1, <1>2, <2>2, DropIsOrderly
  <2>3. CASE /\ saver.pc = "record"
             /\ n.snaps = Push(manifest, saver.id, TRUE).snaps
             /\ n.pos = Push(manifest, saver.id, TRUE).pos
    <3>1. saver.id \in SnapIds \ manifest.snaps
      BY <2>3 DEF TypeOK, StoreInv, SaveIsSound, Pending
    <3>2. ~Rewind => \A j \in manifest.snaps : desc.step[j] <= desc.step[saver.id]
      BY <2>3 DEF OrderInv, StepsGrow
    <3>3. Orderly(Push(manifest, saver.id, TRUE))
      BY <1>1, <1>2, <3>1, <3>2, PushIsOrderly
    <3> QED
      BY <2>3, <3>3, SameOrder
  <2>4. CASE merger.pc = "publish" /\ n = MergedManifest
    BY <1>1, <2>4, MergedIsOrderly
  <2> QED
    BY <1>3, <2>1, <2>2, <2>3, <2>4, ListsChange
<1>5. index' \in {index, n}
  BY <1>3, ListsChange
<1>6. Orderly(manifest)'
  BY <1>3, <1>4 DEF Orderly, Placed, Ascending
<1>7. Orderly(index)'
  BY <1>1, <1>4, <1>5 DEF Orderly, Placed, Ascending
<1> QED
  BY <1>6, <1>7

\* What is not about the two vectors: nothing is ahead of the clock, and a
\* base is older than its delta.
StepsAreBehind ==
    /\ \A i \in SnapIds : \A b \in BaseOf(i) : desc.step[b] < desc.step[i]
    /\ up => \A i \in manifest.snaps : desc.step[i] <= clock
    /\ saver.pc = "write" \/ saver.pc = "record" \/ Retaining => desc.step[saver.id] = clock
    /\ merger.pc \in {"write", "publish"} =>
        /\ desc.step[merger.id] <= clock
        /\ \A i \in merger.claim : desc.step[i] <= desc.step[merger.id]

\* The invariant of the order has these two parts.
LEMMA OrderInvParts ==
    OrderInv <=> Orderly(manifest) /\ Orderly(index) /\ (~Rewind => StepsAreBehind)
BY DEF OrderInv, StepsGrow, Orderly, StepsAreBehind

\* The snapshots listed and those in somebody's hands have names already.
LEMMA NamedAlready ==
    ASSUME TypeOK, StoreInv
    PROVE  /\ \A i \in manifest.snaps \cup index.snaps \cup merger.claim : i \in SnapIds /\ i < nextId
           /\ saver.pc # "idle" => saver.id \in SnapIds /\ saver.id < nextId
           /\ merger.pc \in {"write", "publish"} => merger.id \in SnapIds /\ merger.id < nextId
           /\ nextId \in Nat
           /\ SnapIds \subseteq Nat
<1>1. Types
  BY TypesHold
<1>2. SnapIds \subseteq Nat /\ nextId \in Nat
  BY ManifestAssumption DEF SnapIds, TypeOK
<1> QED
  BY <1>1, <1>2 DEF Types, StoreInv, NamesAreFresh, SaveIsSound, MergeIsSound, Pending

\* A fresh name leaves the steps of the others alone.
LEMMA FreshStep ==
    ASSUME TypeOK, NEW step \in Nat, NEW base \in SnapIds \cup {None}, Fresh(step, base)
    PROVE  \A i \in SnapIds : desc'.step[i] = IF i = nextId THEN step ELSE desc.step[i]
<1>1. desc.step \in [SnapIds -> Nat] /\ desc.base \in [SnapIds -> SnapIds \cup {None}]
  BY DEF TypeOK, Descriptors
<1>2. desc'.step = [desc.step EXCEPT ![nextId] = step]
  BY DEF Fresh, TypeOK, Descriptors
<1> QED
  BY <1>1, <1>2

\* The steps of both vectors stay as they were when a name is handed out.
LEMMA NamingKeepsOrder ==
    ASSUME TypeOK, StoreInv, Orderly(manifest), Orderly(index),
           NEW step \in Nat, NEW base \in SnapIds \cup {None}, Fresh(step, base),
           UNCHANGED <<manifest, index>>
    PROVE  /\ Orderly(manifest)' /\ Orderly(index)'
           /\ \A i \in manifest.snaps \cup index.snaps \cup merger.claim :
                desc'.step[i] = desc.step[i]
           /\ saver.pc # "idle" => desc'.step[saver.id] = desc.step[saver.id]
           /\ merger.pc \in {"write", "publish"} => desc'.step[merger.id] = desc.step[merger.id]
<1>1. \A i \in SnapIds : i < nextId => desc'.step[i] = desc.step[i]
  <2>1. \A i \in SnapIds : i < nextId => i # nextId
    BY NamedAlready
  <2> QED
    BY <2>1, FreshStep
<1>2. \A i \in manifest.snaps \cup index.snaps \cup merger.claim : desc'.step[i] = desc.step[i]
  BY <1>1, NamedAlready
<1>3. /\ saver.pc # "idle" => desc'.step[saver.id] = desc.step[saver.id]
      /\ merger.pc \in {"write", "publish"} => desc'.step[merger.id] = desc.step[merger.id]
  BY <1>1, NamedAlready
<1>4. Orderly(manifest)' /\ Orderly(index)'
  BY <1>2 DEF Orderly, Placed, Ascending
<1> QED
  BY <1>2, <1>3, <1>4

\* ... and a base that is older than the fresh delta keeps bases older.
LEMMA NamingKeepsBases ==
    ASSUME TypeOK, StoreInv, \A i \in SnapIds : \A b \in BaseOf(i) : desc.step[b] < desc.step[i],
           NEW step \in Nat, NEW base \in SnapIds \cup {None}, Fresh(step, base),
           base # None => base < nextId /\ desc.base[base] = None /\ desc.step[base] < step
    PROVE  (\A i \in SnapIds : \A b \in BaseOf(i) : desc.step[b] < desc.step[i])'
<1>1. SUFFICES ASSUME NEW i \in SnapIds, NEW b \in BaseOf(i)'
               PROVE  desc'.step[b] < desc'.step[i]
  <2>1. \A i \in SnapIds : \A b \in BaseOf(i)' : desc'.step[b] < desc'.step[i]
    OBVIOUS
  <2> QED
    BY <2>1
<1>2. NamesAreFresh
  BY DEF StoreInv
<1>3. /\ nextId \in SnapIds
      /\ \A k \in SnapIds : k = nextId => BaseOf(k)' = {base} \ {None}
      /\ \A k \in SnapIds : k # nextId => BaseOf(k)' = BaseOf(k)
  <2>1. /\ nextId \in SnapIds /\ nextId \in Int
        /\ \A k \in SnapIds : k = nextId => BaseOf(k)' = {base} \ {None}
        /\ \A k \in SnapIds : k < nextId => BaseOf(k)' = BaseOf(k)
    BY <1>2, FreshIsSound
  <2>2. desc'.base = [desc.base EXCEPT ![nextId] = base]
    BY DEF Fresh, TypeOK, Descriptors
  <2>3. \A k \in SnapIds : k # nextId => BaseOf(k)' = BaseOf(k)
    BY <2>2 DEF BaseOf, TypeOK, Descriptors
  <2> QED
    BY <2>1, <2>3
<1>4. \A k \in SnapIds : desc'.step[k] = IF k = nextId THEN step ELSE desc.step[k]
  BY FreshStep
<1>5. \A k \in SnapIds : k < nextId => k # nextId
  BY NamedAlready
<1>6. CASE i = nextId
  BY <1>1, <1>3, <1>4, <1>5, <1>6
<1>7. CASE i # nextId
  <2>1. b \in BaseOf(i)
    BY <1>1, <1>3, <1>7
  <2>2. b \in SnapIds /\ b < nextId
    BY <1>2, <2>1 DEF NamesAreFresh, BaseOf, TypeOK, Descriptors
  <2> QED
    BY <1>1, <1>4, <1>5, <1>7, <2>1, <2>2
<1> QED
  BY <1>6, <1>7

\* A save takes a step ahead of all others, and its base is one of them.
LEMMA SaveBeginKeepsOrder ==
    ASSUME TypeOK, StoreInv, OrderInv, SaveBegin
    PROVE  OrderInv'
<1> USE DEF disk, memory, names, threads
<1>1. PICK step \in SaveSteps : Fresh(step, BaseFor(step)) /\ clock' = step
  BY DEF SaveBegin
<1>2. step \in Nat /\ clock \in Nat
  BY StoreAssumption DEF SaveSteps, TypeOK
<1> DEFINE base == BaseFor(step)
<1>3. /\ base \in manifest.snaps \cup {None}
      /\ base # None => desc.base[base] = None
  <2>1. /\ LastFull(manifest, desc) \in manifest.fin \cup {None}
        /\ LastFull(manifest, desc) # None => desc.base[LastFull(manifest, desc)] = None
    BY LookUps DEF TypeOK
  <2> QED
    BY <2>1 DEF BaseFor, StoreInv, MemoryIsSound
<1>4. base \in SnapIds \cup {None} /\ (base # None => base < nextId)
  BY <1>3, NamedAlready
<1>5. /\ saver'.pc = "write" /\ saver'.id = nextId /\ saver.pc = "idle" /\ up
      /\ UNCHANGED <<index, manifest, merger, up>>
  BY DEF SaveBegin, IdleSaver
<1>6. /\ Orderly(manifest)' /\ Orderly(index)'
      /\ \A i \in manifest.snaps \cup index.snaps \cup merger.claim : desc'.step[i] = desc.step[i]
      /\ merger.pc \in {"write", "publish"} => desc'.step[merger.id] = desc.step[merger.id]
  <2>1. Orderly(manifest) /\ Orderly(index)
    BY OrderInvParts
  <2> HIDE DEF base
  <2>2. Fresh(step, base)
    BY <1>1 DEF base
  <2> QED
    BY <1>2, <1>4, <1>5, <2>1, <2>2, NamingKeepsOrder
<1>7. ASSUME ~Rewind
      PROVE  StepsAreBehind'
  <2>1. step = clock + 1
    BY <1>1, <1>7 DEF SaveSteps
  <2>2. StepsAreBehind
    BY <1>7, OrderInvParts
  <2>3. \A i \in manifest.snaps : desc.step[i] <= clock /\ desc.step[i] \in Nat
    BY <1>5, <2>2, NamedAlready DEF StepsAreBehind, TypeOK, Descriptors
  <2> HIDE DEF base
  <2>4. base # None => desc.step[base] < step
    BY <1>2, <1>3, <2>1, <2>3
  <2>5. Fresh(step, base)
    BY <1>1 DEF base
  <2>6. (\A i \in SnapIds : \A b \in BaseOf(i) : desc.step[b] < desc.step[i])'
    BY <1>2, <1>3, <1>4, <2>2, <2>4, <2>5, NamingKeepsBases DEF StepsAreBehind
  <2>7. \A i \in manifest.snaps : desc'.step[i] <= clock'
    BY <1>1, <1>2, <1>6, <2>1, <2>3
  <2>8. desc'.step[saver'.id] = clock'
    <3>1. nextId \in SnapIds
      BY <1>2, <1>4, <2>5, FreshKeepsType
    <3> QED
      BY <1>1, <1>2, <1>4, <1>5, <2>5, <3>1, FreshStep
  <2>9. merger.pc \in {"write", "publish"} =>
            /\ desc'.step[merger.id] <= clock'
            /\ \A i \in merger.claim : desc'.step[i] <= desc'.step[merger.id]
    <3>1. merger.pc \in {"write", "publish"} =>
            /\ desc.step[merger.id] <= clock /\ desc.step[merger.id] \in Nat
            /\ \A i \in merger.claim : desc.step[i] <= desc.step[merger.id]
      BY <2>2, NamedAlready DEF StepsAreBehind, TypeOK, Descriptors
    <3> QED
      BY <1>1, <1>2, <1>6, <2>1, <3>1
  <2> QED
    BY <1>5, <2>6, <2>7, <2>8, <2>9 DEF StepsAreBehind
<1> QED
  BY <1>6, <1>7 DEF OrderInv, StepsGrow, Orderly, StepsAreBehind

\* What a merge claims is no newer than the last delta, whose step the
\* merged full takes.
LEMMA ClaimIsBehind ==
    ASSUME TypeOK, StoreInv, OrderInv, ~Rewind, ~NothingToMerge
    PROVE  /\ LastDelta \in manifest.snaps
           /\ \A i \in MergeClaim : i \in manifest.snaps /\ desc.step[i] <= desc.step[LastDelta]
<1>1. manifest \in Manifests /\ desc.step \in [SnapIds -> Nat] /\ manifest.snaps \subseteq SnapIds
  BY DEF TypeOK, Descriptors, Manifests
<1>2. manifest.fin = manifest.snaps
  BY DEF StoreInv, MemoryIsSound
<1>3. MergeBase \in manifest.snaps /\ MergeBase # None /\ LastDelta # None
  BY <1>2, LookUps DEF NothingToMerge, MergeBase, TypeOK
<1>4. MergeDeltas \subseteq manifest.snaps /\ \A i \in MergeDeltas : desc.base[i] = MergeBase
  BY <1>2 DEF MergeDeltas, DeltasOf
<1>5. MergeDeltas # {}
  <2>1. LastDelta \in MergeDeltas \cup {None}
    BY LastIsMember DEF LastDelta
  <2> QED
    BY <1>3, <2>1
<1>6. LastDelta \in MergeDeltas /\ \A j \in MergeDeltas : manifest.pos[j] <= manifest.pos[LastDelta]
  BY <1>1, <1>4, <1>5, Ends DEF LastDelta
<1>7. \A j \in MergeDeltas : desc.step[j] <= desc.step[LastDelta]
  BY <1>4, <1>6 DEF OrderInv, StepsGrow, Ascending
<1>8. desc.step[MergeBase] < desc.step[LastDelta]
  <2>1. MergeBase \in BaseOf(LastDelta) /\ LastDelta \in SnapIds
    BY <1>1, <1>3, <1>4, <1>6 DEF BaseOf
  <2> QED
    BY <2>1 DEF OrderInv, StepsGrow
<1> QED
  BY <1>1, <1>3, <1>4, <1>6, <1>7, <1>8 DEF MergeClaim

\* A claim keeps the order.
LEMMA ClaimKeepsOrder ==
    ASSUME TypeOK, StoreInv, OrderInv, FullMergeClaims
    PROVE  OrderInv'
<1> USE DEF disk, memory, names, threads
<1> DEFINE step == desc.step[LastDelta]
<1>1. Fresh(step, None) /\ ~NothingToMerge /\ up
  BY DEF FullMergeClaims
<1>2. step \in Nat /\ clock \in Nat
  <2>1. LastDelta \in SnapIds
    BY <1>1, LastIsMember DEF NothingToMerge, LastDelta, MergeDeltas, DeltasOf, TypeOK, Manifests
  <2> QED
    BY <2>1 DEF TypeOK, Descriptors
<1>3. /\ merger'.claim = MergeClaim /\ merger'.id = nextId
      /\ UNCHANGED <<index, manifest, saver, clock, up>>
  BY DEF FullMergeClaims, TypeOK
<1>4. None \in SnapIds \cup {None}
  OBVIOUS
<1> HIDE DEF step
<1>5. /\ Orderly(manifest)' /\ Orderly(index)'
      /\ \A i \in manifest.snaps \cup index.snaps \cup merger.claim : desc'.step[i] = desc.step[i]
      /\ saver.pc # "idle" => desc'.step[saver.id] = desc.step[saver.id]
  <2>1. Orderly(manifest) /\ Orderly(index)
    BY OrderInvParts
  <2> QED
    BY <1>1, <1>2, <1>3, <1>4, <2>1, NamingKeepsOrder
<1>6. ASSUME ~Rewind
      PROVE  StepsAreBehind'
  <2>1. StepsAreBehind
    BY <1>6, OrderInvParts
  <2>2. (\A i \in SnapIds : \A b \in BaseOf(i) : desc.step[b] < desc.step[i])'
    BY <1>1, <1>2, <1>4, <2>1, NamingKeepsBases DEF StepsAreBehind
  <2>3. \A i \in manifest.snaps : desc'.step[i] <= clock
    BY <1>1, <1>5, <2>1 DEF StepsAreBehind
  <2>4. saver.pc = "write" \/ saver.pc = "record" \/ Retaining => desc'.step[saver.id] = clock
    BY <1>5, <2>1 DEF StepsAreBehind, Retaining
  <2>5. desc'.step[nextId] = step
    <3>1. nextId \in SnapIds
      BY <1>1, <1>2, <1>4, FreshKeepsType
    <3> QED
      BY <1>1, <1>2, <1>4, <3>1, FreshStep
  <2>6. step <= clock /\ \A i \in MergeClaim : desc'.step[i] <= step
    BY <1>1, <1>5, <1>6, <2>1, ClaimIsBehind DEF StepsAreBehind, step
  <2> QED
    BY <1>3, <2>2, <2>3, <2>4, <2>5, <2>6 DEF StepsAreBehind, Retaining
<1> QED
  BY <1>5, <1>6 DEF OrderInv, StepsGrow, Orderly, StepsAreBehind

\* The other steps of a running process hand out no name and leave the clock.
LEMMA NamesAndClock ==
    ASSUME TypeOK, StoreInv, Next, up, up', ~SaveBegin, ~FullMergeClaims
    PROVE  /\ UNCHANGED <<names, clock>>
           /\ saver'.pc \in {"write", "record"} =>
                saver.pc \in {"write", "record"} /\ saver'.id = saver.id
           /\ Retaining' =>
                /\ Retaining \/ (RecordSave /\ saver.pc = "record")
                /\ saver'.id = saver.id
           /\ merger'.pc \in {"write", "publish"} =>
                /\ merger.pc \in {"write", "publish"}
                /\ merger'.id = merger.id /\ merger'.claim = merger.claim
<1> USE DEF disk, memory, names, threads, Retaining
<1>0. saver \in Savers /\ merger \in Mergers
  BY DEF TypeOK, Savers, Mergers
<1>1. CASE SaverStep \/ SaverFault
  <2>1. UNCHANGED <<names, clock, merger>>
    BY <1>1 DEF SaverStep, SaverFault, WritePack, WritePackFails, RecordSave, RecordSaveFails,
           EvictGroup, EvictOldest, Evict, FullsCapped, TotalCapped, RetentionMovesTo, PersistSave,
           PersistSaveFails, SaveReadersGone, SaveUnlinkTimesOut, SaveUnlinkOne, SaveEnd
  <2>2. CASE saver' = IdleSaver
    BY <2>1, <2>2 DEF IdleSaver
  <2>3. CASE saver' # IdleSaver
    <3>1. CASE WritePack
      BY <1>0, <2>1, <2>3, <3>1 DEF WritePack, Savers
    <3>2. CASE RecordSave
      BY <1>0, <2>1, <2>3, <3>2 DEF RecordSave, Savers
    <3>3. CASE EvictGroup \/ EvictOldest
      <4>1. /\ saver.pc \in {"fulls", "total"} /\ saver'.pc \in {"fulls", "total", "persist"}
            /\ saver'.id = saver.id
        BY <1>0, <3>3 DEF EvictGroup, EvictOldest, Evict, Savers
      <4> QED
        BY <2>1, <4>1
    <3>4. CASE FullsCapped \/ TotalCapped
      <4>1. /\ saver.pc \in {"fulls", "total"} /\ saver'.pc \in {"fulls", "total", "persist"}
            /\ saver'.id = saver.id
        BY <1>0, <3>4 DEF FullsCapped, TotalCapped, RetentionMovesTo, Savers
      <4> QED
        BY <2>1, <4>1
    <3>5. CASE PersistSave \/ SaveReadersGone
      <4>1. saver'.pc \in {"unlink", "unlinking"}
        BY <1>0, <3>5 DEF PersistSave, SaveReadersGone, Savers
      <4> QED
        BY <2>1, <4>1
    <3>6. CASE SaveUnlinkTimesOut \/ SaveUnlinkOne
      <4>1. saver'.pc \in {"unlink", "unlinking"}
        BY <1>0, <3>6 DEF SaveUnlinkTimesOut, SaveUnlinkOne, Savers
      <4> QED
        BY <2>1, <4>1
    <3>7. ~(WritePackFails \/ RecordSaveFails \/ PersistSaveFails \/ SaveEnd)
      BY <2>3, Zenon DEF WritePackFails, RecordSaveFails, PersistSaveFails, SaveEnd
    <3> QED
      BY <1>1, <3>1, <3>2, <3>3, <3>4, <3>5, <3>6, <3>7 DEF SaverStep, SaverFault
  <2> QED
    BY <2>2, <2>3
<1>2. CASE MergerStep \/ MergerFault
  <2>1. UNCHANGED <<names, clock, saver>>
    BY <1>2 DEF MergerStep, MergerFault, CheckChain, NothingToFold, FoldStride, TakeForce,
         FullMergeSkips, FullMergeBusy, ForceRetries, WriteMerged, PublishMerged,
         MergeReadersGone, MergeUnlinkOne, MergeEnd, FoldStrideFails, WriteMergedFails,
         PublishMergedFails, ForceGivesUp, MergeUnlinkTimesOut
  <2>2. CASE merger' = IdleMerger \/ merger' = merger
    BY <2>1, <2>2 DEF IdleMerger
  <2>3. CASE ~(merger' = IdleMerger \/ merger' = merger)
    <3>1. CASE WriteMerged
      BY <1>0, <2>1, <2>3, <3>1 DEF WriteMerged, EndMerge, Mergers
    <3>2. CASE CheckChain \/ TakeForce \/ FoldStride
      <4>1. merger'.pc \in {"full", "unlink"}
        BY <3>2 DEF CheckChain, TakeForce, FoldStride, IdleMerger
      <4> QED
        BY <2>1, <4>1
    <3>3. CASE ForceRetries \/ FullMergeBusy \/ PublishMerged \/ MergeReadersGone
      <4>1. merger'.pc \in {"full", "busy", "unlink", "unlinking"}
        BY <1>0, <2>3, <3>3 DEF ForceRetries, FullMergeBusy, PublishMerged, MergeReadersGone, EndMerge, Mergers
      <4> QED
        BY <2>1, <4>1
    <3>4. CASE MergeUnlinkOne
      <4>1. merger'.pc = "unlinking"
        BY <1>0, <3>4 DEF MergeUnlinkOne, Mergers
      <4> QED
        BY <2>1, <4>1
    <3>5. ~(\/ NothingToFold \/ FullMergeSkips \/ MergeEnd \/ FoldStrideFails \/ WriteMergedFails
            \/ PublishMergedFails \/ ForceGivesUp \/ MergeUnlinkTimesOut)
      BY <2>3, Zenon DEF NothingToFold, FullMergeSkips, MergeEnd, FoldStrideFails, WriteMergedFails,
         PublishMergedFails, ForceGivesUp, MergeUnlinkTimesOut, EndMerge
    <3> QED
      BY <1>2, <3>1, <3>2, <3>3, <3>4, <3>5 DEF MergerStep, MergerFault
  <2> QED
    BY <2>2, <2>3
<1>3. CASE \/ CallMergeNow \/ CallerStopsWaiting \/ SetPinned \/ SetPinnedFails
           \/ \E r \in Readers : LoadBegin(r) \/ LoadStep(r)
  <2>1. UNCHANGED <<names, clock, saver, merger>>
    BY <1>3 DEF CallMergeNow, CallerStopsWaiting, SetPinned, SetPinnedFails, LoadBegin, LoadStep,
       LoadPins, LoadFinds, LoadReads, LoadFindsBase, LoadReadsBase, LoadEnd, LoadMovesTo
  <2> QED
    BY <2>1
<1>4. CASE Crash \/ Start
  BY <1>4 DEF Crash, Start, Open, OpenLitters, OpenUnwritten, OpenBlind, StartKilled, Recovers, Starts
<1> QED
  BY <1>1, <1>2, <1>3, <1>4 DEF Next

\* The other steps of a running process keep the order.
LEMMA OtherStepsKeepOrder ==
    ASSUME TypeOK, StoreInv, OrderInv, Next, up, up', ~SaveBegin, ~FullMergeClaims
    PROVE  OrderInv'
<1>1. UNCHANGED <<desc, clock>>
  BY NamesAndClock DEF names
<1>2. Orderly(manifest)' /\ Orderly(index)'
  BY <1>1, RunningKeepsOrder
<1>3. ASSUME ~Rewind
      PROVE  StepsAreBehind'
  <2>1. StepsAreBehind
    BY <1>3, OrderInvParts
  <2>2. saver'.pc = "write" \/ saver'.pc = "record" \/ Retaining' => desc.step[saver'.id] = clock
    BY <2>1, NamesAndClock DEF StepsAreBehind
  <2>3. merger'.pc \in {"write", "publish"} =>
            /\ desc.step[merger'.id] <= clock
            /\ \A i \in merger'.claim : desc.step[i] <= desc.step[merger'.id]
    BY <2>1, NamesAndClock DEF StepsAreBehind
  <2>4. ASSUME NEW i \in manifest'.snaps
        PROVE  desc.step[i] <= clock
    <3>1. manifest \in Manifests
      BY DEF TypeOK
    <3>2. CASE i \in manifest.snaps
      BY <2>1, <3>2 DEF StepsAreBehind
    <3>3. CASE saver.pc = "record" /\ i = saver.id
      BY <2>1, <3>3, NamedAlready DEF StepsAreBehind, TypeOK, Descriptors
    <3>4. CASE merger.pc = "publish" /\ i = merger.id
      BY <2>1, <3>4 DEF StepsAreBehind
    <3>5. saver.pc = "record" => Push(manifest, saver.id, TRUE).snaps = manifest.snaps \cup {saver.id}
      BY <3>1, NamedAlready, PushIsManifest
    <3>6. merger.pc = "publish" =>
            MergedManifest.snaps = (manifest.snaps \ merger.claim) \cup {merger.id}
      BY NamedAlready, MergedIsManifest
    <3>7. \A R : Drop(manifest, R).snaps \subseteq manifest.snaps
      BY <3>1, DropIsManifest
    <3> QED
      BY <2>4, <3>2, <3>3, <3>4, <3>5, <3>6, <3>7, ListsChange
  <2>5. \A i : BaseOf(i)' = BaseOf(i)
    BY <1>1 DEF BaseOf
  <2> QED
    BY <1>1, <2>1, <2>2, <2>3, <2>4, <2>5 DEF StepsAreBehind
<1> QED
  BY <1>2, <1>3 DEF OrderInv, StepsGrow, Orderly, StepsAreBehind

\* What a start loads is in order.
LEMMA LoadedIsOrderly ==
    ASSUME TypeOK, Orderly(index)
    PROVE  Orderly(LoadedManifest)
<1> DEFINE lost == {i \in index.snaps : ~({i} \cup BaseOf(i) \subseteq ranksFiles)}
<1> HIDE DEF lost
<1>1. Orderly(Drop(index, lost))
  BY DropIsOrderly DEF TypeOK
<1> QED
  BY <1>1 DEF LoadedManifest, lost

\* What recovery puts together is a vector in order: what was loaded keeps
\* its places, what is pushed behind it comes one after the other, and then
\* all is sorted.
LEMMA RecoveredIsOrderly ==
    ASSUME TypeOK, StoreInv, Orderly(index), NEW t \in TieBreaks
    PROVE  Orderly(RecoveredManifest(t))
<1>1. Orderly(LoadedManifest)
  BY LoadedIsOrderly
<1> DEFINE back   == Recovered(t)
           loaded == LoadedManifest
           Upto(i) == {j \in back : ~Earlier(t, i, j)}
           pos    == [i \in SnapIds |->
                        IF i \in back
                        THEN Cardinality(loaded.snaps) + Cardinality(Upto(i))
                        ELSE loaded.pos[i]]
           pushed == [loaded EXCEPT !.snaps = @ \cup back, !.fin = @ \cup back, !.pos = pos]
<1>2. RecoveredManifest(t) = IF back = {} THEN loaded ELSE SortByStep(pushed, desc)
  BY DEF RecoveredManifest
<1>3. /\ loaded \in Manifests /\ loaded.pos \in [SnapIds -> Nat] /\ loaded.snaps \in SUBSET SnapIds
      /\ loaded.fin \in SUBSET SnapIds
  BY RecoveredIsManifest DEF Manifests
<1>4. back \in SUBSET SnapIds /\ back \subseteq Intact /\ back \cap loaded.snaps = {}
  BY DEF Recovered, Intact, Orphans, TypeOK
<1>5. /\ \A i \in back : t[i] \in Int /\ desc.step[i] \in Int
      /\ \A i, j \in back : t[i] = t[j] => i = j
  <2>1. Intact \in SUBSET SnapIds
    BY DEF Intact, TypeOK
  <2>2. Cardinality(Intact) \in Nat
    BY <2>1, IdSetSize
  <2>3. t \in [Intact -> 1 .. Cardinality(Intact)] /\ \A i, j \in Intact : t[i] = t[j] => i = j
    BY DEF TieBreaks
  <2> QED
    BY <1>4, <2>2, <2>3 DEF TypeOK, Descriptors
<1>6. /\ \A i \in back : ~Earlier(t, i, i)
      /\ \A i, j \in back : i # j => Earlier(t, i, j) \/ Earlier(t, j, i)
      /\ \A i, j, k \in back : Earlier(t, i, j) /\ Earlier(t, j, k) => Earlier(t, i, k)
      /\ \A i, j \in back : ~(Earlier(t, i, j) /\ Earlier(t, j, i))
  BY <1>5 DEF Earlier
<1>7. \A i \in SnapIds : Upto(i) \in SUBSET back /\ Cardinality(Upto(i)) \in Nat
  BY <1>4, IdSetSize
<1>8. Cardinality(loaded.snaps) \in Nat
  BY <1>3, IdSetSize
<1>9. ASSUME NEW i \in back, NEW j \in back, Earlier(t, i, j)
      PROVE  Cardinality(Upto(i)) < Cardinality(Upto(j))
  <2>1. Upto(i) \subseteq Upto(j)
    BY <1>6, <1>9
  <2>2. j \in Upto(j) \ Upto(i) /\ Upto(j) \in SUBSET SnapIds
    BY <1>4, <1>6, <1>9
  <2> HIDE DEF Upto, back
  <2> QED
    BY <2>1, <2>2, StrictSize
<1>10. \A i \in back : Cardinality(Upto(i)) > 0
  <2> SUFFICES ASSUME NEW i \in back
               PROVE  Cardinality(Upto(i)) > 0
    OBVIOUS
  <2>1. {} \in SUBSET Upto(i) /\ i \in Upto(i) \ {} /\ Upto(i) \in SUBSET SnapIds
    BY <1>4, <1>6
  <2>2. Cardinality({}) = 0
    BY FS_EmptySet
  <2> HIDE DEF Upto, back
  <2> QED
    BY <1>4, <1>7, <2>1, <2>2, StrictSize
<1> HIDE DEF Upto, back, loaded
<1>11. pos \in [SnapIds -> Nat]
  BY <1>3, <1>7, <1>8
<1>12. /\ \A i \in back : pos[i] = Cardinality(loaded.snaps) + Cardinality(Upto(i))
       /\ \A i \in loaded.snaps : pos[i] = loaded.pos[i]
  BY <1>3, <1>4
<1>13. /\ \A i \in loaded.snaps : loaded.pos[i] <= Cardinality(loaded.snaps)
       /\ \A i, j \in loaded.snaps : loaded.pos[i] = loaded.pos[j] => i = j
  BY <1>1 DEF Orderly, Placed, loaded
<1> HIDE DEF pos
<1>14. pushed \in Manifests /\ pushed.snaps = loaded.snaps \cup back /\ pushed.pos = pos
  BY <1>3, <1>4, <1>11 DEF Manifests
<1> HIDE DEF pushed
<1>15. \A i, j \in pushed.snaps : pushed.pos[i] = pushed.pos[j] => i = j
  <2> SUFFICES ASSUME NEW i \in loaded.snaps \cup back, NEW j \in loaded.snaps \cup back, pos[i] = pos[j]
               PROVE  i = j
    BY <1>14
  <2>1. CASE i \in loaded.snaps /\ j \in loaded.snaps
    BY <1>12, <1>13, <2>1
  <2>2. CASE i \in back /\ j \in back
    <3>1. Cardinality(Upto(i)) = Cardinality(Upto(j))
      BY <1>4, <1>7, <1>8, <1>12, <2>2
    <3> QED
      BY <1>4, <1>6, <1>7, <1>9, <2>2, <3>1
  <2>3. \A k \in back : pos[k] > Cardinality(loaded.snaps)
    BY <1>4, <1>7, <1>8, <1>10, <1>12
  <2>4. \A k \in loaded.snaps : pos[k] <= Cardinality(loaded.snaps) /\ pos[k] \in Nat
    BY <1>3, <1>12, <1>13
  <2>5. \A k \in back : pos[k] \in Nat
    BY <1>4, <1>11
  <2> QED
    BY <1>8, <2>1, <2>2, <2>3, <2>4, <2>5
<1>16. Orderly(SortByStep(pushed, desc))
  BY <1>14, <1>15, SortIsOrderly
<1> QED
  BY <1>1, <1>2, <1>16 DEF loaded

\* After a start the clock is at the newest step that is listed.
LEMMA NewestIsAhead ==
    ASSUME TypeOK, NEW m \in Manifests, Orderly(m), m.fin = m.snaps, ~Rewind
    PROVE  \A i \in m.snaps : desc.step[i] <= NewestStep(m)
<1> SUFFICES ASSUME NEW i \in m.snaps
             PROVE  desc.step[i] <= NewestStep(m)
  OBVIOUS
<1>1. m.fin \in SUBSET SnapIds /\ m.fin # {}
  BY DEF Manifests
<1>2. Newest(m) \in m.snaps /\ m.pos[i] <= m.pos[Newest(m)]
  BY <1>1, Ends DEF Newest
<1>3. Newest(m) # None
  BY <1>1, <1>2, ManifestAssumption DEF SnapIds, None
<1> QED
  BY <1>2, <1>3 DEF Orderly, Ascending, NewestStep

\* A crash and a start keep the order.
LEMMA RestartKeepsOrder ==
    ASSUME TypeOK, StoreInv, OrderInv, Crash \/ Start
    PROVE  OrderInv'
<1> USE DEF disk, memory, names, threads
<1>1. Orderly(manifest) /\ Orderly(index) /\ (~Rewind => StepsAreBehind)
  BY OrderInvParts
<1>2. UNCHANGED desc
  BY DEF Crash, Start, Open, OpenLitters, OpenUnwritten, OpenBlind, StartKilled, Recovers, Starts
<1>3. saver'.pc = "idle" /\ merger'.pc = "idle"
  <2>1. CASE Crash
    BY <2>1 DEF Crash, IdleSaver, IdleMerger
  <2>2. CASE Start
    <3>1. ~up /\ UNCHANGED <<saver, merger>>
      BY <2>2 DEF Start, Open, OpenLitters, OpenUnwritten, OpenBlind, StartKilled, Recovers, Starts
    <3> QED
      BY <3>1 DEF StoreInv, DownIsIdle, IdleSaver, IdleMerger
  <2> QED
    BY <2>1, <2>2
<1>4. PICK n \in Manifests :
        /\ n = manifest' /\ index' \in {index, n} /\ Orderly(n) /\ n.fin = n.snaps
        /\ up' => clock' = NewestStep(n)
  <2>1. CASE Crash
    <3>1. EmptyManifest.snaps = {} /\ EmptyManifest.fin = {}
      BY DEF EmptyManifest
    <3>2. Orderly(EmptyManifest)
      BY <3>1 DEF Orderly, Placed, Ascending
    <3> QED
      BY <2>1, <3>1, <3>2, EmptyIsManifest DEF Crash
  <2>2. CASE Start /\ ~OpenBlind
    <3>1. PICK t \in TieBreaks :
            \/ /\ manifest' = RecoveredManifest(t) /\ clock' = NewestStep(RecoveredManifest(t))
               /\ index' \in {index, RecoveredManifest(t)}
            \/ UNCHANGED <<manifest, index, up>> /\ ~up
      BY <2>2, StartsTidy DEF Tidies, Starts
    <3>2. CASE UNCHANGED <<manifest, index, up>> /\ ~up
      BY <1>1, <3>2 DEF TypeOK, StoreInv, MemoryIsSound
    <3> QED
      BY <1>1, <3>1, <3>2, RecoveredIsManifest, RecoveryIsSound, RecoveredIsOrderly
  <2>3. CASE OpenBlind
    <3>1. Orderly(LoadedManifest)
      BY <1>1, LoadedIsOrderly
    <3>2. LoadedManifest \in Manifests /\ LoadedManifest.fin = LoadedManifest.snaps
      BY RecoveredIsManifest, RecoveryIsSound
    <3> QED
      BY <2>3, <3>1, <3>2 DEF OpenBlind
  <2> QED
    BY <2>1, <2>2, <2>3 DEF Start
<1>5. ASSUME ~Rewind
      PROVE  StepsAreBehind'
  <2>1. up' => \A i \in n.snaps : desc.step[i] <= clock'
    BY <1>4, <1>5, NewestIsAhead
  <2>2. \A i : BaseOf(i)' = BaseOf(i)
    BY <1>2 DEF BaseOf
  <2> QED
    BY <1>1, <1>2, <1>3, <1>4, <1>5, <2>1, <2>2 DEF StepsAreBehind, Retaining
<1>6. Orderly(manifest)' /\ Orderly(index)'
  BY <1>1, <1>2, <1>4 DEF Orderly, Placed, Ascending
<1> QED
  BY <1>5, <1>6 DEF OrderInv, StepsGrow, Orderly, StepsAreBehind

\* The vectors are in order in every reachable state, and unless a run goes
\* back, steps grow from a base to its delta.
THEOREM OrderHolds == Spec => []OrderInv
<1>1. Init => OrderInv
  <2> SUFFICES ASSUME Init PROVE OrderInv
    OBVIOUS
  <2>1. EmptyManifest.snaps = {}
    BY DEF EmptyManifest
  <2>2. Orderly(manifest) /\ Orderly(index)
    BY <2>1 DEF Init, Orderly, Placed, Ascending
  <2>3. StepsAreBehind
    BY <2>1 DEF Init, StepsAreBehind, BaseOf, Retaining, IdleSaver, IdleMerger
  <2> QED
    BY <2>2, <2>3, OrderInvParts
<1>2. TypeOK /\ StoreInv /\ OrderInv /\ [Next]_vars => OrderInv'
  <2> SUFFICES ASSUME TypeOK, StoreInv, OrderInv, [Next]_vars
               PROVE  OrderInv'
    OBVIOUS
  <2>1. CASE UNCHANGED vars
    BY <2>1 DEF vars, disk, memory, names, threads, OrderInv, StepsGrow, Placed, Ascending,
                BaseOf, Retaining
  <2>2. CASE SaveBegin
    BY <2>2, SaveBeginKeepsOrder
  <2>3. CASE FullMergeClaims
    BY <2>3, ClaimKeepsOrder
  <2>4. CASE Crash \/ Start
    BY <2>4, RestartKeepsOrder
  <2>5. CASE Next /\ ~(Crash \/ Start) /\ ~SaveBegin /\ ~FullMergeClaims
    <3>1. up /\ up'
      BY <2>5, RunsOn
    <3> QED
      BY <2>5, <3>1, OtherStepsKeepOrder
  <2> QED
    BY <2>1, <2>2, <2>3, <2>4, <2>5
<1> QED
  BY <1>1, <1>2, InvariantHolds, PTL DEF Spec

\* A start lists every complete snapshot whose base it lists or finds: the
\* base was saved earlier, so it is looked at first, whatever order a
\* HashMap gives to snapshots of one step.  A run that goes back may lose
\* one, which is why the theorem is about runs that do not.
THEOREM RecoverySpares ==
    ASSUME ~Rewind
    PROVE  Spec => RecoverySparesComplete
<1>1. TypeOK /\ StoreInv /\ OrderInv /\ [Next]_vars =>
        [~up => \A i \in Intact :
            BaseOf(i) \subseteq (LoadedManifest.snaps \cup Intact) => i \in packs']_vars
  <2> SUFFICES ASSUME TypeOK, StoreInv, OrderInv, Next, ~up,
                      NEW i \in Intact, BaseOf(i) \subseteq LoadedManifest.snaps \cup Intact
               PROVE  i \in packs'
    OBVIOUS
  <2>1. i \in SnapIds /\ i \in packs
    BY DEF Intact, TypeOK
  <2>2. \A b \in BaseOf(i) : desc.step[b] < desc.step[i]
    BY <2>1 DEF OrderInv, StepsGrow
  <2>3. \A t : i \in Recovered(t)
    BY <2>2 DEF Recovered, Earlier
  <2>4. CASE Start
    <3>1. CASE OpenBlind
      BY <2>1, <3>1 DEF OpenBlind, disk
    <3>2. CASE ~OpenBlind
      <4>1. PICK t, P, R, W : Tidies(t, P, R, W)
        BY <2>4, <3>2, StartsTidy
      <4> QED
        BY <2>1, <2>3, <4>1 DEF Tidies
    <3> QED
      BY <3>1, <3>2
  <2>5. Start
    <3>1. saver.pc = "idle" /\ merger.pc = "idle"
      BY DEF StoreInv, DownIsIdle, IdleSaver, IdleMerger
    <3>2. ~SaveBegin /\ ~SaverStep /\ ~SaverFault
      BY DEF SaveBegin, SaverStep, SaverFault, WritePack, WritePackFails, RecordSave,
           RecordSaveFails, EvictGroup, EvictOldest, FullsCapped, TotalCapped, PersistSave,
           PersistSaveFails, SaveReadersGone, SaveUnlinkTimesOut, SaveUnlinkOne, SaveEnd
    <3>3. ~MergerStep /\ ~MergerFault
      BY DEF MergerStep, MergerFault, CheckChain, NothingToFold, FoldStride, TakeForce,
         FullMergeSkips, FullMergeBusy, ForceRetries, FullMergeClaims, WriteMerged, PublishMerged,
         MergeReadersGone, MergeUnlinkOne, MergeEnd, FoldStrideFails, WriteMergedFails,
         PublishMergedFails, ForceGivesUp, MergeUnlinkTimesOut, ReadyFor
    <3>4. /\ ~CallMergeNow /\ ~CallerStopsWaiting /\ ~SetPinned /\ ~SetPinnedFails
          /\ \A r \in Readers : ~LoadBegin(r) /\ ~LoadStep(r)
      BY DEF CallMergeNow, CallerStopsWaiting, SetPinned, SetPinnedFails, LoadBegin, LoadStep,
         LoadPins, LoadFinds, LoadReads, LoadFindsBase, LoadReadsBase, LoadEnd
    <3> QED
      BY <3>2, <3>3, <3>4 DEF Next, Crash
  <2> QED
    BY <2>4, <2>5
<1> QED
  BY <1>1, InvariantHolds, OrderHolds, PTL DEF Spec, RecoverySparesComplete

-----------------------------------------------------------------------------
(* What was acknowledged survives.                                         *)

\* The state the proof goes through, without pins, rollback fulls and runs
\* that go back.
Calm ==
    /\ NothingExempt /\ MaxFull # 0 /\ ~Rewind
    /\ TypeOK /\ StoreInv /\ RetentionIsBound /\ OrderInv /\ AckedInv

\* What is often needed of it.
LEMMA CalmFacts ==
    ASSUME Calm
    PROVE  /\ manifest \in Manifests /\ Placed(manifest) /\ manifest.fin = manifest.snaps
           /\ manifest.snaps \in SUBSET SnapIds /\ manifest.pos \in [SnapIds -> Nat]
           /\ \A i \in SnapIds : desc.step[i] \in Nat
           /\ None \notin SnapIds
           /\ clock \in Nat /\ acked \in Nat
           /\ saver.protected = {}
<1>1. manifest.fin = manifest.snaps
  BY DEF Calm, StoreInv, MemoryIsSound
<1>2. Placed(manifest)
  BY DEF Calm, OrderInv
<1>3. manifest \in Manifests /\ manifest.snaps \in SUBSET SnapIds /\ manifest.pos \in [SnapIds -> Nat]
  BY DEF Calm, TypeOK, Manifests
<1>4. \A i \in SnapIds : desc.step[i] \in Nat
  BY DEF Calm, TypeOK, Descriptors
<1>5. None \notin SnapIds
  BY ManifestAssumption DEF SnapIds, None
<1>6. clock \in Nat /\ acked \in Nat /\ saver.protected = {}
  BY DEF Calm, TypeOK, AckedInv, NothingPinned
<1> QED
  BY <1>1, <1>2, <1>3, <1>4, <1>5, <1>6

\* The last full of the manifest: behind all others, in place until it goes.
LEMMA LastFullFacts ==
    ASSUME Calm
    PROVE  LET last == LastFull(manifest, desc)
           IN  /\ last # None =>
                    /\ last \in manifest.snaps /\ desc.base[last] = None
                    /\ \A g \in Fulls(manifest, desc) \ {last} : manifest.pos[g] < manifest.pos[last]
               /\ last = None => Fulls(manifest, desc) = {}
               /\ \A R : last \notin R => LastFull(Drop(manifest, R), desc) = last
<1>1. /\ manifest \in Manifests /\ Placed(manifest) /\ manifest.fin = manifest.snaps
      /\ manifest.fin \subseteq manifest.snaps
  BY CalmFacts
<1> DEFINE last == LastFull(manifest, desc)
<1>2. \A R : last \notin R => LastFull(Drop(manifest, R), desc) = last
  BY <1>1, DropKeepsLastFull
<1>3. /\ last # None =>
            /\ last \in Fulls(manifest, desc)
            /\ \A g \in Fulls(manifest, desc) \ {last} : manifest.pos[g] < manifest.pos[last]
      /\ last = None => Fulls(manifest, desc) = {}
  BY <1>1, LastFullIs
<1>4. last \in Fulls(manifest, desc) => last \in manifest.snaps /\ desc.base[last] = None
  BY <1>1 DEF Fulls, IsDelta
<1> QED
  BY <1>2, <1>3, <1>4

\* Retention evicts neither the snapshot just recorded nor the last full,
\* which is its base unless it is a full itself.
LEMMA NewestStays ==
    ASSUME Calm, EvictGroup \/ EvictOldest
    PROVE  \E gone : /\ Evict(gone)
                     /\ saver.id \notin gone /\ LastFull(manifest, desc) \notin gone
<1> DEFINE last == LastFull(manifest, desc)
           F    == Fulls(manifest, desc)
<1>1. Retaining
  BY DEF EvictGroup, EvictOldest, Retaining
<1>2. /\ saver.id \in manifest.snaps
      /\ \A j \in manifest.snaps \ {saver.id} : manifest.pos[j] < manifest.pos[saver.id]
      /\ BaseOf(saver.id) \subseteq {last}
  BY <1>1 DEF Calm, AckedInv, LastStaysLast
<1>3. /\ last # None =>
            /\ last \in manifest.snaps /\ desc.base[last] = None
            /\ \A g \in F \ {last} : manifest.pos[g] < manifest.pos[last]
      /\ last = None => F = {}
  BY LastFullFacts
<1>4. /\ F \in SUBSET SnapIds /\ F \subseteq manifest.snaps
      /\ \A i \in F : desc.base[i] = None
  BY CalmFacts DEF Fulls, IsDelta
<1>5. \A i \in SnapIds : manifest.pos[i] \in Nat
  BY CalmFacts
<1>6. desc.base[saver.id] = None => last = saver.id
  <2> SUFFICES ASSUME desc.base[saver.id] = None, last # saver.id
               PROVE  FALSE
    OBVIOUS
  <2>1. saver.id \in F
    BY <1>2, CalmFacts DEF Fulls, IsDelta
  <2>2. last # None
    BY <1>3, <2>1
  <2>3. manifest.pos[saver.id] < manifest.pos[last] /\ manifest.pos[last] < manifest.pos[saver.id]
    BY <1>2, <1>3, <2>1, <2>2
  <2> QED
    BY <1>2, <1>3, <1>5, <2>2, <2>3, CalmFacts
<1>7. manifest \in Manifests /\ saver.protected = {} /\ None \notin SnapIds
      /\ manifest.snaps \in SUBSET SnapIds
  BY CalmFacts
<1>8. CASE EvictGroup
  <2> DEFINE full == OldestRemovableFull(manifest, desc, saver.protected)
             gone == GroupOf(manifest, desc, full)
  <2>1. Evict(gone) /\ full # None /\ Cardinality(F) > MaxFull
    BY <1>8 DEF EvictGroup, OverFullCap
  <2>2. full = First(manifest, F)
    BY <1>7 DEF OldestRemovableFull
  <2> HIDE DEF full, F
  <2>3. F # {} /\ full \in F /\ \A j \in F : manifest.pos[full] <= manifest.pos[j]
    BY <1>4, <1>7, <2>1, <2>2, FirstIsMember, Ends
  <2>4. full # last
    <3> SUFFICES ASSUME full = last
                 PROVE  FALSE
      OBVIOUS
    <3>1. last # None
      BY <2>1
    <3>2. \A g \in F : g = last
      BY <1>3, <1>4, <1>5, <2>3, <3>1
    <3>3. F = {last}
      BY <2>3, <3>2
    <3>4. Cardinality(F) = 1
      BY <3>3, FS_Singleton
    <3> QED
      BY <2>1, <3>4, ManifestAssumption DEF Calm
  <2>5. last \notin gone
    <3>1. last # None
      BY <1>3, <2>3
    <3> QED
      BY <1>3, <2>1, <2>4, <3>1 DEF GroupOf
  <2>6. saver.id \notin gone
    <3> SUFFICES ASSUME saver.id = full \/ desc.base[saver.id] = full
                 PROVE  FALSE
      BY DEF GroupOf
    <3>1. CASE saver.id = full
      BY <1>4, <1>6, <2>3, <2>4, <3>1
    <3>2. CASE desc.base[saver.id] = full
      BY <1>2, <2>1, <2>4, <3>2 DEF BaseOf
    <3> QED
      BY <3>1, <3>2
  <2> QED
    BY <2>1, <2>5, <2>6
<1>9. CASE EvictOldest
  <2> DEFINE oldest == OldestRemovable(manifest, desc, saver.protected)
  <2>1. Evict({oldest}) /\ oldest # None
    BY <1>9 DEF EvictOldest
  <2>2. /\ oldest \in manifest.fin /\ oldest # Newest(manifest)
        /\ IsDelta(desc, oldest) \/ \A j \in manifest.snaps : desc.base[j] # oldest
    BY <2>1, FirstIsMember DEF OldestRemovable
  <2> HIDE DEF oldest, last, F
  <2>3. Newest(manifest) = saver.id
    <3>1. manifest.fin = manifest.snaps
      BY CalmFacts
    <3>2. /\ Newest(manifest) \in manifest.snaps
          /\ \A j \in manifest.snaps : manifest.pos[j] <= manifest.pos[Newest(manifest)]
      BY <1>2, <1>7, <3>1, Ends DEF Newest
    <3> QED
      BY <1>2, <1>5, <1>7, <3>2
  <2>4. oldest # last
    <3> SUFFICES ASSUME oldest = last
                 PROVE  FALSE
      OBVIOUS
    <3>1. \A j \in manifest.snaps : desc.base[j] # oldest
      BY <1>3, <2>1, <2>2 DEF IsDelta
    <3>2. desc.base[saver.id] # None
      BY <1>6, <2>2, <2>3
    <3>3. desc.base[saver.id] = last
      BY <1>2, <3>2 DEF BaseOf
    <3> QED
      BY <1>2, <3>1, <3>3
  <2> QED
    BY <2>1, <2>2, <2>3, <2>4 DEF last
<1> QED
  BY <1>8, <1>9

\* Without pins there is nothing pinned, and nothing to protect.
LEMMA PinnedStays ==
    ASSUME Calm, Next
    PROVE  NothingPinned'
<1> USE DEF disk, memory, names, threads
<1>1. /\ manifest.pinned = {} /\ index.pinned = {} /\ ~pinsFile.present
      /\ budget["pin"] = 0 /\ saver.protected = {}
  BY DEF Calm, AckedInv, NothingPinned
<1>2. /\ saver \in Savers /\ manifest \in Manifests /\ index \in Manifests
      /\ budget \in [{"save", "fault", "crash", "pin", "force"} -> Nat]
  BY DEF Calm, TypeOK, Savers
<1>3. ~SetPinned /\ ~SetPinnedFails
  BY <1>1 DEF SetPinned, SetPinnedFails, Spend
<1>4. budget'["pin"] = 0
  <2>1. \A what \in {"save", "fault", "crash", "force"} : Spend(what) => budget'["pin"] = 0
    BY <1>1, <1>2 DEF Spend
  <2>2. \A i : UnlinkFails(i) \/ UnlinkFiles(i) => budget'["pin"] = 0
    BY <1>1, <2>1 DEF UnlinkFails, UnlinkFiles
  <2>3. \A m : PersistFails(m) => budget'["pin"] = 0
    BY <2>1 DEF PersistFails
  <2>4. CASE SaveBegin \/ SaverStep \/ SaverFault
    BY <1>1, <2>1, <2>2, <2>3, <2>4
    DEF SaveBegin, SaverStep, SaverFault, WritePack, WritePackFails, RecordSave, RecordSaveFails,
        EvictGroup, EvictOldest, Evict, FullsCapped, TotalCapped, RetentionMovesTo, PersistSave,
        PersistSaveFails, SaveReadersGone, SaveUnlinkTimesOut, SaveUnlinkOne, SaveEnd
  <2>5. CASE MergerStep \/ MergerFault
    BY <1>1, <2>1, <2>2, <2>3, <2>5
    DEF MergerStep, MergerFault, CheckChain, NothingToFold, FoldStride, TakeForce, FullMergeSkips,
        FullMergeBusy, ForceRetries, FullMergeClaims, WriteMerged, PublishMerged, MergeReadersGone,
        MergeUnlinkOne, MergeEnd, FoldStrideFails, WriteMergedFails, PublishMergedFails,
        ForceGivesUp, MergeUnlinkTimesOut
  <2>6. CASE \/ CallMergeNow \/ CallerStopsWaiting
             \/ \E r \in Readers : LoadBegin(r) \/ LoadStep(r)
    BY <1>1, <2>1, <2>6
    DEF CallMergeNow, CallerStopsWaiting, LoadBegin, LoadStep, LoadPins, LoadFinds, LoadReads,
        LoadFindsBase, LoadReadsBase, LoadEnd, LoadMovesTo
  <2>7. CASE Crash \/ Start
    BY <1>1, <2>1, <2>7 DEF Crash, Start, Open, OpenLitters, OpenUnwritten, OpenBlind, StartKilled, Recovers, Starts
  <2> QED
    BY <1>3, <2>4, <2>5, <2>6, <2>7 DEF Next
<1>5. UNCHANGED pinsFile
  <2>1. CASE SaveBegin \/ SaverStep \/ SaverFault
    BY <2>1
    DEF SaveBegin, SaverStep, SaverFault, WritePack, WritePackFails, RecordSave, RecordSaveFails,
        EvictGroup, EvictOldest, Evict, FullsCapped, TotalCapped, RetentionMovesTo, PersistSave,
        PersistSaveFails, SaveReadersGone, SaveUnlinkTimesOut, SaveUnlinkOne, SaveEnd
  <2>2. CASE MergerStep \/ MergerFault
    BY <2>2
    DEF MergerStep, MergerFault, CheckChain, NothingToFold, FoldStride, TakeForce, FullMergeSkips,
        FullMergeBusy, ForceRetries, FullMergeClaims, WriteMerged, PublishMerged, MergeReadersGone,
        MergeUnlinkOne, MergeEnd, FoldStrideFails, WriteMergedFails, PublishMergedFails,
        ForceGivesUp, MergeUnlinkTimesOut
  <2>3. CASE \/ CallMergeNow \/ CallerStopsWaiting
             \/ \E r \in Readers : LoadBegin(r) \/ LoadStep(r)
    BY <2>3
    DEF CallMergeNow, CallerStopsWaiting, LoadBegin, LoadStep, LoadPins, LoadFinds, LoadReads,
        LoadFindsBase, LoadReadsBase, LoadEnd, LoadMovesTo
  <2>4. CASE Crash \/ Start
    BY <2>4 DEF Crash, Start, Open, OpenLitters, OpenUnwritten, OpenBlind, StartKilled, Recovers, Starts
  <2> QED
    BY <1>3, <2>1, <2>2, <2>3, <2>4 DEF Next
<1>6. manifest'.pinned = {}
  <2>1. \A m, R : m.pinned = {} => Drop(m, R).pinned = {}
    BY DEF Drop
  <2>2. \A i : Push(manifest, i, TRUE).pinned = {}
    BY <1>1, <1>2 DEF Push, Manifests
  <2>3. \A m : PinsOnDisk(m) = m
    BY <1>1 DEF PinsOnDisk
  <2>4. CASE RecordSave \/ RecordSaveFails
    BY <2>2, <2>3, <2>4 DEF RecordSave, RecordSaveFails
  <2>5. CASE EvictGroup \/ EvictOldest \/ FoldStride
    BY <1>1, <2>1, <2>5 DEF EvictGroup, EvictOldest, Evict, FoldStride
  <2>6. CASE PublishMerged
    <3> DEFINE kept == Drop(manifest, merger.claim)
               pushed == Push(kept, merger.id, TRUE)
    <3>1. merger.id \in SnapIds
      BY <2>6 DEF PublishMerged, Calm, StoreInv, MergeIsSound, TypeOK
    <3>2. kept \in Manifests /\ kept.pinned = {}
      BY <1>1, <1>2, <2>1, DropIsManifest
    <3>3. pushed \in Manifests /\ pushed.pinned = {}
      <4> HIDE DEF kept
      <4>1. Push(kept, merger.id, TRUE).pinned = kept.pinned
        BY <3>2 DEF Push, Manifests
      <4> QED
        BY <3>1, <3>2, <4>1, PushIsManifest
    <3> HIDE DEF pushed
    <3>4. SortByStep(pushed, desc).pinned = {}
      BY <3>3 DEF SortByStep, Manifests
    <3> QED
      BY <2>6, <3>4 DEF PublishMerged, MergedManifest, pushed
  <2>7. CASE Crash
    BY <2>7 DEF Crash, EmptyManifest
  <2>8. CASE Start
    <3>1. LoadedManifest.pinned = {} /\ LoadedManifest \in Manifests
      BY <1>1, <2>1, RecoveredIsManifest DEF LoadedManifest, Calm
    <3>2. \A t : RecoveredManifest(t).pinned = {}
      BY <3>1 DEF RecoveredManifest, SortByStep, Manifests
    <3> QED
      BY <1>1, <2>8, <3>1, <3>2 DEF Start, Open, OpenLitters, OpenUnwritten, OpenBlind, StartKilled, Recovers, Starts
  <2>9. CASE UNCHANGED manifest
    BY <1>1, <2>9
  <2>10. CASE SaveBegin \/ SaverStep \/ SaverFault
    BY <2>4, <2>5, <2>9, <2>10
    DEF SaveBegin, SaverStep, SaverFault, WritePack, WritePackFails, FullsCapped, TotalCapped,
        RetentionMovesTo, PersistSave, PersistSaveFails, SaveReadersGone, SaveUnlinkTimesOut,
        SaveUnlinkOne, SaveEnd
  <2>11. CASE MergerStep \/ MergerFault
    BY <2>5, <2>6, <2>9, <2>11
    DEF MergerStep, MergerFault, CheckChain, NothingToFold, TakeForce, FullMergeSkips,
        FullMergeBusy, ForceRetries, FullMergeClaims, WriteMerged, MergeReadersGone,
        MergeUnlinkOne, MergeEnd, FoldStrideFails, WriteMergedFails, PublishMergedFails,
        ForceGivesUp, MergeUnlinkTimesOut
  <2>12. CASE \/ CallMergeNow \/ CallerStopsWaiting
              \/ \E r \in Readers : LoadBegin(r) \/ LoadStep(r)
    BY <2>9, <2>12
    DEF CallMergeNow, CallerStopsWaiting, LoadBegin, LoadStep, LoadPins, LoadFinds, LoadReads,
        LoadFindsBase, LoadReadsBase, LoadEnd, LoadMovesTo
  <2> QED
    BY <1>3, <2>7, <2>8, <2>10, <2>11, <2>12 DEF Next
<1>7. index'.pinned = {}
  <2>1. CASE up /\ up'
    BY <1>1, <1>6, <2>1, ListsChange DEF Calm
  <2>2. CASE ~(up /\ up')
    <3>1. Crash \/ Start
      BY <2>2, RunsOn
    <3>2. CASE Crash \/ OpenBlind
      BY <1>1, <3>2 DEF Crash, OpenBlind
    <3>3. CASE Start /\ ~OpenBlind
      <4>1. index' = index \/ index' = manifest'
        BY <3>3, StartsTidy DEF Tidies, Starts
      <4> QED
        BY <1>1, <1>6, <4>1
    <3> QED
      BY <3>1, <3>2, <3>3
  <2> QED
    BY <2>1, <2>2
<1>8. saver'.protected = {}
  <2>1. CASE RecordSave
    <3>1. saver'.protected = ProtectedIds(manifest', desc)
      BY <1>2, <2>1 DEF RecordSave, Savers
    <3>2. RollbackIds(manifest', desc) = {}
      BY DEF RollbackIds, Calm, NothingExempt
    <3> QED
      BY <1>6, <3>1, <3>2 DEF ProtectedIds
  <2>2. CASE saver' = IdleSaver
    BY <2>2 DEF IdleSaver
  <2>3. CASE UNCHANGED saver
    BY <1>1, <2>3
  <2>4. CASE SaveBegin
    BY <2>4 DEF SaveBegin, IdleSaver
  <2>5. CASE EvictGroup \/ EvictOldest \/ FullsCapped \/ TotalCapped
    BY <1>1, <1>2, <2>5
    DEF EvictGroup, EvictOldest, Evict, FullsCapped, TotalCapped, RetentionMovesTo, Savers
  <2>6. CASE WritePack
    BY <1>1, <1>2, <2>2, <2>6 DEF WritePack, Savers
  <2>7. CASE PersistSave \/ SaveReadersGone
    BY <1>1, <1>2, <2>7 DEF PersistSave, SaveReadersGone, Savers
  <2>8. CASE SaveUnlinkTimesOut \/ SaveUnlinkOne
    BY <1>1, <1>2, <2>8 DEF SaveUnlinkTimesOut, SaveUnlinkOne, Savers
  <2>9. CASE SaveBegin \/ SaverStep \/ SaverFault
    BY <2>1, <2>2, <2>4, <2>5, <2>6, <2>7, <2>8, <2>9, Zenon
    DEF SaverStep, SaverFault, WritePackFails, RecordSaveFails, PersistSaveFails, SaveEnd
  <2>10. CASE MergerStep \/ MergerFault
    BY <2>3, <2>10
    DEF MergerStep, MergerFault, CheckChain, NothingToFold, FoldStride, TakeForce, FullMergeSkips,
        FullMergeBusy, ForceRetries, FullMergeClaims, WriteMerged, PublishMerged, MergeReadersGone,
        MergeUnlinkOne, MergeEnd, FoldStrideFails, WriteMergedFails, PublishMergedFails,
        ForceGivesUp, MergeUnlinkTimesOut
  <2>11. CASE \/ CallMergeNow \/ CallerStopsWaiting
              \/ \E r \in Readers : LoadBegin(r) \/ LoadStep(r)
    BY <2>3, <2>11
    DEF CallMergeNow, CallerStopsWaiting, LoadBegin, LoadStep, LoadPins, LoadFinds, LoadReads,
        LoadFindsBase, LoadReadsBase, LoadEnd, LoadMovesTo
  <2>12. CASE Crash \/ Start
    BY <2>2, <2>3, <2>12 DEF Crash, Start, Open, OpenLitters, OpenUnwritten, OpenBlind, StartKilled, Recovers, Starts
  <2> QED
    BY <1>3, <2>9, <2>10, <2>11, <2>12 DEF Next
<1> QED
  BY <1>1, <1>4, <1>5, <1>6, <1>7, <1>8 DEF NothingPinned

\* A last full is told from the finalized list and its places.
LEMMA SameLastFull ==
    ASSUME NEW m, NEW n, n.fin = m.fin, n.pos = m.pos, NEW d
    PROVE  LastFull(n, d) = LastFull(m, d)
<1>1. Fulls(n, d) = Fulls(m, d)
  BY DEF Fulls
<1> QED
  BY <1>1 DEF LastFull, Last

\* A stride merge drops deltas, and a newer one survives each of them.
LEMMA FoldedAreCovered ==
    ASSUME Calm, FoldStride
    PROVE  /\ manifest' = Drop(manifest, Foldable) /\ ~Retaining
           /\ LastFull(manifest, desc) \notin Foldable
           /\ \A i \in Foldable :
                \E j \in manifest.snaps \ Foldable : desc.step[i] <= desc.step[j]
<1>1. manifest' = Drop(manifest, Foldable) /\ lock = "free" /\ Foldable # {}
  BY DEF FoldStride
<1>2. ~Retaining
  BY <1>1 DEF Calm, RetentionIsBound
<1> DEFINE tail == PendingDeltas(manifest, desc) \cap manifest.fin
           kept == Survivor(manifest, desc)
<1>3. /\ Foldable \subseteq tail /\ kept \notin Foldable
      /\ kept = Last(manifest, tail)
  BY DEF Foldable, Superseded, Survivor
<1>4. tail \subseteq manifest.snaps /\ tail \in SUBSET SnapIds
  BY CalmFacts DEF PendingDeltas
<1>5. \A i \in tail : desc.base[i] # None
  <2> SUFFICES ASSUME NEW i \in tail
               PROVE  desc.base[i] # None
    OBVIOUS
  <2>1. i \in manifest.snaps /\ manifest.pos[i] >= manifest.pos[i]
    BY <1>4, CalmFacts
  <2> QED
    BY <2>1 DEF PendingDeltas, IsDelta
<1>6. LastFull(manifest, desc) \notin Foldable
  <2>1. CASE LastFull(manifest, desc) = None
    BY <1>3, <1>4, <2>1, CalmFacts
  <2>2. CASE LastFull(manifest, desc) # None
    BY <1>3, <1>5, <2>2, LastFullFacts
  <2> QED
    BY <2>1, <2>2
<1> HIDE DEF tail, kept
<1>7. kept \in tail /\ \A j \in tail : manifest.pos[j] <= manifest.pos[kept]
  BY <1>1, <1>3, <1>4, CalmFacts, Ends
<1>8. \A i, j \in manifest.snaps : manifest.pos[i] <= manifest.pos[j] => desc.step[i] <= desc.step[j]
  BY DEF Calm, OrderInv, StepsGrow, Ascending
<1>9. \A i \in Foldable : kept \in manifest.snaps \ Foldable /\ desc.step[i] <= desc.step[kept]
  BY <1>3, <1>4, <1>7, <1>8
<1> QED
  BY <1>1, <1>2, <1>6, <1>9

\* Retention keeps the snapshot just recorded, which is newer than what goes.
LEMMA EvictedAreCovered ==
    ASSUME Calm, EvictGroup \/ EvictOldest
    PROVE  \E gone :
            /\ manifest' = Drop(manifest, gone) /\ Retaining
            /\ LastFull(manifest, desc) \notin gone
            /\ saver.id \in manifest.snaps \ gone
            /\ \A i \in manifest.snaps : desc.step[i] <= desc.step[saver.id]
<1>1. PICK gone : Evict(gone) /\ saver.id \notin gone /\ LastFull(manifest, desc) \notin gone
  BY NewestStays
<1>2. Retaining
  BY DEF EvictGroup, EvictOldest, Retaining
<1>3. /\ saver.id \in manifest.snaps
      /\ \A j \in manifest.snaps \ {saver.id} : manifest.pos[j] < manifest.pos[saver.id]
  BY <1>2 DEF Calm, AckedInv, LastStaysLast
<1>4. \A i, j \in manifest.snaps : manifest.pos[i] <= manifest.pos[j] => desc.step[i] <= desc.step[j]
  BY DEF Calm, OrderInv, StepsGrow, Ascending
<1>5. \A i \in manifest.snaps : manifest.pos[i] \in Nat
  BY CalmFacts
<1>6. \A i \in manifest.snaps : manifest.pos[i] <= manifest.pos[saver.id]
  BY <1>3, <1>5
<1>7. \A i \in manifest.snaps : desc.step[i] <= desc.step[saver.id]
  BY <1>3, <1>4, <1>6
<1>8. manifest' = Drop(manifest, gone)
  BY <1>1 DEF Evict
<1> QED
  BY <1>1, <1>2, <1>3, <1>7, <1>8

\* A recorded full is the last one; a recorded delta leaves it as it was.
LEMMA RecordedIsLast ==
    ASSUME Calm, RecordSave \/ RecordSaveFails
    PROVE  /\ saver.id \in SnapIds \ manifest.snaps
           /\ manifest'.snaps = manifest.snaps \cup {saver.id}
           /\ LastFull(manifest', desc) =
                IF desc.base[saver.id] = None THEN saver.id ELSE LastFull(manifest, desc)
           /\ \A j \in manifest.snaps : manifest'.pos[j] < manifest'.pos[saver.id]
<1>1. saver.pc = "record"
  BY DEF RecordSave, RecordSaveFails
<1>2. saver.id \in SnapIds \ manifest.snaps
  BY <1>1 DEF Calm, TypeOK, StoreInv, SaveIsSound, Pending
<1> DEFINE pushed == Push(manifest, saver.id, TRUE)
<1>3. /\ manifest \in Manifests /\ Placed(manifest) /\ manifest.fin \subseteq manifest.snaps
  BY CalmFacts
<1>4. /\ pushed.snaps = manifest.snaps \cup {saver.id}
      /\ \A j \in manifest.snaps : pushed.pos[j] < pushed.pos[saver.id]
      /\ LastFull(pushed, desc) =
            IF desc.base[saver.id] = None THEN saver.id ELSE LastFull(manifest, desc)
  <2>1. TRUE \in BOOLEAN
    OBVIOUS
  <2>2. pushed.snaps = manifest.snaps \cup {saver.id}
    BY <1>2, <1>3, <2>1, PushIsManifest
  <2>3. \A j \in manifest.snaps : pushed.pos[j] < pushed.pos[saver.id]
    BY <1>2, <1>3, <2>1, PushOrder
  <2>4. LastFull(pushed, desc) =
            IF desc.base[saver.id] = None THEN saver.id ELSE LastFull(manifest, desc)
    BY <1>2, <1>3, PushedLastFull
  <2> QED
    BY <2>2, <2>3, <2>4
<1>5. manifest'.snaps = pushed.snaps /\ manifest'.fin = pushed.fin /\ manifest'.pos = pushed.pos
  <2>1. pushed \in Manifests
    BY <1>2, <1>3, PushIsManifest
  <2> HIDE DEF pushed
  <2>2. /\ PinsOnDisk(pushed).snaps = pushed.snaps /\ PinsOnDisk(pushed).fin = pushed.fin
        /\ PinsOnDisk(pushed).pos = pushed.pos
    BY <2>1 DEF PinsOnDisk, SyncPins, Manifests
  <2>3. manifest' = pushed \/ manifest' = PinsOnDisk(pushed)
    BY DEF RecordSave, RecordSaveFails, pushed
  <2> QED
    BY <2>2, <2>3
<1> HIDE DEF pushed
<1>6. LastFull(manifest', desc) = LastFull(pushed, desc)
  BY <1>5, SameLastFull
<1> QED
  BY <1>2, <1>4, <1>5, <1>6

\* The result of a merge goes before the base of a save in flight, and is as
\* new as all it replaces.
LEMMA PublishedGoesBefore ==
    ASSUME Calm, PublishMerged
    PROVE  /\ manifest' = MergedManifest /\ ~Retaining
           /\ \A i \in manifest.snaps : \E j \in MergedManifest.snaps : desc.step[i] <= desc.step[j]
           /\ saver.pc \in {"write", "record"} =>
                BaseOf(saver.id) \subseteq {LastFull(MergedManifest, desc)}
<1>1. manifest' = MergedManifest /\ lock = "free" /\ merger.pc = "publish"
  BY DEF PublishMerged
<1>2. ~Retaining
  BY <1>1 DEF Calm, RetentionIsBound
<1>3. merger.id \in SnapIds \ manifest.snaps /\ desc.base[merger.id] = None
  BY <1>1 DEF Calm, TypeOK, StoreInv, MergeIsSound, Pending
<1> DEFINE kept   == Drop(manifest, merger.claim)
           pushed == Push(kept, merger.id, TRUE)
           merged == SortByStep(pushed, desc)
<1>4. MergedManifest = merged
  BY DEF MergedManifest
<1>5. /\ manifest \in Manifests /\ Placed(manifest) /\ manifest.fin = manifest.snaps
      /\ None \notin SnapIds
  BY CalmFacts
<1>6. kept \in Manifests /\ Placed(kept) /\ merger.id \in SnapIds \ kept.snaps
      /\ kept.snaps = manifest.snaps \ merger.claim /\ kept.fin = kept.snaps
  <2>1. /\ kept \in Manifests /\ kept.snaps = manifest.snaps \ merger.claim
        /\ kept.fin = manifest.fin \ merger.claim
    BY <1>5, DropIsManifest
  <2>2. Placed(kept)
    BY <1>5, DropPlaced
  <2> HIDE DEF kept
  <2> QED
    BY <1>3, <1>5, <2>1, <2>2
<1>7. \A i, j \in kept.snaps : kept.pos[i] <= kept.pos[j] <=> manifest.pos[i] <= manifest.pos[j]
  BY <1>5, <1>6, DropOrder
<1>8. /\ pushed \in Manifests /\ Placed(pushed)
      /\ pushed.snaps = kept.snaps \cup {merger.id} /\ pushed.fin = pushed.snaps
      /\ \A j \in kept.snaps : pushed.pos[j] = kept.pos[j]
  <2> HIDE DEF kept
  <2>1. TRUE \in BOOLEAN
    OBVIOUS
  <2>2. /\ pushed \in Manifests /\ pushed.snaps = kept.snaps \cup {merger.id}
        /\ pushed.fin = kept.fin \cup {merger.id}
    BY <1>6, <2>1, PushIsManifest
  <2>3. Placed(pushed) /\ \A j \in kept.snaps : pushed.pos[j] = kept.pos[j]
    BY <1>6, <2>1, PushOrder
  <2> HIDE DEF pushed
  <2> QED
    BY <1>6, <2>2, <2>3
<1> HIDE DEF kept
<1>9. desc \in Descriptors
  BY DEF Calm, TypeOK
<1>10. /\ Placed(merged) /\ merged \in Manifests
       /\ merged.snaps = pushed.snaps /\ merged.fin = pushed.fin
       /\ \A i, j \in pushed.snaps : merged.pos[i] <= merged.pos[j] <=>
                    \/ desc.step[i] < desc.step[j]
                    \/ desc.step[i] = desc.step[j] /\ pushed.pos[i] <= pushed.pos[j]
  <2> HIDE DEF pushed
  <2>1. \A i, j \in pushed.snaps : pushed.pos[i] = pushed.pos[j] => i = j
    BY <1>8 DEF Placed
  <2> QED
    BY <1>8, <1>9, <2>1, SortIsManifest, SortOrder
<1> HIDE DEF pushed, merged
<1>11. \A i \in SnapIds : desc.step[i] \in Nat
  BY CalmFacts
<1>12. /\ \A i \in merger.claim : desc.step[i] <= desc.step[merger.id]
       /\ \A i, j \in manifest.snaps : manifest.pos[i] <= manifest.pos[j] => desc.step[i] <= desc.step[j]
  BY <1>1 DEF Calm, OrderInv, StepsGrow, Ascending
<1>13. ASSUME NEW i \in manifest.snaps
       PROVE  \E j \in merged.snaps : desc.step[i] <= desc.step[j]
  <2>1. CASE i \in merger.claim
    BY <1>8, <1>10, <1>12, <2>1
  <2>2. CASE i \notin merger.claim
    <3>1. i \in SnapIds
      BY <1>5 DEF Manifests
    <3> QED
      BY <1>6, <1>8, <1>10, <1>11, <2>2, <3>1
  <2> QED
    BY <2>1, <2>2
<1>14. ASSUME saver.pc \in {"write", "record"}, NEW b \in BaseOf(saver.id)
       PROVE  b = LastFull(merged, desc)
  <2>1. b = LastFull(manifest, desc)
    BY <1>14 DEF Calm, AckedInv, LastStaysLast
  <2>2. b \in manifest.snaps
    BY <1>14 DEF Calm, StoreInv, SaveIsSound
  <2>3. b \notin merger.claim
    BY <1>14 DEF Calm, StoreInv, SaveIsSound, SaverPins, Doomed
  <2>4. b # None
    BY <1>5, <2>2 DEF Manifests
  <2>5. desc.step[merger.id] < desc.step[b]
    BY <1>1, <2>1, <2>3, <2>4 DEF Calm, AckedInv, MergedGoesBefore
  <2>6. /\ desc.base[b] = None
        /\ \A g \in Fulls(manifest, desc) \ {b} : manifest.pos[g] < manifest.pos[b]
    BY <2>1, <2>4, LastFullFacts
  <2>7. b \in kept.snaps /\ b \in pushed.snaps
    BY <1>6, <1>8, <2>2, <2>3
  <2>8. b \in Fulls(merged, desc)
    BY <1>8, <1>10, <2>6, <2>7 DEF Fulls, IsDelta
  <2>9. ASSUME NEW g \in Fulls(merged, desc)
        PROVE  merged.pos[g] <= merged.pos[b]
    <3>1. g \in pushed.snaps /\ desc.base[g] = None
      BY <1>8, <1>10 DEF Fulls, IsDelta
    <3>2. CASE g = merger.id
      BY <1>10, <2>5, <2>7, <3>1, <3>2
    <3>3. CASE g = b
      BY <1>8, <1>10, <1>11, <2>7, <3>3 DEF Manifests
    <3>4. CASE g # merger.id /\ g # b
      <4>1. g \in kept.snaps /\ g \in manifest.snaps
        BY <1>6, <1>8, <3>1, <3>4
      <4>2. g \in Fulls(manifest, desc)
        BY <1>5, <3>1, <4>1 DEF Fulls, IsDelta
      <4>3. manifest.pos[g] <= manifest.pos[b]
        <5>1. manifest.pos[g] \in Nat /\ manifest.pos[b] \in Nat
          BY <1>5, <2>2, <4>1 DEF Manifests
        <5> QED
          BY <2>6, <3>4, <4>2, <5>1
      <4>4. desc.step[g] <= desc.step[b] /\ desc.step[g] \in Nat /\ desc.step[b] \in Nat
        <5>1. g \in SnapIds /\ b \in SnapIds
          BY <1>5, <2>2, <4>1 DEF Manifests
        <5> QED
          BY <1>11, <1>12, <2>2, <4>1, <4>3, <5>1
      <4>5. pushed.pos[g] <= pushed.pos[b]
        BY <1>7, <1>8, <2>7, <4>1, <4>3
      <4> QED
        BY <1>10, <2>7, <3>1, <4>4, <4>5
    <3> QED
      BY <3>2, <3>3, <3>4
  <2>10. merged.fin \subseteq merged.snaps
    BY <1>8, <1>10
  <2> QED
    BY <1>10, <2>8, <2>9, <2>10, LastFullIs
<1> QED
  BY <1>1, <1>2, <1>4, <1>13, <1>14

\* How the list, its last full and its last snapshot move with the steps
\* that hand out no name.
LEMMA ListsMove ==
    ASSUME Calm, Next, up, up', ~SaveBegin, ~FullMergeClaims
    PROVE  /\ \A i \in manifest.snaps : \E j \in manifest'.snaps : desc.step[i] <= desc.step[j]
           /\ \A i \in manifest'.snaps :
                \/ i \in manifest.snaps
                \/ saver'.pc \notin {"write", "record"}
                \/ i = merger.id /\ merger.pc = "publish"
           /\ \/ LastFull(manifest', desc) = LastFull(manifest, desc)
              \/ saver.pc = "record" /\ LastFull(manifest', desc) = saver.id
              \/ merger'.pc \notin {"write", "publish"}
           /\ saver'.pc \in {"write", "record"} \/ Retaining' =>
                BaseOf(saver.id) \subseteq {LastFull(manifest', desc)}
           /\ Retaining' =>
                /\ saver.id \in manifest'.snaps
                /\ \A j \in manifest'.snaps \ {saver.id} : manifest'.pos[j] < manifest'.pos[saver.id]
<1> DEFINE last == LastFull(manifest, desc)
<1>1. \A i \in SnapIds : desc.step[i] \in Nat
  BY CalmFacts
<1>2. /\ manifest \in Manifests /\ manifest.snaps \in SUBSET SnapIds
      /\ None \notin SnapIds
  BY CalmFacts
<1>3. TypeOK /\ StoreInv
  BY DEF Calm
<1>4. /\ saver'.pc \in {"write", "record"} => saver.pc \in {"write", "record"}
      /\ Retaining' => Retaining \/ (RecordSave /\ saver.pc = "record")
  BY <1>3, NamesAndClock
<1>5. /\ saver.pc \in {"write", "record"} \/ Retaining => BaseOf(saver.id) \subseteq {last}
      /\ Retaining =>
            /\ saver.id \in manifest.snaps
            /\ \A j \in manifest.snaps \ {saver.id} : manifest.pos[j] < manifest.pos[saver.id]
  BY DEF Calm, AckedInv, LastStaysLast
<1>6. CASE RecordSave \/ RecordSaveFails
  <2>1. /\ saver.id \in SnapIds \ manifest.snaps
        /\ manifest'.snaps = manifest.snaps \cup {saver.id}
        /\ LastFull(manifest', desc) = IF desc.base[saver.id] = None THEN saver.id ELSE last
        /\ \A j \in manifest.snaps : manifest'.pos[j] < manifest'.pos[saver.id]
    BY <1>6, RecordedIsLast
  <2>2. saver.pc = "record" /\ saver'.pc \notin {"write", "record"}
    <3>1. saver \in Savers
      BY <1>3 DEF TypeOK, Savers
    <3>2. CASE RecordSave
      BY <3>1, <3>2 DEF RecordSave, Savers
    <3>3. CASE RecordSaveFails
      BY <3>3 DEF RecordSaveFails, IdleSaver
    <3> QED
      BY <1>6, <3>2, <3>3
  <2>3. BaseOf(saver.id) \subseteq {LastFull(manifest', desc)}
    BY <1>5, <2>1, <2>2 DEF BaseOf
  <2>4. \A i \in manifest.snaps : i \in manifest'.snaps /\ desc.step[i] <= desc.step[i]
    BY <1>1, <1>2, <2>1
  <2> HIDE DEF last
  <2>5. LastFull(manifest', desc) = last \/ LastFull(manifest', desc) = saver.id
    BY <2>1
  <2> QED
    BY <2>1, <2>2, <2>3, <2>4, <2>5 DEF last
<1>7. CASE ~(RecordSave \/ RecordSaveFails)
  <2>1. Retaining' => Retaining
    BY <1>4, <1>7
  <2>2. CASE manifest'.snaps = manifest.snaps /\ manifest'.fin = manifest.fin /\ manifest'.pos = manifest.pos
    <3>1. LastFull(manifest', desc) = last
      BY <2>2, SameLastFull
    <3>2. \A i \in manifest.snaps : i \in manifest'.snaps /\ desc.step[i] <= desc.step[i]
      BY <1>1, <1>2, <2>2
    <3> QED
      BY <1>4, <1>5, <2>1, <2>2, <3>1, <3>2
  <2>3. ASSUME NEW gone, manifest' = Drop(manifest, gone), last \notin gone,
               Retaining => saver.id \notin gone,
               \A i \in gone \cap manifest.snaps :
                    \E j \in manifest.snaps \ gone : desc.step[i] <= desc.step[j]
        PROVE  /\ \A i \in manifest.snaps : \E j \in manifest'.snaps : desc.step[i] <= desc.step[j]
               /\ \A i \in manifest'.snaps : i \in manifest.snaps
               /\ LastFull(manifest', desc) = last
               /\ saver'.pc \in {"write", "record"} \/ Retaining' =>
                    BaseOf(saver.id) \subseteq {LastFull(manifest', desc)}
               /\ Retaining' =>
                    /\ saver.id \in manifest'.snaps
                    /\ \A j \in manifest'.snaps \ {saver.id} :
                            manifest'.pos[j] < manifest'.pos[saver.id]
    <3>1. LastFull(manifest', desc) = last
      BY <2>3, LastFullFacts
    <3>2. manifest'.snaps = manifest.snaps \ gone
      BY <1>2, <2>3, DropIsManifest
    <3>3. /\ \A i, j \in manifest.snaps \ gone :
                manifest'.pos[i] <= manifest'.pos[j] <=> manifest.pos[i] <= manifest.pos[j]
          /\ \A i \in manifest.snaps \ gone : manifest'.pos[i] \in Nat /\ manifest.pos[i] \in Nat
      <4>1. Drop(manifest, gone) \in Manifests
        BY <1>2, DropIsManifest
      <4>2. \A i \in manifest.snaps : manifest'.pos[i] \in Nat /\ manifest.pos[i] \in Nat
        BY <1>2, <2>3, <4>1 DEF Manifests
      <4> QED
        BY <1>2, <2>3, <4>2, DropOrder
    <3>4. \A i \in manifest.snaps : \E j \in manifest'.snaps : desc.step[i] <= desc.step[j]
      <4> SUFFICES ASSUME NEW i \in manifest.snaps
                   PROVE  \E j \in manifest'.snaps : desc.step[i] <= desc.step[j]
        OBVIOUS
      <4>1. desc.step[i] <= desc.step[i]
        BY <1>1, <1>2
      <4> QED
        BY <2>3, <3>2, <4>1
    <3>5. Retaining =>
            /\ saver.id \in manifest'.snaps
            /\ \A j \in manifest'.snaps \ {saver.id} : manifest'.pos[j] < manifest'.pos[saver.id]
      BY <1>5, <2>3, <3>2, <3>3
    <3> QED
      BY <1>4, <1>5, <2>1, <3>1, <3>2, <3>4, <3>5
  <2>4. CASE FoldStride
    <3>1. /\ manifest' = Drop(manifest, Foldable) /\ ~Retaining
          /\ last \notin Foldable
          /\ \A i \in Foldable : \E j \in manifest.snaps \ Foldable : desc.step[i] <= desc.step[j]
      BY <2>4, FoldedAreCovered
    <3> HIDE DEF last
    <3> QED
      BY <2>3, <3>1 DEF last
  <2>5. CASE EvictGroup \/ EvictOldest
    <3>1. PICK gone :
            /\ manifest' = Drop(manifest, gone) /\ Retaining
            /\ last \notin gone
            /\ saver.id \in manifest.snaps \ gone
            /\ \A i \in manifest.snaps : desc.step[i] <= desc.step[saver.id]
      BY <2>5, EvictedAreCovered
    <3> HIDE DEF last
    <3> QED
      BY <2>3, <3>1 DEF last
  <2>6. CASE PublishMerged
    <3>1. /\ manifest' = MergedManifest /\ ~Retaining
          /\ \A i \in manifest.snaps : \E j \in MergedManifest.snaps : desc.step[i] <= desc.step[j]
          /\ saver.pc \in {"write", "record"} =>
                BaseOf(saver.id) \subseteq {LastFull(MergedManifest, desc)}
      BY <2>6, PublishedGoesBefore
    <3>2. merger.pc = "publish" /\ merger'.pc \notin {"write", "publish"}
      <4>1. merger \in Mergers
        BY <1>3 DEF TypeOK, Mergers
      <4> QED
        BY <2>6, <4>1 DEF PublishMerged, Mergers
    <3>3. MergedManifest.snaps = (manifest.snaps \ merger.claim) \cup {merger.id}
      BY <1>3, <3>2, NamedAlready, MergedIsManifest
    <3> QED
      BY <1>4, <2>1, <3>1, <3>2, <3>3
  <2> QED
    BY <1>3, <1>7, <2>2, <2>4, <2>5, <2>6, ListsChange
<1> QED
  BY <1>6, <1>7

\* Only a save that is through changes what was acknowledged.
LEMMA AckedMoves ==
    ASSUME Calm, Next
    PROVE  \/ UNCHANGED acked
           \/ /\ acked' = desc.step[saver.id] /\ saver.id \in manifest.snaps
              /\ manifest' = manifest /\ index' = manifest
<1> USE DEF disk, memory, names, threads
<1>1. CASE PersistSave
  <2>1. saver.id \in manifest.snaps
    BY <1>1 DEF PersistSave, Calm, AckedInv, LastStaysLast, Retaining
  <2> QED
    BY <1>1, <2>1 DEF PersistSave, Persist
<1>2. CASE ~PersistSave /\ (SaveBegin \/ SaverStep \/ SaverFault)
  BY <1>2
  DEF SaveBegin, SaverStep, SaverFault, WritePack, WritePackFails, RecordSave, RecordSaveFails,
      EvictGroup, EvictOldest, Evict, FullsCapped, TotalCapped, RetentionMovesTo,
      PersistSaveFails, SaveReadersGone, SaveUnlinkTimesOut, SaveUnlinkOne, SaveEnd
<1>3. CASE MergerStep \/ MergerFault
  BY <1>3
  DEF MergerStep, MergerFault, CheckChain, NothingToFold, FoldStride, TakeForce, FullMergeSkips,
      FullMergeBusy, ForceRetries, FullMergeClaims, WriteMerged, PublishMerged, MergeReadersGone,
      MergeUnlinkOne, MergeEnd, FoldStrideFails, WriteMergedFails, PublishMergedFails,
      ForceGivesUp, MergeUnlinkTimesOut
<1>4. CASE \/ CallMergeNow \/ CallerStopsWaiting \/ SetPinned \/ SetPinnedFails
           \/ \E r \in Readers : LoadBegin(r) \/ LoadStep(r)
  BY <1>4
  DEF CallMergeNow, CallerStopsWaiting, SetPinned, SetPinnedFails, LoadBegin, LoadStep, LoadPins,
      LoadFinds, LoadReads, LoadFindsBase, LoadReadsBase, LoadEnd, LoadMovesTo
<1>5. CASE Crash \/ Start
  BY <1>5 DEF Crash, Start, Open, OpenLitters, OpenUnwritten, OpenBlind, StartKilled, Recovers, Starts
<1> QED
  BY <1>1, <1>2, <1>3, <1>4, <1>5 DEF Next

\* The steps that hand out no name keep what survival needs.
LEMMA RunningKeepsAcked ==
    ASSUME Calm, Next, up, up', ~SaveBegin, ~FullMergeClaims
    PROVE  AckedInv'
<1>1. TypeOK /\ StoreInv
  BY DEF Calm
<1>2. /\ UNCHANGED desc
      /\ saver'.pc \in {"write", "record"} => saver.pc \in {"write", "record"} /\ saver'.id = saver.id
      /\ Retaining' => saver'.id = saver.id
      /\ merger'.pc \in {"write", "publish"} =>
            /\ merger.pc \in {"write", "publish"}
            /\ merger'.id = merger.id /\ merger'.claim = merger.claim
  BY <1>1, NamesAndClock DEF names
<1>3. /\ SavedIsNewest /\ MergedGoesBefore
      /\ Covers(index) /\ Covers(manifest)
  BY DEF Calm, AckedInv
<1>4. NothingPinned'
  BY PinnedStays
<1>5. SavedIsNewest'
  <2> SUFFICES ASSUME saver'.pc \in {"write", "record"}
               PROVE  /\ \A i \in manifest'.snaps : desc.step[i] < desc.step[saver.id]
                      /\ merger'.pc \in {"write", "publish"} => desc.step[merger.id] < desc.step[saver.id]
    BY <1>2 DEF SavedIsNewest
  <2> QED
    BY <1>2, <1>3, ListsMove DEF SavedIsNewest
<1>6. LastStaysLast'
  <2>1. \A i : BaseOf(i)' = BaseOf(i)
    BY <1>2 DEF BaseOf
  <2> QED
    BY <1>2, <2>1, ListsMove DEF LastStaysLast
<1>7. MergedGoesBefore'
  <2> SUFFICES ASSUME merger'.pc \in {"write", "publish"}, LastFull(manifest', desc) # None,
                      LastFull(manifest', desc) \notin merger.claim
               PROVE  desc.step[merger.id] < desc.step[LastFull(manifest', desc)]
    BY <1>2 DEF MergedGoesBefore
  <2>1. CASE LastFull(manifest', desc) = LastFull(manifest, desc)
    BY <1>2, <1>3, <2>1 DEF MergedGoesBefore
  <2>2. CASE saver.pc = "record" /\ LastFull(manifest', desc) = saver.id
    BY <1>2, <1>3, <2>2 DEF SavedIsNewest
  <2> QED
    BY <2>1, <2>2, ListsMove
<1>8. Covers(manifest)' /\ Covers(index)'
  <2>1. \A i \in SnapIds : desc.step[i] \in Nat
    BY CalmFacts
  <2>2. manifest.snaps \in SUBSET SnapIds /\ acked \in Nat
    BY CalmFacts
  <2>3. CASE UNCHANGED acked
    <3>1. Covers(manifest)'
      <4> SUFFICES ASSUME acked # 0
                   PROVE  \E j \in manifest'.snaps : acked <= desc.step[j]
        BY <1>2, <2>3 DEF Covers
      <4>1. PICK i \in manifest.snaps : acked <= desc.step[i]
        BY <1>3 DEF Covers
      <4>2. PICK j \in manifest'.snaps : desc.step[i] <= desc.step[j]
        BY ListsMove
      <4>3. manifest' \in Manifests /\ manifest'.snaps \subseteq SnapIds
        <5>1. TypeOK'
          BY <1>1, NextKeepsInv
        <5> QED
          BY <5>1 DEF TypeOK, Manifests
      <4> QED
        BY <2>1, <2>2, <4>1, <4>2, <4>3
    <3>2. index' = index \/ index' = manifest'
      BY <1>1, ListsChange
    <3> QED
      BY <1>2, <1>3, <2>3, <3>1, <3>2 DEF Covers
  <2>4. CASE /\ acked' = desc.step[saver.id] /\ saver.id \in manifest.snaps
             /\ manifest' = manifest /\ index' = manifest
    <3>1. desc.step[saver.id] <= desc.step[saver.id]
      BY <2>1, <2>2, <2>4
    <3> QED
      BY <1>2, <2>4, <3>1 DEF Covers
  <2> QED
    BY <2>3, <2>4, AckedMoves
<1> QED
  BY <1>4, <1>5, <1>6, <1>7, <1>8 DEF AckedInv

\* Handing out a name leaves the last full of what is listed.
LEMMA NamingKeepsLastFull ==
    ASSUME TypeOK, StoreInv, NEW step \in Nat, NEW base \in SnapIds \cup {None}, Fresh(step, base),
           base # None => base < nextId /\ desc.base[base] = None
    PROVE  /\ LastFull(manifest, desc') = LastFull(manifest, desc)
           /\ \A i \in SnapIds : i < nextId => BaseOf(i)' = BaseOf(i)
           /\ \A i \in SnapIds : i = nextId => BaseOf(i)' = {base} \ {None}
<1>1. NamesAreFresh /\ manifest.fin = manifest.snaps
  BY DEF StoreInv, MemoryIsSound
<1>2. /\ nextId \in SnapIds
      /\ \A i \in SnapIds : i < nextId => desc'.base[i] = desc.base[i] /\ BaseOf(i)' = BaseOf(i)
      /\ \A i \in SnapIds : i = nextId => BaseOf(i)' = {base} \ {None}
  BY <1>1, FreshIsSound
<1>3. \A i \in manifest.fin : desc'.base[i] = desc.base[i]
  BY <1>1, <1>2, NamedAlready
<1>4. Fulls(manifest, desc') = Fulls(manifest, desc)
  BY <1>3 DEF Fulls, IsDelta
<1>5. LastFull(manifest, desc') = LastFull(manifest, desc)
  BY <1>4 DEF LastFull
<1> QED
  BY <1>2, <1>5

\* A save that begins is ahead of all, with the last full for a base.
LEMMA SaveBeginKeepsAcked ==
    ASSUME Calm, SaveBegin
    PROVE  AckedInv'
<1> USE DEF disk, memory, names, threads
<1>1. TypeOK /\ StoreInv /\ OrderInv /\ ~Rewind
  BY DEF Calm
<1>2. PICK step \in SaveSteps : Fresh(step, BaseFor(step)) /\ clock' = step
  BY DEF SaveBegin
<1>3. step \in Nat /\ clock \in Nat /\ step = clock + 1
  BY <1>1, <1>2, StoreAssumption DEF SaveSteps, TypeOK
<1> DEFINE base == BaseFor(step)
           last == LastFull(manifest, desc)
<1>4. base \in {None, last} /\ last \in manifest.snaps \cup {None}
      /\ (base # None => desc.base[base] = None)
  <2>1. last # None => last \in manifest.snaps /\ desc.base[last] = None
    BY LastFullFacts
  <2> HIDE DEF last
  <2>2. base \in {None, last}
    BY DEF BaseFor, last
  <2> HIDE DEF base
  <2> QED
    BY <2>1, <2>2
<1> HIDE DEF base, last
<1>5. base \in SnapIds \cup {None} /\ (base # None => base < nextId)
  BY <1>1, <1>4, NamedAlready
<1>6. Fresh(step, base)
  BY <1>2 DEF base
<1>7. /\ saver'.pc = "write" /\ saver'.id = nextId /\ saver.pc = "idle" /\ up
      /\ UNCHANGED <<index, manifest, merger, up, acked>>
  BY DEF SaveBegin, IdleSaver
<1>8. /\ LastFull(manifest, desc') = last
      /\ \A i \in SnapIds : i = nextId => BaseOf(i)' = {base} \ {None}
  BY <1>1, <1>3, <1>4, <1>5, <1>6, NamingKeepsLastFull DEF last
<1>9. /\ \A i \in manifest.snaps \cup index.snaps : desc'.step[i] = desc.step[i]
      /\ merger.pc \in {"write", "publish"} => desc'.step[merger.id] = desc.step[merger.id]
  <2>1. Orderly(manifest) /\ Orderly(index)
    BY <1>1, OrderInvParts
  <2> QED
    BY <1>1, <1>3, <1>5, <1>6, <1>7, <2>1, NamingKeepsOrder
<1>10. nextId \in SnapIds /\ desc'.step[nextId] = clock + 1
  <2>1. nextId \in SnapIds
    BY <1>1, <1>3, <1>5, <1>6, FreshKeepsType
  <2> QED
    BY <1>1, <1>3, <1>5, <1>6, <2>1, FreshStep
<1>11. SavedIsNewest'
  <2>1. \A i \in manifest.snaps : desc.step[i] <= clock /\ desc.step[i] \in Nat
    BY <1>1, <1>7, CalmFacts DEF OrderInv, StepsGrow
  <2>2. merger.pc \in {"write", "publish"} => desc.step[merger.id] <= clock /\ desc.step[merger.id] \in Nat
    BY <1>1, CalmFacts, NamedAlready DEF OrderInv, StepsGrow
  <2>3. \A i \in manifest.snaps : desc'.step[i] < desc'.step[nextId]
    BY <1>3, <1>9, <1>10, <2>1
  <2>4. merger.pc \in {"write", "publish"} => desc'.step[merger.id] < desc'.step[nextId]
    BY <1>3, <1>9, <1>10, <2>2
  <2> QED
    BY <1>7, <2>3, <2>4 DEF SavedIsNewest
<1>12. LastStaysLast'
  <2>1. saver'.id \in SnapIds /\ saver'.id = nextId
    BY <1>7, <1>10
  <2>2. BaseOf(saver.id)' \subseteq {last}
    BY <1>4, <1>8, <2>1
  <2> QED
    BY <1>7, <1>8, <2>2 DEF LastStaysLast, Retaining
<1>13. MergedGoesBefore'
  <2>1. MergedGoesBefore
    BY DEF Calm, AckedInv
  <2> QED
    BY <1>4, <1>7, <1>8, <1>9, <2>1 DEF MergedGoesBefore, last
<1>14. Covers(index)' /\ Covers(manifest)'
  <2>1. Covers(index) /\ Covers(manifest)
    BY <1>7 DEF Calm, AckedInv
  <2> QED
    BY <1>7, <1>9, <2>1 DEF Covers
<1>15. NothingPinned'
  BY PinnedStays DEF Next
<1> QED
  BY <1>11, <1>12, <1>13, <1>14, <1>15 DEF AckedInv

\* A merge claims the last full, and is older than the save in flight.
LEMMA ClaimKeepsAcked ==
    ASSUME Calm, FullMergeClaims
    PROVE  AckedInv'
<1> USE DEF disk, memory, names, threads
<1>1. TypeOK /\ StoreInv /\ OrderInv /\ ~Rewind
  BY DEF Calm
<1> DEFINE step == desc.step[LastDelta]
<1>2. Fresh(step, None) /\ ~NothingToMerge /\ up
  BY DEF FullMergeClaims
<1>3. LastDelta \in manifest.snaps
  BY <1>1, <1>2, ClaimIsBehind
<1>4. step \in Nat /\ None \in SnapIds \cup {None}
  BY <1>3, CalmFacts
<1>5. /\ merger'.claim = MergeClaim /\ merger'.id = nextId
      /\ UNCHANGED <<index, manifest, saver, clock, up, acked>>
  BY <1>1 DEF FullMergeClaims, TypeOK
<1> HIDE DEF step
<1>6. /\ LastFull(manifest, desc') = LastFull(manifest, desc)
      /\ \A i \in SnapIds : i < nextId => BaseOf(i)' = BaseOf(i)
  BY <1>1, <1>2, <1>4, NamingKeepsLastFull
<1>7. /\ \A i \in manifest.snaps \cup index.snaps : desc'.step[i] = desc.step[i]
      /\ saver.pc # "idle" => desc'.step[saver.id] = desc.step[saver.id]
  <2>1. Orderly(manifest) /\ Orderly(index)
    BY <1>1, OrderInvParts
  <2> QED
    BY <1>1, <1>2, <1>4, <1>5, <2>1, NamingKeepsOrder
<1>8. desc'.step[nextId] = step
  <2>1. nextId \in SnapIds
    BY <1>1, <1>2, <1>4, FreshKeepsType
  <2> QED
    BY <1>1, <1>2, <1>4, <2>1, FreshStep
<1>9. SavedIsNewest'
  <2>1. SavedIsNewest
    BY DEF Calm, AckedInv
  <2> QED
    BY <1>3, <1>5, <1>7, <1>8, <2>1 DEF SavedIsNewest, step
<1>10. LastStaysLast'
  <2>1. saver.pc # "idle" => BaseOf(saver.id)' = BaseOf(saver.id)
    BY <1>1, <1>5, <1>6, NamedAlready
  <2>2. LastStaysLast
    BY DEF Calm, AckedInv
  <2> QED
    BY <1>5, <1>6, <2>1, <2>2 DEF LastStaysLast, Retaining
<1>11. MergedGoesBefore'
  BY <1>5, <1>6 DEF MergedGoesBefore, MergeClaim, MergeBase
<1>12. Covers(index)' /\ Covers(manifest)'
  <2>1. Covers(index) /\ Covers(manifest)
    BY <1>2 DEF Calm, AckedInv
  <2> QED
    BY <1>5, <1>7, <2>1 DEF Covers
<1>13. NothingPinned'
  BY PinnedStays DEF Next, MergerStep
<1> QED
  BY <1>9, <1>10, <1>11, <1>12, <1>13 DEF AckedInv

\* A start lists all the index lists.
LEMMA RestartKeepsAcked ==
    ASSUME Calm, Crash \/ Start
    PROVE  AckedInv'
<1> USE DEF disk, memory, names, threads
<1>1. TypeOK /\ StoreInv /\ Covers(index)
  BY DEF Calm, AckedInv
<1>2. UNCHANGED <<desc, acked>>
  BY DEF Crash, Start, Open, OpenLitters, OpenUnwritten, OpenBlind, StartKilled, Recovers, Starts
<1>3. saver'.pc = "idle" /\ merger'.pc = "idle"
  <2>1. CASE Crash
    BY <2>1 DEF Crash, IdleSaver, IdleMerger
  <2>2. CASE Start
    <3>1. ~up /\ UNCHANGED <<saver, merger>>
      BY <2>2 DEF Start, Open, OpenLitters, OpenUnwritten, OpenBlind, StartKilled, Recovers, Starts
    <3> QED
      BY <1>1, <3>1 DEF StoreInv, DownIsIdle, IdleSaver, IdleMerger
  <2> QED
    BY <2>1, <2>2
<1>4. /\ index.snaps \subseteq index'.snaps
      /\ up' => index.snaps \subseteq manifest'.snaps
  <2>1. CASE Crash
    BY <2>1 DEF Crash
  <2>2. CASE Start /\ ~OpenBlind
    <3>1. PICK t \in TieBreaks :
            \/ manifest' = RecoveredManifest(t) /\ index' \in {index, RecoveredManifest(t)}
            \/ UNCHANGED <<index, up>> /\ ~up
      BY <2>2, StartsTidy DEF Tidies, Starts
    <3>2. index.snaps \subseteq RecoveredManifest(t).snaps
      BY <1>1, RecoveryIsSound
    <3> QED
      BY <3>1, <3>2
  <2>3. CASE OpenBlind
    <3>1. LoadedManifest.snaps = index.snaps
      BY <1>1, RecoveryIsSound
    <3> QED
      BY <2>3, <3>1 DEF OpenBlind
  <2> QED
    BY <2>1, <2>2, <2>3 DEF Start
<1>5. Covers(index)' /\ (up' => Covers(manifest)')
  BY <1>1, <1>2, <1>4 DEF Covers
<1>6. SavedIsNewest' /\ LastStaysLast' /\ MergedGoesBefore'
  BY <1>3 DEF SavedIsNewest, LastStaysLast, MergedGoesBefore, Retaining
<1>7. NothingPinned'
  BY PinnedStays DEF Next
<1> QED
  BY <1>5, <1>6, <1>7 DEF AckedInv

\* Without pins, rollback fulls and runs that go back, the newest snapshot is
\* as new as the last save that returned Ok, in memory and on disk, over any
\* number of saves, merges, failures, crashes and starts.  A rollback full or a
\* pin lets retention take the newest instead.
THEOREM AckedStays ==
    ASSUME NothingExempt, MaxFull # 0, ~Rewind
    PROVE  Spec => []AckedSurvives
<1>1. Init => AckedInv
  <2> SUFFICES ASSUME Init PROVE AckedInv
    OBVIOUS
  <2>1. NothingPinned
    BY DEF Init, NothingPinned, EmptyManifest, IdleSaver, NothingExempt
  <2>2. SavedIsNewest /\ LastStaysLast /\ MergedGoesBefore
    BY DEF Init, SavedIsNewest, LastStaysLast, MergedGoesBefore, Retaining, IdleSaver, IdleMerger
  <2>3. Covers(index) /\ Covers(manifest)
    BY DEF Init, Covers
  <2> QED
    BY <2>1, <2>2, <2>3 DEF AckedInv
<1>2. /\ TypeOK /\ StoreInv /\ RetentionIsBound /\ OrderInv /\ AckedInv
      /\ [Next]_vars
      => AckedInv'
  <2> SUFFICES ASSUME TypeOK, StoreInv, RetentionIsBound, OrderInv, AckedInv, [Next]_vars
               PROVE  AckedInv'
    OBVIOUS
  <2>1. Calm
    BY DEF Calm
  <2>2. CASE UNCHANGED vars
    BY <2>2 DEF vars, disk, memory, names, threads, AckedInv, NothingPinned, SavedIsNewest,
                LastStaysLast, MergedGoesBefore, Covers, Retaining, BaseOf
  <2>3. CASE SaveBegin
    BY <2>1, <2>3, SaveBeginKeepsAcked
  <2>4. CASE FullMergeClaims
    BY <2>1, <2>4, ClaimKeepsAcked
  <2>5. CASE Crash \/ Start
    BY <2>1, <2>5, RestartKeepsAcked
  <2>6. CASE Next /\ ~(Crash \/ Start) /\ ~SaveBegin /\ ~FullMergeClaims
    <3>1. up /\ up'
      BY <2>6, RunsOn
    <3> QED
      BY <2>1, <2>6, <3>1, RunningKeepsAcked
  <2> QED
    BY <2>2, <2>3, <2>4, <2>5, <2>6
<1>3. TypeOK /\ StoreInv /\ OrderInv /\ AckedInv => AckedSurvives
  <2> SUFFICES ASSUME TypeOK, StoreInv, OrderInv, AckedInv
               PROVE  AckedSurvives
    OBVIOUS
  <2>1. ASSUME NEW m \in Manifests, Orderly(m), m.fin = m.snaps, Covers(m)
        PROVE  acked <= NewestStep(m)
    <3>1. acked \in Nat /\ \A i \in SnapIds : desc.step[i] \in Nat
      BY DEF TypeOK, Descriptors
    <3>2. Newest(m) \in m.snaps \cup {None}
      BY <2>1, LastIsMember DEF Newest
    <3>3. NewestStep(m) \in Nat
      BY <2>1, <3>1, <3>2 DEF NewestStep, Manifests
    <3>4. CASE acked = 0
      BY <3>3, <3>4
    <3>5. CASE \E i \in m.snaps : acked <= desc.step[i]
      <4>1. PICK i \in m.snaps : acked <= desc.step[i]
        BY <3>5
      <4>2. desc.step[i] <= NewestStep(m) /\ desc.step[i] \in Nat
        BY <2>1, <3>1, NewestIsAhead DEF Manifests
      <4> QED
        BY <3>1, <3>3, <4>1, <4>2
    <3> QED
      BY <2>1, <3>4, <3>5 DEF Covers
  <2>2. Orderly(manifest) /\ Orderly(index)
    BY OrderInvParts
  <2>3. manifest \in Manifests /\ index \in Manifests
    BY DEF TypeOK
  <2>4. manifest.fin = manifest.snaps /\ index.fin = index.snaps
    BY DEF StoreInv, MemoryIsSound, IndexIsSound
  <2> QED
    BY <2>1, <2>2, <2>3, <2>4 DEF AckedInv, AckedSurvives
<1> QED
  BY <1>1, <1>2, <1>3, InvariantHolds, RetentionBound, OrderHolds, PTL DEF Spec

\* What the store keeps, whatever is pinned and whatever fails: the lists and
\* their files, whose hands each file is in, what retention spares and the
\* order of the vector.
THEOREM WholeHolds == Spec => []WholeInv
<1>1. StoreInv /\ FilesAreHeld /\ RetentionIsBound /\ OrderInv => WholeInv
  BY DEF WholeInv
<1> QED
  BY <1>1, InvariantHolds, FilesHeld, RetentionBound, OrderHolds, PTL
=============================================================================
