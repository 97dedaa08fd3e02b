---------------------------- MODULE MultiRankInv ----------------------------
(***************************************************************************)
(* Why the ranks of a job can share a directory although each has a list   *)
(* of its own: the inductive invariant behind the properties of MultiRank  *)
(* where rank 0 alone merges (RankMerge.cfg shows what happens otherwise). *)
(* The list of rank 0 is the index whenever anybody reads the index; what  *)
(* is claimed or evicted is in neither before it is unlinked; and a merge  *)
(* does not claim a base that an unfinished snapshot has.                  *)
(***************************************************************************)
EXTENDS MultiRank

OneMerger == Merging \subseteq {0}

Ours == mem[0]
Mine == merger[0]

Listing == save.at \in {"open", "collected"}
Saving  == save.at \in {"chosen", "open", "collected"}
Writing == Mine.at = "writing"

OpenIn(m) == m.snaps \ m.fin

Saves == [at : {"idle", "chosen", "open", "collected", "unlink"},
          id : SnapIds \cup {None}, base : SnapIds \cup {None}, gone : SUBSET SnapIds]

RankSaves == [at : {"idle", "writing", "saved", "failed"}, base : SnapIds \cup {None}]

Mergers == [at : {"idle", "writing", "unlink"},
            id : SnapIds \cup {None}, base : SnapIds \cup {None}, last : SnapIds \cup {None},
            claim : SUBSET SnapIds, left : SUBSET Ranks]

\* Every variable has its kind.
Kinds ==
    /\ packs \subseteq SnapIds \X Ranks
    /\ index \in Manifests
    /\ desc \in Descriptors
    /\ over \in [SnapIds -> [Ranks -> SnapIds \cup {None}]]
    /\ nextId \in 1 .. MaxIds + 1
    /\ mem \in [Ranks -> Manifests]
    /\ save \in Saves
    /\ rank \in [Ranks -> RankSaves]
    /\ merger \in [Ranks -> Mergers]
    /\ want \in [Ranks -> {"none", "check", "force", "again"}]
    /\ step \in Nat /\ acked \in 0 .. step
    /\ overtaken \subseteq SnapIds

\* The other processes do not merge.
OthersRest == \A r \in Ranks \ {0} : merger[r] = NoMerger /\ want[r] = "none"

\* A name that was not handed out is nowhere.  A base is an older full, for
\* good, and the pack of rank 0 was diffed against it or against nothing; of
\* a snapshot whose base was there when it was listed, every pack was.
NamesInv ==
    /\ \A i \in SnapIds : i >= nextId =>
        /\ desc.base[i] = None
        /\ \A r \in Ranks : over[i][r] = None /\ <<i, r>> \notin packs
    /\ \A i \in SnapIds : desc.base[i] # None =>
        /\ desc.base[i] < nextId
        /\ desc.base[desc.base[i]] = None
        /\ desc.step[desc.base[i]] < desc.step[i]
    /\ \A i \in SnapIds : over[i][0] \in {None, desc.base[i]}
    /\ \A i \in SnapIds, r \in Ranks : over[i][r] < nextId
    /\ \A i \in SnapIds \ overtaken, r \in Ranks : <<i, r>> \in packs => over[i][r] = desc.base[i]
    /\ \A i \in overtaken : i < nextId
    /\ \A i \in SnapIds : desc.step[i] <= step

\* A list: a vector in the order of the steps, nothing in it from the future.
Row(m, at, next) ==
    /\ Placed(m)
    /\ \A i \in m.snaps : i < next
    /\ \A i, j \in m.snaps : m.pos[i] <= m.pos[j] => at[i] <= at[j]
    /\ m.fin \subseteq m.snaps
    /\ m.pinned = {}

\* What is finalized is whole, what is listed has its base, and what is not
\* finalized is nobody's base.
Chained(m, files, base, against, late) ==
    /\ \A i \in m.fin, r \in Ranks : <<i, r>> \in files
    /\ \A i \in m.snaps \ late : base[i] \in m.fin \cup {None}
    /\ \A i \in SnapIds, r \in Ranks : against[i][r] \notin OpenIn(m)

ListsInv ==
    /\ Row(index, desc.step, nextId) /\ \A r \in Ranks : Row(mem[r], desc.step, nextId)
    /\ Chained(index, packs, desc.base, over, overtaken)
    /\ Chained(Ours, packs, desc.base, over, overtaken)
    /\ Listing \/ save.at = "unlink" => Ours = index

SaveInv ==
    /\ save.at = "idle" => save = NoSave
    /\ Saving =>
        /\ save.base # None => /\ save.base < nextId /\ desc.base[save.base] = None
                               /\ desc.step[save.base] < step
        /\ save.base \notin OpenIn(Ours)
    /\ save.at = "chosen" => \A i \in Ours.snaps : desc.step[i] < step
    /\ Listing =>
        /\ save.id \in OpenIn(Ours)
        /\ save.id \notin Mine.claim
        /\ desc.base[save.id] = save.base
        /\ \A i \in Ours.snaps \ {save.id} : desc.step[i] < step
    /\ Listing \/ save.at = "unlink" =>
        save.id \in SnapIds /\ save.id < nextId /\ desc.step[save.id] = step
    /\ save.at = "collected" => IsWhole(save.id)
    /\ save.at = "unlink" => save.gone \cap Ours.snaps = {} /\ \A i \in save.gone : i < nextId

RanksInv ==
    \A r \in Ranks :
        /\ rank[r].at # "idle" => save.at = "open"
        /\ rank[r].at = "saved" => <<save.id, r>> \in packs
        /\ rank[r].at = "writing" =>
            /\ rank[r].base \in {None, save.base}
            /\ save.id \notin overtaken => rank[r].base = save.base

MergeInv ==
    /\ Mine.at = "idle" => Mine = NoMerger
    /\ \A i \in Mine.claim : i < nextId
    /\ Mine.at = "unlink" => Mine.claim \cap (Ours.snaps \cup index.snaps) = {}
    /\ Writing =>
        /\ Mine.id \in SnapIds /\ Mine.id < nextId
        /\ Mine.id \notin Ours.snaps \cup index.snaps \cup Mine.claim \cup overtaken
        /\ save.at = "unlink" => Mine.id \notin save.gone
        /\ desc.base[Mine.id] = None
        /\ \A r \in Ranks : over[Mine.id][r] = None
        /\ \A r \in Ranks \ Mine.left : <<Mine.id, r>> \in packs
        /\ \A i \in SnapIds : desc.base[i] # Mine.id
        /\ Saving => save.base # Mine.id /\ desc.step[Mine.id] < step
        /\ \A i \in Mine.claim : desc.step[i] <= desc.step[Mine.id]
        /\ Mine.claim \cap OpenIn(Ours) = {}
        /\ \A i \in Ours.snaps \ (Mine.claim \cup overtaken) : desc.base[i] \notin Mine.claim

\* With nothing to keep for a rollback, what was acknowledged stays.
NoRollback == RollbackInterval = 0 \/ MaxRollback = 0

Covers(m, s) == s = 0 \/ \E i \in m.fin : s <= desc.step[i]

\* The base of a save under way is the last full as long as it is listed;
\* once it was merged away nothing is diffed against its successor yet.
LastStaysLast ==
    Saving /\ save.base # None =>
        LET last == LastFull(Ours, desc)
        IN  IF save.base \in Ours.snaps THEN save.base = last
            ELSE ~Writing /\ \A i \in SnapIds : desc.base[i] # last

MergedGoesBefore ==
    Writing =>
        LET last == LastFull(Ours, desc)
        IN  last # None /\ last \notin Mine.claim => desc.step[Mine.id] < desc.step[last]

NewestInv ==
    /\ LastStaysLast /\ MergedGoesBefore
    /\ Covers(index, acked) /\ Covers(Ours, acked)
    /\ save.at = "unlink" => Covers(Ours, step)

SharedInv ==
    Kinds /\ OthersRest /\ NamesInv /\ ListsInv /\ SaveInv /\ RanksInv /\ MergeInv

\* The inductive invariant.
RankInv ==
    /\ TypeOK
    /\ SharedInv
    /\ NoRollback /\ MaxFull # 0 => NewestInv
=============================================================================
