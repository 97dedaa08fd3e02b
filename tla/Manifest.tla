------------------------------ MODULE Manifest ------------------------------
(***************************************************************************)
(* The manifest of a store (src/src/manifest.rs) and every decision the    *)
(* coordinator and the merger take by looking at it: which snapshot is the *)
(* base of the next delta, when a full is forced, what retention may drop, *)
(* what a merge supersedes.  Pure operators: the machines that use them    *)
(* hold the manifest in a variable.                                        *)
(*                                                                         *)
(* `snapshots: Vec<Snapshot>` is a set of identifiers, m.snaps, with the   *)
(* index of each in the vector, m.pos (1 is the front, 0 is "not listed"). *)
(* m.fin are the finalized ones and m.pinned the ones a user pinned.  What *)
(* never changes once a snapshot has its identifier, its step and its      *)
(* base, is in a descriptor d: d.step[i] and d.base[i], which the manifest *)
(* entry and the pack's own descriptor (src/src/pack.rs) both carry.       *)
(***************************************************************************)
EXTENDS Integers, FiniteSets

CONSTANTS
    MaxIds,            \* identifiers a behaviour may use (bound of the model)
    MaxFull,           \* RetentionPolicy.max_full_snapshots
    MaxDeltasPerFull,  \* RetentionPolicy.max_deltas_per_full
    FullEvery,         \* RetentionPolicy.full_snapshot_every_steps
    MaxTotal,          \* RetentionPolicy.max_total_snapshots, or Unset
    RollbackInterval,  \* LineageConfig.rollback_interval_steps, 0 is off
    MaxRollback        \* LineageConfig.max_rollback_snapshots

Unset == -1

ASSUME ManifestAssumption ==
    /\ MaxIds \in Nat
    /\ MaxFull \in Nat
    /\ MaxDeltasPerFull \in Nat
    /\ FullEvery \in Nat
    /\ MaxTotal \in Nat \cup {Unset}
    /\ RollbackInterval \in Nat
    /\ MaxRollback \in Nat

SnapIds == 1 .. MaxIds

\* base_snapshot_id: None.
None == 0

Manifests == [snaps  : SUBSET SnapIds,
              pos    : [SnapIds -> Nat],
              fin    : SUBSET SnapIds,
              pinned : SUBSET SnapIds]

Descriptors == [step : [SnapIds -> Nat],
                base : [SnapIds -> SnapIds \cup {None}]]

EmptyManifest == [snaps  |-> {},
                  pos    |-> [i \in SnapIds |-> 0],
                  fin    |-> {},
                  pinned |-> {}]

-----------------------------------------------------------------------------
(* The vector.                                                             *)

IsDelta(d, i) == d.base[i] # None

\* iter().rev().find(..) and iter().find(..) over the listed members of S.
Last(m, S) ==
    IF \E i \in S : \A j \in S : m.pos[j] <= m.pos[i]
    THEN CHOOSE i \in S : \A j \in S : m.pos[j] <= m.pos[i]
    ELSE None

First(m, S) ==
    IF \E i \in S : \A j \in S : m.pos[i] <= m.pos[j]
    THEN CHOOSE i \in S : \A j \in S : m.pos[i] <= m.pos[j]
    ELSE None

\* Vec::push.
Push(m, i, finalized) ==
    [m EXCEPT !.snaps = @ \cup {i},
              !.fin = IF finalized THEN @ \cup {i} ELSE @,
              !.pos[i] = Cardinality(m.snaps) + 1]

\* Vec::retain of what is not in R: the rest moves up.
Drop(m, R) ==
    LET kept == m.snaps \ R
    IN  [snaps  |-> kept,
         pos    |-> [i \in SnapIds |->
                        IF i \in kept
                        THEN Cardinality({j \in kept : m.pos[j] <= m.pos[i]})
                        ELSE 0],
         fin    |-> m.fin \ R,
         pinned |-> m.pinned \ R]

\* snapshots.sort_by_key(|s| s.step): stable.
SortByStep(m, d) ==
    [m EXCEPT !.pos =
        [i \in SnapIds |->
            IF i \in m.snaps
            THEN Cardinality({j \in m.snaps :
                    \/ d.step[j] < d.step[i]
                    \/ d.step[j] = d.step[i] /\ m.pos[j] <= m.pos[i]})
            ELSE 0]]

-----------------------------------------------------------------------------
(* What a save looks up.                                                   *)

Fulls(m, d) == {i \in m.fin : ~IsDelta(d, i)}

Newest(m) == Last(m, m.fin)

LastFull(m, d) == Last(m, Fulls(m, d))

\* The deltas at the tail of the vector, finalized or not.
PendingDeltas(m, d) ==
    {i \in m.snaps : \A j \in m.snaps : m.pos[j] >= m.pos[i] => IsDelta(d, j)}

EffectiveTotalCap ==
    IF MaxTotal = Unset THEN MaxFull * (1 + MaxDeltasPerFull) ELSE MaxTotal

\* step.saturating_sub(last_full.step) >= full_snapshot_every_steps
FullIsDue(m, d, step) ==
    LET since == step - d.step[LastFull(m, d)]
    IN  (IF since < 0 THEN 0 ELSE since) >= FullEvery

ShouldForceFull(m, d, step) ==
    \/ m.snaps = {}
    \/ EffectiveTotalCap <= 1
    \/ LastFull(m, d) = None
    \/ FullIsDue(m, d, step)
    \/ Cardinality(PendingDeltas(m, d)) >= MaxDeltasPerFull

-----------------------------------------------------------------------------
(* What retention looks up.                                                *)

\* The newest MaxRollback of the fulls that landed on the interval.
RollbackIds(m, d) ==
    LET onInterval == {i \in Fulls(m, d) : d.step[i] % RollbackInterval = 0}
    IN  IF RollbackInterval = 0 \/ MaxRollback = 0
        THEN {}
        ELSE {i \in onInterval :
                Cardinality({j \in onInterval : m.pos[j] > m.pos[i]}) < MaxRollback}

\* Mutant: a pin protects the pinned snapshot alone.
ProtectedIdsNoBase(m, d) == RollbackIds(m, d) \cup m.pinned

\* A pin reaches one snapshot further back, to the base of a pinned delta.
ProtectedIds(m, d) ==
    RollbackIds(m, d) \cup m.pinned \cup {d.base[i] : i \in m.pinned}

\* Pass 1 of apply_retention: the full to go next, with its deltas.
OverFullCap(m, d) == Cardinality(Fulls(m, d)) > MaxFull

OldestRemovableFull(m, d, protected) == First(m, Fulls(m, d) \ protected)

GroupOf(m, d, full) == {i \in m.snaps : i = full \/ d.base[i] = full}

\* Pass 2: the oldest snapshot nothing depends on, and never the newest.
OverTotalCap(m) == Cardinality(m.fin) > EffectiveTotalCap

\* Mutant: age decides, and the newest is a candidate like any other.
OldestRemovableOrNewest(m, d, protected) ==
    First(m, {i \in m.fin :
                /\ i \notin protected
                /\ IsDelta(d, i) \/ \A j \in m.snaps : d.base[j] # i})

OldestRemovable(m, d, protected) ==
    First(m, {i \in m.fin :
                /\ i # Newest(m)
                /\ i \notin protected
                /\ IsDelta(d, i) \/ \A j \in m.snaps : d.base[j] # i})

\* Core::sync_pins: when pins.json exists it decides.
SyncPins(m, d, steps) ==
    [m EXCEPT !.pinned = {i \in m.snaps :
        IF i \in m.fin THEN d.step[i] \in steps ELSE i \in m.pinned}]

\* The snapshot a pin of `step` means: the newest finalized one.
PinTarget(m, d, step) == Last(m, {i \in m.fin : d.step[i] = step})

-----------------------------------------------------------------------------
(* What a merge looks up.                                                  *)

\* do_stride_merge: the newest finalized delta of the tail survives, the
\* other finalized ones against the same base go.
Survivor(m, d) == Last(m, PendingDeltas(m, d) \cap m.fin)

Superseded(m, d) ==
    {i \in PendingDeltas(m, d) \cap m.fin :
        /\ Survivor(m, d) # None
        /\ i # Survivor(m, d)
        /\ d.base[i] = d.base[Survivor(m, d)]}

DeltasOf(m, d, full) == {i \in m.fin : d.base[i] = full}

Unfinalized(m, d, full) == {i \in m.snaps \ m.fin : d.base[i] = full}

-----------------------------------------------------------------------------
(* Properties.                                                             *)

\* The vector has no two snapshots in one place, and none beyond an end.
Placed(m) ==
    /\ \A i \in m.snaps : m.pos[i] \in 1 .. Cardinality(m.snaps)
    /\ \A i, j \in m.snaps : m.pos[i] = m.pos[j] => i = j
=============================================================================
