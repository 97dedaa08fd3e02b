--------------------------- MODULE ManifestLemmas ---------------------------
(***************************************************************************)
(* What the operators on a manifest return, and what push, retain and sort *)
(* do to the order of its vector: the lemmas under the theorems about the  *)
(* machines that hold a manifest, CheckpointStore and MultiRank.           *)
(***************************************************************************)
EXTENDS Manifest, FiniteSetTheorems, WellFoundedInduction, TLAPS

-----------------------------------------------------------------------------
(* The operators on a manifest: what they keep of its type, and what they  *)
(* do to the set of listed snapshots.                                      *)

\* A set of identifiers is finite, so it has a size.
LEMMA IdSetSize == \A S \in SUBSET SnapIds : Cardinality(S) \in Nat
<1>1. IsFiniteSet(SnapIds)
  BY FS_Interval, ManifestAssumption DEF SnapIds
<1> QED
  BY <1>1, FS_Subset, FS_CardinalityType

\* Vec::push lists one more snapshot.
LEMMA PushIsManifest ==
    ASSUME NEW m \in Manifests, NEW i \in SnapIds, NEW f \in BOOLEAN
    PROVE  /\ Push(m, i, f) \in Manifests
           /\ Push(m, i, f).snaps = m.snaps \cup {i}
           /\ Push(m, i, f).fin = IF f THEN m.fin \cup {i} ELSE m.fin
<1>1. Cardinality(m.snaps) + 1 \in Nat
  BY IdSetSize DEF Manifests
<1> QED
  BY <1>1 DEF Push, Manifests

\* Vec::retain lists what is not removed.
LEMMA DropIsManifest ==
    ASSUME NEW m \in Manifests, NEW R
    PROVE  /\ Drop(m, R) \in Manifests
           /\ Drop(m, R).snaps = m.snaps \ R
           /\ Drop(m, R).fin = m.fin \ R
<1>1. \A i \in SnapIds : Cardinality({j \in m.snaps \ R : m.pos[j] <= m.pos[i]}) \in Nat
  BY IdSetSize DEF Manifests
<1> QED
  BY <1>1 DEF Drop, Manifests

\* Sorting lists the same snapshots.
LEMMA SortIsManifest ==
    ASSUME NEW m \in Manifests, NEW d
    PROVE  /\ SortByStep(m, d) \in Manifests
           /\ SortByStep(m, d).snaps = m.snaps
           /\ SortByStep(m, d).fin = m.fin
<1>1. \A i \in SnapIds :
        Cardinality({j \in m.snaps :
                    \/ d.step[j] < d.step[i]
                    \/ d.step[j] = d.step[i] /\ m.pos[j] <= m.pos[i]}) \in Nat
  BY IdSetSize DEF Manifests
<1> QED
  BY <1>1 DEF SortByStep, Manifests

\* pins.json changes flags and nothing else.
LEMMA SyncPinsIsManifest ==
    ASSUME NEW m \in Manifests, NEW d, NEW steps
    PROVE  /\ SyncPins(m, d, steps) \in Manifests
           /\ SyncPins(m, d, steps).snaps = m.snaps
           /\ SyncPins(m, d, steps).fin = m.fin
BY DEF SyncPins, Manifests

\* An end of the vector is a member of the set looked through, or nothing.
LEMMA LastIsMember ==
    ASSUME NEW m, NEW S
    PROVE  Last(m, S) \in S \cup {None}
BY DEF Last

\* The same of the front end.
LEMMA FirstIsMember ==
    ASSUME NEW m, NEW S
    PROVE  First(m, S) \in S \cup {None}
BY DEF First

\* A store that was never written to has a manifest.
LEMMA EmptyIsManifest == EmptyManifest \in Manifests
BY DEF EmptyManifest, Manifests

\* What a look-up in the manifest finds is listed, or nothing.
LEMMA LookUps ==
    ASSUME NEW m \in Manifests, NEW d \in Descriptors
    PROVE  /\ LastFull(m, d) \in m.fin \cup {None}
           /\ LastFull(m, d) # None => d.base[LastFull(m, d)] = None
           /\ Newest(m) \in m.fin \cup {None}
           /\ \A step : PinTarget(m, d, step) \in m.fin \cup {None}
           /\ \A p : OldestRemovableFull(m, d, p) # None =>
                /\ OldestRemovableFull(m, d, p) \in m.fin
                /\ d.base[OldestRemovableFull(m, d, p)] = None
           /\ \A p : OldestRemovable(m, d, p) # None =>
                /\ OldestRemovable(m, d, p) \in m.fin
                /\ \/ d.base[OldestRemovable(m, d, p)] # None
                   \/ \A j \in m.snaps : d.base[j] # OldestRemovable(m, d, p)
           /\ Superseded(m, d) \subseteq m.fin
           /\ \A i \in Superseded(m, d) : d.base[i] # None
<1>1. LastFull(m, d) \in Fulls(m, d) \cup {None}
  BY LastIsMember DEF LastFull
<1>2. Newest(m) \in m.fin \cup {None}
  BY LastIsMember DEF Newest
<1>3. \A step : PinTarget(m, d, step) \in {i \in m.fin : d.step[i] = step} \cup {None}
  BY LastIsMember DEF PinTarget
<1>4. \A p : OldestRemovableFull(m, d, p) \in (Fulls(m, d) \ p) \cup {None}
  BY FirstIsMember DEF OldestRemovableFull
<1>5. \A p : OldestRemovable(m, d, p) \in
        {i \in m.fin : /\ i # Newest(m)
                       /\ i \notin p
                       /\ IsDelta(d, i) \/ \A j \in m.snaps : d.base[j] # i} \cup {None}
  BY FirstIsMember DEF OldestRemovable
<1>6. /\ Superseded(m, d) \subseteq m.fin
      /\ \A i \in Superseded(m, d) : d.base[i] # None
  <2>1. \A i \in PendingDeltas(m, d) : IsDelta(d, i)
    BY DEF PendingDeltas, Manifests
  <2> QED
    BY <2>1 DEF Superseded, IsDelta
<1> QED
  BY <1>1, <1>2, <1>3, <1>4, <1>5, <1>6 DEF Fulls, IsDelta

-----------------------------------------------------------------------------
(* The vector: positions, and what push, retain and sort do to the order.  *)

\* One more member, a greater size.
LEMMA StrictSize ==
    ASSUME NEW T \in SUBSET SnapIds, NEW S \in SUBSET T, NEW x \in T \ S
    PROVE  Cardinality(S) < Cardinality(T)
<1>1. IsFiniteSet(T)
  <2>1. IsFiniteSet(SnapIds)
    BY FS_Interval, ManifestAssumption DEF SnapIds
  <2> QED
    BY <2>1, FS_Subset
<1>2. S # T
  OBVIOUS
<1>3. Cardinality(S) # Cardinality(T) /\ Cardinality(S) <= Cardinality(T)
  BY <1>1, <1>2, FS_Subset
<1>4. Cardinality(S) \in Nat /\ Cardinality(T) \in Nat
  BY IdSetSize
<1> QED
  BY <1>3, <1>4

\* Fewer members, no greater size.
LEMMA SubsetSize ==
    ASSUME NEW T \in SUBSET SnapIds, NEW S \in SUBSET T
    PROVE  Cardinality(S) <= Cardinality(T)
<1>1. IsFiniteSet(T)
  <2>1. IsFiniteSet(SnapIds)
    BY FS_Interval, ManifestAssumption DEF SnapIds
  <2> QED
    BY <2>1, FS_Subset
<1> QED
  BY <1>1, FS_Subset

\* What has a member has a size that is not zero.
LEMMA HasMembers ==
    ASSUME NEW T \in SUBSET SnapIds, NEW x \in T
    PROVE  0 < Cardinality(T)
<1>1. Cardinality({}) < Cardinality(T) /\ {} \in SUBSET SnapIds
  BY StrictSize
<1> QED
  BY <1>1, IdSetSize, FS_EmptySet

\* The numbers are well ordered.
LEMMA LeastNumber ==
    ASSUME NEW T \in SUBSET Nat, T # {}
    PROVE  \E x \in T : \A y \in T : x <= y
<1> DEFINE R == {ss \in Nat \X Nat : ss[1] < ss[2]}
<1>1. IsWellFoundedOn(R, Nat)
  BY NatLessThanWellFounded DEF OpToRel
<1>2. PICK x \in T : \A y \in T : ~(<<y, x>> \in R)
  <2> HIDE DEF R
  <2> QED
    BY <1>1, WFMin
<1>3. \A y \in T : ~(y < x)
  BY <1>2
<1> QED
  BY <1>3

\* Among identifiers, one is the least and one the greatest by any measure:
\* the one that fewest are beyond.
LEMMA Extremes ==
    ASSUME NEW f \in [SnapIds -> Nat], NEW S \in SUBSET SnapIds, S # {}
    PROVE  /\ \E x \in S : \A y \in S : f[x] <= f[y]
           /\ \E x \in S : \A y \in S : f[y] <= f[x]
<1>1. \E x \in S : \A y \in S : f[x] <= f[y]
  <2> DEFINE V == {f[i] : i \in S}
  <2>1. V \in SUBSET Nat /\ V # {}
    OBVIOUS
  <2>2. PICK n \in V : \A k \in V : n <= k
    <3> HIDE DEF V
    <3> QED
      BY <2>1, LeastNumber
  <2> QED
    BY <2>2
<1>2. \E x \in S : \A y \in S : f[y] <= f[x]
  <2> DEFINE Beyond(i) == {j \in S : f[j] > f[i]}
             V         == {Cardinality(Beyond(i)) : i \in S}
  <2>1. \A i \in S : Cardinality(Beyond(i)) \in Nat
    BY IdSetSize
  <2>2. V \in SUBSET Nat /\ V # {}
    BY <2>1
  <2>3. PICK n \in V : \A k \in V : n <= k
    <3> HIDE DEF V
    <3> QED
      BY <2>2, LeastNumber
  <2>4. PICK x \in S : n = Cardinality(Beyond(x))
    BY <2>3
  <2>5. ASSUME NEW y \in S, f[y] > f[x]
        PROVE  FALSE
    <3>1. Beyond(y) \subseteq Beyond(x) /\ y \in Beyond(x) \ Beyond(y)
      BY <2>5
    <3>2. Cardinality(Beyond(y)) < Cardinality(Beyond(x))
      <4>1. Beyond(x) \in SUBSET SnapIds
        OBVIOUS
      <4> HIDE DEF Beyond
      <4> QED
        BY <3>1, <4>1, StrictSize
    <3>3. n <= Cardinality(Beyond(y))
      BY <2>3
    <3> QED
      BY <2>1, <2>4, <3>2, <3>3
  <2>6. \A y \in S : f[y] <= f[x]
    BY <2>5
  <2> QED
    BY <2>6
<1> QED
  BY <1>1, <1>2

\* A search from the back finds the last one, a search from the front the
\* first, if there is one.
LEMMA Ends ==
    ASSUME NEW m \in Manifests, NEW S \in SUBSET SnapIds, S # {}
    PROVE  /\ Last(m, S) \in S
           /\ \A j \in S : m.pos[j] <= m.pos[Last(m, S)]
           /\ First(m, S) \in S
           /\ \A j \in S : m.pos[First(m, S)] <= m.pos[j]
<1>1. m.pos \in [SnapIds -> Nat]
  BY DEF Manifests
<1>2. /\ \E x \in S : \A y \in S : m.pos[x] <= m.pos[y]
      /\ \E x \in S : \A y \in S : m.pos[y] <= m.pos[x]
  BY <1>1, Extremes
<1>3. Last(m, S) = CHOOSE i \in S : \A j \in S : m.pos[j] <= m.pos[i]
  BY <1>2, Zenon DEF Last
<1>4. First(m, S) = CHOOSE i \in S : \A j \in S : m.pos[i] <= m.pos[j]
  BY <1>2, Zenon DEF First
<1> QED
  BY <1>2, <1>3, <1>4

\* Vec::retain keeps the order of what it keeps.
LEMMA DropOrder ==
    ASSUME NEW m \in Manifests, NEW R
    PROVE  /\ \A i, j \in m.snaps \ R :
                Drop(m, R).pos[i] <= Drop(m, R).pos[j] <=> m.pos[i] <= m.pos[j]
           /\ \A i \in m.snaps \ R : Drop(m, R).pos[i] \in 1 .. Cardinality(m.snaps \ R)
<1> DEFINE kept == m.snaps \ R
           Upto(i) == {j \in kept : m.pos[j] <= m.pos[i]}
<1>1. kept \in SUBSET SnapIds /\ m.pos \in [SnapIds -> Nat]
  BY DEF Manifests
<1>2. \A i \in kept : Drop(m, R).pos[i] = Cardinality(Upto(i))
  BY <1>1 DEF Drop
<1>3. \A i \in kept : Cardinality(Upto(i)) \in Nat /\ Upto(i) \in SUBSET kept
  BY <1>1, IdSetSize
<1>4. ASSUME NEW i \in kept, NEW j \in kept, m.pos[i] <= m.pos[j]
      PROVE  Cardinality(Upto(i)) <= Cardinality(Upto(j))
  <2>1. Upto(i) \subseteq Upto(j) /\ Upto(j) \in SUBSET SnapIds
    BY <1>1, <1>4
  <2> HIDE DEF Upto, kept
  <2> QED
    BY <2>1, SubsetSize
<1>5. ASSUME NEW i \in kept, NEW j \in kept, m.pos[j] < m.pos[i]
      PROVE  Cardinality(Upto(j)) < Cardinality(Upto(i))
  <2>1. Upto(j) \subseteq Upto(i) /\ Upto(i) \in SUBSET SnapIds /\ i \in Upto(i) \ Upto(j)
    BY <1>1, <1>5
  <2> HIDE DEF Upto, kept
  <2> QED
    BY <2>1, StrictSize
<1>6. \A i \in kept : Cardinality(Upto(i)) <= Cardinality(kept)
  <2> HIDE DEF Upto, kept
  <2> QED
    BY <1>1, <1>3, SubsetSize
<1>7. \A i, j \in kept : m.pos[i] \in Nat /\ m.pos[j] \in Nat
  BY <1>1
<1>9. \A i \in kept : i \in Upto(i)
  BY <1>1
<1>10. \A i \in kept : 0 < Cardinality(Upto(i))
  <2> HIDE DEF Upto, kept
  <2> QED
    BY <1>1, <1>3, <1>9, HasMembers
<1>11. Cardinality(kept) \in Nat
  BY <1>1, IdSetSize
<1> HIDE DEF Upto, kept
<1>8. /\ \A i, j \in kept : Drop(m, R).pos[i] <= Drop(m, R).pos[j] <=> m.pos[i] <= m.pos[j]
      /\ \A i \in kept : Drop(m, R).pos[i] \in 1 .. Cardinality(kept)
  BY <1>2, <1>3, <1>4, <1>5, <1>6, <1>7, <1>10, <1>11
<1> QED
  BY <1>8 DEF kept

\* Vec::push puts the new one behind the others.
LEMMA PushOrder ==
    ASSUME NEW m \in Manifests, Placed(m), NEW i \in SnapIds \ m.snaps, NEW f \in BOOLEAN
    PROVE  /\ Placed(Push(m, i, f))
           /\ \A j \in m.snaps : /\ Push(m, i, f).pos[j] = m.pos[j]
                                 /\ Push(m, i, f).pos[j] < Push(m, i, f).pos[i]
<1> DEFINE n == Cardinality(m.snaps)
<1>1. m.snaps \in SUBSET SnapIds /\ m.pos \in [SnapIds -> Nat] /\ n \in Nat
  BY IdSetSize DEF Manifests
<1>2. /\ Push(m, i, f).snaps = m.snaps \cup {i}
      /\ Push(m, i, f).pos = [m.pos EXCEPT ![i] = n + 1]
  BY DEF Push, Manifests
<1>3. n < Cardinality(m.snaps \cup {i}) /\ Cardinality(m.snaps \cup {i}) \in Nat
  BY <1>1, StrictSize, IdSetSize
<1>4. \A j \in m.snaps : m.pos[j] \in 1 .. n
  BY DEF Placed
<1>5. \A j, k \in m.snaps : m.pos[j] = m.pos[k] => j = k
  BY DEF Placed
<1> HIDE DEF n
<1> QED
  BY <1>1, <1>2, <1>3, <1>4, <1>5 DEF Placed

\* What is left of a vector is one.
LEMMA DropPlaced ==
    ASSUME NEW m \in Manifests, Placed(m), NEW R
    PROVE  Placed(Drop(m, R))
<1> DEFINE new == Drop(m, R)
<1>1. new.snaps = m.snaps \ R /\ new.pos \in [SnapIds -> Nat] /\ m.snaps \in SUBSET SnapIds
  BY DropIsManifest DEF Manifests
<1>2. /\ \A i, j \in m.snaps \ R : new.pos[i] <= new.pos[j] <=> m.pos[i] <= m.pos[j]
      /\ \A i \in m.snaps \ R : new.pos[i] \in 1 .. Cardinality(m.snaps \ R)
  BY DropOrder
<1>3. m.pos \in [SnapIds -> Nat] /\ \A i, j \in m.snaps : m.pos[i] = m.pos[j] => i = j
  BY DEF Placed, Manifests
<1> HIDE DEF new
<1>4. ASSUME NEW i \in new.snaps, NEW j \in new.snaps, new.pos[i] = new.pos[j]
      PROVE  i = j
  <2>1. m.pos[i] <= m.pos[j] /\ m.pos[j] <= m.pos[i]
    BY <1>1, <1>2, <1>4
  <2> QED
    BY <1>1, <1>3, <2>1
<1>5. Placed(new)
  BY <1>1, <1>2, <1>4 DEF Placed
<1> QED
  BY <1>5 DEF new

\* Sorting is by step, and stable.  Of the positions before it asks only
\* that no two be the same.
LEMMA SortOrder ==
    ASSUME NEW m \in Manifests, NEW d \in Descriptors,
           \A i, j \in m.snaps : m.pos[i] = m.pos[j] => i = j
    PROVE  /\ Placed(SortByStep(m, d))
           /\ \A i, j \in m.snaps :
                SortByStep(m, d).pos[i] <= SortByStep(m, d).pos[j] <=>
                    \/ d.step[i] < d.step[j]
                    \/ d.step[i] = d.step[j] /\ m.pos[i] <= m.pos[j]
<1> DEFINE Le(i, j) == \/ d.step[i] < d.step[j]
                       \/ d.step[i] = d.step[j] /\ m.pos[i] <= m.pos[j]
           Upto(i) == {j \in m.snaps : Le(j, i)}
           new == SortByStep(m, d)
<1>1. /\ m.snaps \in SUBSET SnapIds /\ m.pos \in [SnapIds -> Nat]
      /\ d.step \in [SnapIds -> Nat]
  BY DEF Manifests, Descriptors
<1>2. /\ new.snaps = m.snaps
      /\ \A i \in m.snaps : new.pos[i] = Cardinality(Upto(i))
  BY <1>1, SortIsManifest DEF SortByStep
<1>3. \A i \in m.snaps : Cardinality(Upto(i)) \in Nat /\ Upto(i) \in SUBSET m.snaps
  BY <1>1, IdSetSize
<1>4. ASSUME NEW i \in m.snaps, NEW j \in m.snaps, Le(i, j)
      PROVE  Cardinality(Upto(i)) <= Cardinality(Upto(j))
  <2>1. Upto(i) \subseteq Upto(j) /\ Upto(j) \in SUBSET SnapIds
    BY <1>1, <1>4
  <2> HIDE DEF Upto
  <2> QED
    BY <2>1, SubsetSize
<1>5. ASSUME NEW i \in m.snaps, NEW j \in m.snaps, ~Le(i, j)
      PROVE  Cardinality(Upto(j)) < Cardinality(Upto(i))
  <2>1. Upto(j) \subseteq Upto(i) /\ Upto(i) \in SUBSET SnapIds /\ i \in Upto(i) \ Upto(j)
    BY <1>1, <1>5
  <2> HIDE DEF Upto
  <2> QED
    BY <2>1, StrictSize
<1>6. \A i \in m.snaps : Cardinality(Upto(i)) <= Cardinality(m.snaps)
  <2> HIDE DEF Upto
  <2> QED
    BY <1>1, <1>3, SubsetSize
<1>7. \A i, j \in m.snaps : Le(i, j) /\ Le(j, i) => i = j
  BY <1>1
<1>8. \A i, j \in m.snaps : new.pos[i] <= new.pos[j] <=> Le(i, j)
  <2> HIDE DEF Upto, Le, new
  <2> QED
    BY <1>2, <1>3, <1>4, <1>5
<1>9. Placed(new)
  <2>1. \A i \in m.snaps : new.pos[i] \in Nat
    BY <1>2, <1>3
  <2> HIDE DEF Upto, Le, new
  <2>2. ASSUME NEW i \in m.snaps, NEW j \in m.snaps, new.pos[i] = new.pos[j]
        PROVE  i = j
    BY <1>7, <1>8, <2>1, <2>2
  <2>3. \A i \in m.snaps : 0 < Cardinality(Upto(i))
    <3>1. \A i \in m.snaps : i \in Upto(i)
      BY <1>1 DEF Upto, Le
    <3> QED
      BY <1>1, <1>3, <3>1, HasMembers
  <2>4. Cardinality(m.snaps) \in Nat
    BY <1>1, IdSetSize
  <2> QED
    BY <1>2, <1>3, <1>6, <2>2, <2>3, <2>4 DEF Placed
<1> QED
  BY <1>8, <1>9

\* What retention keeps for a rollback stays kept while none of it goes: of
\* the fulls on the interval the newest are taken, and what goes is older.
LEMMA RollbackShrinks ==
    ASSUME NEW m \in Manifests, NEW d \in Descriptors, NEW gone,
           m.fin \subseteq m.snaps, gone \cap RollbackIds(m, d) = {}
    PROVE  RollbackIds(Drop(m, gone), d) \subseteq RollbackIds(m, d)
<1> DEFINE new == Drop(m, gone)
           K  == {i \in Fulls(m, d) : d.step[i] % RollbackInterval = 0}
           KN == {i \in Fulls(new, d) : d.step[i] % RollbackInterval = 0}
           Later(i)  == {j \in K : m.pos[j] > m.pos[i]}
           LaterN(i) == {j \in KN : new.pos[j] > new.pos[i]}
<1>1. CASE RollbackInterval = 0 \/ MaxRollback = 0
  BY <1>1 DEF RollbackIds
<1>2. CASE ~(RollbackInterval = 0 \/ MaxRollback = 0)
  <2>1. /\ RollbackIds(m, d) = {i \in K : Cardinality(Later(i)) < MaxRollback}
        /\ RollbackIds(new, d) = {i \in KN : Cardinality(LaterN(i)) < MaxRollback}
    BY <1>2 DEF RollbackIds
  <2>2. K \in SUBSET SnapIds /\ KN = K \ gone /\ KN \in SUBSET SnapIds
    BY DropIsManifest DEF Fulls, Manifests
  <2>3. m.pos \in [SnapIds -> Nat] /\ new.pos \in [SnapIds -> Nat]
    BY DropIsManifest DEF Manifests
  <2>4. \A i, j \in m.snaps \ gone : new.pos[i] <= new.pos[j] <=> m.pos[i] <= m.pos[j]
    BY DropOrder
  <2> HIDE DEF new, K, KN
  <2>5. SUFFICES ASSUME NEW i \in KN, Cardinality(LaterN(i)) < MaxRollback,
                        ~(Cardinality(Later(i)) < MaxRollback)
                 PROVE  FALSE
    BY <2>1, <2>2 DEF new
  <2> DEFINE T == {k \in K : ~(Cardinality(Later(k)) < MaxRollback)}
  <2>6. PICK x \in T : \A y \in T : m.pos[y] <= m.pos[x]
    <3>1. T \in SUBSET SnapIds /\ T # {}
      BY <2>2, <2>5
    <3> HIDE DEF T
    <3> QED
      BY <2>3, <3>1, Extremes
  <2>7. Later(x) \subseteq LaterN(i)
    <3>1. SUFFICES ASSUME NEW j \in K, m.pos[j] > m.pos[x]
                   PROVE  j \in KN /\ new.pos[j] > new.pos[i]
      OBVIOUS
    <3>2. x \in SnapIds /\ i \in T /\ i \in SnapIds /\ j \in SnapIds
      BY <2>2, <2>5
    <3>3. m.pos[i] <= m.pos[x] /\ j \notin T
      BY <2>3, <2>6, <3>1, <3>2
    <3>4. j \in RollbackIds(m, d)
      BY <2>1, <3>3
    <3>5. j \in KN
      BY <2>2, <3>4
    <3>6. KN \subseteq m.snaps \ gone
      BY DropIsManifest DEF KN, new, Fulls
    <3>7. m.pos[i] < m.pos[j]
      BY <2>3, <3>1, <3>2, <3>3
    <3>8. ~(new.pos[j] <= new.pos[i])
      BY <2>3, <2>4, <3>2, <3>5, <3>6, <3>7
    <3> QED
      BY <2>3, <3>2, <3>5, <3>8
  <2>8. Cardinality(Later(x)) <= Cardinality(LaterN(i))
    <3>1. LaterN(i) \in SUBSET SnapIds
      BY <2>2
    <3> HIDE DEF Later, LaterN
    <3> QED
      BY <2>7, <3>1, SubsetSize
  <2>9. /\ Cardinality(Later(x)) \in Nat /\ Cardinality(LaterN(i)) \in Nat
        /\ MaxRollback \in Nat
    BY <2>2, IdSetSize, ManifestAssumption
  <2> HIDE DEF Later, LaterN
  <2> QED
    BY <2>5, <2>6, <2>8, <2>9
<1> QED
  BY <1>1, <1>2

\* The last full is behind all others, and what is behind all others is it.
LEMMA LastFullIs ==
    ASSUME NEW m \in Manifests, Placed(m), m.fin \subseteq m.snaps, NEW d
    PROVE  /\ LastFull(m, d) # None =>
                /\ LastFull(m, d) \in Fulls(m, d)
                /\ \A g \in Fulls(m, d) \ {LastFull(m, d)} : m.pos[g] < m.pos[LastFull(m, d)]
           /\ LastFull(m, d) = None => Fulls(m, d) = {}
           /\ \A f \in Fulls(m, d) :
                (\A g \in Fulls(m, d) : m.pos[g] <= m.pos[f]) => f = LastFull(m, d)
<1> DEFINE F == Fulls(m, d)
<1>1. F \in SUBSET SnapIds /\ F \subseteq m.snaps /\ None \notin F
  BY ManifestAssumption DEF Fulls, Manifests, SnapIds, None
<1>2. LastFull(m, d) = Last(m, F)
  BY DEF LastFull
<1>3. \A i, j \in F : m.pos[i] = m.pos[j] => i = j
  BY <1>1 DEF Placed
<1>4. \A i \in F : m.pos[i] \in Nat
  BY <1>1 DEF Manifests
<1> HIDE DEF F
<1>5. F # {} => Last(m, F) \in F /\ \A j \in F : m.pos[j] <= m.pos[Last(m, F)]
  BY <1>1, Ends
<1>6. F = {} => Last(m, F) = None
  BY LastIsMember
<1>7. /\ Last(m, F) # None =>
                /\ Last(m, F) \in F
                /\ \A g \in F \ {Last(m, F)} : m.pos[g] < m.pos[Last(m, F)]
      /\ Last(m, F) = None => F = {}
      /\ \A f \in F : (\A g \in F : m.pos[g] <= m.pos[f]) => f = Last(m, F)
  BY <1>1, <1>3, <1>4, <1>5, <1>6
<1> QED
  BY <1>2, <1>7 DEF F

\* What is removed leaves the last full the last, if it is not removed itself.
LEMMA DropKeepsLastFull ==
    ASSUME NEW m \in Manifests, Placed(m), m.fin \subseteq m.snaps, NEW d, NEW R,
           LastFull(m, d) \notin R
    PROVE  LastFull(Drop(m, R), d) = LastFull(m, d)
<1> DEFINE new == Drop(m, R)
<1>1. new \in Manifests /\ Placed(new) /\ new.fin \subseteq new.snaps
  BY DropIsManifest, DropPlaced
<1>2. Fulls(new, d) = Fulls(m, d) \ R
  BY DropIsManifest DEF Fulls
<1>3. \A i, j \in m.snaps \ R : new.pos[i] <= new.pos[j] <=> m.pos[i] <= m.pos[j]
  BY DropOrder
<1>4. Fulls(m, d) \subseteq m.snaps /\ \A i \in m.snaps : m.pos[i] \in Nat
  BY DEF Fulls, Manifests
<1> HIDE DEF new
<1>5. CASE LastFull(m, d) = None
  <2>1. Fulls(new, d) = {}
    BY <1>2, <1>5, LastFullIs
  <2>2. LastFull(new, d) = None
    BY <2>1, LastIsMember DEF LastFull
  <2> QED
    BY <1>5, <2>2 DEF new
<1>6. CASE LastFull(m, d) # None
  <2> DEFINE f == LastFull(m, d)
  <2>1. f \in Fulls(m, d) /\ \A g \in Fulls(m, d) \ {f} : m.pos[g] < m.pos[f]
    BY <1>6, LastFullIs
  <2> HIDE DEF f
  <2>2. f \in Fulls(new, d) /\ f \in m.snaps \ R
    BY <1>2, <1>4, <2>1 DEF f
  <2>3. \A g \in Fulls(new, d) : new.pos[g] <= new.pos[f]
    BY <1>2, <1>3, <1>4, <2>1, <2>2
  <2>4. f = LastFull(new, d)
    BY <1>1, <2>2, <2>3, LastFullIs
  <2> QED
    BY <2>4 DEF f, new
<1> QED
  BY <1>5, <1>6

\* A full that is pushed is the last one, a delta is none.
LEMMA PushedLastFull ==
    ASSUME NEW m \in Manifests, Placed(m), m.fin \subseteq m.snaps, NEW d,
           NEW i \in SnapIds \ m.snaps
    PROVE  LastFull(Push(m, i, TRUE), d) = IF d.base[i] = None THEN i ELSE LastFull(m, d)
<1> DEFINE new == Push(m, i, TRUE)
<1>1. /\ new \in Manifests /\ Placed(new)
      /\ new.fin = m.fin \cup {i} /\ new.snaps = m.snaps \cup {i}
      /\ \A j \in m.snaps : new.pos[j] = m.pos[j] /\ new.pos[j] < new.pos[i]
  BY PushIsManifest, PushOrder
<1>2. Fulls(new, d) = Fulls(m, d) \cup (IF d.base[i] = None THEN {i} ELSE {})
  BY <1>1 DEF Fulls, IsDelta
<1>3. /\ Fulls(m, d) \subseteq m.snaps /\ new.fin \subseteq new.snaps
      /\ \A j \in new.snaps : new.pos[j] \in Nat
  BY <1>1 DEF Fulls, Manifests
<1> HIDE DEF new
<1>4. CASE d.base[i] = None
  <2>1. i \in Fulls(new, d) /\ \A g \in Fulls(new, d) : new.pos[g] <= new.pos[i]
    BY <1>1, <1>2, <1>3, <1>4
  <2>2. i = LastFull(new, d)
    BY <1>1, <1>3, <2>1, LastFullIs
  <2> QED
    BY <1>4, <2>2 DEF new
<1>5. CASE d.base[i] # None
  <2>1. Fulls(new, d) = Fulls(m, d)
    BY <1>2, <1>5
  <2>2. CASE LastFull(m, d) = None
    <3>1. Fulls(new, d) = {}
      BY <2>1, <2>2, LastFullIs
    <3>2. LastFull(new, d) = None
      BY <3>1, LastIsMember DEF LastFull
    <3> QED
      BY <1>5, <2>2, <3>2 DEF new
  <2>3. CASE LastFull(m, d) # None
    <3>1. LastFull(m, d) \in Fulls(m, d)
          /\ \A g \in Fulls(m, d) \ {LastFull(m, d)} : m.pos[g] < m.pos[LastFull(m, d)]
      BY <2>3, LastFullIs
    <3>2. \A g \in Fulls(new, d) : new.pos[g] <= new.pos[LastFull(m, d)]
      BY <1>1, <1>3, <2>1, <3>1
    <3>3. LastFull(m, d) = LastFull(new, d)
      BY <1>1, <1>3, <2>1, <3>1, <3>2, LastFullIs
    <3> QED
      BY <1>5, <3>3 DEF new
  <2> QED
    BY <2>2, <2>3
<1> QED
  BY <1>4, <1>5

\* A vector has a snapshot in each of its places.
LEMMA PlacesAreTaken ==
    ASSUME NEW m \in Manifests, Placed(m)
    PROVE  {m.pos[i] : i \in m.snaps} = 1 .. Cardinality(m.snaps)
<1> DEFINE n == Cardinality(m.snaps)
           f == [i \in m.snaps |-> m.pos[i]]
<1>1. IsFiniteSet(m.snaps) /\ n \in Nat
  <2>1. IsFiniteSet(SnapIds)
    BY FS_Interval, ManifestAssumption DEF SnapIds
  <2> QED
    BY <2>1, FS_Subset, IdSetSize DEF Manifests
<1>2. f \in Injection(m.snaps, 1 .. n)
  <2>1. f \in [m.snaps -> 1 .. n]
    BY DEF Placed
  <2>2. \A i, j \in m.snaps : f[i] = f[j] => i = j
    BY DEF Placed
  <2> QED
    BY <2>1, <2>2 DEF Injection, IsInjective
<1>3. IsFiniteSet(1 .. n) /\ Cardinality(1 .. n) = n
  BY <1>1, FS_Interval
<1> HIDE DEF f
<1>4. f \in Surjection(m.snaps, 1 .. n)
  BY <1>1, <1>2, <1>3, FS_Injection
<1>5. \A k \in 1 .. n : \E i \in m.snaps : f[i] = k
  BY <1>4 DEF Surjection
<1>6. \A i \in m.snaps : f[i] = m.pos[i]
  BY DEF f
<1>7. \A i \in m.snaps : m.pos[i] \in 1 .. n
  BY DEF Placed
<1> HIDE DEF n
<1>8. {m.pos[i] : i \in m.snaps} = 1 .. n
  BY <1>5, <1>6, <1>7
<1> QED
  BY <1>8 DEF n

\* The same fulls in the same order have the same last one.
LEMMA SameFullsSameLast ==
    ASSUME NEW m \in Manifests, Placed(m), m.fin \subseteq m.snaps, NEW d,
           NEW k \in Manifests, Placed(k), k.fin \subseteq k.snaps, NEW e,
           Fulls(k, e) = Fulls(m, d),
           \A i, j \in Fulls(m, d) : k.pos[i] <= k.pos[j] <=> m.pos[i] <= m.pos[j]
    PROVE  LastFull(k, e) = LastFull(m, d)
<1> DEFINE f == LastFull(m, d)
<1>1. CASE f = None
  <2>1. Fulls(k, e) = {}
    BY <1>1, LastFullIs
  <2> QED
    BY <1>1, <2>1, LastIsMember DEF LastFull
<1>2. CASE f # None
  <2>1. /\ f \in Fulls(m, d)
        /\ \A g \in Fulls(m, d) \ {f} : m.pos[g] < m.pos[f]
    BY <1>2, LastFullIs
  <2>2. \A g \in Fulls(m, d) : m.pos[g] \in Nat
    BY DEF Fulls, Manifests
  <2> HIDE DEF f
  <2>3. \A g \in Fulls(m, d) : m.pos[g] <= m.pos[f]
    BY <2>1, <2>2
  <2>4. \A g \in Fulls(k, e) : k.pos[g] <= k.pos[f]
    BY <2>1, <2>3
  <2>5. f = LastFull(k, e)
    BY <2>1, <2>4, LastFullIs
  <2> QED
    BY <2>5 DEF f
<1> QED
  BY <1>1, <1>2

-----------------------------------------------------------------------------
(* Loops that run a fixed number of times, as recursive functions of the   *)
(* number of the turn: F is the body, m what the loop starts from.         *)

Runs(f, F, m, n) == \A k \in 0 .. n : f[k] = IF k = 0 THEN m ELSE F[f[k - 1]]

\* There is such a function, and it stays where the body stays.
LEMMA Turns ==
    ASSUME NEW S, NEW F \in [S -> S], NEW m \in S, NEW n \in Nat
    PROVE  \E f : f \in [0 .. n -> S] /\ Runs(f, F, m, n)
<1> DEFINE Good(h, k) == h \in [0 .. k -> S] /\ Runs(h, F, m, k)
           Bad == {k \in Nat : ~ \E h : Good(h, k)}
<1>1. CASE Bad = {}
  BY <1>1
<1>2. CASE Bad # {}
  <2>1. Bad \in SUBSET Nat
    OBVIOUS
  <2>2. PICK k \in Bad : \A y \in Bad : k <= y
    <3> HIDE DEF Bad
    <3> QED
      BY <1>2, <2>1, LeastNumber
  <2>3. k # 0
    <3>1. Good([j \in 0 .. 0 |-> m], 0)
      BY DEF Runs
    <3> HIDE DEF Good
    <3>2. PICK h : Good(h, 0)
      BY <3>1, Zenon
    <3>3. ASSUME k = 0 PROVE FALSE
      <4>1. Good(h, k)
        BY <3>2, <3>3 DEF Good
      <4>2. ~ Good(h, k)
        BY <2>2
      <4> QED
        BY <4>1, <4>2
    <3> QED
      BY <3>3
  <2>4. k - 1 \in Nat /\ k \in Nat
    BY <2>2, <2>3
  <2>5. PICK h : Good(h, k - 1)
    <3> HIDE DEF Good
    <3> QED
      BY <2>2, <2>4
  <2> DEFINE g == [j \in 0 .. k |-> IF j = k THEN F[h[k - 1]] ELSE h[j]]
  <2>6. h \in [0 .. (k - 1) -> S]
    BY <2>5
  <2>7. \A j \in 0 .. k : j = k \/ j \in 0 .. (k - 1)
    BY <2>4
  <2>8. k - 1 \in 0 .. (k - 1)
    BY <2>4
  <2>9. h[k - 1] \in S
    BY <2>6, <2>8
  <2>10. F[h[k - 1]] \in S
    BY <2>9
  <2>11. g \in [0 .. k -> S]
    BY <2>6, <2>7, <2>10
  <2>12. ASSUME NEW j \in 0 .. k
         PROVE  g[j] = IF j = 0 THEN m ELSE F[g[j - 1]]
    <3>1. CASE j = k
      <4>1. g[j] = F[h[k - 1]] /\ j # 0
        BY <3>1, <2>3
      <4>2. k - 1 \in 0 .. k /\ k - 1 # k
        BY <2>4
      <4>3. g[k - 1] = h[k - 1]
        BY <4>2
      <4> QED
        BY <3>1, <4>1, <4>3
    <3>2. CASE j # k
      <4>1. j \in 0 .. (k - 1)
        BY <3>2, <2>7
      <4>2. g[j] = h[j]
        BY <3>2
      <4>3. h[j] = IF j = 0 THEN m ELSE F[h[j - 1]]
        BY <4>1, <2>5 DEF Runs
      <4>4. CASE j = 0
        BY <4>2, <4>3, <4>4
      <4>5. CASE j # 0
        <5>1. j - 1 \in 0 .. k /\ j - 1 # k
          BY <4>5, <4>1, <2>4
        <5>2. g[j - 1] = h[j - 1]
          BY <5>1
        <5> QED
          BY <4>2, <4>3, <4>5, <5>2
      <4> QED
        BY <4>4, <4>5
    <3> QED
      BY <3>1, <3>2
  <2>13. Good(g, k)
    <3> HIDE DEF g
    <3> QED
      BY <2>11, <2>12 DEF Runs
  <2> HIDE DEF Good, g
  <2>14. k \notin Bad
    BY <2>13
  <2> QED
    BY <2>2, <2>14
<1> QED
  BY <1>1, <1>2

\* What holds before the first turn and over every turn holds in the end.
LEMMA TurnsStay ==
    ASSUME NEW S, NEW n \in Nat, NEW f, f[0] \in S,
           \A k \in 1 .. n : f[k - 1] \in S => f[k] \in S
    PROVE  f[n] \in S
<1> DEFINE Bad == {k \in 0 .. n : f[k] \notin S}
<1>1. CASE Bad = {}
  BY <1>1
<1>2. CASE Bad # {}
  <2>1. Bad \in SUBSET Nat
    OBVIOUS
  <2>2. PICK k \in Bad : \A y \in Bad : k <= y
    <3> HIDE DEF Bad
    <3> QED
      BY <1>2, <2>1, LeastNumber
  <2>3. k \in 0 .. n /\ f[k] \notin S
    BY <2>2
  <2>4. k \in 1 .. n
    BY <2>3
  <2>5. k - 1 \in 0 .. n /\ ~(k <= k - 1)
    BY <2>3, <2>4
  <2>6. f[k - 1] \in S
    BY <2>2, <2>5
  <2> QED
    BY <2>3, <2>4, <2>6
<1> QED
  BY <1>1, <1>2
=============================================================================
