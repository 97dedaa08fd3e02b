-------------------------- MODULE MultiRankProofs ---------------------------
(***************************************************************************)
(* The theorems about MultiRank where rank 0 alone merges, for any number  *)
(* of ranks, saves, faults and restarts: RankInv is inductive, and what    *)
(* the index calls finalized is whole, the base a rank reads is on disk,   *)
(* and a finalize that returned Ok is not forgotten.  One lemma for each   *)
(* action, and under it one step for each part of the invariant.           *)
(***************************************************************************)
EXTENDS MultiRankInv, ManifestLemmas

-----------------------------------------------------------------------------
(* apply_retention: what both of its loops keep.                           *)

\* What is left of m: the order of what stays, all flags, and no base
\* without its deltas' bases.
Pruned(k, m) ==
    /\ k \in Manifests
    /\ Placed(k)
    /\ k.snaps \subseteq m.snaps
    /\ k.fin = m.fin \cap k.snaps
    /\ k.pinned \subseteq m.pinned
    /\ \A i, j \in k.snaps : k.pos[i] <= k.pos[j] <=> m.pos[i] <= m.pos[j]
    /\ \A i \in k.snaps : desc.base[i] \in m.snaps => desc.base[i] \in k.snaps

\* One turn of each loop.
FullsTurn(k, protected) ==
    LET oldest == OldestRemovableFull(k, desc, protected)
    IN  IF OverFullCap(k, desc) /\ oldest # None
        THEN Drop(k, GroupOf(k, desc, oldest)) ELSE k

TotalTurn(k, protected) ==
    LET oldest == OldestRemovable(k, desc, protected)
    IN  IF OverTotalCap(k) /\ oldest # None THEN Drop(k, {oldest}) ELSE k

\* Both loops stay in a set of manifests that no turn leaves.
LEMMA RetainedStays ==
    ASSUME NEW m, NEW G, m \in G,
           \A k \in G : /\ FullsTurn(k, ProtectedIds(m, desc)) \in G
                        /\ TotalTurn(k, ProtectedIds(m, desc)) \in G
    PROVE  Retained(m) \in G
<1> DEFINE protected == ProtectedIds(m, desc)
           Turn1(one, n) == IF n = 0 THEN m
                    ELSE LET k == one[n - 1]
                             oldest == OldestRemovableFull(k, desc, protected)
                         IN  IF OverFullCap(k, desc) /\ oldest # None
                             THEN Drop(k, GroupOf(k, desc, oldest)) ELSE k
           one == CHOOSE one : one = [n \in 0 .. MaxIds |-> Turn1(one, n)]
           Turn2(two, n) == IF n = 0 THEN one[MaxIds]
                    ELSE LET k == two[n - 1]
                             oldest == OldestRemovable(k, desc, protected)
                         IN  IF OverTotalCap(k) /\ oldest # None THEN Drop(k, {oldest}) ELSE k
           two == CHOOSE two : two = [n \in 0 .. MaxIds |-> Turn2(two, n)]
           F1 == [k \in G |-> FullsTurn(k, protected)]
           F2 == [k \in G |-> TotalTurn(k, protected)]
<1>1. Retained(m) = two[MaxIds]
  BY DEF Retained
<1>2. F1 \in [G -> G] /\ F2 \in [G -> G] /\ MaxIds \in Nat
  BY ManifestAssumption
<1>3. /\ \A k \in G : F1[k] = FullsTurn(k, protected)
      /\ \A k \in G : F2[k] = TotalTurn(k, protected)
  OBVIOUS
<1>4. /\ \A h, n : Turn1(h, n) = IF n = 0 THEN m ELSE FullsTurn(h[n - 1], protected)
      /\ \A h, n : Turn2(h, n) = IF n = 0 THEN one[MaxIds] ELSE TotalTurn(h[n - 1], protected)
  BY DEF FullsTurn, TotalTurn
<1> HIDE DEF F1, F2
<1>5. one[MaxIds] \in G
  <2>1. PICK f : f \in [0 .. MaxIds -> G] /\ Runs(f, F1, m, MaxIds)
    BY <1>2, Turns
  <2>2. ASSUME NEW n \in 0 .. MaxIds PROVE f[n] = Turn1(f, n)
    <3> HIDE DEF protected, Turn1, Turn2, one, two
    <3>1. CASE n = 0
      BY <1>4, <2>1, <3>1 DEF Runs
    <3>2. CASE n # 0
      <4>1. n - 1 \in 0 .. MaxIds
        BY <1>2, <3>2
      <4> QED
        BY <1>3, <1>4, <2>1, <3>2, <4>1 DEF Runs
    <3> QED
      BY <3>1, <3>2
  <2> HIDE DEF protected, Turn1, Turn2, two
  <2>3. f = [n \in 0 .. MaxIds |-> Turn1(f, n)]
    BY <2>1, <2>2
  <2>4. one = [n \in 0 .. MaxIds |-> Turn1(one, n)]
    BY <2>3, Zenon
  <2> HIDE DEF one
  <2>5. one[0] \in G
    BY <1>2, <1>4, <2>4
  <2>6. ASSUME NEW k \in 1 .. MaxIds, one[k - 1] \in G
        PROVE  one[k] \in G
    <3>1. k \in 0 .. MaxIds /\ k # 0
      BY <1>2
    <3>2. one[k] = FullsTurn(one[k - 1], protected)
      BY <1>4, <2>4, <3>1
    <3> QED
      BY <2>6, <3>2 DEF protected
  <2> QED
    BY <1>2, <2>5, <2>6, TurnsStay
<1> HIDE DEF one
<1>6. two[MaxIds] \in G
  <2>1. PICK f : f \in [0 .. MaxIds -> G] /\ Runs(f, F2, one[MaxIds], MaxIds)
    BY <1>2, <1>5, Turns
  <2>2. ASSUME NEW n \in 0 .. MaxIds PROVE f[n] = Turn2(f, n)
    <3> HIDE DEF protected, Turn1, Turn2, two
    <3>1. CASE n = 0
      BY <1>4, <2>1, <3>1 DEF Runs
    <3>2. CASE n # 0
      <4>1. n - 1 \in 0 .. MaxIds
        BY <1>2, <3>2
      <4> QED
        BY <1>3, <1>4, <2>1, <3>2, <4>1 DEF Runs
    <3> QED
      BY <3>1, <3>2
  <2> HIDE DEF protected, Turn1, Turn2
  <2>3. f = [n \in 0 .. MaxIds |-> Turn2(f, n)]
    BY <2>1, <2>2
  <2>4. two = [n \in 0 .. MaxIds |-> Turn2(two, n)]
    BY <2>3, Zenon
  <2> HIDE DEF two
  <2>5. two[0] \in G
    BY <1>2, <1>4, <1>5, <2>4
  <2>6. ASSUME NEW k \in 1 .. MaxIds, two[k - 1] \in G
        PROVE  two[k] \in G
    <3>1. k \in 0 .. MaxIds /\ k # 0
      BY <1>2
    <3>2. two[k] = TotalTurn(two[k - 1], protected)
      BY <1>4, <2>4, <3>1
    <3> QED
      BY <2>6, <3>2 DEF protected
  <2> QED
    BY <1>2, <2>5, <2>6, TurnsStay
<1> QED
  BY <1>1, <1>6

\* Nothing a manifest may lose: what it holds is no base of what stays.
LEMMA DropPrunes ==
    ASSUME NEW m \in Manifests, NEW k, Pruned(k, m), NEW R,
           \A i \in k.snaps \ R : desc.base[i] \notin R
    PROVE  Pruned(Drop(k, R), m)
<1> DEFINE new == Drop(k, R)
<1>1. k \in Manifests /\ Placed(k)
  BY DEF Pruned
<1>2. /\ new \in Manifests /\ Placed(new)
      /\ new.snaps = k.snaps \ R /\ new.fin = k.fin \ R /\ new.pinned = k.pinned \ R
  BY <1>1, DropIsManifest, DropPlaced DEF Drop
<1>3. \A i, j \in k.snaps \ R : new.pos[i] <= new.pos[j] <=> k.pos[i] <= k.pos[j]
  BY <1>1, DropOrder
<1> HIDE DEF new
<1>4. Pruned(new, m)
  BY <1>2, <1>3 DEF Pruned
<1> QED
  BY <1>4 DEF new

\* What the first loop takes is a full with all its deltas.
LEMMA FullsTurnPrunes ==
    ASSUME desc \in Descriptors, NamesInv, NEW m \in Manifests, NEW k, Pruned(k, m), NEW p
    PROVE  Pruned(FullsTurn(k, p), m)
<1> DEFINE oldest == OldestRemovableFull(k, desc, p)
           group == GroupOf(k, desc, oldest)
<1>1. k \in Manifests
  BY DEF Pruned
<1>2. CASE OverFullCap(k, desc) /\ oldest # None
  <2>1. oldest \in k.fin /\ desc.base[oldest] = None
    BY <1>1, <1>2, LookUps
  <2>2. ASSUME NEW i \in k.snaps \ group
        PROVE  desc.base[i] \notin group
    <3>1. desc.base[i] # oldest
      BY <2>2 DEF GroupOf
    <3>2. i \in SnapIds
      BY <1>1 DEF Manifests
    <3>3. CASE desc.base[i] = None
      <4>1. None \notin k.snaps
        BY <1>1 DEF Manifests, SnapIds, None
      <4> QED
        BY <3>3, <4>1 DEF GroupOf
    <3>4. CASE desc.base[i] # None
      <4>1. desc.base[desc.base[i]] = None
        BY <3>2, <3>4 DEF NamesInv
      <4> QED
        BY <1>2, <3>1, <4>1 DEF GroupOf
    <3> QED
      BY <3>3, <3>4
  <2> HIDE DEF group, oldest
  <2>3. Pruned(Drop(k, group), m)
    BY <2>2, DropPrunes
  <2> QED
    BY <1>2, <2>3 DEF FullsTurn, group, oldest
<1>3. CASE ~(OverFullCap(k, desc) /\ oldest # None)
  BY <1>3 DEF FullsTurn
<1> QED
  BY <1>2, <1>3

\* What the second loop takes nothing is diffed against.
LEMMA TotalTurnPrunes ==
    ASSUME desc \in Descriptors, NamesInv, NEW m \in Manifests, NEW k, Pruned(k, m), NEW p
    PROVE  Pruned(TotalTurn(k, p), m)
<1> DEFINE oldest == OldestRemovable(k, desc, p)
<1>1. k \in Manifests
  BY DEF Pruned
<1>2. CASE OverTotalCap(k) /\ oldest # None
  <2>1. \/ desc.base[oldest] # None
        \/ \A j \in k.snaps : desc.base[j] # oldest
    BY <1>1, <1>2, LookUps
  <2>2. ASSUME NEW i \in k.snaps \ {oldest}
        PROVE  desc.base[i] \notin {oldest}
    <3>1. i \in SnapIds
      BY <1>1 DEF Manifests
    <3> HIDE DEF oldest
    <3> QED
      BY <1>2, <2>1, <3>1 DEF NamesInv
  <2> HIDE DEF oldest
  <2>3. Pruned(Drop(k, {oldest}), m)
    BY <2>2, DropPrunes
  <2> QED
    BY <1>2, <2>3 DEF TotalTurn, oldest
<1>3. CASE ~(OverTotalCap(k) /\ oldest # None)
  BY <1>3 DEF TotalTurn
<1> QED
  BY <1>2, <1>3

\* So retention leaves whole chains, in order.
LEMMA RetainedIsPruned ==
    ASSUME desc \in Descriptors, NamesInv, NEW m \in Manifests, Placed(m), m.fin \subseteq m.snaps
    PROVE  Pruned(Retained(m), m)
<1> DEFINE G == {k \in Manifests : Pruned(k, m)}
<1>1. m \in G
  BY DEF Pruned
<1>2. \A k \in G : /\ FullsTurn(k, ProtectedIds(m, desc)) \in G
                   /\ TotalTurn(k, ProtectedIds(m, desc)) \in G
  BY FullsTurnPrunes, TotalTurnPrunes DEF Pruned
<1> HIDE DEF G
<1>3. Retained(m) \in G
  BY <1>1, <1>2, RetainedStays
<1> QED
  BY <1>3 DEF G

\* Where nothing is exempt and a full may stay, the newest snapshot stays,
\* and the last full with it, unless the newest has lost its base already.
LEMMA RetainedKeepsNewest ==
    ASSUME desc \in Descriptors, NamesInv, NEW m \in Manifests, Placed(m), m.fin \subseteq m.snaps,
           NoRollback, MaxFull # 0, m.pinned = {},
           NEW x \in m.fin, \A j \in m.fin \ {x} : m.pos[j] < m.pos[x],
           desc.base[x] \in {None, LastFull(m, desc)} \/ desc.base[x] \notin m.snaps
    PROVE  /\ x \in Retained(m).fin
           /\ desc.base[x] \in {None, LastFull(m, desc)} =>
                LastFull(Retained(m), desc) = LastFull(m, desc)
<1> DEFINE last == LastFull(m, desc)
           Kept(k) == x \in k.snaps /\ (desc.base[x] \in {None, last} => last \in k.snaps)
           G == {k \in Manifests : Pruned(k, m) /\ Kept(k)}
           p == ProtectedIds(m, desc)
<1>1. p = {}
  BY DEF NoRollback, ProtectedIds, RollbackIds
<1>2. /\ Fulls(m, desc) \subseteq m.fin
      /\ m.fin \in SUBSET SnapIds /\ m.pos \in [SnapIds -> Nat] /\ None \notin SnapIds
      /\ x \in SnapIds
  BY DEF Fulls, Manifests, SnapIds, None
<1>3. last # None => /\ last \in Fulls(m, desc)
                     /\ \A g \in Fulls(m, desc) \ {last} : m.pos[g] < m.pos[last]
  BY LastFullIs
<1>4. desc.base[x] = None => x = last
  <2>1. desc.base[x] = None => x \in Fulls(m, desc)
    BY DEF Fulls, IsDelta
  <2>2. \A g \in Fulls(m, desc) : m.pos[g] <= m.pos[x]
    BY <1>2
  <2> QED
    BY <2>1, <2>2, LastFullIs
<1>5. desc.base[x] \in {None, last} => last # None
  BY <1>2, <1>4
<1> HIDE DEF last, p
<1>6. m \in G
  BY <1>2, <1>3, <1>5 DEF Pruned
<1>7. ASSUME NEW k \in G
      PROVE  /\ Fulls(k, desc) = Fulls(m, desc) \cap k.snaps
             /\ \A i, j \in k.snaps : k.pos[i] <= k.pos[j] <=> m.pos[i] <= m.pos[j]
             /\ k.fin = m.fin \cap k.snaps /\ k.snaps \in SUBSET SnapIds
             /\ \A i \in k.snaps : k.pos[i] \in Nat
  BY DEF Pruned, Fulls, Manifests
<1>8. ASSUME NEW k \in G
      PROVE  FullsTurn(k, p) \in G
  <2> DEFINE oldest == OldestRemovableFull(k, desc, p)
             group == GroupOf(k, desc, oldest)
  <2>1. Pruned(FullsTurn(k, p), m)
    BY <1>8, FullsTurnPrunes
  <2>2. CASE ~(OverFullCap(k, desc) /\ oldest # None)
    BY <2>2 DEF FullsTurn
  <2>3. CASE OverFullCap(k, desc) /\ oldest # None
    <3>1. k \in Manifests /\ Kept(k)
      BY <1>8
    <3>2. oldest \in Fulls(k, desc) /\ \A g \in Fulls(k, desc) : k.pos[oldest] <= k.pos[g]
      <4>1. oldest = First(k, Fulls(k, desc))
        BY <1>1 DEF OldestRemovableFull
      <4>2. Fulls(k, desc) \in SUBSET SnapIds /\ Fulls(k, desc) # {}
        BY <1>7, <2>3, <3>1, <4>1, FirstIsMember
      <4> HIDE DEF oldest
      <4> QED
        BY <3>1, <4>1, <4>2, Ends
    <3>3. \E g \in Fulls(k, desc) : g # oldest
      <4>1. Cardinality(Fulls(k, desc)) > 1
        <5>1. Cardinality(Fulls(k, desc)) \in Nat /\ MaxFull \in Nat \ {0}
          BY <1>7, IdSetSize, ManifestAssumption
        <5> QED
          BY <2>3, <5>1 DEF OverFullCap
      <4>2. Cardinality({oldest}) = 1
        BY FS_Singleton
      <4>3. Fulls(k, desc) # {oldest}
        BY <4>1, <4>2
      <4> QED
        BY <3>2, <4>3
    <3> HIDE DEF oldest, Kept
    <3>4. oldest # last
      <4>1. SUFFICES ASSUME oldest = last PROVE FALSE
        OBVIOUS
      <4>2. PICK g \in Fulls(k, desc) : g # oldest
        BY <3>3
      <4>3. g \in Fulls(m, desc) \ {last} /\ g \in k.snaps /\ last \in k.snaps /\ last # None
        BY <1>7, <2>3, <3>2, <4>1, <4>2
      <4>4. m.pos[g] < m.pos[last]
        BY <1>3, <4>3
      <4>5. m.pos[last] <= m.pos[g]
        BY <1>7, <3>2, <4>1, <4>3
      <4>6. m.pos[g] \in Nat /\ m.pos[last] \in Nat
        BY <1>2, <1>3, <4>3
      <4> QED
        BY <4>4, <4>5, <4>6
    <3>5. x \notin group
      <4>1. x # oldest
        BY <1>4, <3>2, <3>4 DEF Fulls, IsDelta
      <4>2. desc.base[x] # oldest
        <5>1. oldest \in m.snaps
          BY <1>7, <3>2 DEF Fulls
        <5> QED
          BY <2>3, <3>4, <5>1 DEF last
      <4> QED
        BY <4>1, <4>2 DEF GroupOf
    <3>6. last # None => last \notin group
      <4>1. last # None => desc.base[last] = None
        BY <1>3 DEF Fulls, IsDelta
      <4> QED
        BY <2>3, <3>4, <4>1 DEF GroupOf
    <3>7. FullsTurn(k, p) = Drop(k, group)
      BY <2>3 DEF FullsTurn, oldest
    <3>8. FullsTurn(k, p) \in Manifests /\ FullsTurn(k, p).snaps = k.snaps \ group
      BY <3>1, <3>7, DropIsManifest
    <3> HIDE DEF group
    <3>9. Kept(FullsTurn(k, p))
      BY <1>5, <3>1, <3>5, <3>6, <3>8 DEF Kept
    <3> QED
      BY <2>1, <3>8, <3>9
  <2> QED
    BY <2>2, <2>3
<1>9. ASSUME NEW k \in G
      PROVE  TotalTurn(k, p) \in G
  <2> DEFINE oldest == OldestRemovable(k, desc, p)
  <2>1. Pruned(TotalTurn(k, p), m)
    BY <1>9, TotalTurnPrunes
  <2>2. CASE ~(OverTotalCap(k) /\ oldest # None)
    BY <2>2 DEF TotalTurn
  <2>3. CASE OverTotalCap(k) /\ oldest # None
    <3>1. k \in Manifests /\ Kept(k)
      BY <1>9
    <3>2. /\ oldest # Newest(k)
          /\ IsDelta(desc, oldest) \/ \A j \in k.snaps : desc.base[j] # oldest
      <4>1. oldest \in {i \in k.fin :
                /\ i # Newest(k)
                /\ i \notin p
                /\ IsDelta(desc, i) \/ \A j \in k.snaps : desc.base[j] # i} \cup {None}
        BY FirstIsMember DEF OldestRemovable
      <4> HIDE DEF oldest
      <4> QED
        BY <2>3, <4>1
    <3>3. Newest(k) = x
      <4>1. x \in k.fin /\ k.fin \in SUBSET SnapIds /\ k.fin # {} /\ k.fin \subseteq k.snaps
        BY <1>7, <3>1
      <4>2. Newest(k) \in k.fin /\ \A j \in k.fin : k.pos[j] <= k.pos[Newest(k)]
        BY <3>1, <4>1, Ends DEF Newest
      <4>3. m.pos[x] <= m.pos[Newest(k)]
        BY <1>7, <4>1, <4>2
      <4>4. Newest(k) \in m.fin
        BY <1>7, <4>2
      <4>5. m.pos[x] \in Nat /\ m.pos[Newest(k)] \in Nat
        BY <1>2, <4>4
      <4> QED
        BY <4>3, <4>4, <4>5
    <3> HIDE DEF oldest
    <3>4. oldest # x
      BY <3>2, <3>3
    <3>5. desc.base[x] \in {None, last} => oldest # last
      <4>1. CASE desc.base[x] = None
        BY <1>4, <3>4, <4>1
      <4>2. CASE desc.base[x] # None /\ desc.base[x] = last
        <5>1. ~IsDelta(desc, last) /\ x \in k.snaps
          BY <1>3, <3>1, <4>2 DEF Fulls
        <5> QED
          BY <3>2, <4>2, <5>1
      <4> QED
        BY <4>1, <4>2
    <3>6. TotalTurn(k, p) = Drop(k, {oldest})
      BY <2>3 DEF TotalTurn, oldest
    <3>7. TotalTurn(k, p) \in Manifests /\ TotalTurn(k, p).snaps = k.snaps \ {oldest}
      BY <3>1, <3>6, DropIsManifest
    <3>8. Kept(TotalTurn(k, p))
      BY <3>1, <3>4, <3>5, <3>7
    <3> QED
      BY <2>1, <3>7, <3>8
  <2> QED
    BY <2>2, <2>3
<1> HIDE DEF G
<1>10. Retained(m) \in G
  BY <1>6, <1>8, <1>9, RetainedStays DEF p
<1>11. x \in Retained(m).fin
  BY <1>7, <1>10 DEF G
<1>12. ASSUME desc.base[x] \in {None, last}
       PROVE  LastFull(Retained(m), desc) = last
  <2> DEFINE k == Retained(m)
  <2>1. k \in Manifests /\ Placed(k) /\ k.fin \subseteq k.snaps /\ last \in k.snaps
    BY <1>7, <1>10, <1>12 DEF G, Pruned
  <2> HIDE DEF k
  <2>2. last \in Fulls(k, desc)
    BY <1>3, <1>5, <1>7, <1>10, <1>12, <2>1 DEF k
  <2>3. \A g \in Fulls(k, desc) : g \in Fulls(m, desc) /\ g \in k.snaps
    BY <1>7, <1>10 DEF k
  <2>4. \A g \in Fulls(m, desc) : m.pos[g] <= m.pos[last]
    BY <1>2, <1>3, <1>5, <1>12
  <2>5. \A g \in Fulls(k, desc) : k.pos[g] <= k.pos[last]
    BY <1>7, <1>10, <2>1, <2>3, <2>4 DEF k
  <2>6. last = LastFull(k, desc)
    BY <2>1, <2>2, <2>5, LastFullIs
  <2> QED
    BY <2>6 DEF k
<1> QED
  BY <1>11, <1>12 DEF last

-----------------------------------------------------------------------------
(* Lists: what push, retain and sort leave of a row.                       *)

\* A row stays one while what it lists keeps its step.
LEMMA RowStays ==
    ASSUME NEW m \in Manifests, NEW at, NEW next \in Nat, Row(m, at, next),
           NEW later, NEW n \in Nat, next <= n, \A i \in m.snaps : later[i] = at[i]
    PROVE  Row(m, later, n)
<1>1. m.snaps \subseteq Nat
  BY DEF Manifests, SnapIds
<1> QED
  BY <1>1 DEF Row

\* What is left of a row is one.
LEMMA RowDropped ==
    ASSUME NEW m \in Manifests, NEW at, NEW next, Row(m, at, next), NEW R
    PROVE  Row(Drop(m, R), at, next)
<1>1. /\ Drop(m, R).snaps = m.snaps \ R /\ Drop(m, R).fin = m.fin \ R
      /\ Drop(m, R).pinned = m.pinned \ R
      /\ Placed(Drop(m, R))
  BY DropIsManifest, DropPlaced DEF Drop, Row
<1>2. \A i, j \in m.snaps \ R : Drop(m, R).pos[i] <= Drop(m, R).pos[j] <=> m.pos[i] <= m.pos[j]
  BY DropOrder
<1> QED
  BY <1>1, <1>2 DEF Row

\* So is what retention leaves.
LEMMA RowPruned ==
    ASSUME NEW m \in Manifests, NEW at, NEW next, Row(m, at, next), NEW k, Pruned(k, m)
    PROVE  Row(k, at, next)
BY DEF Row, Pruned

\* What is pushed may come last.
LEMMA RowPushed ==
    ASSUME NEW m \in Manifests, NEW at \in [SnapIds -> Nat], NEW next \in Nat, Row(m, at, next),
           NEW i \in SnapIds \ m.snaps, i < next, \A j \in m.snaps : at[j] <= at[i],
           NEW f \in BOOLEAN
    PROVE  Row(Push(m, i, f), at, next)
<1> DEFINE k == Push(m, i, f)
<1>1. Placed(m)
  BY DEF Row
<1>2. /\ Placed(k)
      /\ \A j \in m.snaps : k.pos[j] = m.pos[j] /\ k.pos[j] < k.pos[i]
  BY <1>1, PushOrder
<1>3. /\ k \in Manifests /\ k.snaps = m.snaps \cup {i}
      /\ k.fin = (IF f THEN m.fin \cup {i} ELSE m.fin) /\ k.pinned = m.pinned
  <2>1. k.pinned = m.pinned
    BY DEF Push, Manifests
  <2> HIDE DEF k
  <2> QED
    BY <2>1, PushIsManifest DEF k
<1>4. m.snaps \subseteq SnapIds /\ \A j \in m.snaps : m.pos[j] \in Nat
  BY DEF Manifests
<1>5. k.pos[i] \in Nat
  BY <1>3 DEF Manifests
<1> HIDE DEF k
<1>6. ASSUME NEW a \in k.snaps, NEW b \in k.snaps, k.pos[a] <= k.pos[b]
      PROVE  at[a] <= at[b]
  <2>1. CASE a \in m.snaps /\ b \in m.snaps
    BY <1>2, <1>6, <2>1 DEF Row
  <2>2. CASE b = i
    BY <1>3, <1>4, <2>2
  <2>3. CASE a = i /\ b \in m.snaps
    BY <1>2, <1>4, <1>5, <1>6, <2>3
  <2> QED
    BY <1>3, <2>1, <2>2, <2>3
<1>7. Row(k, at, next)
  BY <1>2, <1>3, <1>6 DEF Row
<1> QED
  BY <1>7 DEF k

\* Sorting makes a row of any list with a place for each.
LEMMA RowSorted ==
    ASSUME NEW m \in Manifests, NEW d \in Descriptors, NEW next,
           \A i, j \in m.snaps : m.pos[i] = m.pos[j] => i = j,
           \A i \in m.snaps : i < next, m.fin \subseteq m.snaps, m.pinned = {}
    PROVE  Row(SortByStep(m, d), d.step, next)
<1> DEFINE k == SortByStep(m, d)
<1>1. /\ k.snaps = m.snaps /\ k.fin = m.fin /\ k.pinned = m.pinned
  BY SortIsManifest DEF SortByStep, Manifests
<1>2. /\ Placed(k)
      /\ \A i, j \in m.snaps :
                k.pos[i] <= k.pos[j] <=>
                    \/ d.step[i] < d.step[j]
                    \/ d.step[i] = d.step[j] /\ m.pos[i] <= m.pos[j]
  BY SortOrder
<1>3. \A i \in m.snaps : d.step[i] \in Nat
  BY DEF Manifests, Descriptors
<1> HIDE DEF k
<1>4. Row(k, d.step, next)
  BY <1>1, <1>2, <1>3 DEF Row
<1> QED
  BY <1>4 DEF k

-----------------------------------------------------------------------------
(* The save, as rank 0 sees it.                                            *)

\* Kinds, for the steps below.
LEMMA KindFacts ==
    ASSUME Kinds
    PROVE  /\ 0 \in Ranks
           /\ None \notin SnapIds
           /\ SnapIds \subseteq Nat
           /\ nextId \in Nat
           /\ step \in Nat /\ acked \in Nat
           /\ desc \in Descriptors
           /\ desc.step \in [SnapIds -> Nat]
           /\ desc.base \in [SnapIds -> SnapIds \cup {None}]
           /\ index \in Manifests
           /\ \A r \in Ranks : mem[r] \in Manifests
           /\ Ours \in Manifests
           /\ Ours.snaps \subseteq SnapIds /\ Ours.fin \subseteq SnapIds
           /\ index.snaps \subseteq SnapIds /\ index.fin \subseteq SnapIds
           /\ save.base \in SnapIds \cup {None}
           /\ save.id \in SnapIds \cup {None}
           /\ Mine.claim \subseteq SnapIds
<1>1. 0 \in Ranks /\ None \notin SnapIds /\ SnapIds \subseteq Nat
  BY MultiRankAssumption, ManifestAssumption DEF SnapIds, None
<1>2. /\ nextId \in Nat /\ step \in Nat /\ acked \in Nat
  BY ManifestAssumption DEF Kinds, Saves, RankSaves, Mergers
<1>3. /\ desc \in Descriptors
      /\ desc.step \in [SnapIds -> Nat] /\ desc.base \in [SnapIds -> SnapIds \cup {None}]
  BY DEF Kinds, Saves, RankSaves, Mergers, Descriptors
<1>4. /\ index \in Manifests /\ \A r \in Ranks : mem[r] \in Manifests
      /\ Ours \in Manifests
  BY <1>1 DEF Kinds, Saves, RankSaves, Mergers, Ours
<1>5. /\ Ours.snaps \subseteq SnapIds /\ Ours.fin \subseteq SnapIds
      /\ index.snaps \subseteq SnapIds /\ index.fin \subseteq SnapIds
  BY <1>4 DEF Manifests
<1>6. /\ save.base \in SnapIds \cup {None} /\ save.id \in SnapIds \cup {None}
  BY DEF Kinds, Saves, RankSaves, Mergers
<1>7. Mine.claim \subseteq SnapIds
  BY <1>1 DEF Kinds, Saves, RankSaves, Mergers, Mine
<1> QED
  BY <1>1, <1>2, <1>3, <1>4, <1>5, <1>6, <1>7

\* The list of rank 0 and the index, for the steps below.
LEMMA ListFacts ==
    ASSUME Kinds, ListsInv
    PROVE  /\ Row(Ours, desc.step, nextId) /\ Row(index, desc.step, nextId)
           /\ Placed(Ours) /\ Placed(index)
           /\ Ours.fin \subseteq Ours.snaps /\ index.fin \subseteq index.snaps
           /\ Ours.pinned = {} /\ index.pinned = {}
           /\ \A i \in Ours.snaps \cup index.snaps : i < nextId
           /\ \A i, j \in Ours.snaps : Ours.pos[i] <= Ours.pos[j] => desc.step[i] <= desc.step[j]
           /\ \A i, j \in index.snaps : index.pos[i] <= index.pos[j] => desc.step[i] <= desc.step[j]
           /\ \A i \in Ours.fin \cup index.fin : IsWhole(i)
           /\ \A i \in Ours.snaps \ overtaken : desc.base[i] \in Ours.fin \cup {None}
           /\ \A i \in index.snaps \ overtaken : desc.base[i] \in index.fin \cup {None}
           /\ \A i \in SnapIds, r \in Ranks : over[i][r] \notin OpenIn(Ours) \cup OpenIn(index)
<1>1. Row(Ours, desc.step, nextId) /\ Row(index, desc.step, nextId)
  BY KindFacts DEF ListsInv, Ours
<1>2. /\ Chained(index, packs, desc.base, over, overtaken)
      /\ Chained(Ours, packs, desc.base, over, overtaken)
  BY DEF ListsInv
<1> QED
  BY <1>1, <1>2 DEF Row, Chained, IsWhole

\* The base is chosen: it is finalized, and no merge has claimed it.
LEMMA ChoosesBaseKeeps ==
    ASSUME SharedInv, ChoosesBase
    PROVE  SharedInv'
<1> DEFINE full == LastFull(mem[0], desc)
<1>1. /\ save = NoSave /\ step' = step + 1
      /\ save' = [at |-> "chosen", id |-> None, base |-> save'.base, gone |-> {}]
      /\ save'.base \in {None, full}
      /\ UNCHANGED <<packs, index, desc, over, nextId, mem, rank, merger, want, acked, overtaken>>
  BY DEF ChoosesBase, NoSave, SharedInv, SaveInv
<1>2. /\ full \in mem[0].fin \cup {None}
      /\ full # None => desc.base[full] = None
  BY KindFacts, LookUps DEF SharedInv, Ours
<1>3. Kinds'
  <2>1. save'.base \in SnapIds \cup {None}
    BY <1>1, <1>2, KindFacts DEF SharedInv, Ours
  <2> QED
    BY <1>1, <2>1 DEF SharedInv, Kinds, Saves, RankSaves, Mergers
<1>4. OthersRest' /\ NamesInv'
  BY <1>1, KindFacts DEF SharedInv, OthersRest, NamesInv
<1>5. ListsInv'
  BY <1>1 DEF SharedInv, ListsInv, Listing, Ours
<1>6. SaveInv'
  <2>1. Ours' = Ours /\ Mine' = Mine
    BY <1>1 DEF Ours, Mine
  <2>2. full # None => /\ full < nextId /\ full \in Ours.snaps /\ full \notin OpenIn(Ours)
    BY <1>2, ListFacts DEF SharedInv, Ours, OpenIn
  <2>3. None \notin OpenIn(Ours)
    BY KindFacts DEF SharedInv, OpenIn
  <2>4. \A i \in SnapIds : desc.step[i] < step + 1
    BY KindFacts DEF SharedInv, NamesInv
  <2>5. full # None => full \in SnapIds
    BY <2>2, KindFacts DEF SharedInv
  <2>6. Saving' => /\ save'.base # None => /\ save'.base < nextId
                                          /\ desc.base[save'.base] = None
                                          /\ desc.step[save'.base] < step'
                   /\ save'.base \notin OpenIn(Ours)
    BY <1>1, <1>2, <2>2, <2>3, <2>4, <2>5
  <2>7. \A i \in Ours.snaps : desc.step[i] < step'
    BY <1>1, <2>4, KindFacts DEF SharedInv
  <2> QED
    BY <1>1, <2>1, <2>6, <2>7 DEF SaveInv, Listing
<1>7. RanksInv'
  BY <1>1 DEF SharedInv, RanksInv, NoSave
<1>8. MergeInv'
  <2>1. Ours' = Ours /\ Mine' = Mine
    BY <1>1 DEF Ours, Mine
  <2>2. Writing => save'.base # Mine.id /\ desc.step[Mine.id] < step'
    BY <1>1, <1>2, KindFacts DEF SharedInv, MergeInv, NamesInv, ListsInv, Row, Ours
  <2> QED
    BY <1>1, <2>1, <2>2 DEF SharedInv, MergeInv, Writing
<1> QED
  BY <1>3, <1>4, <1>5, <1>6, <1>7, <1>8 DEF SharedInv

\* The snapshot is listed: last, with a base that is finalized unless a merge
\* was faster.
LEMMA ListsKeeps ==
    ASSUME SharedInv, Lists
    PROVE  SharedInv'
<1> DEFINE k == Push(Ours, nextId, FALSE)
<1>1. /\ save.at = "chosen" /\ nextId \in SnapIds /\ nextId' = nextId + 1
      /\ desc' = [step |-> [desc.step EXCEPT ![nextId] = step],
                  base |-> [desc.base EXCEPT ![nextId] = save.base]]
      /\ mem' = [mem EXCEPT ![0] = k]
      /\ overtaken' \in {overtaken, overtaken \cup {nextId}}
      /\ nextId \notin overtaken' => save.base \notin Mine.claim /\ save.base \in Ours.snaps \cup {None}
      /\ \/ index' = k /\ save' = [save EXCEPT !.at = "open", !.id = nextId]
         \/ index' = index /\ save' = NoSave
      /\ UNCHANGED <<packs, over, rank, merger, want, step, acked>>
  <2>1. 0 \in Ranks /\ mem \in [Ranks -> Manifests]
    BY KindFacts DEF SharedInv, Kinds, Saves, RankSaves, Mergers
  <2>2. /\ save.at = "chosen" /\ nextId \in SnapIds /\ nextId' = nextId + 1
        /\ desc' = [step |-> [desc.step EXCEPT ![nextId] = step],
                  base |-> [desc.base EXCEPT ![nextId] = save.base]]
        /\ UNCHANGED <<packs, over, rank, merger, want, step, acked>>
    BY DEF Lists, Fresh
  <2>3. mem' = [mem EXCEPT ![0] = k] /\ mem'[0] = k
    BY <2>1 DEF Lists, Ours
  <2>4. /\ overtaken' \in {overtaken, overtaken \cup {nextId}}
        /\ nextId \notin overtaken' => save.base \notin Mine.claim /\ save.base \in Ours.snaps \cup {None}
    BY DEF Lists, Mine, Ours
  <2>5. \/ index' = k /\ save' = [save EXCEPT !.at = "open", !.id = nextId]
        \/ index' = index /\ save' = NoSave
    BY <2>3 DEF Lists
  <2> QED
    BY <2>2, <2>3, <2>4, <2>5
<1>2. Kinds /\ NamesInv /\ ListsInv /\ SaveInv /\ RanksInv /\ MergeInv
  BY DEF SharedInv
<1>3. nextId \notin Ours.snaps \cup index.snaps
  BY <1>1, <1>2, ListFacts, KindFacts
<1>4. /\ k \in Manifests /\ k.snaps = Ours.snaps \cup {nextId} /\ k.fin = Ours.fin
      /\ OpenIn(k) = OpenIn(Ours) \cup {nextId}
  <2>1. FALSE \in BOOLEAN
    OBVIOUS
  <2>2. k \in Manifests /\ k.snaps = Ours.snaps \cup {nextId} /\ k.fin = Ours.fin
    <3> HIDE DEF k
    <3> QED
      BY <1>1, <1>2, <2>1, KindFacts, PushIsManifest DEF k
  <2> QED
    BY <1>2, <1>3, <2>2, ListFacts DEF OpenIn
<1>5. /\ desc'.step \in [SnapIds -> Nat] /\ desc'.base \in [SnapIds -> SnapIds \cup {None}]
      /\ desc'.step[nextId] = step /\ desc'.base[nextId] = save.base
      /\ \A i \in SnapIds \ {nextId} : desc'.step[i] = desc.step[i] /\ desc'.base[i] = desc.base[i]
      /\ desc' \in Descriptors
  BY <1>1, <1>2, KindFacts DEF Descriptors
<1>6. /\ save.base # None => /\ save.base < nextId /\ desc.base[save.base] = None
                             /\ desc.step[save.base] < step
      /\ save.base \notin OpenIn(Ours)
      /\ \A i \in Ours.snaps : desc.step[i] < step
  BY <1>1, <1>2 DEF SaveInv, Saving
<1>7. Ours' = k /\ Mine' = Mine
  BY <1>1, <1>2, KindFacts DEF Ours, Mine, Kinds, Saves, RankSaves, Mergers
<1> HIDE DEF k
<1>8. Kinds'
  <2>1. nextId' \in 1 .. MaxIds + 1
    BY <1>1, <1>2, ManifestAssumption DEF Kinds, Saves, RankSaves, Mergers, SnapIds
  <2>2. mem' \in [Ranks -> Manifests] /\ index' \in Manifests
    BY <1>1, <1>2, <1>4, KindFacts DEF Kinds, Saves, RankSaves, Mergers
  <2>3. overtaken' \subseteq SnapIds
    BY <1>1, <1>2 DEF Kinds, Saves, RankSaves, Mergers
  <2>4. save' \in Saves
    <3>1. CASE save' = NoSave
      BY <3>1 DEF NoSave, Saves
    <3>2. CASE save' = [save EXCEPT !.at = "open", !.id = nextId]
      BY <1>1, <1>2, <3>2 DEF Kinds, Saves
    <3> QED
      BY <1>1, <3>1, <3>2
  <2> QED
    BY <1>1, <1>2, <1>5, <2>1, <2>2, <2>3, <2>4 DEF Kinds, Saves, RankSaves, Mergers
<1>9. OthersRest'
  BY <1>1 DEF SharedInv, OthersRest
<1>10. NamesInv'
  <2>1. \A i \in SnapIds : i >= nextId' => i >= nextId /\ i # nextId
    BY <1>1, <1>2, KindFacts
  <2>2. ASSUME NEW i \in SnapIds, desc'.base[i] # None
        PROVE  /\ desc'.base[i] < nextId'
               /\ desc'.base[desc'.base[i]] = None
               /\ desc'.step[desc'.base[i]] < desc'.step[i]
    <3>1. CASE i = nextId
      <4>1. save.base \in SnapIds /\ save.base < nextId /\ save.base # nextId
        BY <1>2, <1>5, <1>6, <2>2, <3>1, KindFacts
      <4> QED
        BY <1>1, <1>2, <1>5, <1>6, <2>2, <3>1, <4>1, KindFacts
    <3>2. CASE i # nextId
      <4>1. desc.base[i] \in SnapIds /\ desc.base[i] < nextId /\ desc.base[i] # nextId
        BY <1>2, <1>5, <2>2, <3>2, KindFacts DEF NamesInv
      <4> QED
        BY <1>1, <1>2, <1>5, <2>2, <3>2, <4>1, KindFacts DEF NamesInv
    <3> QED
      BY <3>1, <3>2
  <2>3. \A r \in Ranks : over[nextId][r] = None /\ <<nextId, r>> \notin packs
    BY <1>1, <1>2, KindFacts DEF NamesInv
  <2>4. \A i \in SnapIds : over[i][0] \in {None, desc'.base[i]}
    BY <1>1, <1>2, <1>5, <2>3, KindFacts DEF NamesInv
  <2>5. \A i \in SnapIds, r \in Ranks : over[i][r] < nextId'
    <3>1. \A i \in SnapIds, r \in Ranks : over[i][r] \in Nat
      BY <1>2, KindFacts DEF Kinds, Saves, RankSaves, Mergers, None
    <3> QED
      BY <1>1, <1>2, <3>1, KindFacts DEF NamesInv
  <2>6. \A i \in SnapIds \ overtaken', r \in Ranks : <<i, r>> \in packs => over[i][r] = desc'.base[i]
    BY <1>1, <1>2, <1>5, <2>3 DEF NamesInv
  <2>7. \A i \in overtaken' : i < nextId'
    BY <1>1, <1>2, KindFacts DEF NamesInv, Kinds, Saves, RankSaves, Mergers
  <2>8. \A i \in SnapIds : desc'.step[i] <= step
    BY <1>1, <1>2, <1>5, KindFacts DEF NamesInv
  <2> QED
    BY <1>1, <1>2, <1>5, <2>1, <2>2, <2>4, <2>5, <2>6, <2>7, <2>8 DEF NamesInv
<1>11. ListsInv'
  <2>1. nextId \in Nat /\ nextId' \in Nat /\ nextId <= nextId' /\ nextId < nextId'
    BY <1>1, <1>2, KindFacts
  <2>2. \A m \in Manifests : Row(m, desc.step, nextId) => Row(m, desc'.step, nextId')
    <3>1. ASSUME NEW m \in Manifests, Row(m, desc.step, nextId)
          PROVE  \A i \in m.snaps : desc'.step[i] = desc.step[i]
      <4>1. \A i \in m.snaps : i \in SnapIds \ {nextId}
        BY <2>1, <3>1 DEF Row, Manifests
      <4> QED
        BY <1>5, <4>1
    <3> QED
      BY <2>1, <3>1, RowStays
  <2>3. Row(k, desc'.step, nextId')
    <3>1. Row(Ours, desc'.step, nextId')
      BY <1>2, <2>2, KindFacts, ListFacts
    <3>2. \A j \in Ours.snaps : desc'.step[j] <= desc'.step[nextId]
      BY <1>2, <1>3, <1>5, <1>6, KindFacts
    <3>3. FALSE \in BOOLEAN /\ nextId \in SnapIds \ Ours.snaps
      BY <1>1, <1>3
    <3> QED
      BY <1>2, <1>5, <2>1, <3>1, <3>2, <3>3, KindFacts, RowPushed DEF k
  <2>4. Row(index', desc'.step, nextId')
    BY <1>1, <1>2, <2>2, <2>3, KindFacts, ListFacts
  <2>5. \A r \in Ranks : Row(mem'[r], desc'.step, nextId')
    BY <1>1, <1>2, <2>2, <2>3, KindFacts DEF ListsInv, Kinds, Saves, RankSaves, Mergers
  <2>6. \A i \in Ours.snaps \cup index.snaps : desc'.base[i] = desc.base[i]
    BY <1>2, <1>3, <1>5, KindFacts
  <2>7. Chained(k, packs, desc'.base, over, overtaken')
    <3>1. \A i \in SnapIds, r \in Ranks : over[i][r] # nextId
      BY <1>2, KindFacts DEF NamesInv
    <3>2. \A i \in SnapIds, r \in Ranks : over[i][r] \notin OpenIn(k)
      BY <1>2, <1>4, <3>1, ListFacts
    <3>3. \A i \in k.snaps \ overtaken' : desc'.base[i] \in k.fin \cup {None}
      <4>1. CASE nextId \notin overtaken'
        <5>1. save.base \in Ours.fin \cup {None}
          BY <1>1, <1>6, <4>1 DEF OpenIn
        <5> QED
          BY <1>1, <1>2, <1>4, <1>5, <2>6, <5>1, ListFacts
      <4>2. CASE nextId \in overtaken'
        BY <1>1, <1>2, <1>4, <2>6, <4>2, ListFacts
      <4> QED
        BY <4>1, <4>2
    <3> QED
      BY <1>2, <1>4, <3>2, <3>3, ListFacts DEF Chained, IsWhole
  <2>8. Chained(index, packs, desc'.base, over, overtaken')
    BY <1>1, <1>2, <2>6, ListFacts DEF Chained, IsWhole
  <2>9. Chained(index', packs, desc'.base, over, overtaken')
    BY <1>1, <2>7, <2>8
  <2>10. Listing' \/ save'.at = "unlink" => Ours' = index'
    BY <1>1, <1>7 DEF Listing, NoSave
  <2> QED
    BY <1>1, <1>7, <2>4, <2>5, <2>7, <2>9, <2>10 DEF ListsInv
<1>12. SaveInv'
  <2>1. CASE save' = NoSave
    BY <2>1 DEF SaveInv, Saving, Listing, NoSave
  <2>2. CASE save' = [save EXCEPT !.at = "open", !.id = nextId]
    <3>1. save'.at = "open" /\ save'.id = nextId /\ save'.base = save.base
      BY <1>2, <2>2 DEF Kinds, Saves, RankSaves, Mergers
    <3>2. nextId \notin Mine.claim /\ save.base \notin OpenIn(k)
      BY <1>1, <1>2, <1>4, <1>6, KindFacts DEF MergeInv
    <3>3. \A i \in k.snaps \ {nextId} : desc'.step[i] < step
      BY <1>2, <1>3, <1>4, <1>5, <1>6, KindFacts
    <3>4. save.base # None => /\ save.base < nextId' /\ desc'.base[save.base] = None
                              /\ desc'.step[save.base] < step
      <4>1. save.base # None => save.base \in SnapIds \ {nextId}
        BY <1>2, <1>6, KindFacts
      <4> QED
        BY <1>1, <1>2, <1>5, <1>6, <4>1, KindFacts
    <3>5. nextId < nextId'
      BY <1>1, <1>2, KindFacts
    <3> QED
      BY <1>1, <1>4, <1>5, <1>7, <3>1, <3>2, <3>3, <3>4, <3>5 DEF SaveInv, Saving, Listing
  <2> QED
    BY <1>1, <2>1, <2>2
<1>13. RanksInv'
  BY <1>1, <1>2 DEF RanksInv
<1>14. MergeInv'
  <2>1. nextId \notin Mine.claim /\ \A i \in Mine.claim : i < nextId'
    BY <1>1, <1>2, KindFacts DEF MergeInv
  <2>2. save'.base \in {save.base, None} /\ (Saving' => save'.base = save.base) /\ save'.at # "unlink"
    <3>1. CASE save' = NoSave
      BY <3>1 DEF NoSave, Saving
    <3>2. CASE save' = [save EXCEPT !.at = "open", !.id = nextId]
      BY <1>1, <1>2, <3>2 DEF Kinds, Saves, RankSaves, Mergers, Saving
    <3> QED
      BY <1>1, <3>1, <3>2
  <2>3. index'.snaps \subseteq index.snaps \cup k.snaps
    BY <1>1
  <2>4. CASE Writing
    <3>1. /\ Mine.id \in SnapIds /\ Mine.id < nextId /\ Mine.id # nextId
          /\ desc'.base[Mine.id] = None /\ desc'.step[Mine.id] = desc.step[Mine.id]
      BY <1>1, <1>2, <1>5, <2>4, KindFacts DEF MergeInv
    <3>2. save.base # Mine.id /\ desc.step[Mine.id] < step
      BY <1>1, <1>2, <2>4 DEF MergeInv, Saving
    <3>3. \A i \in SnapIds : desc'.base[i] # Mine.id
      BY <1>1, <1>2, <1>5, <2>4, <3>2 DEF MergeInv
    <3>4. \A i \in Mine.claim : desc'.step[i] <= desc'.step[Mine.id]
      BY <1>1, <1>2, <1>5, <2>1, <2>4, <3>1, KindFacts DEF MergeInv
    <3>5. Mine.claim \cap OpenIn(k) = {}
      BY <1>2, <1>4, <2>1, <2>4 DEF MergeInv
    <3>6. \A i \in k.snaps \ (Mine.claim \cup overtaken') : desc'.base[i] \notin Mine.claim
      <4>1. ASSUME NEW i \in k.snaps \ (Mine.claim \cup overtaken')
            PROVE  desc'.base[i] \notin Mine.claim
        <5>1. CASE i = nextId
          BY <1>1, <1>5, <4>1, <5>1
        <5>2. CASE i # nextId
          <6>1. i \in Ours.snaps \ (Mine.claim \cup overtaken)
            BY <1>1, <1>4, <4>1, <5>2
          <6>2. desc'.base[i] = desc.base[i]
            BY <1>2, <1>5, <5>2, <6>1, KindFacts
          <6> QED
            BY <1>2, <2>4, <6>1, <6>2 DEF MergeInv
        <5> QED
          BY <5>1, <5>2
      <4> QED
        BY <4>1
    <3>7. Mine.id \notin k.snaps \cup index'.snaps \cup Mine.claim \cup overtaken'
      BY <1>1, <1>2, <1>4, <2>3, <2>4, <3>1 DEF MergeInv
    <3>8. /\ \A r \in Ranks : over[Mine.id][r] = None
          /\ \A r \in Ranks \ Mine.left : <<Mine.id, r>> \in packs
      BY <1>2, <2>4 DEF MergeInv
    <3>9. Mine.id < nextId'
      BY <1>1, <1>2, <3>1, KindFacts
    <3> QED
      BY <1>1, <1>7, <2>1, <2>2, <2>4, <3>1, <3>2, <3>3, <3>4, <3>5, <3>6, <3>7, <3>8, <3>9
         DEF MergeInv, Writing
  <2>5. CASE ~Writing
    <3>1. Mine.at = "unlink" => Mine.claim \cap (k.snaps \cup index'.snaps) = {}
      BY <1>2, <1>4, <2>1, <2>3 DEF MergeInv
    <3> QED
      BY <1>2, <1>7, <2>1, <2>5, <3>1 DEF MergeInv, Writing
  <2> QED
    BY <2>4, <2>5
<1> QED
  BY <1>8, <1>9, <1>10, <1>11, <1>12, <1>13, <1>14 DEF SharedInv

\* A rank reads the index: it finds the base of the snapshot, or nothing when
\* a merge was faster.
LEMMA StartsRankKeeps ==
    ASSUME SharedInv, NEW r \in Ranks, StartsRank(r)
    PROVE  SharedInv'
<1>1. Kinds /\ NamesInv /\ ListsInv /\ SaveInv /\ RanksInv /\ MergeInv
  BY DEF SharedInv
<1>2. /\ save.at = "open" /\ rank[r].at = "idle"
      /\ mem' = [mem EXCEPT ![r] = index]
      /\ UNCHANGED <<packs, index, desc, over, nextId, save, merger, want, step, acked, overtaken>>
  BY DEF StartsRank
<1>3. /\ Ours = index /\ save.id \in index.snaps /\ desc.base[save.id] = save.base
      /\ save.id \in SnapIds
  BY <1>1, <1>2, KindFacts DEF ListsInv, SaveInv, Saving, Listing, OpenIn
<1>4. /\ rank' = [rank EXCEPT ![r] = [at |-> "writing",
                    base |-> IF save.base \in index.snaps THEN save.base ELSE None]]
  BY <1>2, <1>3 DEF StartsRank
<1>5. Ours' = Ours /\ Mine' = Mine /\ OthersRest'
  <2>1. mem'[0] = mem[0]
    BY <1>1, <1>2, <1>3, KindFacts DEF Kinds, Saves, RankSaves, Mergers, Ours
  <2> QED
    BY <1>2, <2>1 DEF Ours, Mine, SharedInv, OthersRest
<1>6. Kinds'
  <2>1. mem' \in [Ranks -> Manifests]
    BY <1>1, <1>2 DEF Kinds, Saves, RankSaves, Mergers
  <2>2. rank' \in [Ranks -> RankSaves]
    BY <1>1, <1>4, KindFacts DEF Kinds, Saves, RankSaves, Mergers
  <2> QED
    BY <1>1, <1>2, <2>1, <2>2 DEF Kinds, Saves, RankSaves, Mergers
<1>7. NamesInv' /\ SaveInv' /\ MergeInv'
  BY <1>1, <1>2, <1>5 DEF NamesInv, SaveInv, MergeInv, Saving, Listing, Writing
<1>8. ListsInv'
  <2>1. \A q \in Ranks : mem'[q] \in {mem[q], index}
    BY <1>1, <1>2 DEF Kinds, Saves, RankSaves, Mergers
  <2>2. \A q \in Ranks : Row(mem'[q], desc.step, nextId)
    BY <1>1, <2>1 DEF ListsInv
  <2> QED
    BY <1>1, <1>2, <1>5, <2>2 DEF ListsInv, Listing
<1>9. RanksInv'
  <2>1. save.id \notin overtaken => save.base \in index.snaps \cup {None}
    BY <1>1, <1>3, ListFacts
  <2>2. ASSUME NEW q \in Ranks
        PROVE  /\ rank'[q].at # "idle" => save.at = "open"
               /\ rank'[q].at = "saved" => <<save.id, q>> \in packs
               /\ rank'[q].at = "writing" => /\ rank'[q].base \in {None, save.base}
                                             /\ save.id \notin overtaken => rank'[q].base = save.base
    <3>1. CASE q = r
      <4>1. /\ rank'[q].at = "writing"
            /\ rank'[q].base = IF save.base \in index.snaps THEN save.base ELSE None
        BY <1>1, <1>4, <3>1 DEF Kinds, Saves, RankSaves, Mergers
      <4> QED
        BY <1>2, <2>1, <4>1
    <3>2. CASE q # r
      <4>1. rank'[q] = rank[q]
        BY <1>1, <1>4, <3>2 DEF Kinds, Saves, RankSaves, Mergers
      <4> QED
        BY <1>1, <4>1 DEF RanksInv
    <3> QED
      BY <3>1, <3>2
  <2> QED
    BY <1>2, <2>2 DEF RanksInv
<1> QED
  BY <1>5, <1>6, <1>7, <1>8, <1>9 DEF SharedInv

\* A pack is written, against what the rank found.
LEMMA WritesPackKeeps ==
    ASSUME SharedInv, NEW r \in Ranks, WritesPack(r)
    PROVE  SharedInv'
<1>1. Kinds /\ NamesInv /\ ListsInv /\ SaveInv /\ RanksInv /\ MergeInv
  BY DEF SharedInv
<1>2. /\ rank[r].at = "writing"
      /\ packs' = packs \cup {<<save.id, r>>}
      /\ over' = [over EXCEPT ![save.id][r] = rank[r].base]
      /\ rank' = [rank EXCEPT ![r].at = "saved"]
      /\ UNCHANGED <<index, desc, nextId, mem, save, merger, want, step, acked, overtaken>>
  BY DEF WritesPack
<1>3. /\ save.at = "open" /\ Saving /\ Listing
      /\ rank[r].base \in {None, save.base}
      /\ save.id \notin overtaken => rank[r].base = save.base
  BY <1>1, <1>2 DEF RanksInv, Saving, Listing
<1>4. /\ Ours = index /\ save.id \in Ours.snaps /\ desc.base[save.id] = save.base
      /\ save.id \in SnapIds /\ save.id < nextId
      /\ save.base # None => save.base < nextId
      /\ save.base \notin OpenIn(Ours)
  BY <1>1, <1>3, KindFacts, ListFacts DEF ListsInv, SaveInv, OpenIn
<1>5. Ours' = Ours /\ Mine' = Mine /\ OthersRest'
  BY <1>2 DEF Ours, Mine, SharedInv, OthersRest
<1>6. /\ rank[r].base \in SnapIds \cup {None}
      /\ \A i \in SnapIds, q \in Ranks :
            over'[i][q] = IF i = save.id /\ q = r THEN rank[r].base ELSE over[i][q]
      /\ over' \in [SnapIds -> [Ranks -> SnapIds \cup {None}]]
  BY <1>1, <1>2, <1>4 DEF Kinds, Saves, RankSaves, Mergers
<1>7. Kinds'
  <2>1. rank' \in [Ranks -> RankSaves]
    <3>1. rank \in [Ranks -> RankSaves]
      BY <1>1 DEF Kinds
    <3> QED
      BY <1>2, <3>1 DEF RankSaves
  <2>2. packs' \subseteq SnapIds \X Ranks
    BY <1>1, <1>2, <1>4 DEF Kinds, Saves, RankSaves, Mergers
  <2> QED
    BY <1>1, <1>2, <1>6, <2>1, <2>2 DEF Kinds, Saves, RankSaves, Mergers
<1>8. NamesInv'
  <2>1. ASSUME NEW i \in SnapIds, i >= nextId, NEW q \in Ranks
        PROVE  over'[i][q] = None /\ <<i, q>> \notin packs'
    <3>1. i # save.id
      BY <1>1, <1>4, <2>1, KindFacts
    <3> QED
      BY <1>1, <1>2, <1>6, <2>1, <3>1 DEF NamesInv
  <2>2. \A i \in SnapIds : over'[i][0] \in {None, desc.base[i]}
    BY <1>1, <1>3, <1>4, <1>6, KindFacts DEF NamesInv
  <2>3. \A i \in SnapIds, q \in Ranks : over'[i][q] < nextId
    <3>1. rank[r].base < nextId
      <4>1. None < nextId
        BY <1>1 DEF Kinds, Saves, RankSaves, Mergers, None
      <4> QED
        BY <1>3, <1>4, <4>1
    <3> QED
      BY <1>1, <1>6, <3>1 DEF NamesInv
  <2>4. ASSUME NEW i \in SnapIds \ overtaken, NEW q \in Ranks, <<i, q>> \in packs'
        PROVE  over'[i][q] = desc.base[i]
    <3>1. CASE i = save.id /\ q = r
      BY <1>3, <1>4, <1>6, <2>4, <3>1
    <3>2. CASE ~(i = save.id /\ q = r)
      <4>1. <<i, q>> \in packs
        BY <1>2, <2>4, <3>2
      <4> QED
        BY <1>1, <1>6, <2>4, <3>2, <4>1 DEF NamesInv
    <3> QED
      BY <3>1, <3>2
  <2> QED
    BY <1>1, <1>2, <2>1, <2>2, <2>3, <2>4 DEF NamesInv
<1>9. ListsInv'
  <2>1. \A i \in SnapIds, q \in Ranks : over'[i][q] \notin OpenIn(Ours)
    <3>1. None \notin OpenIn(Ours)
      BY <1>1, KindFacts DEF OpenIn
    <3> QED
      BY <1>1, <1>3, <1>4, <1>6, <3>1, ListFacts
  <2>2. Chained(Ours, packs', desc.base, over', overtaken)
    BY <1>1, <1>2, <2>1, ListFacts DEF Chained, IsWhole
  <2> QED
    BY <1>1, <1>2, <1>4, <1>5, <2>2 DEF ListsInv, Listing
<1>10. SaveInv'
  BY <1>1, <1>2, <1>5 DEF SaveInv, Saving, Listing, IsWhole
<1>11. RanksInv'
  <2>1. ASSUME NEW q \in Ranks
        PROVE  /\ rank'[q].at # "idle" => save.at = "open"
               /\ rank'[q].at = "saved" => <<save.id, q>> \in packs'
               /\ rank'[q].at = "writing" => /\ rank'[q].base \in {None, save.base}
                                             /\ save.id \notin overtaken => rank'[q].base = save.base
    <3>1. CASE q = r
      <4>1. rank'[q].at = "saved" /\ <<save.id, q>> \in packs'
        BY <1>1, <1>2, <3>1 DEF Kinds, Saves, RankSaves, Mergers
      <4> QED
        BY <1>3, <4>1
    <3>2. CASE q # r
      <4>1. rank'[q] = rank[q]
        BY <1>1, <1>2, <3>2 DEF Kinds, Saves, RankSaves, Mergers
      <4> QED
        BY <1>1, <1>2, <4>1 DEF RanksInv
    <3> QED
      BY <3>1, <3>2
  <2> QED
    BY <1>2, <2>1 DEF RanksInv
<1>12. MergeInv'
  <2>1. Writing => /\ \A q \in Ranks : over'[Mine.id][q] = None
                   /\ \A q \in Ranks \ Mine.left : <<Mine.id, q>> \in packs'
    BY <1>1, <1>2, <1>4, <1>6 DEF MergeInv
  <2> QED
    BY <1>1, <1>2, <1>5, <2>1 DEF MergeInv, Writing, Saving
<1> QED
  BY <1>5, <1>7, <1>8, <1>9, <1>10, <1>11, <1>12 DEF SharedInv

\* A rank gives up.
LEMMA FailsRankKeeps ==
    ASSUME SharedInv, NEW r \in Ranks, FailsRank(r)
    PROVE  SharedInv'
<1>1. Kinds /\ NamesInv /\ ListsInv /\ SaveInv /\ RanksInv /\ MergeInv
  BY DEF SharedInv
<1>2. /\ rank[r].at = "writing"
      /\ rank' = [rank EXCEPT ![r] = [at |-> "failed", base |-> None]]
      /\ UNCHANGED <<packs, index, desc, over, nextId, mem, save, merger, want, step,
                     acked, overtaken>>
  <2>1. [NoRank EXCEPT !.at = "failed"] = [at |-> "failed", base |-> None]
    BY DEF NoRank
  <2> QED
    BY <2>1 DEF FailsRank
<1>3. Ours' = Ours /\ Mine' = Mine /\ OthersRest'
  BY <1>2 DEF Ours, Mine, SharedInv, OthersRest
<1>4. Kinds'
  <2>1. rank' \in [Ranks -> RankSaves]
    BY <1>1, <1>2 DEF Kinds, Saves, RankSaves, Mergers
  <2> QED
    BY <1>1, <1>2, <2>1 DEF Kinds, Saves, RankSaves, Mergers
<1>5. NamesInv' /\ ListsInv' /\ SaveInv' /\ MergeInv'
  <2>1. NamesInv' /\ ListsInv'
    BY <1>1, <1>2, <1>3 DEF NamesInv, ListsInv, Listing
  <2>2. SaveInv'
    BY <1>1, <1>2, <1>3 DEF SaveInv, Saving, Listing, IsWhole
  <2>3. MergeInv'
    BY <1>1, <1>2, <1>3 DEF MergeInv, Saving, Writing
  <2> QED
    BY <2>1, <2>2, <2>3
<1>6. RanksInv'
  <2>1. \A q \in Ranks : rank'[q] = IF q = r THEN [at |-> "failed", base |-> None] ELSE rank[q]
    BY <1>1, <1>2 DEF Kinds, Saves, RankSaves, Mergers
  <2>2. save.at = "open"
    BY <1>1, <1>2 DEF RanksInv
  <2> QED
    BY <1>1, <1>2, <2>1, <2>2 DEF RanksInv
<1> QED
  BY <1>3, <1>4, <1>5, <1>6 DEF SharedInv

\* The save is given up: its entry stays.
LEMMA AbandonsKeeps ==
    ASSUME SharedInv, Abandons
    PROVE  SharedInv'
<1>1. Kinds /\ NamesInv /\ ListsInv /\ SaveInv /\ RanksInv /\ MergeInv
  BY DEF SharedInv
<1>2. /\ save' = NoSave /\ rank' = [r \in Ranks |-> NoRank]
      /\ UNCHANGED <<packs, index, desc, over, nextId, mem, merger, want, step, acked, overtaken>>
  BY DEF Abandons
<1>3. Ours' = Ours /\ Mine' = Mine /\ OthersRest'
  BY <1>2 DEF Ours, Mine, SharedInv, OthersRest
<1>4. Kinds'
  BY <1>1, <1>2 DEF Kinds, Saves, RankSaves, Mergers, NoSave, NoRank
<1>5. ~Saving' /\ ~Listing' /\ save'.at = "idle" /\ \A r \in Ranks : rank'[r].at = "idle"
  BY <1>2 DEF Saving, Listing, NoSave, NoRank
<1>6. NamesInv' /\ ListsInv' /\ SaveInv' /\ RanksInv' /\ MergeInv'
  BY <1>1, <1>2, <1>3, <1>5 DEF NamesInv, ListsInv, SaveInv, RanksInv, MergeInv, Writing
<1> QED
  BY <1>3, <1>4, <1>6 DEF SharedInv

\* Every rank has written, so the snapshot is whole.
LEMMA CollectsKeeps ==
    ASSUME SharedInv, Collects
    PROVE  SharedInv'
<1>1. Kinds /\ NamesInv /\ ListsInv /\ SaveInv /\ RanksInv /\ MergeInv
  BY DEF SharedInv
<1>2. /\ save.at = "open" /\ \A r \in Ranks : rank[r].at = "saved"
      /\ mem' = [mem EXCEPT ![0] = index]
      /\ save' = [save EXCEPT !.at = "collected"]
      /\ rank' = [r \in Ranks |-> NoRank]
      /\ UNCHANGED <<packs, index, desc, over, nextId, merger, want, step, acked, overtaken>>
  BY DEF Collects
<1>3. Saving /\ Listing /\ Ours = index
  BY <1>1, <1>2 DEF Saving, Listing, ListsInv
<1>4. mem' = mem /\ Ours' = Ours /\ Mine' = Mine /\ OthersRest'
  <2>1. mem' = mem
    BY <1>1, <1>2, <1>3, KindFacts DEF Kinds, Saves, RankSaves, Mergers, Ours
  <2> QED
    BY <1>2, <2>1 DEF Ours, Mine, SharedInv, OthersRest
<1>5. /\ save'.at = "collected" /\ save'.id = save.id /\ save'.base = save.base
      /\ save' \in Saves
      /\ \A r \in Ranks : rank'[r].at = "idle"
  BY <1>1, <1>2 DEF Kinds, Saves, RankSaves, Mergers, NoRank
<1>6. Kinds'
  BY <1>1, <1>2, <1>4, <1>5 DEF Kinds, Saves, RankSaves, Mergers, NoRank
<1>7. IsWhole(save.id)
  BY <1>1, <1>2 DEF RanksInv, IsWhole
<1>8. NamesInv' /\ ListsInv' /\ RanksInv'
  BY <1>1, <1>2, <1>3, <1>4, <1>5 DEF NamesInv, ListsInv, RanksInv, Listing
<1>9. SaveInv'
  BY <1>1, <1>2, <1>3, <1>4, <1>5, <1>7 DEF SaveInv, Saving, Listing, IsWhole
<1>10. MergeInv'
  BY <1>1, <1>2, <1>3, <1>4, <1>5 DEF MergeInv, Saving, Writing
<1> QED
  BY <1>4, <1>6, <1>8, <1>9, <1>10 DEF SharedInv

\* What only asks the merger, or takes a request back, touches nothing else.
LEMMA AsksKeeps ==
    ASSUME SharedInv, NEW r \in Ranks, want[r] # "none" \/ r = 0,
           NEW w \in {"none", "check", "force", "again"}, want' = [want EXCEPT ![r] = w],
           UNCHANGED <<packs, index, desc, over, nextId, mem, save, rank, merger, step,
                       acked, overtaken>>
    PROVE  SharedInv'
<1>1. Kinds /\ NamesInv /\ ListsInv /\ SaveInv /\ RanksInv /\ MergeInv /\ OthersRest
  BY DEF SharedInv
<1>2. r = 0
  BY <1>1 DEF OthersRest
<1>3. Kinds' /\ OthersRest'
  BY <1>1, <1>2 DEF Kinds, Saves, RankSaves, Mergers, OthersRest
<1>4. Ours' = Ours /\ Mine' = Mine
  BY DEF Ours, Mine
<1>5. NamesInv' /\ ListsInv' /\ SaveInv' /\ RanksInv' /\ MergeInv'
  <2>1. NamesInv' /\ ListsInv' /\ RanksInv'
    BY <1>1, <1>4 DEF NamesInv, ListsInv, RanksInv, Listing
  <2>2. SaveInv'
    BY <1>1, <1>4 DEF SaveInv, Saving, Listing, IsWhole
  <2>3. MergeInv'
    BY <1>1, <1>4 DEF MergeInv, Saving, Writing
  <2> QED
    BY <2>1, <2>2, <2>3
<1> QED
  BY <1>3, <1>5 DEF SharedInv

-----------------------------------------------------------------------------
(* Finalizing.                                                             *)

\* The list with the new snapshot finalized, and what retention leaves of it.
LEMMA FinalizedFacts ==
    ASSUME SharedInv, save.at = "collected"
    PROVE  /\ Finalized \in Manifests /\ Placed(Finalized)
           /\ Finalized.snaps = Ours.snaps /\ Finalized.fin = Ours.fin \cup {save.id}
           /\ Finalized.pos = Ours.pos /\ Finalized.pinned = {}
           /\ save.id \in Ours.snaps \ Ours.fin
           /\ Row(Finalized, desc.step, nextId)
           /\ Pruned(Retained(Finalized), Finalized)
           /\ Retained(Finalized) \in Manifests
           /\ Retained(Finalized).snaps \subseteq Ours.snaps
           /\ OpenIn(Retained(Finalized)) \subseteq OpenIn(Ours)
           /\ Row(Retained(Finalized), desc.step, nextId)
           /\ Chained(Retained(Finalized), packs, desc.base, over, overtaken)
<1> DEFINE f == Finalized
           k == Retained(Finalized)
<1>1. Kinds /\ NamesInv /\ ListsInv /\ SaveInv
  BY DEF SharedInv
<1>2. save.id \in Ours.snaps \ Ours.fin /\ save.id \in SnapIds /\ IsWhole(save.id)
      /\ Ours = index
  BY <1>1, KindFacts DEF SaveInv, Listing, OpenIn, ListsInv
<1>3. /\ f \in Manifests /\ f.snaps = Ours.snaps /\ f.fin = Ours.fin \cup {save.id}
      /\ f.pos = Ours.pos /\ f.pinned = Ours.pinned
  <2>1. f = [Ours EXCEPT !.fin = @ \cup {save.id}]
    BY DEF Finalized, Ours
  <2> HIDE DEF f
  <2>2. Ours \in Manifests
    BY <1>1, KindFacts
  <2> QED
    BY <1>2, <2>1, <2>2 DEF Manifests
<1> HIDE DEF f
<1>4. Row(f, desc.step, nextId) /\ Placed(f) /\ f.fin \subseteq f.snaps
  BY <1>1, <1>2, <1>3, ListFacts DEF Row, Placed
<1>5. Pruned(k, f)
  <2>1. Pruned(Retained(f), f)
    BY <1>1, <1>3, <1>4, KindFacts, RetainedIsPruned
  <2> QED
    BY <2>1 DEF f
<1> HIDE DEF k
<1>6. Row(k, desc.step, nextId)
  BY <1>3, <1>4, <1>5, RowPruned
<1>7. k.snaps \subseteq Ours.snaps /\ OpenIn(k) \subseteq OpenIn(Ours) /\ k \in Manifests
  BY <1>3, <1>5 DEF Pruned, OpenIn
<1>8. Chained(k, packs, desc.base, over, overtaken)
  <2>1. \A i \in k.fin : IsWhole(i)
    BY <1>1, <1>2, <1>3, <1>5, ListFacts DEF Pruned
  <2>2. ASSUME NEW i \in k.snaps \ overtaken
        PROVE  desc.base[i] \in k.fin \cup {None}
    <3>1. desc.base[i] \in Ours.fin \cup {None}
      BY <1>1, <1>7, <2>2, ListFacts
    <3>2. desc.base[i] \in Ours.fin => desc.base[i] \in k.snaps /\ desc.base[i] \in f.fin
      BY <1>1, <1>3, <1>5, <2>2, ListFacts DEF Pruned
    <3> QED
      BY <1>5, <3>1, <3>2 DEF Pruned
  <2>3. \A i \in SnapIds, r \in Ranks : over[i][r] \notin OpenIn(k)
    BY <1>1, <1>7, ListFacts
  <2> QED
    BY <2>1, <2>2, <2>3 DEF Chained, IsWhole
<1>9. Ours.pinned = {}
  BY <1>1, ListFacts
<1> QED
  BY <1>2, <1>3, <1>4, <1>5, <1>6, <1>7, <1>8, <1>9 DEF f, k

\* The index gets what retention left; the rest loses its files later.
LEMMA PublishesKeeps ==
    ASSUME SharedInv, Publishes
    PROVE  SharedInv'
<1> DEFINE k == Retained(Finalized)
<1>1. Kinds /\ NamesInv /\ ListsInv /\ SaveInv /\ RanksInv /\ MergeInv /\ OthersRest
  BY DEF SharedInv
<1>2. /\ save.at = "collected"
      /\ mem' = [mem EXCEPT ![0] = k] /\ index' = k
      /\ save' = [save EXCEPT !.at = "unlink", !.gone = Finalized.fin \ k.snaps]
      /\ UNCHANGED <<packs, desc, over, nextId, rank, merger, want, step, acked, overtaken>>
  <2>1. mem' = [mem EXCEPT ![0] = k] /\ mem'[0] = k
    BY <1>1, KindFacts DEF Publishes, Kinds, Saves, RankSaves, Mergers
  <2> QED
    BY <2>1 DEF Publishes, CanFinalize
<1>3. /\ k \in Manifests /\ k.snaps \subseteq Ours.snaps /\ OpenIn(k) \subseteq OpenIn(Ours)
      /\ Row(k, desc.step, nextId) /\ Chained(k, packs, desc.base, over, overtaken)
      /\ Finalized.fin \subseteq Ours.snaps
  BY <1>1, <1>2, FinalizedFacts, ListFacts
<1> HIDE DEF k
<1>4. Ours' = k /\ Mine' = Mine /\ OthersRest'
  BY <1>1, <1>2, KindFacts DEF Ours, Mine, Kinds, Saves, RankSaves, Mergers, OthersRest
<1>5. /\ save'.at = "unlink" /\ save'.id = save.id /\ save'.gone = Finalized.fin \ k.snaps
      /\ save' \in Saves
  <2>1. Finalized.fin \ k.snaps \subseteq SnapIds
    BY <1>1, <1>3, KindFacts
  <2> QED
    BY <1>1, <1>2, <2>1 DEF Kinds, Saves, RankSaves, Mergers
<1>6. Kinds'
  <2>1. mem' \in [Ranks -> Manifests]
    BY <1>1, <1>2, <1>3 DEF Kinds, Saves, RankSaves, Mergers
  <2> QED
    BY <1>1, <1>2, <1>3, <1>5, <2>1 DEF Kinds, Saves, RankSaves, Mergers
<1>7. NamesInv'
  BY <1>1, <1>2 DEF NamesInv
<1>8. ListsInv'
  <2>1. \A r \in Ranks : Row(mem'[r], desc.step, nextId)
    BY <1>1, <1>2, <1>3 DEF ListsInv, Kinds, Saves, RankSaves, Mergers
  <2> QED
    BY <1>2, <1>3, <1>4, <2>1 DEF ListsInv
<1>9. SaveInv'
  <2>1. Saving /\ Listing
    BY <1>2 DEF Saving, Listing
  <2>2. save'.gone \cap k.snaps = {} /\ \A i \in save'.gone : i < nextId
    BY <1>1, <1>3, <1>5, ListFacts
  <2> QED
    BY <1>1, <1>2, <1>4, <1>5, <2>1, <2>2 DEF SaveInv, Saving, Listing
<1>10. RanksInv'
  <2>1. \A r \in Ranks : rank[r].at = "idle"
    BY <1>1, <1>2 DEF RanksInv
  <2> QED
    BY <1>2, <2>1 DEF RanksInv
<1>11. MergeInv'
  <2>1. ~Saving'
    BY <1>5 DEF Saving
  <2>2. Writing => Mine.id \notin save'.gone
    BY <1>1, <1>3, <1>5 DEF MergeInv
  <2>3. Writing => Mine.claim \cap OpenIn(k) = {}
    BY <1>1, <1>3 DEF MergeInv
  <2> QED
    BY <1>1, <1>2, <1>3, <1>4, <2>1, <2>2, <2>3 DEF MergeInv, Writing
<1> QED
  BY <1>4, <1>6, <1>7, <1>8, <1>9, <1>10, <1>11 DEF SharedInv

\* When it cannot, the list in memory is what retention left all the same.
LEMMA FailsToPublishKeeps ==
    ASSUME SharedInv, FailsToPublish
    PROVE  SharedInv'
<1>1. Kinds /\ NamesInv /\ ListsInv /\ SaveInv /\ RanksInv /\ MergeInv /\ OthersRest
  BY DEF SharedInv
<1>2. /\ save.at = "collected" /\ save' = NoSave
      /\ UNCHANGED <<packs, index, desc, over, nextId, rank, merger, want, step, acked, overtaken>>
  BY DEF FailsToPublish
<1>3. PICK k : /\ mem' = [mem EXCEPT ![0] = k]
               /\ k \in Manifests /\ k.snaps \subseteq Ours.snaps /\ OpenIn(k) \subseteq OpenIn(Ours)
               /\ Row(k, desc.step, nextId) /\ Chained(k, packs, desc.base, over, overtaken)
  <2>1. CASE CanFinalize
    BY <1>1, <1>2, <2>1, FinalizedFacts DEF FailsToPublish
  <2>2. CASE ~CanFinalize
    <3>1. mem' = [mem EXCEPT ![0] = Ours]
      BY <1>1, <2>2, KindFacts DEF FailsToPublish, Ours, Kinds, Saves, RankSaves, Mergers
    <3> QED
      BY <1>1, <3>1, KindFacts, ListFacts DEF ListsInv
  <2> QED
    BY <2>1, <2>2
<1>4. Ours' = k /\ Mine' = Mine /\ OthersRest'
  BY <1>1, <1>2, <1>3, KindFacts DEF Ours, Mine, Kinds, Saves, RankSaves, Mergers, OthersRest
<1>5. save'.at = "idle" /\ ~Saving' /\ ~Listing'
  BY <1>2 DEF Saving, Listing, NoSave
<1>6. Kinds'
  <2>1. mem' \in [Ranks -> Manifests]
    BY <1>1, <1>3 DEF Kinds, Saves, RankSaves, Mergers
  <2>2. save' \in Saves
    BY <1>2 DEF NoSave, Saves
  <2> QED
    BY <1>1, <1>2, <2>1, <2>2 DEF Kinds, Saves, RankSaves, Mergers
<1>7. NamesInv'
  BY <1>1, <1>2 DEF NamesInv
<1>8. ListsInv'
  <2>1. \A r \in Ranks : Row(mem'[r], desc.step, nextId)
    BY <1>1, <1>3 DEF ListsInv, Kinds, Saves, RankSaves, Mergers
  <2> QED
    BY <1>1, <1>2, <1>3, <1>4, <1>5, <2>1 DEF ListsInv
<1>9. SaveInv'
  BY <1>2, <1>5 DEF SaveInv
<1>10. RanksInv'
  <2>1. \A r \in Ranks : rank[r].at = "idle"
    BY <1>1, <1>2 DEF RanksInv
  <2> QED
    BY <1>2, <2>1 DEF RanksInv
<1>11. MergeInv'
  <2>1. Writing => Mine.claim \cap OpenIn(k) = {}
    BY <1>1, <1>3 DEF MergeInv
  <2> QED
    BY <1>1, <1>2, <1>3, <1>4, <1>5, <2>1 DEF MergeInv, Writing
<1> QED
  BY <1>4, <1>6, <1>7, <1>8, <1>9, <1>10, <1>11 DEF SharedInv

\* The evicted files go: nothing that is listed, and nothing a merge writes.
LEMMA UnlinksKeeps ==
    ASSUME SharedInv, Unlinks
    PROVE  SharedInv'
<1>1. Kinds /\ NamesInv /\ ListsInv /\ SaveInv /\ RanksInv /\ MergeInv /\ OthersRest
  BY DEF SharedInv
<1>2. /\ save.at = "unlink" /\ save' = NoSave
      /\ packs' = {p \in packs : p[1] \notin save.gone}
      /\ want' = [want EXCEPT ![0] = IF merger[0].at # "idle" THEN "again"
                                     ELSE IF @ = "none" THEN "check" ELSE @]
      /\ acked' \in {acked, desc.step[save.id]}
      /\ UNCHANGED <<index, desc, over, nextId, mem, rank, merger, step, overtaken>>
  BY DEF Unlinks
<1>3. /\ Ours = index /\ save.gone \cap Ours.snaps = {}
      /\ desc.step[save.id] = step
  BY <1>1, <1>2 DEF ListsInv, SaveInv
<1>4. /\ packs' \subseteq packs
      /\ \A i \in SnapIds, r \in Ranks : i \notin save.gone => (<<i, r>> \in packs' <=> <<i, r>> \in packs)
  BY <1>2
<1>5. Ours' = Ours /\ Mine' = Mine
  BY <1>2 DEF Ours, Mine
<1>6. save'.at = "idle" /\ ~Saving' /\ ~Listing'
  BY <1>2 DEF Saving, Listing, NoSave
<1>7. Kinds' /\ OthersRest'
  <2>1. acked' \in 0 .. step'
    BY <1>1, <1>2, <1>3, KindFacts DEF Kinds, Saves, RankSaves, Mergers
  <2>2. save' \in Saves
    BY <1>2 DEF NoSave, Saves
  <2>3. want' \in [Ranks -> {"none", "check", "force", "again"}] /\ \A r \in Ranks \ {0} : want'[r] = want[r]
    BY <1>1, <1>2 DEF Kinds, Saves, RankSaves, Mergers
  <2>4. packs' \subseteq SnapIds \X Ranks
    BY <1>1, <1>4 DEF Kinds, Saves, RankSaves, Mergers
  <2>5. Kinds'
    BY <1>1, <1>2, <2>1, <2>2, <2>3, <2>4 DEF Kinds, Saves, RankSaves, Mergers
  <2> QED
    BY <1>1, <1>2, <2>3, <2>5 DEF OthersRest
<1>8. NamesInv'
  BY <1>1, <1>2, <1>4 DEF NamesInv
<1>9. ListsInv'
  <2>1. Chained(Ours, packs', desc.base, over, overtaken)
    <3>1. \A i \in Ours.fin : i \in SnapIds /\ i \notin save.gone
      BY <1>1, <1>3, KindFacts, ListFacts
    <3> QED
      BY <1>1, <1>4, <3>1, ListFacts DEF Chained, IsWhole
  <2> QED
    BY <1>1, <1>2, <1>3, <1>5, <1>6, <2>1 DEF ListsInv
<1>10. SaveInv'
  BY <1>2, <1>6 DEF SaveInv
<1>11. RanksInv'
  <2>1. \A r \in Ranks : rank[r].at = "idle"
    BY <1>1, <1>2 DEF RanksInv
  <2> QED
    BY <1>2, <2>1 DEF RanksInv
<1>12. MergeInv'
  <2>1. Writing => \A r \in Ranks \ Mine.left : <<Mine.id, r>> \in packs'
    BY <1>1, <1>2, <1>4 DEF MergeInv
  <2> QED
    BY <1>1, <1>2, <1>5, <1>6, <2>1 DEF MergeInv, Writing
<1> QED
  BY <1>7, <1>8, <1>9, <1>10, <1>11, <1>12 DEF SharedInv

-----------------------------------------------------------------------------
(* The merger of rank 0.                                                   *)

\* No other merger does anything.
LEMMA OneMergerSteps ==
    ASSUME SharedInv, NEW r \in Ranks, MergerStep(r)
    PROVE  r = 0
<1>1. r # 0 => merger[r] = NoMerger /\ want[r] = "none"
  BY DEF SharedInv, OthersRest
<1> QED
  BY <1>1 DEF MergerStep, StandsDown, Folds, FailsToFold, Claims, MergesPack, FailsToMerge,
              PublishesMerge, UnlinksMerged, FoldIsWanted, FullIsWanted, NoMerger

\* What a stride merge takes are finalized deltas, nobody's bases.
LEMMA FoldsKeeps ==
    ASSUME SharedInv, Folds(0)
    PROVE  SharedInv'
<1> DEFINE gone == Superseded(Ours, desc)
           k == Drop(Ours, gone)
<1>1. Kinds /\ NamesInv /\ ListsInv /\ SaveInv /\ RanksInv /\ MergeInv /\ OthersRest
  BY DEF SharedInv
<1>2. /\ mem' = [mem EXCEPT ![0] = k] /\ index' = k
      /\ merger' = [merger EXCEPT ![0] = [NoMerger EXCEPT !.at = "unlink", !.claim = gone]]
      /\ UNCHANGED <<packs, desc, over, nextId, save, rank, want, step, acked, overtaken>>
  <2>1. mem' = [mem EXCEPT ![0] = k] /\ mem'[0] = k
    BY <1>1, KindFacts DEF Folds, Kinds, Saves, RankSaves, Mergers, Ours
  <2> QED
    BY <2>1 DEF Folds, Ours
<1>3. gone \subseteq Ours.fin /\ \A i \in gone : desc.base[i] # None
  BY <1>1, KindFacts, LookUps
<1> HIDE DEF gone
<1>4. /\ k \in Manifests /\ k.snaps = Ours.snaps \ gone /\ k.fin = Ours.fin \ gone
      /\ Row(k, desc.step, nextId)
  BY <1>1, KindFacts, ListFacts, DropIsManifest, RowDropped
<1> HIDE DEF k
<1>5. Ours' = k /\ OthersRest'
  BY <1>1, <1>2, KindFacts DEF Ours, Kinds, Saves, RankSaves, Mergers, OthersRest
<1>6. Mine' = [at |-> "unlink", id |-> None, base |-> None, last |-> None,
               claim |-> gone, left |-> {}]
  BY <1>1, <1>2, KindFacts DEF Mine, Kinds, Saves, RankSaves, Mergers, NoMerger
<1>7. gone \subseteq SnapIds /\ \A i \in gone : i < nextId
  BY <1>1, <1>3, KindFacts, ListFacts
<1>8. OpenIn(k) = OpenIn(Ours)
  BY <1>1, <1>3, <1>4 DEF OpenIn
<1>9. Kinds'
  <2>1. mem' \in [Ranks -> Manifests]
    BY <1>1, <1>2, <1>4 DEF Kinds, Saves, RankSaves, Mergers
  <2>2. merger' \in [Ranks -> Mergers]
    BY <1>1, <1>2, <1>7 DEF Kinds, Saves, RankSaves, Mergers, NoMerger
  <2> QED
    BY <1>1, <1>2, <1>4, <2>1, <2>2 DEF Kinds, Saves, RankSaves, Mergers
<1>10. NamesInv'
  BY <1>1, <1>2 DEF NamesInv
<1>11. ListsInv'
  <2>1. \A r \in Ranks : Row(mem'[r], desc.step, nextId)
    BY <1>1, <1>2, <1>4 DEF ListsInv, Kinds, Saves, RankSaves, Mergers
  <2>2. ASSUME NEW i \in k.snaps \ overtaken
        PROVE  desc.base[i] \in k.fin \cup {None}
    <3>1. desc.base[i] \in Ours.fin \cup {None} /\ i \in SnapIds
      BY <1>1, <1>4, <2>2, ListFacts, KindFacts
    <3>2. desc.base[i] \notin gone
      BY <1>1, <1>3, <3>1, KindFacts DEF NamesInv
    <3> QED
      BY <1>4, <3>1, <3>2
  <2>3. Chained(k, packs, desc.base, over, overtaken)
    BY <1>1, <1>4, <1>8, <2>2, ListFacts DEF Chained, IsWhole
  <2> QED
    BY <1>2, <1>4, <1>5, <2>1, <2>3 DEF ListsInv
<1>12. SaveInv'
  <2>1. Listing => save.id \notin gone
    BY <1>1, <1>3 DEF SaveInv, OpenIn
  <2> QED
    BY <1>1, <1>2, <1>4, <1>5, <1>6, <1>8, <2>1 DEF SaveInv, Saving, Listing, IsWhole
<1>13. RanksInv'
  BY <1>1, <1>2 DEF RanksInv
<1>14. MergeInv'
  BY <1>2, <1>4, <1>5, <1>6, <1>7 DEF MergeInv, Writing
<1> QED
  BY <1>5, <1>9, <1>10, <1>11, <1>12, <1>13, <1>14 DEF SharedInv

\* What a full merge looks at: the last full and its deltas, all finalized.
LEMMA ClaimFacts ==
    ASSUME SharedInv, CanMerge(0)
    PROVE  /\ Base(0) = LastFull(Ours, desc) /\ Base(0) # None
           /\ Base(0) \in Ours.fin /\ desc.base[Base(0)] = None
           /\ Inputs(0) = {Base(0)} \cup DeltasOf(Ours, desc, Base(0))
           /\ Inputs(0) \subseteq Ours.fin
           /\ DeltasOf(Ours, desc, Base(0)) # {}
           /\ Last(Ours, Inputs(0) \ {Base(0)}) \in DeltasOf(Ours, desc, Base(0))
           /\ \A i \in Inputs(0) :
                desc.step[i] <= desc.step[Last(Ours, Inputs(0) \ {Base(0)})]
           /\ \A i \in Ours.snaps \ Inputs(0) : desc.base[i] \notin Inputs(0)
<1> DEFINE b == LastFull(Ours, desc)
           D == DeltasOf(Ours, desc, b)
           last == Last(Ours, D)
<1>1. Kinds /\ NamesInv /\ ListsInv
  BY DEF SharedInv
<1>2. Base(0) = b /\ Inputs(0) = {b} \cup D /\ b # None /\ Unfinalized(Ours, desc, b) = {}
      /\ Inputs(0) # {b}
  BY DEF CanMerge, Base, Inputs, Ours
<1>3. b \in Ours.fin /\ desc.base[b] = None
  BY <1>1, <1>2, KindFacts, LookUps
<1>4. D \subseteq Ours.fin /\ b \notin D /\ D # {} /\ \A i \in D : desc.base[i] = b
  BY <1>2, <1>3 DEF DeltasOf
<1>5. Inputs(0) \ {b} = D
  BY <1>2, <1>4
<1>6. D \in SUBSET SnapIds /\ Ours \in Manifests
  BY <1>1, <1>4, KindFacts
<1> HIDE DEF D, b
<1>7. last \in D /\ \A j \in D : Ours.pos[j] <= Ours.pos[last]
  BY <1>4, <1>6, Ends
<1>8. \A i \in D : desc.step[i] <= desc.step[last]
  BY <1>1, <1>4, <1>7, ListFacts
<1>9. desc.step[b] <= desc.step[last]
  <2>1. last \in SnapIds /\ desc.base[last] = b
    BY <1>4, <1>6, <1>7
  <2>2. b \in SnapIds
    BY <1>1, <1>3, KindFacts
  <2>3. desc.step[b] < desc.step[last]
    BY <1>1, <1>2, <2>1 DEF NamesInv
  <2> QED
    BY <1>1, <2>1, <2>2, <2>3, KindFacts
<1>10. ASSUME NEW i \in Ours.snaps \ Inputs(0), desc.base[i] \in Inputs(0)
       PROVE  FALSE
  <2>1. i \in SnapIds /\ desc.base[i] # None
    BY <1>1, <1>4, <1>6, <1>10, <1>2, KindFacts
  <2>2. desc.base[desc.base[i]] = None
    BY <1>1, <2>1 DEF NamesInv
  <2>3. desc.base[i] = b
    BY <1>2, <1>4, <1>10, <2>2
  <2>4. CASE i \in Ours.fin
    BY <1>2, <1>10, <2>3, <2>4 DEF D, DeltasOf
  <2>5. CASE i \notin Ours.fin
    BY <1>2, <1>10, <2>3, <2>5 DEF Unfinalized
  <2> QED
    BY <2>4, <2>5
<1> QED
  BY <1>2, <1>3, <1>4, <1>5, <1>7, <1>8, <1>9, <1>10 DEF b, D

\* The merge claims its inputs, and a name for what it will write.
LEMMA ClaimsKeeps ==
    ASSUME SharedInv, Claims(0)
    PROVE  SharedInv'
<1> DEFINE last == Last(Ours, Inputs(0) \ {Base(0)})
<1>1. Kinds /\ NamesInv /\ ListsInv /\ SaveInv /\ RanksInv /\ MergeInv /\ OthersRest
  BY DEF SharedInv
<1>2. /\ CanMerge(0) /\ nextId \in SnapIds /\ nextId' = nextId + 1
      /\ desc' = [desc EXCEPT !.step[nextId] = desc.step[last]]
      /\ merger' = [merger EXCEPT ![0] = [at |-> "writing", id |-> nextId,
                            base |-> Base(0), last |-> last, claim |-> Inputs(0),
                            left |-> Ranks]]
      /\ UNCHANGED <<packs, index, over, mem, save, rank, want, step, acked, overtaken>>
  BY DEF Claims, Fresh, Ours
<1>3. /\ Base(0) \in Ours.fin /\ Inputs(0) \subseteq Ours.fin /\ last \in Ours.fin
      /\ \A i \in Inputs(0) : desc.step[i] <= desc.step[last]
      /\ \A i \in Ours.snaps \ Inputs(0) : desc.base[i] \notin Inputs(0)
  BY <1>2, ClaimFacts DEF DeltasOf
<1> HIDE DEF last
<1>4. /\ Ours.fin \subseteq SnapIds /\ Ours.fin \subseteq Ours.snaps
      /\ \A i \in Ours.snaps \cup index.snaps : i < nextId /\ i \in SnapIds /\ i # nextId
  BY <1>1, KindFacts, ListFacts
<1>5. /\ desc' \in Descriptors /\ desc'.base = desc.base
      /\ desc'.step[nextId] = desc.step[last]
      /\ \A i \in SnapIds \ {nextId} : desc'.step[i] = desc.step[i]
  <2>1. last \in SnapIds /\ desc.step[last] \in Nat
    BY <1>1, <1>3, <1>4, KindFacts
  <2> QED
    BY <1>1, <1>2, <2>1, KindFacts DEF Descriptors
<1>6. Ours' = Ours /\ OthersRest'
  BY <1>1, <1>2 DEF Ours, OthersRest, Kinds, Saves, RankSaves, Mergers
<1>7. Mine' = [at |-> "writing", id |-> nextId, base |-> Base(0), last |-> last,
               claim |-> Inputs(0), left |-> Ranks]
  BY <1>1, <1>2, KindFacts DEF Mine, Kinds, Saves, RankSaves, Mergers
<1>8. Kinds'
  <2>1. nextId' \in 1 .. MaxIds + 1
    BY <1>1, <1>2, ManifestAssumption DEF Kinds, Saves, RankSaves, Mergers, SnapIds
  <2>2. merger' \in [Ranks -> Mergers]
    <3>1. [at |-> "writing", id |-> nextId, base |-> Base(0), last |-> last,
           claim |-> Inputs(0), left |-> Ranks]
            \in Mergers
      <4>1. Base(0) \in SnapIds /\ last \in SnapIds /\ Inputs(0) \subseteq SnapIds
        BY <1>3, <1>4
      <4> QED
        BY <1>2, <4>1 DEF Mergers
    <3> QED
      BY <1>1, <1>2, <3>1 DEF Kinds, Saves, RankSaves, Mergers
  <2> QED
    BY <1>1, <1>2, <1>5, <2>1, <2>2 DEF Kinds, Saves, RankSaves, Mergers
<1>9. NamesInv'
  <2>1. \A i \in SnapIds : i >= nextId' => i >= nextId
    BY <1>1, <1>2, KindFacts
  <2>2. ASSUME NEW i \in SnapIds, desc.base[i] # None
        PROVE  /\ desc.base[i] < nextId'
               /\ desc'.step[desc.base[i]] < desc'.step[i]
    <3>1. desc.base[i] \in SnapIds /\ desc.base[i] < nextId /\ ~(i >= nextId)
      BY <1>1, <2>2, KindFacts DEF NamesInv
    <3>2. i # nextId /\ desc.base[i] # nextId
      BY <1>1, <3>1, KindFacts
    <3> QED
      BY <1>1, <1>2, <1>5, <2>2, <3>1, <3>2, KindFacts DEF NamesInv
  <2>3. \A i \in SnapIds, r \in Ranks : over[i][r] < nextId'
    <3>1. \A i \in SnapIds, r \in Ranks : over[i][r] \in Nat
      BY <1>1, KindFacts DEF Kinds, Saves, RankSaves, Mergers, None
    <3> QED
      BY <1>1, <1>2, <3>1, KindFacts DEF NamesInv
  <2>4. \A i \in overtaken : i < nextId'
    BY <1>1, <1>2, KindFacts DEF NamesInv, Kinds, Saves, RankSaves, Mergers
  <2>5. \A i \in SnapIds : desc'.step[i] <= step
    BY <1>1, <1>3, <1>4, <1>5, KindFacts DEF NamesInv
  <2> QED
    BY <1>1, <1>2, <1>5, <2>1, <2>2, <2>3, <2>4, <2>5 DEF NamesInv
<1>10. ListsInv'
  <2>1. nextId \in Nat /\ nextId' \in Nat /\ nextId <= nextId' /\ nextId < nextId'
    BY <1>1, <1>2, KindFacts
  <2>2. \A m \in Manifests : Row(m, desc.step, nextId) => Row(m, desc'.step, nextId')
    <3>1. ASSUME NEW m \in Manifests, Row(m, desc.step, nextId)
          PROVE  \A i \in m.snaps : desc'.step[i] = desc.step[i]
      <4>1. \A i \in m.snaps : i \in SnapIds \ {nextId}
        BY <2>1, <3>1 DEF Row, Manifests
      <4> QED
        BY <1>5, <4>1
    <3> QED
      BY <2>1, <3>1, RowStays
  <2>3. \A r \in Ranks : Row(mem[r], desc'.step, nextId')
    BY <1>1, <2>2 DEF ListsInv, Kinds, Saves, RankSaves, Mergers
  <2>4. Row(index, desc'.step, nextId')
    BY <1>1, <2>2 DEF ListsInv, Kinds, Saves, RankSaves, Mergers
  <2> QED
    BY <1>1, <1>2, <1>5, <1>6, <2>3, <2>4 DEF ListsInv, Listing
<1>11. SaveInv'
  <2>1. Listing => save.id \notin Inputs(0)
    BY <1>1, <1>3 DEF SaveInv, OpenIn
  <2>2. Saving /\ save.base # None => desc'.step[save.base] = desc.step[save.base] /\ save.base < nextId'
    <3>1. Saving /\ save.base # None => save.base \in SnapIds /\ save.base < nextId
      BY <1>1, KindFacts DEF SaveInv
    <3> QED
      BY <1>1, <1>2, <1>5, <3>1, KindFacts
  <2>3. \A i \in Ours.snaps : desc'.step[i] = desc.step[i]
    BY <1>4, <1>5
  <2>4. Listing \/ save.at = "unlink" =>
            save.id \in SnapIds /\ save.id < nextId' /\ desc'.step[save.id] = step
    <3>1. Listing \/ save.at = "unlink" =>
            save.id \in SnapIds /\ save.id < nextId /\ desc.step[save.id] = step
      BY <1>1 DEF SaveInv
    <3> QED
      BY <1>1, <1>2, <1>5, <3>1, KindFacts
  <2>5. save.at = "unlink" => \A i \in save.gone : i < nextId'
    BY <1>1, <1>2, KindFacts DEF SaveInv, Kinds, Saves, RankSaves, Mergers
  <2> QED
    BY <1>1, <1>2, <1>5, <1>6, <1>7, <2>1, <2>2, <2>3, <2>4, <2>5
       DEF SaveInv, Saving, Listing, IsWhole
<1>12. RanksInv'
  BY <1>1, <1>2 DEF RanksInv
<1>13. MergeInv'
  <2>1. nextId < nextId' /\ nextId \notin SnapIds \cap Ours.snaps
    BY <1>1, <1>2, <1>4, KindFacts
  <2>2. \A i \in Inputs(0) : i \in SnapIds /\ i # nextId /\ i < nextId'
    BY <1>1, <1>2, <1>3, <1>4, KindFacts
  <2>3. nextId \notin Ours.snaps \cup index.snaps \cup Inputs(0) \cup overtaken
    BY <1>1, <1>2, <1>4, <2>2, KindFacts DEF NamesInv
  <2>4. save.at = "unlink" => nextId \notin save.gone
    BY <1>1, <1>2, KindFacts DEF SaveInv
  <2>5. desc.base[nextId] = None /\ \A r \in Ranks : over[nextId][r] = None
    <3>1. nextId \in SnapIds /\ nextId >= nextId
      BY <1>1, <1>2, KindFacts
    <3> QED
      BY <1>1, <3>1 DEF NamesInv
  <2>6. \A i \in SnapIds : desc.base[i] # nextId
    BY <1>1, <1>2, KindFacts DEF NamesInv
  <2>7. Saving => save.base # nextId
    BY <1>1, <1>2, KindFacts DEF SaveInv
  <2>8. Saving => desc.step[last] < step
    <3>1. save.at = "chosen" => desc.step[last] < step
      BY <1>1, <1>3, <1>4 DEF SaveInv
    <3>2. Listing => last \in Ours.snaps \ {save.id}
      BY <1>1, <1>3, <1>4 DEF SaveInv, OpenIn
    <3>3. Listing => desc.step[last] < step
      BY <1>1, <3>2 DEF SaveInv
    <3> QED
      BY <3>1, <3>3 DEF Saving, Listing
  <2>9. \A i \in Inputs(0) : desc'.step[i] <= desc'.step[nextId]
    BY <1>3, <1>5, <2>2
  <2>10. Inputs(0) \cap OpenIn(Ours) = {}
    BY <1>3 DEF OpenIn
  <2> QED
    BY <1>2, <1>3, <1>5, <1>6, <1>7, <2>1, <2>2, <2>3, <2>4, <2>5, <2>6, <2>7, <2>8, <2>9, <2>10
       DEF MergeInv, Writing, Saving
<1> QED
  BY <1>6, <1>8, <1>9, <1>10, <1>11, <1>12, <1>13 DEF SharedInv

\* One pack after the other is written, under a name no list has.
LEMMA MergesPackKeeps ==
    ASSUME SharedInv, MergesPack(0)
    PROVE  SharedInv'
<1>1. Kinds /\ NamesInv /\ ListsInv /\ SaveInv /\ RanksInv /\ MergeInv /\ OthersRest
  BY DEF SharedInv
<1>2. PICK q \in Mine.left :
        /\ Writing
        /\ packs' = packs \cup {<<Mine.id, q>>}
        /\ merger' = [merger EXCEPT ![0].left = @ \ {q}]
        /\ UNCHANGED <<index, desc, over, nextId, mem, save, rank, want, step, acked, overtaken>>
  BY DEF MergesPack, Mine, Writing
<1>3. /\ Mine.id \in SnapIds /\ Mine.id < nextId /\ Mine.id \notin overtaken
      /\ desc.base[Mine.id] = None /\ over[Mine.id][q] = None /\ q \in Ranks
  <2>1. q \in Ranks
    BY <1>1, <1>2, KindFacts DEF Kinds, Saves, RankSaves, Mergers, Mine
  <2> QED
    BY <1>1, <1>2, <2>1 DEF MergeInv
<1>4. /\ Mine'.at = Mine.at /\ Mine'.id = Mine.id /\ Mine'.claim = Mine.claim
      /\ Mine'.left = Mine.left \ {q}
      /\ OthersRest' /\ Ours' = Ours
  BY <1>1, <1>2, KindFacts DEF Mine, Ours, Kinds, Saves, RankSaves, Mergers, OthersRest
<1>5. Kinds'
  <2>1. packs' \subseteq SnapIds \X Ranks
    BY <1>1, <1>2, <1>3 DEF Kinds, Saves, RankSaves, Mergers
  <2>2. merger' \in [Ranks -> Mergers]
    <3>1. Mine \in Mergers
      BY <1>1, KindFacts DEF Kinds, Mine
    <3>2. [Mine EXCEPT !.left = @ \ {q}] \in Mergers
      BY <3>1 DEF Mergers
    <3>3. merger' = [merger EXCEPT ![0] = [Mine EXCEPT !.left = @ \ {q}]]
      BY <1>2 DEF Mine
    <3> QED
      BY <1>1, <3>2, <3>3 DEF Kinds
  <2> QED
    BY <1>1, <1>2, <2>1, <2>2 DEF Kinds, Saves, RankSaves, Mergers
<1>6. NamesInv'
  <2>1. \A i \in SnapIds : i >= nextId => i # Mine.id
    BY <1>1, <1>3, KindFacts
  <2>2. \A i \in SnapIds, r \in Ranks : i >= nextId => <<i, r>> \notin packs'
    BY <1>1, <1>2, <2>1 DEF NamesInv
  <2>3. \A i \in SnapIds \ overtaken, r \in Ranks : <<i, r>> \in packs' => over[i][r] = desc.base[i]
    BY <1>1, <1>2, <1>3 DEF NamesInv
  <2> QED
    BY <1>1, <1>2, <2>2, <2>3 DEF NamesInv
<1>7. ListsInv'
  <2>1. \A m : Chained(m, packs, desc.base, over, overtaken) => Chained(m, packs', desc.base, over, overtaken)
    BY <1>2 DEF Chained
  <2> QED
    BY <1>1, <1>2, <1>4, <2>1 DEF ListsInv, Listing
<1>8. SaveInv'
  BY <1>1, <1>2, <1>4 DEF SaveInv, Saving, Listing, IsWhole
<1>9. RanksInv'
  BY <1>1, <1>2 DEF RanksInv
<1>10. MergeInv'
  <2>1. \A r \in Ranks \ Mine'.left : <<Mine.id, r>> \in packs'
    BY <1>1, <1>2, <1>4 DEF MergeInv
  <2> QED
    BY <1>1, <1>2, <1>4, <2>1 DEF MergeInv, Writing, Saving
<1> QED
  BY <1>4, <1>5, <1>6, <1>7, <1>8, <1>9, <1>10 DEF SharedInv

\* A merge that fails leaves packs no list has.
LEMMA FailsToMergeKeeps ==
    ASSUME SharedInv, FailsToMerge(0)
    PROVE  SharedInv'
<1>1. Kinds /\ NamesInv /\ ListsInv /\ SaveInv /\ RanksInv /\ MergeInv /\ OthersRest
  BY DEF SharedInv
<1>2. /\ merger' = [merger EXCEPT ![0] = NoMerger]
      /\ want' = [want EXCEPT ![0] = IF @ = "again" THEN "check" ELSE "none"]
      /\ UNCHANGED <<packs, index, desc, over, nextId, mem, save, rank, step, acked, overtaken>>
  BY DEF FailsToMerge, Sleeps
<1>3. Mine' = NoMerger /\ OthersRest' /\ Ours' = Ours
  BY <1>1, <1>2, KindFacts DEF Mine, Ours, Kinds, Saves, RankSaves, Mergers, OthersRest
<1>4. Kinds'
  <2>1. merger' \in [Ranks -> Mergers]
    BY <1>1, <1>2 DEF Kinds, Saves, RankSaves, Mergers, NoMerger
  <2>2. want' \in [Ranks -> {"none", "check", "force", "again"}]
    BY <1>1, <1>2 DEF Kinds, Saves, RankSaves, Mergers
  <2> QED
    BY <1>1, <1>2, <2>1, <2>2 DEF Kinds, Saves, RankSaves, Mergers
<1>5. NamesInv' /\ ListsInv' /\ RanksInv'
  BY <1>1, <1>2, <1>3 DEF NamesInv, ListsInv, RanksInv, Listing
<1>6. SaveInv'
  BY <1>1, <1>2, <1>3 DEF SaveInv, Saving, Listing, IsWhole, NoMerger
<1>7. MergeInv'
  BY <1>3 DEF MergeInv, Writing, NoMerger
<1> QED
  BY <1>3, <1>4, <1>5, <1>6, <1>7 DEF SharedInv

\* The merged full takes the place of what it was made of.
LEMMA MergedFacts ==
    ASSUME SharedInv, Writing
    PROVE  LET k == Merged(Ours, Mine)
               p == Push(Drop(Ours, Mine.claim), Mine.id, TRUE)
           IN  /\ p \in Manifests /\ Placed(p) /\ p.snaps = k.snaps /\ p.fin = k.fin
               /\ k = SortByStep(p, desc)
               /\ \A j \in Ours.snaps \ Mine.claim :
                    p.pos[j] = Drop(Ours, Mine.claim).pos[j] /\ p.pos[j] < p.pos[Mine.id]
               /\ k \in Manifests
               /\ k.snaps = (Ours.snaps \ Mine.claim) \cup {Mine.id}
               /\ k.fin = (Ours.fin \ Mine.claim) \cup {Mine.id}
               /\ OpenIn(k) = OpenIn(Ours)
               /\ Row(k, desc.step, nextId)
<1> DEFINE d == Drop(Ours, Mine.claim)
           p == Push(d, Mine.id, TRUE)
           k == SortByStep(p, desc)
<1>1. Kinds /\ ListsInv /\ MergeInv
  BY DEF SharedInv
<1>2. /\ Mine.id \in SnapIds \ Ours.snaps /\ Mine.id < nextId
      /\ Mine.claim \cap OpenIn(Ours) = {} /\ Mine.id \notin Mine.claim
  BY <1>1 DEF MergeInv
<1>3. /\ d \in Manifests /\ Placed(d)
      /\ d.snaps = Ours.snaps \ Mine.claim /\ d.fin = Ours.fin \ Mine.claim /\ d.pinned = {}
  BY <1>1, KindFacts, ListFacts, DropIsManifest, DropPlaced DEF Drop
<1>4. TRUE \in BOOLEAN /\ Mine.id \in SnapIds \ d.snaps
  BY <1>2, <1>3
<1> HIDE DEF d
<1>5. /\ p \in Manifests /\ Placed(p)
      /\ p.snaps = d.snaps \cup {Mine.id} /\ p.fin = d.fin \cup {Mine.id}
      /\ \A j \in d.snaps : p.pos[j] = d.pos[j] /\ p.pos[j] < p.pos[Mine.id]
  BY <1>3, <1>4, PushIsManifest, PushOrder
<1>6. p.pinned = {}
  BY <1>3 DEF Push, Manifests
<1> HIDE DEF p
<1>7. k \in Manifests /\ k.snaps = p.snaps /\ k.fin = p.fin
  BY <1>5, SortIsManifest
<1>8. Row(k, desc.step, nextId)
  <2>1. \A i, j \in p.snaps : p.pos[i] = p.pos[j] => i = j
    BY <1>5 DEF Placed
  <2>2. \A i \in p.snaps : i < nextId
    BY <1>1, <1>2, <1>3, <1>5, ListFacts
  <2>3. p.fin \subseteq p.snaps
    BY <1>1, <1>3, <1>5, ListFacts
  <2> QED
    BY <1>1, <1>5, <1>6, <2>1, <2>2, <2>3, KindFacts, RowSorted
<1>9. k = Merged(Ours, Mine)
  BY DEF Merged, p, d
<1>10. OpenIn(k) = OpenIn(Ours)
  BY <1>2, <1>3, <1>5, <1>7 DEF OpenIn
<1> HIDE DEF k
<1> QED
  BY <1>3, <1>5, <1>7, <1>8, <1>9, <1>10 DEF p, d, k

\* The merge is published on the list as it is by then.
LEMMA PublishesMergeKeeps ==
    ASSUME SharedInv, PublishesMerge(0)
    PROVE  SharedInv'
<1> DEFINE k == Merged(Ours, Mine)
<1>1. Kinds /\ NamesInv /\ ListsInv /\ SaveInv /\ RanksInv /\ MergeInv /\ OthersRest
  BY DEF SharedInv
<1>2. /\ Writing /\ Mine.left = {}
      /\ mem' = [mem EXCEPT ![0] = k] /\ index' = k
      /\ merger' = [merger EXCEPT ![0].at = "unlink"]
      /\ UNCHANGED <<packs, desc, over, nextId, save, rank, want, step, acked, overtaken>>
  <2>1. mem' = [mem EXCEPT ![0] = k] /\ mem'[0] = k
    BY <1>1, KindFacts DEF PublishesMerge, Kinds, Saves, RankSaves, Mergers, Ours, Mine
  <2> QED
    BY <2>1 DEF PublishesMerge, Mine, Writing
<1>3. /\ k \in Manifests /\ Row(k, desc.step, nextId)
      /\ k.snaps = (Ours.snaps \ Mine.claim) \cup {Mine.id}
      /\ k.fin = (Ours.fin \ Mine.claim) \cup {Mine.id}
      /\ OpenIn(k) = OpenIn(Ours)
  BY <1>2, MergedFacts
<1> HIDE DEF k
<1>4. /\ Mine.id \in SnapIds /\ Mine.id < nextId
      /\ Mine.id \notin Ours.snaps \cup index.snaps \cup Mine.claim \cup overtaken
      /\ save.at = "unlink" => Mine.id \notin save.gone
      /\ desc.base[Mine.id] = None
      /\ IsWhole(Mine.id)
      /\ \A i \in Ours.snaps \ (Mine.claim \cup overtaken) : desc.base[i] \notin Mine.claim
      /\ Saving => desc.step[Mine.id] < step
  BY <1>1, <1>2 DEF MergeInv, IsWhole
<1>5. Ours' = k /\ OthersRest'
  BY <1>1, <1>2, KindFacts DEF Ours, Kinds, Saves, RankSaves, Mergers, OthersRest
<1>6. Mine'.at = "unlink" /\ Mine'.claim = Mine.claim
  BY <1>1, <1>2, KindFacts DEF Mine, Kinds, Saves, RankSaves, Mergers
<1>7. Kinds'
  <2>1. mem' \in [Ranks -> Manifests]
    BY <1>1, <1>2, <1>3 DEF Kinds, Saves, RankSaves, Mergers
  <2>2. merger' \in [Ranks -> Mergers]
    <3>1. Mine \in Mergers
      BY <1>1, KindFacts DEF Kinds, Mine
    <3>2. [Mine EXCEPT !.at = "unlink"] \in Mergers
      BY <3>1 DEF Mergers
    <3>3. merger' = [merger EXCEPT ![0] = [Mine EXCEPT !.at = "unlink"]]
      BY <1>2 DEF Mine
    <3> QED
      BY <1>1, <3>2, <3>3 DEF Kinds
  <2> QED
    BY <1>1, <1>2, <1>3, <2>1, <2>2 DEF Kinds, Saves, RankSaves, Mergers
<1>8. NamesInv'
  BY <1>1, <1>2 DEF NamesInv
<1>9. ListsInv'
  <2>1. \A r \in Ranks : Row(mem'[r], desc.step, nextId)
    BY <1>1, <1>2, <1>3 DEF ListsInv, Kinds, Saves, RankSaves, Mergers
  <2>2. \A i \in k.snaps \ overtaken : desc.base[i] \in k.fin \cup {None}
    BY <1>1, <1>3, <1>4, ListFacts
  <2>3. Chained(k, packs, desc.base, over, overtaken)
    BY <1>1, <1>3, <1>4, <2>2, ListFacts DEF Chained, IsWhole
  <2> QED
    BY <1>2, <1>3, <1>5, <2>1, <2>3 DEF ListsInv
<1>10. SaveInv'
  <2>1. Listing => save.id \in OpenIn(k) /\ save.id \notin Mine.claim
    BY <1>1, <1>3 DEF SaveInv
  <2>2. save.at = "chosen" => \A i \in k.snaps : desc.step[i] < step
    BY <1>1, <1>3, <1>4 DEF SaveInv, Saving
  <2>3. Listing => \A i \in k.snaps \ {save.id} : desc.step[i] < step
    BY <1>1, <1>3, <1>4 DEF SaveInv, Saving, Listing
  <2>4. save.at = "unlink" => save.gone \cap k.snaps = {}
    BY <1>1, <1>3, <1>4 DEF SaveInv
  <2> QED
    BY <1>1, <1>2, <1>3, <1>5, <1>6, <2>1, <2>2, <2>3, <2>4 DEF SaveInv, Saving, Listing, IsWhole
<1>11. RanksInv'
  BY <1>1, <1>2 DEF RanksInv
<1>12. MergeInv'
  BY <1>1, <1>2, <1>3, <1>4, <1>5, <1>6 DEF MergeInv, Writing
<1> QED
  BY <1>5, <1>7, <1>8, <1>9, <1>10, <1>11, <1>12 DEF SharedInv

\* What was merged goes, which no list has any more.
LEMMA UnlinksMergedKeeps ==
    ASSUME SharedInv, UnlinksMerged(0)
    PROVE  SharedInv'
<1>1. Kinds /\ NamesInv /\ ListsInv /\ SaveInv /\ RanksInv /\ MergeInv /\ OthersRest
  BY DEF SharedInv
<1>2. /\ Mine.at = "unlink"
      /\ packs' \in {packs, {p \in packs : p[1] \notin Mine.claim}}
      /\ merger' = [merger EXCEPT ![0] = NoMerger]
      /\ want' = [want EXCEPT ![0] = IF @ = "again" THEN "check" ELSE "none"]
      /\ UNCHANGED <<index, desc, over, nextId, mem, save, rank, step, acked, overtaken>>
  BY DEF UnlinksMerged, Mine, Sleeps
<1>3. Mine' = NoMerger /\ OthersRest' /\ Ours' = Ours
  BY <1>1, <1>2, KindFacts DEF Mine, Ours, Kinds, Saves, RankSaves, Mergers, OthersRest
<1>4. /\ packs' \subseteq packs
      /\ \A i \in SnapIds, r \in Ranks : i \notin Mine.claim /\ <<i, r>> \in packs => <<i, r>> \in packs'
  BY <1>2
<1>5. Mine.claim \cap (Ours.snaps \cup index.snaps) = {}
  BY <1>1, <1>2 DEF MergeInv
<1>6. Kinds'
  <2>1. merger' \in [Ranks -> Mergers]
    BY <1>1, <1>2 DEF Kinds, Saves, RankSaves, Mergers, NoMerger
  <2>2. want' \in [Ranks -> {"none", "check", "force", "again"}]
    BY <1>1, <1>2 DEF Kinds, Saves, RankSaves, Mergers
  <2>3. packs' \subseteq SnapIds \X Ranks
    BY <1>1, <1>4 DEF Kinds, Saves, RankSaves, Mergers
  <2> QED
    BY <1>1, <1>2, <2>1, <2>2, <2>3 DEF Kinds, Saves, RankSaves, Mergers
<1>7. NamesInv'
  BY <1>1, <1>2, <1>4 DEF NamesInv
<1>8. ListsInv'
  <2>1. \A i \in Ours.fin \cup index.fin, r \in Ranks : <<i, r>> \in packs'
    BY <1>1, <1>4, <1>5, ListFacts, KindFacts DEF IsWhole
  <2>2. /\ Chained(Ours, packs', desc.base, over, overtaken)
        /\ Chained(index, packs', desc.base, over, overtaken)
    BY <1>1, <2>1 DEF ListsInv, Chained
  <2> QED
    BY <1>1, <1>2, <1>3, <2>2 DEF ListsInv, Listing
<1>9. Listing => save.id \in SnapIds /\ save.id \notin Mine.claim
  BY <1>1 DEF SaveInv
<1>10. SaveInv'
  <2>1. save.at = "collected" => \A r \in Ranks : <<save.id, r>> \in packs'
    BY <1>1, <1>4, <1>9 DEF SaveInv, Listing, IsWhole
  <2> QED
    BY <1>1, <1>2, <1>3, <2>1 DEF SaveInv, Saving, Listing, IsWhole, NoMerger
<1>11. RanksInv'
  <2>1. \A r \in Ranks : rank[r].at = "saved" => <<save.id, r>> \in packs'
    BY <1>1, <1>4, <1>9 DEF RanksInv, Listing
  <2> QED
    BY <1>1, <1>2, <2>1 DEF RanksInv
<1>12. MergeInv'
  BY <1>3 DEF MergeInv, Writing, NoMerger
<1> QED
  BY <1>3, <1>6, <1>7, <1>8, <1>10, <1>11, <1>12 DEF SharedInv

-----------------------------------------------------------------------------
(* The restart.                                                            *)

\* What comes back was listed nowhere and is whole, and its base is listed or
\* comes back with it.
LEMMA ComesBackFacts ==
    ASSUME SharedInv
    PROVE  LET back == {i \in SnapIds : ComesBack(i)}
           IN  \A i \in back :
                /\ i \notin index.snaps /\ IsWhole(i) /\ i < nextId
                /\ over[i][0] \in {None, desc.base[i]}
                /\ over[i][0] \in index.fin \cup back \cup {None}
                /\ i \notin overtaken => over[i][0] = desc.base[i]
<1> DEFINE back == {i \in SnapIds : ComesBack(i)}
<1>1. Kinds /\ NamesInv /\ ListsInv
  BY DEF SharedInv
<1> SUFFICES ASSUME NEW i \in back
             PROVE  /\ i \notin index.snaps /\ IsWhole(i) /\ i < nextId
                    /\ over[i][0] \in {None, desc.base[i]}
                    /\ over[i][0] \in index.fin \cup back \cup {None}
                    /\ i \notin overtaken => over[i][0] = desc.base[i]
  OBVIOUS
<1>2. i \in Orphans /\ IsWhole(i) /\ i \in SnapIds
  BY DEF ComesBack
<1>3. i \notin index.snaps
  BY <1>2 DEF Orphans
<1>4. <<i, 0>> \in packs
  BY <1>1, <1>2, KindFacts DEF IsWhole
<1>5. i < nextId
  <2>1. ~(i >= nextId)
    BY <1>1, <1>2, <1>4, KindFacts DEF NamesInv
  <2> QED
    BY <1>1, <1>2, <2>1, KindFacts
<1>6. over[i][0] \in {None, desc.base[i]} /\ (i \notin overtaken => over[i][0] = desc.base[i])
  BY <1>1, <1>2, <1>4, KindFacts DEF NamesInv
<1>7. over[i][0] \in index.snaps \cup {None} => over[i][0] \in index.fin \cup {None}
  BY <1>1, <1>2, KindFacts, ListFacts DEF OpenIn
<1>8. ASSUME over[i][0] \notin index.snaps \cup {None}
      PROVE  over[i][0] \in back
  <2> DEFINE b == over[i][0]
  <2>1. b \in Orphans /\ IsWhole(b) /\ DescribedBase(b) = None
    BY <1>8 DEF ComesBack, DescribedBase
  <2>2. b \in SnapIds
    BY <2>1 DEF Orphans
  <2>3. ComesBack(b)
    BY <2>1 DEF ComesBack
  <2> QED
    BY <2>2, <2>3
<1> QED
  BY <1>2, <1>3, <1>5, <1>6, <1>7, <1>8

\* The job starts again: rank 0 lists what came back, by step.
LEMMA RestartsKeeps ==
    ASSUME SharedInv, Restarts
    PROVE  SharedInv'
<1> DEFINE back == {i \in SnapIds : ComesBack(i)}
           m == [index EXCEPT
                !.snaps = @ \cup back, !.fin = @ \cup back,
                !.pos = [i \in SnapIds |-> IF i \in back THEN MaxIds + i ELSE @[i]]]
<1>1. Kinds /\ NamesInv /\ ListsInv
  BY DEF SharedInv
<1>2. /\ index' = IF back = {} THEN index ELSE SortByStep(m, desc)
      /\ packs' = {p \in packs : p[1] \in index.snaps \cup back}
      /\ desc' = [desc EXCEPT !.base =
                    [i \in SnapIds |-> IF i \in back THEN over[i][0] ELSE @[i]]]
      /\ \E early \in SUBSET (Ranks \ {0}) :
            mem' = [r \in Ranks |-> IF r \in early THEN index ELSE index']
      /\ save' = NoSave
      /\ rank' = [r \in Ranks |-> NoRank]
      /\ merger' = [r \in Ranks |-> NoMerger]
      /\ want' = [r \in Ranks |-> "none"]
      /\ UNCHANGED <<over, nextId, step, acked, overtaken>>
  BY DEF Restarts, Recovered, DescribedBase
<1>3. \A i \in back :
            /\ i \notin index.snaps /\ IsWhole(i) /\ i < nextId
            /\ over[i][0] \in {None, desc.base[i]}
            /\ over[i][0] \in index.fin \cup back \cup {None}
            /\ i \notin overtaken => over[i][0] = desc.base[i]
  BY ComesBackFacts
<1>4. back \subseteq SnapIds
  OBVIOUS
<1> HIDE DEF back
<1>5. /\ m \in Manifests /\ m.snaps = index.snaps \cup back /\ m.fin = index.fin \cup back
      /\ m.pinned = index.pinned
      /\ \A i \in SnapIds : m.pos[i] = IF i \in back THEN MaxIds + i ELSE index.pos[i]
  <2>1. index \in Manifests
    BY <1>1, KindFacts
  <2>2. \A i \in SnapIds : (IF i \in back THEN MaxIds + i ELSE index.pos[i]) \in Nat
    BY <2>1, ManifestAssumption DEF Manifests, SnapIds
  <2> QED
    BY <1>4, <2>1, <2>2 DEF Manifests
<1> HIDE DEF m
<1>6. /\ Row(index', desc.step, nextId) /\ index' \in Manifests
      /\ index'.snaps = index.snaps \cup back /\ index'.fin = index.fin \cup back
  <2>1. CASE back = {}
    BY <1>1, <1>2, <2>1, KindFacts, ListFacts
  <2>2. CASE back # {}
    <3>1. \A i \in index.snaps : index.pos[i] \in Nat /\ index.pos[i] <= MaxIds
      <4>1. Cardinality(index.snaps) <= Cardinality(SnapIds) /\ Cardinality(SnapIds) = MaxIds
        <5>1. Cardinality(SnapIds) = MaxIds
          BY ManifestAssumption, FS_Interval DEF SnapIds
        <5>2. SnapIds \in SUBSET SnapIds /\ index.snaps \in SUBSET SnapIds
          BY <1>1, KindFacts
        <5> QED
          BY <5>1, <5>2, SubsetSize
      <4>2. Cardinality(index.snaps) \in Nat /\ MaxIds \in Nat
        BY <1>1, KindFacts, IdSetSize, ManifestAssumption
      <4>3. \A i \in index.snaps : index.pos[i] \in 1 .. Cardinality(index.snaps)
        BY <1>1, ListFacts DEF Placed
      <4> QED
        BY <4>1, <4>2, <4>3
    <3>2. ASSUME NEW i \in m.snaps, NEW j \in m.snaps, m.pos[i] = m.pos[j]
          PROVE  i = j
      <4>0. i \in SnapIds /\ j \in SnapIds
        BY <1>1, <1>4, <1>5, <3>2, KindFacts
      <4>1. i \in SnapIds /\ j \in SnapIds /\ i \in Nat \ {0} /\ j \in Nat \ {0} /\ MaxIds \in Nat
        BY <4>0, ManifestAssumption DEF SnapIds
      <4>2. CASE i \in back /\ j \in back
        BY <1>5, <3>2, <4>1, <4>2
      <4>3. CASE i \in back /\ j \notin back
        BY <1>5, <3>1, <3>2, <4>1, <4>3
      <4>4. CASE i \notin back /\ j \in back
        BY <1>5, <3>1, <3>2, <4>1, <4>4
      <4>5. CASE i \notin back /\ j \notin back
        <5>1. index.pos[i] = index.pos[j] /\ i \in index.snaps /\ j \in index.snaps
          BY <1>5, <3>2, <4>1, <4>5
        <5> QED
          BY <1>1, <5>1, ListFacts DEF Placed
      <4> QED
        BY <4>2, <4>3, <4>4, <4>5
    <3>3. \A i \in m.snaps : i < nextId
      BY <1>1, <1>3, <1>5, ListFacts
    <3>4. m.fin \subseteq m.snaps /\ m.pinned = {}
      BY <1>1, <1>5, ListFacts
    <3>5. Row(SortByStep(m, desc), desc.step, nextId)
      BY <1>1, <1>5, <3>2, <3>3, <3>4, KindFacts, RowSorted
    <3>6. /\ SortByStep(m, desc) \in Manifests
          /\ SortByStep(m, desc).snaps = m.snaps /\ SortByStep(m, desc).fin = m.fin
      BY <1>5, SortIsManifest
    <3> QED
      BY <1>2, <1>5, <2>2, <3>5, <3>6
  <2> QED
    BY <2>1, <2>2
<1>7. /\ desc' \in Descriptors /\ desc'.step = desc.step
      /\ \A i \in SnapIds : desc'.base[i] = IF i \in back THEN over[i][0] ELSE desc.base[i]
      /\ \A i \in SnapIds : desc'.base[i] \in {None, desc.base[i]}
  <2>1. \A i \in SnapIds : over[i][0] \in SnapIds \cup {None}
    BY <1>1, KindFacts DEF Kinds
  <2>2. desc' = [step |-> desc.step, base |->
                    [i \in SnapIds |-> IF i \in back THEN over[i][0] ELSE desc.base[i]]]
    BY <1>1, <1>2, KindFacts DEF Descriptors
  <2> QED
    BY <1>1, <1>3, <2>1, <2>2, KindFacts DEF Descriptors
<1>8. 0 \in Ranks /\ Ours' = index' /\ \A r \in Ranks : mem'[r] \in {index, index'}
  BY <1>1, <1>2, KindFacts DEF Ours
<1>9. packs' \subseteq packs
  BY <1>2
<1>10. \A i \in index'.fin, r \in Ranks : <<i, r>> \in packs'
  <2>1. \A i \in index'.fin : IsWhole(i) /\ i \in index.snaps \cup back
    BY <1>1, <1>3, <1>6, ListFacts
  <2> QED
    BY <1>2, <2>1 DEF IsWhole
<1>11. Kinds'
  <2>1. mem' \in [Ranks -> Manifests]
    BY <1>1, <1>2, <1>6, KindFacts
  <2>2. save' \in Saves /\ rank' \in [Ranks -> RankSaves] /\ merger' \in [Ranks -> Mergers]
    BY <1>2 DEF NoSave, NoRank, NoMerger, Saves, RankSaves, Mergers
  <2>3. want' \in [Ranks -> {"none", "check", "force", "again"}] /\ packs' \subseteq SnapIds \X Ranks
    BY <1>1, <1>2, <1>9 DEF Kinds
  <2> QED
    BY <1>1, <1>2, <1>6, <1>7, <2>1, <2>2, <2>3 DEF Kinds
<1>12. OthersRest'
  BY <1>2 DEF OthersRest
<1>13. NamesInv'
  <2>1. ASSUME NEW i \in SnapIds, i >= nextId
        PROVE  desc'.base[i] = None /\ \A r \in Ranks : over[i][r] = None /\ <<i, r>> \notin packs'
    BY <1>1, <1>7, <1>9, <2>1 DEF NamesInv
  <2>2. ASSUME NEW i \in SnapIds, desc'.base[i] # None
        PROVE  /\ desc'.base[i] < nextId
               /\ desc'.base[desc'.base[i]] = None
               /\ desc'.step[desc'.base[i]] < desc'.step[i]
    <3>1. desc'.base[i] = desc.base[i] /\ desc.base[i] \in SnapIds
      BY <1>1, <1>7, <2>2, KindFacts
    <3> QED
      BY <1>1, <1>7, <2>2, <3>1 DEF NamesInv
  <2>3. \A i \in SnapIds : over[i][0] \in {None, desc'.base[i]}
    BY <1>1, <1>7 DEF NamesInv
  <2>4. \A i \in SnapIds \ overtaken, r \in Ranks : <<i, r>> \in packs' => over[i][r] = desc'.base[i]
    <3>1. \A i \in SnapIds \ overtaken : desc'.base[i] = desc.base[i]
      BY <1>3, <1>7
    <3> QED
      BY <1>1, <1>9, <3>1 DEF NamesInv
  <2> QED
    BY <1>1, <1>2, <1>7, <2>1, <2>2, <2>3, <2>4 DEF NamesInv
<1>14. ListsInv'
  <2>1. \A r \in Ranks : Row(mem'[r], desc.step, nextId)
    BY <1>1, <1>6, <1>8, ListFacts
  <2>2. OpenIn(index') \subseteq OpenIn(index)
    BY <1>6 DEF OpenIn
  <2>3. ASSUME NEW i \in index'.snaps \ overtaken
        PROVE  desc'.base[i] \in index'.fin \cup {None}
    <3>1. CASE i \in back
      BY <1>3, <1>4, <1>6, <1>7, <3>1
    <3>2. CASE i \notin back
      <4>1. i \in index.snaps \ overtaken /\ i \in SnapIds
        BY <1>1, <1>6, <2>3, <3>2, KindFacts
      <4>2. desc.base[i] \in index.fin \cup {None}
        BY <1>1, <4>1, ListFacts
      <4> QED
        BY <1>6, <1>7, <3>2, <4>1, <4>2
    <3> QED
      BY <3>1, <3>2
  <2>4. Chained(index', packs', desc'.base, over, overtaken)
    BY <1>1, <1>10, <2>2, <2>3, ListFacts DEF Chained
  <2> QED
    BY <1>2, <1>6, <1>7, <1>8, <2>1, <2>4 DEF ListsInv
<1>15. SaveInv'
  BY <1>2 DEF SaveInv, Saving, Listing, NoSave
<1>16. RanksInv'
  BY <1>2 DEF RanksInv, NoRank
<1>17. MergeInv'
  <2>1. Mine' = NoMerger
    BY <1>2, <1>8 DEF Mine
  <2> QED
    BY <2>1 DEF MergeInv, Writing, NoMerger
<1> QED
  BY <1>11, <1>12, <1>13, <1>14, <1>15, <1>16, <1>17 DEF SharedInv

-----------------------------------------------------------------------------
(* All steps.                                                              *)

\* A job that has not saved.
LEMMA InitIsShared == Init => SharedInv
<1> SUFFICES ASSUME Init PROVE SharedInv
  OBVIOUS
<1>1. 0 \in Ranks /\ None \notin SnapIds
  BY MultiRankAssumption, ManifestAssumption DEF SnapIds, None
<1>2. EmptyManifest \in Manifests /\ desc \in Descriptors
  BY EmptyIsManifest DEF Init, Descriptors
<1>3. Ours = EmptyManifest /\ index = EmptyManifest /\ Mine = NoMerger
  BY <1>1 DEF Init, Ours, Mine
<1>4. Kinds
  <2>1. nextId \in 1 .. MaxIds + 1
    BY ManifestAssumption DEF Init
  <2> QED
    BY <1>2, <2>1 DEF Init, Kinds, Saves, RankSaves, Mergers, NoSave, NoRank, NoMerger, None
<1>5. OthersRest
  BY DEF Init, OthersRest
<1>6. NamesInv
  BY <1>1 DEF Init, NamesInv, None
<1>7. \A at, next : Row(EmptyManifest, at, next)
  BY DEF Row, Placed, EmptyManifest
<1>8. ListsInv
  <2>1. Chained(EmptyManifest, packs, desc.base, over, overtaken)
    BY DEF Chained, EmptyManifest, OpenIn
  <2> QED
    BY <1>3, <1>7, <2>1 DEF Init, ListsInv
<1>9. SaveInv /\ RanksInv /\ MergeInv
  BY <1>3 DEF Init, SaveInv, RanksInv, MergeInv, Saving, Listing, Writing, NoSave, NoRank, NoMerger
<1> QED
  BY <1>4, <1>5, <1>6, <1>8, <1>9 DEF SharedInv

\* Every step keeps what the ranks share in order.
LEMMA NextKeepsShared ==
    ASSUME OneMerger, SharedInv, [Next]_vars
    PROVE  SharedInv'
<1>1. CASE UNCHANGED vars
  <2>1. Ours' = Ours /\ Mine' = Mine
    BY <1>1 DEF vars, Ours, Mine
  <2>2. Kinds' /\ OthersRest'
    BY <1>1 DEF vars, SharedInv, Kinds, OthersRest
  <2>3. NamesInv' /\ ListsInv' /\ RanksInv'
    BY <1>1, <2>1 DEF vars, SharedInv, NamesInv, ListsInv, RanksInv, Listing
  <2>4. SaveInv'
    BY <1>1, <2>1 DEF vars, SharedInv, SaveInv, Saving, Listing, IsWhole
  <2>5. MergeInv'
    BY <1>1, <2>1 DEF vars, SharedInv, MergeInv, Saving, Writing
  <2> QED
    BY <2>2, <2>3, <2>4, <2>5 DEF SharedInv
<1>2. CASE ChoosesBase \/ Lists \/ Abandons \/ Collects \/ Publishes \/ FailsToPublish \/ Unlinks
  BY <1>2, ChoosesBaseKeeps, ListsKeeps, AbandonsKeeps, CollectsKeeps, PublishesKeeps,
     FailsToPublishKeeps, UnlinksKeeps
<1>3. CASE Restarts
  BY <1>3, RestartsKeeps
<1>4. ASSUME NEW r \in Ranks, StartsRank(r) \/ WritesPack(r) \/ FailsRank(r)
      PROVE  SharedInv'
  BY <1>4, StartsRankKeeps, WritesPackKeeps, FailsRankKeeps
<1>5. ASSUME NEW r \in Ranks, MergeNow(r)
      PROVE  SharedInv'
  <2>1. r = 0
    BY <1>5 DEF MergeNow, OneMerger
  <2>2. /\ want' = [want EXCEPT ![r] = "force"]
        /\ UNCHANGED <<packs, index, desc, over, nextId, mem, save, rank, merger, step,
                       acked, overtaken>>
    BY <1>5 DEF MergeNow
  <2>3. "force" \in {"none", "check", "force", "again"}
    OBVIOUS
  <2> QED
    BY <2>1, <2>2, <2>3, AsksKeeps
<1>6. ASSUME NEW r \in Ranks, MergerStep(r)
      PROVE  SharedInv'
  <2>1. r = 0
    BY <1>6, OneMergerSteps
  <2>2. CASE StandsDown(0) \/ FailsToFold(0)
    <3> DEFINE w == IF want[0] = "again" THEN "check" ELSE "none"
    <3>1. /\ want' = [want EXCEPT ![0] = w]
          /\ UNCHANGED <<packs, index, desc, over, nextId, mem, save, rank, merger, step,
                         acked, overtaken>>
      BY <2>2 DEF StandsDown, FailsToFold, Sleeps
    <3>2. w \in {"none", "check", "force", "again"} /\ 0 \in Ranks
      BY <2>1
    <3> HIDE DEF w
    <3> QED
      BY <3>1, <3>2, AsksKeeps
  <2> QED
    BY <1>6, <2>1, <2>2, FoldsKeeps, ClaimsKeeps, MergesPackKeeps, FailsToMergeKeeps,
       PublishesMergeKeeps, UnlinksMergedKeeps DEF MergerStep
<1> QED
  BY <1>1, <1>2, <1>3, <1>4, <1>5, <1>6 DEF Next


-----------------------------------------------------------------------------
(* What follows from it.                                                   *)

\* A row is a vector in the order of the steps.
LEMMA RowsAreVectors ==
    ASSUME NEW m \in Manifests, NEW next, Row(m, desc.step, next), desc \in Descriptors
    PROVE  IsVector(m)
<1>1. {m.pos[i] : i \in m.snaps} = 1 .. Cardinality(m.snaps)
  BY PlacesAreTaken DEF Row
<1>2. \A i \in m.snaps : m.pos[i] \in Nat
  BY DEF Manifests
<1>3. \A i, j \in m.fin : m.pos[i] < m.pos[j] => desc.step[i] <= desc.step[j]
  BY <1>2 DEF Row
<1> QED
  BY <1>1, <1>3 DEF IsVector, Row

LEMMA SharedIsTyped ==
    ASSUME SharedInv
    PROVE  TypeOK
<1>1. Kinds /\ ListsInv
  BY DEF SharedInv
<1>2. IsVector(index) /\ \A r \in Ranks : IsVector(mem[r])
  BY <1>1, KindFacts, RowsAreVectors DEF ListsInv
<1>3. save.at \in {"idle", "chosen", "open", "collected", "unlink"} /\ acked <= step
  BY <1>1 DEF Kinds, Saves
<1>4. \A r \in Ranks :
        /\ rank[r] \in [at : {"idle", "writing", "saved", "failed"}, base : {None} \cup SnapIds]
        /\ merger[r].at \in {"idle", "writing", "unlink"}
        /\ want[r] \in {"none", "check", "force", "again"}
  BY <1>1 DEF Kinds, RankSaves, Mergers
<1> QED
  BY <1>1, <1>2, <1>3, <1>4 DEF TypeOK, Kinds

\* Finalized means whole, with a base that is finalized and so whole too.
LEMMA SharedIsWhole ==
    ASSUME SharedInv
    PROVE  FinalizedIsWhole
<1>1. Kinds /\ NamesInv /\ ListsInv
  BY DEF SharedInv
<1> SUFFICES ASSUME NEW i \in index.fin \ overtaken
             PROVE  Loads(i)
  BY DEF FinalizedIsWhole
<1>2. i \in SnapIds /\ IsWhole(i) /\ desc.base[i] \in index.fin \cup {None}
  BY <1>1, KindFacts, ListFacts
<1>3. \A r \in Ranks : over[i][r] = desc.base[i]
  BY <1>1, <1>2 DEF NamesInv, IsWhole
<1>4. desc.base[i] # None => IsWhole(desc.base[i])
  BY <1>1, <1>2, ListFacts
<1> QED
  BY <1>2, <1>3, <1>4 DEF Loads, IsWhole

\* A rank reads the base of the listed snapshot, which is finalized.
LEMMA SharedIsLive ==
    ASSUME SharedInv
    PROVE  RanksDiffLiveBase
<1>1. Kinds /\ ListsInv /\ SaveInv /\ RanksInv
  BY DEF SharedInv
<1> SUFFICES ASSUME NEW r \in Ranks, rank[r].at = "writing", save.id \notin overtaken
             PROVE  HasBase(r)
  BY DEF RanksDiffLiveBase
<1>2. Listing /\ rank[r].base = save.base
  BY <1>1 DEF RanksInv, Listing
<1>3. save.id \in Ours.snaps /\ desc.base[save.id] = save.base
  BY <1>1, <1>2 DEF SaveInv, OpenIn
<1>4. save.base \in Ours.fin \cup {None}
  BY <1>1, <1>3, ListFacts
<1>5. save.base # None => IsWhole(save.base)
  BY <1>1, <1>4, ListFacts
<1> QED
  BY <1>2, <1>5 DEF HasBase, IsWhole

\* What is acknowledged is covered, and what covers it is whole.
LEMMA NewestIsListed ==
    ASSUME SharedInv, NewestInv
    PROVE  AckedIsListed
<1>1. Kinds /\ ListsInv
  BY DEF SharedInv
<1>2. \A i \in index.fin : IsWhole(i) /\ desc.step[i] \in Nat
  BY <1>1, KindFacts, ListFacts
<1>3. acked > 0 => \E i \in index.fin : acked <= desc.step[i]
  BY <1>1, KindFacts DEF NewestInv, Covers
<1> QED
  BY <1>1, <1>2, <1>3, KindFacts DEF AckedIsListed


-----------------------------------------------------------------------------
(* What was acknowledged stays, where no rollback point is kept and a full *)
(* may stay.                                                               *)

\* A step after which the list of rank 0, the index and what was acknowledged
\* are the same, the save is no further and the merge has not begun.
LEMMA NewestFrame ==
    ASSUME NewestInv, UNCHANGED <<desc, index, acked>>, Ours' = Ours,
           Saving' => Saving /\ save'.base = save.base,
           save'.at = "unlink" => save.at = "unlink" /\ step' = step,
           Writing' => Writing /\ Mine'.id = Mine.id /\ Mine'.claim = Mine.claim
    PROVE  NewestInv'
<1>1. LastStaysLast'
  BY DEF NewestInv, LastStaysLast
<1>2. MergedGoesBefore'
  BY DEF NewestInv, MergedGoesBefore
<1> QED
  BY <1>1, <1>2 DEF NewestInv, Covers

\* The base that is chosen is the last full.
LEMMA ChoosesBaseCovers ==
    ASSUME SharedInv, NewestInv, ChoosesBase
    PROVE  NewestInv'
<1> DEFINE full == LastFull(Ours, desc)
<1>1. /\ save'.at = "chosen" /\ save'.base \in {None, full}
      /\ UNCHANGED <<desc, index, acked>> /\ Ours' = Ours /\ Mine' = Mine
  BY DEF ChoosesBase, NoSave, Ours, Mine
<1>2. full # None => full \in Ours.snaps
  BY KindFacts, ListFacts, LookUps DEF SharedInv
<1>3. LastStaysLast'
  BY <1>1, <1>2 DEF LastStaysLast
<1>4. MergedGoesBefore'
  BY <1>1 DEF NewestInv, MergedGoesBefore, Writing
<1> QED
  BY <1>1, <1>3, <1>4 DEF NewestInv, Covers

\* What is listed is no full yet.
LEMMA ListsCovers ==
    ASSUME SharedInv, NewestInv, Lists
    PROVE  NewestInv'
<1> DEFINE k == Push(Ours, nextId, FALSE)
           last == LastFull(Ours, desc)
<1>1. Kinds /\ NamesInv /\ ListsInv /\ SaveInv /\ MergeInv
  BY DEF SharedInv
<1>2. /\ save.at = "chosen" /\ nextId \in SnapIds
      /\ desc' = [step |-> [desc.step EXCEPT ![nextId] = step],
                  base |-> [desc.base EXCEPT ![nextId] = save.base]]
      /\ index' \in {index, k} /\ acked' = acked /\ Mine' = Mine /\ Ours' = k
      /\ save'.at \in {"idle", "open"}
      /\ save'.at = "open" => save'.base = save.base
  <2>1. 0 \in Ranks /\ mem \in [Ranks -> Manifests] /\ save \in Saves
    BY <1>1, KindFacts DEF Kinds
  <2>2. mem'[0] = k
    BY <2>1 DEF Lists, Ours
  <2>3. /\ save'.at \in {"idle", "open"}
        /\ save'.at = "open" => save'.base = save.base
    <3>1. save' = [save EXCEPT !.at = "open", !.id = nextId] \/ save' = NoSave
      BY DEF Lists
    <3>2. [save EXCEPT !.at = "open", !.id = nextId].at = "open"
          /\ [save EXCEPT !.at = "open", !.id = nextId].base = save.base
      BY <2>1 DEF Saves
    <3>3. CASE save' = [save EXCEPT !.at = "open", !.id = nextId]
      BY <3>2, <3>3
    <3>4. CASE save' = NoSave
      BY <3>4 DEF NoSave
    <3> QED
      BY <3>1, <3>3, <3>4
  <2> QED
    BY <2>2, <2>3 DEF Lists, Fresh, Ours, Mine
<1>3. /\ nextId \notin Ours.snaps \cup index.snaps
      /\ FALSE \in BOOLEAN
  BY <1>1, KindFacts, ListFacts
<1>4. /\ k \in Manifests /\ Placed(k)
      /\ k.snaps = Ours.snaps \cup {nextId} /\ k.fin = Ours.fin
      /\ \A j \in Ours.snaps : k.pos[j] = Ours.pos[j]
  <2>1. nextId \in SnapIds \ Ours.snaps
    BY <1>2, <1>3
  <2>2. Ours \in Manifests /\ Placed(Ours)
    BY <1>1, KindFacts, ListFacts
  <2> QED
    BY <1>3, <2>1, <2>2, PushIsManifest, PushOrder
<1> HIDE DEF k
<1>5. \A i \in SnapIds \ {nextId} : desc'.step[i] = desc.step[i] /\ desc'.base[i] = desc.base[i]
  BY <1>1, <1>2, KindFacts
<1>6. /\ Ours.fin \subseteq Ours.snaps /\ index.fin \subseteq index.snaps
      /\ Ours.snaps \subseteq SnapIds /\ index.snaps \subseteq SnapIds
  BY <1>1, KindFacts, ListFacts
<1>7. LastFull(k, desc') = last
  <2>1. Fulls(k, desc') = Fulls(Ours, desc)
    BY <1>3, <1>4, <1>5, <1>6 DEF Fulls, IsDelta
  <2>2. \A i, j \in Fulls(Ours, desc) : k.pos[i] <= k.pos[j] <=> Ours.pos[i] <= Ours.pos[j]
    BY <1>4, <1>6 DEF Fulls
  <2>3. Ours \in Manifests /\ Placed(Ours) /\ k.fin \subseteq k.snaps
    BY <1>1, <1>4, <1>6, KindFacts, ListFacts
  <2> QED
    BY <1>4, <1>6, <2>1, <2>2, <2>3, SameFullsSameLast
<1>8. last # None => last \in Ours.snaps
  BY <1>1, <1>6, KindFacts, LookUps
<1> HIDE DEF last
<1>9. LastStaysLast'
  <2> SUFFICES ASSUME save'.at = "open", save'.base # None
               PROVE  IF save'.base \in k.snaps THEN save'.base = last
                      ELSE ~Writing' /\ \A i \in SnapIds : desc'.base[i] # last
    BY <1>2, <1>7 DEF LastStaysLast, Saving
  <2>1. Saving /\ save.base # None /\ save'.base = save.base /\ save.base # nextId
    BY <1>1, <1>2, KindFacts DEF SaveInv, Saving
  <2>2. IF save.base \in Ours.snaps THEN save.base = last
        ELSE ~Writing /\ \A i \in SnapIds : desc.base[i] # last
    BY <2>1 DEF NewestInv, LastStaysLast, last
  <2>3. CASE save.base \in Ours.snaps
    BY <1>4, <2>1, <2>2, <2>3
  <2>4. CASE save.base \notin Ours.snaps
    <3>1. save.base # last
      BY <1>8, <2>1, <2>4
    <3>2. \A i \in SnapIds : desc'.base[i] \in {desc.base[i], save.base}
      BY <1>1, <1>2, KindFacts
    <3> QED
      BY <1>2, <1>4, <2>1, <2>2, <2>4, <3>1, <3>2 DEF Writing
  <2> QED
    BY <2>3, <2>4
<1>10. MergedGoesBefore'
  <2>1. Writing => Mine.id \in SnapIds \ {nextId}
    BY <1>1, KindFacts DEF MergeInv
  <2>2. last # None => last \in SnapIds \ {nextId}
    BY <1>3, <1>6, <1>8
  <2> QED
    BY <1>2, <1>5, <1>7, <2>1, <2>2 DEF NewestInv, MergedGoesBefore, Writing, last
<1>11. Covers(index, acked)' /\ Covers(Ours, acked)'
  BY <1>2, <1>3, <1>4, <1>5, <1>6 DEF NewestInv, Covers
<1> QED
  BY <1>2, <1>9, <1>10, <1>11 DEF NewestInv


\* What retention leaves has the snapshot of this save, and a last full the
\* merge under way goes before.
LEMMA RetainedCovers ==
    ASSUME SharedInv, NewestInv, NoRollback, MaxFull # 0, save.at = "collected"
    PROVE  /\ save.id \in Retained(Finalized).fin /\ desc.step[save.id] = step
           /\ Covers(Retained(Finalized), step)
           /\ Writing =>
                LET last == LastFull(Retained(Finalized), desc)
                IN  last # None /\ last \notin Mine.claim => desc.step[Mine.id] < desc.step[last]
<1> DEFINE f == Finalized
           k == Retained(f)
           x == save.id
           last == LastFull(Ours, desc)
<1>1. Kinds /\ NamesInv /\ ListsInv /\ SaveInv /\ MergeInv
  BY DEF SharedInv
<1>2. /\ f \in Manifests /\ Placed(f)
      /\ f.snaps = Ours.snaps /\ f.fin = Ours.fin \cup {x}
      /\ f.pos = Ours.pos /\ f.pinned = {}
      /\ x \in Ours.snaps \ Ours.fin /\ f.fin \subseteq f.snaps
  BY <1>1, FinalizedFacts, ListFacts DEF SharedInv
<1> HIDE DEF f
<1>3. /\ desc.step[x] = step /\ desc.base[x] = save.base
      /\ \A i \in Ours.snaps \ {x} : desc.step[i] < step
      /\ Writing => desc.step[Mine.id] < step
  BY <1>1 DEF SaveInv, MergeInv, Listing, Saving
<1>4. Ours \in Manifests /\ Placed(Ours) /\ Ours.fin \subseteq Ours.snaps /\ desc \in Descriptors
      /\ Ours.snaps \subseteq SnapIds /\ desc.step \in [SnapIds -> Nat] /\ step \in Nat
      /\ \A i \in Ours.snaps : Ours.pos[i] \in Nat
  BY <1>1, KindFacts, ListFacts DEF Manifests
<1>5. \A i \in f.fin \ {x} : f.pos[i] < f.pos[x]
  <2> SUFFICES ASSUME NEW i \in f.fin \ {x}
               PROVE  f.pos[i] < f.pos[x]
    OBVIOUS
  <2>1. i \in Ours.snaps /\ desc.step[i] < desc.step[x] /\ desc.step[i] \in Nat /\ desc.step[x] \in Nat
    BY <1>2, <1>3, <1>4
  <2>2. ~(Ours.pos[x] <= Ours.pos[i])
    BY <1>1, <1>2, <2>1, ListFacts
  <2> QED
    BY <1>2, <1>4, <2>1, <2>2
<1>6. desc.base[x] = None => LastFull(f, desc) = x
  <2> SUFFICES ASSUME desc.base[x] = None PROVE LastFull(f, desc) = x
    OBVIOUS
  <2>1. x \in Fulls(f, desc) /\ Fulls(f, desc) \subseteq f.fin
    BY <1>2 DEF Fulls, IsDelta
  <2>2. \A g \in Fulls(f, desc) : f.pos[g] <= f.pos[x]
    BY <1>2, <1>4, <1>5, <2>1
  <2> QED
    BY <1>2, <2>1, <2>2, LastFullIs
<1>7. desc.base[x] # None => LastFull(f, desc) = last
  <2> SUFFICES ASSUME desc.base[x] # None PROVE LastFull(f, desc) = last
    OBVIOUS
  <2>1. Fulls(f, desc) = Fulls(Ours, desc)
    BY <1>2 DEF Fulls, IsDelta
  <2> QED
    BY <1>2, <1>4, <2>1, SameFullsSameLast
<1>8. IF desc.base[x] = None \/ desc.base[x] \in Ours.snaps
      THEN desc.base[x] \in {None, LastFull(f, desc)}
      ELSE ~Writing
  <2>1. Saving
    BY DEF Saving
  <2> QED
    BY <1>3, <1>7, <2>1 DEF NewestInv, LastStaysLast
<1>9. /\ x \in k.fin
      /\ desc.base[x] \in {None, LastFull(f, desc)} => LastFull(k, desc) = LastFull(f, desc)
  <2>1. x \in f.fin /\ (desc.base[x] \in {None, LastFull(f, desc)} \/ desc.base[x] \notin f.snaps)
    BY <1>2, <1>8
  <2> HIDE DEF x, k
  <2>2. /\ x \in Retained(f).fin
        /\ desc.base[x] \in {None, LastFull(f, desc)} =>
                LastFull(Retained(f), desc) = LastFull(f, desc)
    BY <1>1, <1>2, <1>4, <1>5, <2>1, RetainedKeepsNewest
  <2> QED
    BY <2>2 DEF k
<1>10. ASSUME Writing, LastFull(k, desc) # None, LastFull(k, desc) \notin Mine.claim
       PROVE  desc.step[Mine.id] < desc.step[LastFull(k, desc)]
  <2>1. LastFull(k, desc) = LastFull(f, desc)
    BY <1>8, <1>9, <1>10
  <2>2. CASE desc.base[x] = None
    BY <1>3, <1>6, <1>10, <2>1, <2>2
  <2>3. CASE desc.base[x] # None
    BY <1>7, <1>10, <2>1, <2>3 DEF NewestInv, MergedGoesBefore
  <2> QED
    BY <2>2, <2>3
<1>11. Covers(k, step)
  BY <1>3, <1>4, <1>9 DEF Covers
<1> QED
  BY <1>3, <1>9, <1>10, <1>11 DEF f

\* What covers a step covers those before.
LEMMA CoversLess ==
    ASSUME NEW m \in Manifests, desc \in Descriptors, NEW s \in Nat, NEW t \in Nat,
           t <= s, Covers(m, s)
    PROVE  Covers(m, t)
<1>1. \A i \in m.fin : desc.step[i] \in Nat
  BY DEF Manifests, Descriptors
<1> QED
  BY <1>1 DEF Covers

\* Publishing leaves the snapshot of this save.
LEMMA PublishesCovers ==
    ASSUME SharedInv, NewestInv, NoRollback, MaxFull # 0, Publishes
    PROVE  NewestInv'
<1> DEFINE k == Retained(Finalized)
<1>1. Kinds
  BY DEF SharedInv
<1>2. /\ save.at = "collected" /\ Ours' = k /\ index' = k
      /\ save'.at = "unlink" /\ Mine' = Mine
      /\ UNCHANGED <<desc, step, acked>>
  <2>1. 0 \in Ranks /\ mem \in [Ranks -> Manifests] /\ save \in Saves
    BY <1>1, KindFacts DEF Kinds
  <2> HIDE DEF k
  <2>2. mem'[0] = k
    BY <2>1 DEF Publishes, k
  <2>3. save'.at = "unlink"
    BY <2>1 DEF Publishes, Saves
  <2> QED
    BY <2>2, <2>3 DEF Publishes, CanFinalize, Ours, Mine
<1>3. /\ Covers(k, step)
      /\ Writing =>
            LET last == LastFull(k, desc)
            IN  last # None /\ last \notin Mine.claim => desc.step[Mine.id] < desc.step[last]
  BY <1>2, RetainedCovers
<1>4. k \in Manifests /\ step \in Nat /\ acked \in Nat /\ acked <= step /\ desc \in Descriptors
  BY <1>1, <1>2, KindFacts, FinalizedFacts DEF Kinds
<1> HIDE DEF k
<1>5. Covers(k, acked)
  BY <1>3, <1>4, CoversLess
<1>6. LastStaysLast' /\ MergedGoesBefore'
  BY <1>2, <1>3 DEF LastStaysLast, MergedGoesBefore, Saving, Writing
<1> QED
  BY <1>2, <1>3, <1>5, <1>6 DEF NewestInv, Covers

\* So does failing to, in memory; the index keeps what it had.
LEMMA FailsToPublishCovers ==
    ASSUME SharedInv, NewestInv, NoRollback, MaxFull # 0, FailsToPublish
    PROVE  NewestInv'
<1> DEFINE k == Retained(Finalized)
<1>1. Kinds
  BY DEF SharedInv
<1>2. /\ save.at = "collected" /\ Ours' \in {Ours, k}
      /\ save'.at = "idle" /\ Mine' = Mine
      /\ UNCHANGED <<desc, index, step, acked>>
  <2>1. 0 \in Ranks /\ mem \in [Ranks -> Manifests]
    BY <1>1, KindFacts DEF Kinds
  <2> HIDE DEF k
  <2>2. mem'[0] \in {mem[0], k}
    BY <2>1 DEF FailsToPublish, k
  <2> QED
    BY <2>2 DEF FailsToPublish, Ours, Mine, NoSave
<1>3. /\ Covers(k, step)
      /\ Writing =>
            LET last == LastFull(k, desc)
            IN  last # None /\ last \notin Mine.claim => desc.step[Mine.id] < desc.step[last]
  BY <1>2, RetainedCovers
<1>4. k \in Manifests /\ step \in Nat /\ acked \in Nat /\ acked <= step /\ desc \in Descriptors
  BY <1>1, <1>2, KindFacts, FinalizedFacts DEF Kinds
<1> HIDE DEF k
<1>5. Covers(k, acked)
  BY <1>3, <1>4, CoversLess
<1>6. LastStaysLast'
  BY <1>2 DEF LastStaysLast, Saving
<1>7. MergedGoesBefore'
  BY <1>2, <1>3 DEF NewestInv, MergedGoesBefore, Writing
<1>8. Covers(index, acked)' /\ Covers(Ours, acked)'
  BY <1>2, <1>5 DEF NewestInv, Covers
<1> QED
  BY <1>2, <1>6, <1>7, <1>8 DEF NewestInv

\* The step that is acknowledged is that of the save.
LEMMA UnlinksCovers ==
    ASSUME SharedInv, NewestInv, Unlinks
    PROVE  NewestInv'
<1>1. /\ save.at = "unlink" /\ save'.at = "idle" /\ acked' \in {acked, desc.step[save.id]}
      /\ Ours' = Ours /\ Mine' = Mine /\ UNCHANGED <<desc, index>>
  BY DEF Unlinks, NoSave, Ours, Mine
<1>2. desc.step[save.id] = step /\ Ours = index
  BY <1>1 DEF SharedInv, SaveInv, ListsInv
<1>3. Covers(Ours, acked) /\ Covers(Ours, step)
  BY <1>1 DEF NewestInv
<1>4. Covers(Ours, acked)' /\ Covers(index, acked)'
  BY <1>1, <1>2, <1>3 DEF Covers
<1>5. LastStaysLast' /\ MergedGoesBefore'
  BY <1>1 DEF NewestInv, LastStaysLast, MergedGoesBefore, Saving, Writing
<1> QED
  BY <1>1, <1>4, <1>5 DEF NewestInv


\* What a stride merge takes is covered by what survives it, and is no full.
LEMMA FoldsCovers ==
    ASSUME SharedInv, NewestInv, Folds(0)
    PROVE  NewestInv'
<1> DEFINE gone == Superseded(Ours, desc)
           k == Drop(Ours, gone)
           v == Survivor(Ours, desc)
           last == LastFull(Ours, desc)
<1>1. Kinds /\ NamesInv /\ ListsInv
  BY DEF SharedInv
<1>2. /\ Ours' = k /\ index' = k /\ ~Writing' /\ UNCHANGED <<desc, save, step, acked>>
  <2>1. 0 \in Ranks /\ mem \in [Ranks -> Manifests] /\ merger \in [Ranks -> Mergers]
    BY <1>1, KindFacts DEF Kinds
  <2> HIDE DEF k
  <2>2. mem'[0] = k
    BY <2>1 DEF Folds, Ours, k
  <2>3. ~Writing'
    BY <2>1 DEF Folds, Writing, Mine, NoMerger
  <2> QED
    BY <2>2, <2>3 DEF Folds, Ours
<1>3. /\ Ours \in Manifests /\ Placed(Ours) /\ Ours.fin \subseteq Ours.snaps
      /\ Ours.snaps \subseteq SnapIds /\ desc.step \in [SnapIds -> Nat]
  BY <1>1, KindFacts, ListFacts
<1>4. /\ gone \subseteq PendingDeltas(Ours, desc) \cap Ours.fin
      /\ v \notin gone /\ (gone # {} => v # None)
  BY DEF Superseded
<1>5. v # None => /\ v \in PendingDeltas(Ours, desc) \cap Ours.fin
                  /\ \A j \in PendingDeltas(Ours, desc) \cap Ours.fin : Ours.pos[j] <= Ours.pos[v]
  <2>1. PendingDeltas(Ours, desc) \cap Ours.fin \in SUBSET SnapIds
    BY <1>3
  <2> QED
    BY <1>3, <2>1, Ends, LastIsMember DEF Survivor
<1>6. k.snaps = Ours.snaps \ gone /\ k.fin = Ours.fin \ gone
  BY <1>3, DropIsManifest
<1>7. last \notin gone /\ last \in Ours.snaps \cup {None}
  <2>1. \A i \in gone : i \in SnapIds /\ desc.base[i] # None
    BY <1>1, KindFacts, LookUps
  <2>2. last # None => last \in Ours.snaps /\ desc.base[last] = None
    BY <1>1, <1>3, KindFacts, LookUps
  <2> QED
    BY <1>1, <2>1, <2>2, KindFacts
<1>8. LastFull(k, desc) = last
  BY <1>3, <1>7, DropKeepsLastFull
<1> HIDE DEF gone, v, last, k
<1>9. ASSUME NEW s \in Nat, Covers(Ours, s)
      PROVE  Covers(k, s)
  <2>1. CASE s = 0
    BY <2>1 DEF Covers
  <2>2. ASSUME NEW i \in Ours.fin, s <= desc.step[i]
        PROVE  Covers(k, s)
    <3>1. CASE i \in gone
      <4>1. v \in Ours.fin \ gone /\ Ours.pos[i] <= Ours.pos[v]
        BY <1>4, <1>5, <3>1
      <4>2. desc.step[i] <= desc.step[v]
        BY <1>1, <1>3, <4>1, ListFacts
      <4>3. desc.step[i] \in Nat /\ desc.step[v] \in Nat
        BY <1>3, <4>1
      <4>4. v \in k.fin /\ s <= desc.step[v]
        BY <1>6, <2>2, <4>1, <4>2, <4>3
      <4> QED
        BY <4>4 DEF Covers
    <3>2. CASE i \notin gone
      BY <1>6, <2>2, <3>2 DEF Covers
    <3> QED
      BY <3>1, <3>2
  <2> QED
    BY <1>9, <2>1, <2>2 DEF Covers
<1>10. LastStaysLast'
  <2> SUFFICES ASSUME Saving, save.base # None
               PROVE  IF save.base \in k.snaps THEN save.base = last
                      ELSE \A i \in SnapIds : desc.base[i] # last
    BY <1>2, <1>8 DEF LastStaysLast, Saving
  <2> QED
    BY <1>6, <1>7 DEF NewestInv, LastStaysLast, last
<1>11. MergedGoesBefore'
  BY <1>2 DEF MergedGoesBefore
<1>12. Covers(k, acked) /\ (save.at = "unlink" => Covers(k, step))
  BY <1>1, <1>9, KindFacts DEF NewestInv
<1> QED
  BY <1>2, <1>10, <1>11, <1>12 DEF NewestInv, Covers

\* A merge that begins claims the last full.
LEMMA ClaimsCovers ==
    ASSUME SharedInv, NewestInv, Claims(0)
    PROVE  NewestInv'
<1> DEFINE last == LastFull(Ours, desc)
<1>1. Kinds /\ NamesInv /\ ListsInv
  BY DEF SharedInv
<1>2. /\ CanMerge(0) /\ nextId \in SnapIds /\ Ours' = Ours
      /\ desc'.base = desc.base
      /\ \A i \in SnapIds \ {nextId} : desc'.step[i] = desc.step[i]
      /\ Mine'.claim = Inputs(0)
      /\ UNCHANGED <<index, save, step, acked>>
  <2>1. merger \in [Ranks -> Mergers] /\ 0 \in Ranks
    BY <1>1, KindFacts DEF Kinds
  <2>2. \E d : desc' = [desc EXCEPT !.step[nextId] = d]
    BY DEF Claims
  <2>3. desc'.base = desc.base /\ \A i \in SnapIds \ {nextId} : desc'.step[i] = desc.step[i]
    BY <1>1, <2>2, KindFacts DEF Descriptors
  <2>4. Mine'.claim = Inputs(0)
    BY <2>1 DEF Claims, Mine
  <2> QED
    BY <2>3, <2>4 DEF Claims, Fresh, Ours
<1>3. nextId \notin Ours.snaps \cup index.snaps
  BY <1>1, KindFacts, ListFacts
<1>4. /\ last \in Inputs(0) /\ \E i \in SnapIds : desc.base[i] = last
  <2>1. Base(0) = last /\ last \in Inputs(0) /\ DeltasOf(Ours, desc, last) # {}
    BY <1>2, ClaimFacts
  <2>2. DeltasOf(Ours, desc, last) \subseteq SnapIds
    BY <1>1, KindFacts DEF DeltasOf
  <2> QED
    BY <2>1, <2>2 DEF DeltasOf
<1>5. LastFull(Ours, desc') = last
  BY <1>2 DEF LastFull, Fulls, IsDelta
<1> HIDE DEF last
<1>6. LastStaysLast'
  <2>1. ASSUME Saving, save.base # None
        PROVE  save.base \in Ours.snaps /\ save.base = last
    BY <1>4, <2>1 DEF NewestInv, LastStaysLast, last
  <2> QED
    BY <1>2, <1>5, <2>1 DEF LastStaysLast, Saving
<1>7. MergedGoesBefore'
  BY <1>2, <1>4, <1>5 DEF MergedGoesBefore
<1>8. \A i \in Ours.fin \cup index.fin : desc'.step[i] = desc.step[i]
  BY <1>1, <1>2, <1>3, KindFacts, ListFacts
<1> QED
  BY <1>2, <1>6, <1>7, <1>8 DEF NewestInv, Covers

\* The merged full covers what it was made of.  It is the last one when it
\* takes the place of the last one, and goes before it when it does not.
LEMMA PublishesMergeCovers ==
    ASSUME SharedInv, NewestInv, PublishesMerge(0)
    PROVE  NewestInv'
<1> DEFINE d == Drop(Ours, Mine.claim)
           p == Push(d, Mine.id, TRUE)
           k == Merged(Ours, Mine)
           last == LastFull(Ours, desc)
<1>1. Kinds /\ NamesInv /\ ListsInv /\ MergeInv
  BY DEF SharedInv
<1>2. Writing /\ Ours' = k /\ index' = k /\ ~Writing' /\ UNCHANGED <<desc, save, step, acked>>
  <2>1. 0 \in Ranks /\ mem \in [Ranks -> Manifests] /\ merger \in [Ranks -> Mergers]
    BY <1>1, KindFacts DEF Kinds
  <2> HIDE DEF k
  <2>2. mem'[0] = k
    BY <2>1 DEF PublishesMerge, Ours, Mine, k
  <2>3. ~Writing'
    BY <2>1 DEF PublishesMerge, Writing, Mine, Mergers
  <2> QED
    BY <2>2, <2>3 DEF PublishesMerge, Ours, Mine, Writing
<1>3. /\ p \in Manifests /\ Placed(p) /\ p.snaps = k.snaps
      /\ k = SortByStep(p, desc)
      /\ \A j \in Ours.snaps \ Mine.claim : p.pos[j] = d.pos[j] /\ p.pos[j] < p.pos[Mine.id]
      /\ k \in Manifests
      /\ k.snaps = (Ours.snaps \ Mine.claim) \cup {Mine.id}
      /\ k.fin = (Ours.fin \ Mine.claim) \cup {Mine.id}
      /\ Placed(k) /\ k.fin \subseteq k.snaps
  BY <1>2, MergedFacts DEF Row
<1>4. \A i, j \in Ours.snaps \ Mine.claim : d.pos[i] <= d.pos[j] <=> Ours.pos[i] <= Ours.pos[j]
  BY <1>1, KindFacts, ListFacts, DropOrder
<1> HIDE DEF d, p
<1>5. \A i, j \in k.snaps :
        k.pos[i] <= k.pos[j] <=> \/ desc.step[i] < desc.step[j]
                                 \/ desc.step[i] = desc.step[j] /\ p.pos[i] <= p.pos[j]
  BY <1>1, <1>3, KindFacts, SortOrder DEF Placed
<1> HIDE DEF k
<1>6. /\ Mine.id \in SnapIds /\ Mine.id \notin Ours.snaps /\ desc.base[Mine.id] = None
      /\ \A i \in SnapIds : desc.base[i] # Mine.id
      /\ Saving => save.base # Mine.id
      /\ \A i \in Mine.claim : desc.step[i] <= desc.step[Mine.id]
  BY <1>1, <1>2 DEF MergeInv
<1>7. /\ Ours \in Manifests /\ Placed(Ours) /\ Ours.fin \subseteq Ours.snaps
      /\ Ours.snaps \subseteq SnapIds /\ desc.step \in [SnapIds -> Nat]
      /\ None \notin SnapIds
      /\ \A i \in Ours.snaps : Ours.pos[i] \in Nat
      /\ \A i \in p.snaps : p.pos[i] \in Nat
  BY <1>1, <1>3, KindFacts, ListFacts DEF Manifests
<1>8. /\ Fulls(k, desc) = (Fulls(Ours, desc) \ Mine.claim) \cup {Mine.id}
      /\ Fulls(Ours, desc) \subseteq Ours.snaps
  BY <1>3, <1>6, <1>7 DEF Fulls, IsDelta
<1>9. last # None => /\ last \in Fulls(Ours, desc)
                     /\ \A g \in Fulls(Ours, desc) \ {last} : Ours.pos[g] < Ours.pos[last]
  BY <1>7, LastFullIs
<1> HIDE DEF last
<1>10. last # None => \A g \in Fulls(Ours, desc) : desc.step[g] <= desc.step[last]
  <2> SUFFICES ASSUME last # None, NEW g \in Fulls(Ours, desc)
               PROVE  desc.step[g] <= desc.step[last]
    OBVIOUS
  <2>1. g \in Ours.snaps /\ last \in Ours.snaps /\ Ours.pos[g] <= Ours.pos[last]
    BY <1>7, <1>8, <1>9
  <2> QED
    BY <1>1, <2>1, ListFacts
<1>11. ASSUME last # None, last \in Mine.claim
       PROVE  LastStaysLast'
  <2>1. \A g \in Fulls(k, desc) : k.pos[g] <= k.pos[Mine.id]
    <3> SUFFICES ASSUME NEW g \in Fulls(k, desc)
                 PROVE  k.pos[g] <= k.pos[Mine.id]
      OBVIOUS
    <3>1. CASE g = Mine.id
      <4>1. k.pos[g] \in Nat
        BY <1>3, <1>6, <3>1 DEF Manifests
      <4> QED
        BY <3>1, <4>1
    <3>2. CASE g # Mine.id
      <4>1. g \in Fulls(Ours, desc) \ Mine.claim /\ g \in Ours.snaps /\ g \in k.snaps
            /\ Mine.id \in k.snaps
        BY <1>3, <1>8, <3>2
      <4>2. desc.step[g] <= desc.step[last] /\ desc.step[last] <= desc.step[Mine.id]
        BY <1>6, <1>10, <1>11, <4>1
      <4>3. desc.step[g] \in Nat /\ desc.step[last] \in Nat /\ desc.step[Mine.id] \in Nat
        BY <1>6, <1>7, <1>8, <1>9, <1>11, <4>1
      <4>4. p.pos[g] <= p.pos[Mine.id]
        BY <1>3, <1>7, <4>1
      <4>5. desc.step[g] < desc.step[Mine.id] \/ desc.step[g] = desc.step[Mine.id]
        BY <4>2, <4>3
      <4> QED
        BY <1>5, <4>1, <4>4, <4>5
    <3> QED
      BY <3>1, <3>2
  <2>2. LastFull(k, desc) = Mine.id
    BY <1>3, <1>8, <2>1, LastFullIs
  <2>3. LastStaysLast'
    <3> SUFFICES ASSUME Saving, save.base # None
                 PROVE  IF save.base \in k.snaps THEN save.base = Mine.id
                        ELSE \A i \in SnapIds : desc.base[i] # Mine.id
      BY <1>2, <2>2 DEF LastStaysLast, Saving
    <3>1. save.base = last
      BY <1>2 DEF NewestInv, LastStaysLast, last
    <3> QED
      BY <1>3, <1>6, <1>11, <3>1
  <2> QED
    BY <2>3
<1>12. ASSUME last # None, last \notin Mine.claim
       PROVE  LastStaysLast'
  <2>1. desc.step[Mine.id] < desc.step[last]
    BY <1>2, <1>12 DEF NewestInv, MergedGoesBefore, last
  <2>2. last \in Fulls(k, desc) /\ last \in Ours.snaps \ Mine.claim /\ last \in k.snaps
    BY <1>3, <1>8, <1>9, <1>12
  <2>3. \A g \in Fulls(k, desc) : k.pos[g] <= k.pos[last]
    <3> SUFFICES ASSUME NEW g \in Fulls(k, desc)
                 PROVE  k.pos[g] <= k.pos[last]
      OBVIOUS
    <3>1. CASE g = Mine.id
      BY <1>3, <1>5, <2>1, <2>2, <3>1
    <3>2. CASE g # Mine.id
      <4>1. g \in Fulls(Ours, desc) /\ g \in Ours.snaps \ Mine.claim /\ g \in k.snaps
        BY <1>3, <1>8, <3>2
      <4>2. Ours.pos[g] <= Ours.pos[last]
        BY <1>7, <1>9, <1>12, <2>2, <4>1
      <4>3. p.pos[g] <= p.pos[last]
        BY <1>3, <1>4, <2>2, <4>1, <4>2
      <4>4. desc.step[g] <= desc.step[last] /\ desc.step[g] \in Nat /\ desc.step[last] \in Nat
        BY <1>7, <1>10, <1>12, <2>2, <4>1
      <4>5. desc.step[g] < desc.step[last] \/ desc.step[g] = desc.step[last]
        BY <4>4
      <4> QED
        BY <1>5, <2>2, <4>1, <4>3, <4>5
    <3> QED
      BY <3>1, <3>2
  <2>4. LastFull(k, desc) = last
    BY <1>3, <2>2, <2>3, LastFullIs
  <2>5. Saving /\ save.base # None => save.base = last
    BY <1>2 DEF NewestInv, LastStaysLast, last
  <2> QED
    BY <1>2, <2>2, <2>4, <2>5 DEF LastStaysLast, Saving
<1>13. ASSUME last = None
       PROVE  LastStaysLast'
  <2>1. Saving => save.base = None
    BY <1>2, <1>13 DEF NewestInv, LastStaysLast, last
  <2> QED
    BY <1>2, <2>1 DEF LastStaysLast, Saving
<1>14. LastStaysLast'
  BY <1>11, <1>12, <1>13
<1>15. MergedGoesBefore'
  BY <1>2 DEF MergedGoesBefore
<1>16. ASSUME NEW s \in Nat, Covers(Ours, s)
       PROVE  Covers(k, s)
  <2>1. ASSUME NEW i \in Ours.fin, s <= desc.step[i]
        PROVE  Covers(k, s)
    <3>1. desc.step[i] \in Nat /\ desc.step[Mine.id] \in Nat
      BY <1>6, <1>7
    <3>2. CASE i \in Mine.claim
      <4>1. Mine.id \in k.fin /\ s <= desc.step[Mine.id]
        BY <1>3, <1>6, <2>1, <3>1, <3>2
      <4> QED
        BY <4>1 DEF Covers
    <3>3. CASE i \notin Mine.claim
      BY <1>3, <2>1, <3>3 DEF Covers
    <3> QED
      BY <3>2, <3>3
  <2> QED
    BY <1>16, <2>1 DEF Covers
<1>17. Covers(k, acked) /\ (save.at = "unlink" => Covers(k, step))
  BY <1>1, <1>16, KindFacts DEF NewestInv
<1> QED
  BY <1>2, <1>14, <1>15, <1>17 DEF NewestInv, Covers


\* The last process is gone; what the index lists is listed still.
LEMMA RestartsCovers ==
    ASSUME SharedInv, NewestInv, Restarts
    PROVE  NewestInv'
<1> DEFINE back == {i \in SnapIds : ComesBack(i)}
           m == [index EXCEPT
                !.snaps = @ \cup back, !.fin = @ \cup back,
                !.pos = [i \in SnapIds |-> IF i \in back THEN MaxIds + i ELSE @[i]]]
<1>1. Kinds
  BY DEF SharedInv
<1>2. /\ index' = IF back = {} THEN index ELSE SortByStep(m, desc)
      /\ desc' = [desc EXCEPT !.base =
                    [i \in SnapIds |-> IF i \in back THEN over[i][0] ELSE @[i]]]
      /\ \E early \in SUBSET (Ranks \ {0}) :
            mem' = [r \in Ranks |-> IF r \in early THEN index ELSE index']
      /\ save' = NoSave /\ merger' = [r \in Ranks |-> NoMerger] /\ acked' = acked
  BY DEF Restarts, Recovered, DescribedBase
<1> HIDE DEF back
<1>3. desc'.step = desc.step
  BY <1>1, <1>2, KindFacts DEF Descriptors
<1>4. Ours' = index' /\ ~Saving' /\ ~Writing' /\ save'.at # "unlink"
  BY <1>1, <1>2, KindFacts DEF Ours, Mine, Saving, Writing, NoSave, NoMerger
<1>5. index.fin \subseteq index'.fin
  <2>1. m.fin = index.fin \cup back
    BY <1>1, KindFacts DEF Manifests
  <2> HIDE DEF m
  <2>2. SortByStep(m, desc).fin = m.fin
    <3>1. SortByStep(m, desc) =
            [m EXCEPT !.pos = [i \in SnapIds |->
                IF i \in m.snaps
                THEN Cardinality({j \in m.snaps :
                        \/ desc.step[j] < desc.step[i]
                        \/ desc.step[j] = desc.step[i] /\ m.pos[j] <= m.pos[i]})
                ELSE 0]]
      BY DEF SortByStep
    <3> QED
      BY <3>1
  <2> QED
    BY <1>2, <2>1, <2>2
<1>6. Covers(index, acked)'
  BY <1>2, <1>3, <1>5 DEF NewestInv, Covers
<1> QED
  BY <1>4, <1>6 DEF NewestInv, LastStaysLast, MergedGoesBefore, Covers

\* Nothing is acknowledged yet.
LEMMA InitCovers == Init => NewestInv
<1> SUFFICES ASSUME Init PROVE NewestInv
  OBVIOUS
<1>1. save.at = "idle" /\ Mine.at = "idle" /\ acked = 0
  BY MultiRankAssumption DEF Init, NoSave, NoMerger, Mine
<1> QED
  BY <1>1 DEF NewestInv, LastStaysLast, MergedGoesBefore, Covers, Saving, Writing

\* Every step keeps what was acknowledged.
LEMMA NextCovers ==
    ASSUME OneMerger, NoRollback, MaxFull # 0, SharedInv, NewestInv, [Next]_vars
    PROVE  NewestInv'
<1>1. CASE UNCHANGED vars
  BY <1>1, NewestFrame DEF vars, Ours, Mine, Saving, Writing
<1>2. CASE ChoosesBase \/ Lists \/ Publishes \/ FailsToPublish \/ Unlinks \/ Restarts
  BY <1>2, ChoosesBaseCovers, ListsCovers, PublishesCovers, FailsToPublishCovers,
     UnlinksCovers, RestartsCovers
<1>3. CASE Abandons
  BY <1>3, NewestFrame DEF Abandons, Ours, Mine, Saving, Writing, NoSave
<1>4. CASE Collects
  <2>1. /\ save.at = "open" /\ mem' = [mem EXCEPT ![0] = index]
        /\ save' = [save EXCEPT !.at = "collected"]
        /\ UNCHANGED <<index, desc, merger, step, acked>>
    BY <1>4 DEF Collects
  <2>2. Ours' = Ours /\ save'.at = "collected" /\ save'.base = save.base
    BY <2>1, KindFacts DEF SharedInv, ListsInv, Listing, Ours, Kinds, Saves
  <2> QED
    BY <2>1, <2>2, NewestFrame DEF Mine, Saving, Writing
<1>5. ASSUME NEW r \in Ranks, StartsRank(r) \/ WritesPack(r) \/ FailsRank(r) \/ MergeNow(r)
      PROVE  NewestInv'
  <2>1. /\ mem' \in {mem, [mem EXCEPT ![r] = index]}
        /\ mem' # mem => save.at = "open"
        /\ UNCHANGED <<index, desc, merger, step, acked, save>>
    BY <1>5 DEF StartsRank, WritesPack, FailsRank, MergeNow
  <2>2. Ours' = Ours
    BY <2>1, KindFacts DEF SharedInv, ListsInv, Listing, Ours, Kinds
  <2> QED
    BY <2>1, <2>2, NewestFrame DEF Mine, Saving, Writing
<1>6. ASSUME NEW r \in Ranks, MergerStep(r)
      PROVE  NewestInv'
  <2>1. r = 0 /\ merger \in [Ranks -> Mergers]
    BY <1>6, OneMergerSteps DEF SharedInv, Kinds
  <2>2. CASE StandsDown(0) \/ FailsToFold(0) \/ FailsToMerge(0) \/ UnlinksMerged(0)
    <3>1. /\ UNCHANGED <<index, desc, mem, step, acked, save>>
          /\ merger' \in {merger, [merger EXCEPT ![0] = NoMerger]}
      BY <2>2 DEF StandsDown, FailsToFold, FailsToMerge, UnlinksMerged
    <3>2. Mine' \in {Mine, NoMerger}
      BY <2>1, <3>1 DEF Mine
    <3> QED
      BY <3>1, <3>2, NewestFrame DEF Ours, Saving, Writing, NoMerger
  <2>3. CASE MergesPack(0)
    <3>1. /\ UNCHANGED <<index, desc, mem, step, acked, save>>
          /\ \E k \in Mine.left : merger' = [merger EXCEPT ![0].left = @ \ {k}]
          /\ Writing
      BY <2>3 DEF MergesPack, Mine, Writing
    <3>2. Mine'.id = Mine.id /\ Mine'.claim = Mine.claim
      BY <2>1, <3>1 DEF Mine, Mergers
    <3> QED
      BY <3>1, <3>2, NewestFrame DEF Ours, Saving
  <2> QED
    BY <1>6, <2>1, <2>2, <2>3, FoldsCovers, ClaimsCovers, PublishesMergeCovers DEF MergerStep
<1> QED
  BY <1>1, <1>2, <1>3, <1>4, <1>5, <1>6 DEF Next

-----------------------------------------------------------------------------
(* The theorems.                                                           *)

\* What the ranks share stays in order, for every job in which rank 0 alone
\* merges; and where nothing is kept for a rollback and a full may stay, so
\* does what was acknowledged.
THEOREM RankInvariant == OneMerger => (Spec => []RankInv)
<1> SUFFICES ASSUME OneMerger PROVE Spec => []RankInv
  OBVIOUS
<1>1. Init => RankInv
  BY InitIsShared, SharedIsTyped, InitCovers DEF RankInv
<1>2. RankInv /\ [Next]_vars => RankInv'
  <2> SUFFICES ASSUME RankInv, [Next]_vars PROVE RankInv'
    OBVIOUS
  <2>1. SharedInv'
    BY NextKeepsShared DEF RankInv
  <2>2. TypeOK'
    BY <2>1, SharedIsTyped, PTL
  <2>3. NoRollback /\ MaxFull # 0 => NewestInv'
    BY NextCovers DEF RankInv
  <2> QED
    BY <2>1, <2>2, <2>3 DEF RankInv, NoRollback
<1> QED
  BY <1>1, <1>2, PTL DEF Spec


\* The types, and that every list stays a vector in the order of the steps.
THEOREM RankTypes == OneMerger => (Spec => []TypeOK)
BY RankInvariant, PTL DEF RankInv

\* A snapshot the index calls finalized loads, whatever the other ranks, the
\* retention and the merger did (save_rank, finalize_snapshot,
\* do_full_merge_within).
THEOREM FinalizedStaysWhole == OneMerger => (Spec => []FinalizedIsWhole)
<1>1. RankInv => FinalizedIsWhole
  BY SharedIsWhole DEF RankInv
<1> QED
  BY <1>1, RankInvariant, PTL

\* The base a rank diffs against is on disk while it does (save_rank_in_pool).
THEOREM RanksReadLiveBase == OneMerger => (Spec => []RanksDiffLiveBase)
<1>1. RankInv => RanksDiffLiveBase
  BY SharedIsLive DEF RankInv
<1> QED
  BY <1>1, RankInvariant, PTL

\* What a finalize returned Ok for is listed, it or a later one, where nothing
\* is kept for a rollback and a full may stay (finalize_snapshot,
\* apply_retention).
THEOREM AckedStaysListed ==
    OneMerger /\ NoRollback /\ MaxFull # 0 => (Spec => []AckedIsListed)
<1> SUFFICES ASSUME OneMerger, NoRollback, MaxFull # 0 PROVE Spec => []AckedIsListed
  OBVIOUS
<1>1. RankInv => AckedIsListed
  BY NewestIsListed DEF RankInv
<1> QED
  BY <1>1, RankInvariant, PTL
=============================================================================
