------------------------- MODULE LocalStorageProofs -------------------------
(***************************************************************************)
(* What holds of LocalStorage for any tree of directories, any files and   *)
(* any number of puts: its invariant, and that with syncs it implements    *)
(* FileService, power cuts included.                                       *)
(***************************************************************************)
EXTENDS LocalStorageInv, TLAPS

-----------------------------------------------------------------------------
(* Type correctness.                                                       *)

\* The root and what is above it.
LEMMA RootPathTyped ==
    ASSUME StorageAssumption
    PROVE  RootPath \subseteq Dirs
  BY DEF StorageAssumption, RootPath

LEMMA InitTyped == ASSUME StorageAssumption, Init PROVE TypeOK
  <1>1. maybeDir \in [Dirs -> (SUBSET BOOLEAN) \ {{}}]
    <2>1. \A d \in Dirs : {(d \in dirs)} \in (SUBSET BOOLEAN) \ {{}}
      OBVIOUS
    <2> QED BY <2>1 DEF Init
  <1>2. waited \in [Puts -> 0 .. Patience]
    BY DEF Init, StorageAssumption
  <1>3. dirs \subseteq Dirs /\ \A d \in dirs : Above[d] \subseteq dirs
    BY RootPathTyped DEF Init
  <1> QED BY <1>1, <1>2, <1>3 DEF Init, TypeOK, Under, Ended

\* A path that is replaced or deleted.
LEMMA EntryTyped ==
    ASSUME TypeOK, NEW f \in Files, NEW c \in Puts \cup {Nothing}, Entry(f, c)
    PROVE  /\ file' \in [Files -> Puts \cup {Nothing}]
           /\ maybeFile' \in [Files -> SUBSET (Puts \cup {Nothing})]
           /\ acked' \in [Files -> Puts \cup {Nothing}]
           /\ \A g \in Files : file'[g] \in maybeFile'[g]
           /\ \A g \in Files : file'[g] = IF g = f THEN c ELSE file[g]
           /\ \A g \in Files : acked'[g] = IF g = f THEN Nothing ELSE acked[g]
           /\ \A g \in Files : maybeFile'[g] = maybeFile[g] \cup (IF g = f THEN {c} ELSE {})
  BY DEF TypeOK, Entry

\* The directories of a path are made: those that were there stay as they
\* are.
LEMMA MkdirsTyped ==
    ASSUME TypeOK, NEW D \in SUBSET Dirs, \A d \in D : Above[d] \subseteq dirs \cup D,
           Mkdirs(D)
    PROVE  /\ dirs' \subseteq Dirs
           /\ \A d \in dirs' : Above[d] \subseteq dirs'
           /\ maybeDir' \in [Dirs -> (SUBSET BOOLEAN) \ {{}}]
           /\ \A d \in Dirs : d \notin D \ dirs => maybeDir'[d] = maybeDir[d]
  BY DEF TypeOK, Mkdirs

\* A sync of a directory leaves the last outcome of its entries.
LEMMA SyncedTyped ==
    ASSUME TypeOK, NEW x, maybeDir' = SyncedDirs(x), maybeFile' = SyncedFiles(x),
           UNCHANGED <<dirs, file>>
    PROVE  /\ maybeDir' \in [Dirs -> (SUBSET BOOLEAN) \ {{}}]
           /\ maybeFile' \in [Files -> SUBSET (Puts \cup {Nothing})]
           /\ \A f \in Files : file'[f] \in maybeFile'[f]
           /\ \A d \in dirs : maybeDir'[d] = maybeDir[d] \/ maybeDir'[d] = {TRUE}
           /\ \A d \in dirs : Parent(d) = x => maybeDir'[d] = {TRUE}
           /\ \A f \in Files : maybeFile'[f] = maybeFile[f] \/ maybeFile'[f] = {file[f]}
           /\ \A f \in Files : Parent(f) = x => maybeFile'[f] = {file[f]}
  <1>1. \A e \in Dirs : {(e \in dirs)} \in (SUBSET BOOLEAN) \ {{}}
    OBVIOUS
  <1>2. \A e \in Dirs : e \in dirs => {(e \in dirs)} = {TRUE}
    OBVIOUS
  <1>3. \A e \in Dirs : maybeDir'[e] = IF Parent(e) = x THEN {(e \in dirs)} ELSE maybeDir[e]
    BY DEF SyncedDirs
  <1>4. maybeDir' \in [Dirs -> (SUBSET BOOLEAN) \ {{}}]
    BY <1>1 DEF TypeOK, SyncedDirs
  <1>5. /\ \A d \in dirs : maybeDir'[d] = maybeDir[d] \/ maybeDir'[d] = {TRUE}
        /\ \A d \in dirs : Parent(d) = x => maybeDir'[d] = {TRUE}
    BY <1>2, <1>3 DEF TypeOK
  <1> QED BY <1>4, <1>5, ZenonT(30) DEF TypeOK, SyncedFiles

\* ... as does one that may be refused; who is refused is remembered.
LEMMA BestEffortTyped ==
    ASSUME TypeOK, NEW x, NEW X \in SUBSET (Dirs \cup Puts), BestEffort(x, X),
           UNCHANGED <<dirs, file>>
    PROVE  /\ maybeDir' \in [Dirs -> (SUBSET BOOLEAN) \ {{}}]
           /\ maybeFile' \in [Files -> SUBSET (Puts \cup {Nothing})]
           /\ \A f \in Files : file'[f] \in maybeFile'[f]
           /\ loose' \subseteq Dirs \cup Puts
  <1>1. CASE Fsync /\ ~windows /\ Synced(x)
    BY <1>1, SyncedTyped DEF Synced, TypeOK
  <1>2. CASE /\ loose' = loose \/ loose' = loose \cup X
             /\ UNCHANGED <<maybeDir, maybeFile>>
    BY <1>2 DEF TypeOK
  <1> QED BY <1>1, <1>2 DEF BestEffort

\* A sync keeps its outcome for good, or whoever asked for it is remembered.
LEMMA BestEffortKeeps ==
    ASSUME StorageAssumption, TypeOK, Fsync, ~windows,
           NEW x, NEW X, BestEffort(x, X), UNCHANGED <<dirs, file>>
    PROVE  /\ \A d \in dirs : \/ maybeDir'[d] = {TRUE}
                              \/ maybeDir'[d] = maybeDir[d] /\ (d \in loose => d \in loose')
           /\ \A d \in dirs : Parent(d) = x => maybeDir'[d] = {TRUE} \/ X \subseteq loose'
           /\ \A f \in Files : Parent(f) = x => maybeFile'[f] = {file[f]} \/ X \subseteq loose'
           /\ \A q \in Puts : q \in loose => q \in loose'
  <1>1. CASE Synced(x)
    <2>1. maybeDir' = SyncedDirs(x) /\ maybeFile' = SyncedFiles(x)
      BY <1>1 DEF Synced
    <2>2. /\ \A d \in dirs : maybeDir'[d] = maybeDir[d] \/ maybeDir'[d] = {TRUE}
          /\ \A d \in dirs : Parent(d) = x => maybeDir'[d] = {TRUE}
          /\ \A f \in Files : Parent(f) = x => maybeFile'[f] = {file[f]}
      BY <2>1, SyncedTyped
    <2>3. loose' = loose \ {e \in Dirs : Parent(e) = x}
      BY <1>1 DEF Synced
    <2>4. \A d \in dirs : d \in loose => d \in loose' \/ Parent(d) = x
      BY <2>3
    <2>5. \A q \in Puts : q \in loose => q \in loose'
      BY <2>3 DEF StorageAssumption
    <2> QED BY <2>2, <2>4, <2>5
  <1>2. CASE loose' = loose \cup X /\ UNCHANGED <<maybeDir, maybeFile>>
    BY <1>2
  <1> QED BY <1>1, <1>2 DEF BestEffort

\* Where a call goes, and that nobody else moves.
LEMMA GotoTyped ==
    ASSUME TypeOK, NEW p \in Puts, NEW from, NEW to \in Under \cup Ended, Goto(p, from, to)
    PROVE  /\ pc' \in [Puts -> {"idle"} \cup Under \cup Ended]
           /\ \A q \in Puts : pc'[q] = IF q = p THEN to ELSE pc[q]
           /\ pc[p] = from
  BY DEF TypeOK, Goto

\* What a kill or a power cut does to the calls.
LEMMA DeadStep ==
    ASSUME Kill \/ PowerCut
    PROVE  /\ \A q \in Puts : pc'[q] = pc[q] \/ (pc[q] \in Under /\ pc'[q] = "dead")
           /\ PowerCut => \A q \in Puts : pc'[q] = IF pc[q] \in Under THEN "dead" ELSE pc[q]
  <1>1. ASSUME NEW P \in SUBSET Running, pc' = Dead(P), NEW q \in Puts
        PROVE  /\ pc'[q] = pc[q] \/ (pc[q] \in Under /\ pc'[q] = "dead")
               /\ P = Running => pc'[q] = IF pc[q] \in Under THEN "dead" ELSE pc[q]
    BY <1>1 DEF Dead, Running
  <1>2. CASE Kill
    <2>1. PICK P \in SUBSET Running : pc' = Dead(P)
      BY <1>2 DEF Kill
    <2>2. CASE PowerCut
      <3>1. pc' = Dead(Running)
        BY <2>2 DEF PowerCut
      <3> QED BY <1>1, <3>1
    <2> QED BY <1>1, <2>1, <2>2
  <1>3. CASE PowerCut
    <2>1. pc' = Dead(Running)
      BY <1>3 DEF PowerCut
    <2> QED BY <1>1, <2>1
  <1> QED BY <1>2, <1>3

LEMMA TypeStep ==
    ASSUME StorageAssumption, TypeOK, TempInv, CallInv, [Next]_vars
    PROVE  TypeOK'
  <1> USE DEF TypeOK
  <1>1. ASSUME NEW p \in Puts, NEW f \in Files, Begin(p, f)
        PROVE  TypeOK'
    <2>1. pc' \in [Puts -> {"idle"} \cup Under \cup Ended]
      BY <1>1, GotoTyped DEF Begin, Under
    <2>2. Above[f] \in SUBSET Dirs
      BY DEF StorageAssumption
    <2>3. /\ target' \in [Puts -> Files \cup {Nothing}]
          /\ made' \in [Puts -> SUBSET Dirs] /\ owed' \in [Puts -> SUBSET Dirs]
          /\ \A q \in Puts : owed'[q] \subseteq made'[q]
      BY <1>1, <2>2 DEF Begin
    <2>4. UNCHANGED <<windows, disk, open, waited, acked>>
      BY <1>1 DEF Begin
    <2> QED BY <2>1, <2>3, <2>4 DEF disk
  <1>2. ASSUME NEW p \in Puts, MakeDirs(p)
        PROVE  TypeOK'
    <2>1. pc' \in [Puts -> {"idle"} \cup Under \cup Ended] /\ target[p] \in Files
      BY <1>2, GotoTyped DEF MakeDirs, Under, CallInv, Goto
    <2>2. PICK D \in SUBSET Dirs : Mkdirs(D) /\ \A d \in D : Above[d] \subseteq dirs \cup D
      <3>1. Above[target[p]] \in SUBSET Dirs
        BY <2>1 DEF StorageAssumption
      <3>2. \A d \in Above[target[p]] : Above[d] \subseteq Above[target[p]]
        BY <2>1 DEF StorageAssumption
      <3> QED BY <1>2, <3>1, <3>2 DEF MakeDirs
    <2>3. /\ dirs' \subseteq Dirs /\ dirs \subseteq dirs'
          /\ \A d \in dirs' : Above[d] \subseteq dirs'
          /\ maybeDir' \in [Dirs -> (SUBSET BOOLEAN) \ {{}}]
      BY <2>2, MkdirsTyped DEF Mkdirs
    <2> QED BY <1>2, <2>1, <2>3 DEF MakeDirs
  <1>3. ASSUME NEW p \in Puts, CreateTemp(p)
        PROVE  TypeOK'
    <2>1. pc' \in [Puts -> {"idle"} \cup Under \cup Ended]
      BY <1>3, GotoTyped DEF CreateTemp, Under
    <2> QED BY <1>3, <2>1 DEF CreateTemp
  <1>4. ASSUME NEW p \in Puts, WriteData(p)
        PROVE  TypeOK'
    <2>1. pc' \in [Puts -> {"idle"} \cup Under \cup Ended]
      BY <1>4, GotoTyped DEF WriteData, Under
    <2> QED BY <1>4, <2>1 DEF WriteData, disk
  <1>5. ASSUME NEW p \in Puts, SyncData(p)
        PROVE  TypeOK'
    <2>1. pc' \in [Puts -> {"idle"} \cup Under \cup Ended]
      BY <1>5, GotoTyped DEF SyncData, Under
    <2> QED BY <1>5, <2>1 DEF SyncData
  <1>6. ASSUME NEW p \in Puts, Rename(p)
        PROVE  TypeOK'
    <2>1. pc' \in [Puts -> {"idle"} \cup Under \cup Ended] /\ target[p] \in Files
      BY <1>6, GotoTyped DEF Rename, Under, CallInv, Goto
    <2>2. Above[target[p]] \subseteq dirs
      BY <1>6 DEF Rename, Goto, TempInv
    <2>3. /\ file' \in [Files -> Puts \cup {Nothing}]
          /\ maybeFile' \in [Files -> SUBSET (Puts \cup {Nothing})]
          /\ acked' \in [Files -> Puts \cup {Nothing}]
          /\ \A g \in Files : file'[g] \in maybeFile'[g]
          /\ \A g \in Files : file'[g] = IF g = target[p] THEN p ELSE file[g]
      BY <1>6, <2>1, EntryTyped DEF Rename
    <2> QED BY <1>6, <2>1, <2>2, <2>3 DEF Rename
  <1>7. ASSUME NEW p \in Puts, Wait(p)
        PROVE  TypeOK'
    BY <1>7 DEF Wait, disk, StorageAssumption
  <1>8. ASSUME NEW p \in Puts, SyncDir(p)
        PROVE  TypeOK'
    <2>1. pc' \in [Puts -> {"idle"} \cup Under \cup Ended]
      BY <1>8, GotoTyped DEF SyncDir, Under
    <2>2. /\ maybeDir' \in [Dirs -> (SUBSET BOOLEAN) \ {{}}]
          /\ maybeFile' \in [Files -> SUBSET (Puts \cup {Nothing})]
          /\ \A f \in Files : file'[f] \in maybeFile'[f]
          /\ loose' \subseteq Dirs \cup Puts
      <3>1. BestEffort(Parent(target[p]), {p}) /\ UNCHANGED <<dirs, file>>
        BY <1>8 DEF SyncDir
      <3> QED BY <3>1, BestEffortTyped
    <2> QED BY <1>8, <2>1, <2>2 DEF SyncDir
  <1>9. ASSUME NEW p \in Puts, SyncParent(p)
        PROVE  TypeOK'
    <2>1. /\ owed' \in [Puts -> SUBSET Dirs]
          /\ \A q \in Puts : owed'[q] \subseteq owed[q]
      BY <1>9 DEF SyncParent
    <2>2. /\ maybeDir' \in [Dirs -> (SUBSET BOOLEAN) \ {{}}]
          /\ maybeFile' \in [Files -> SUBSET (Puts \cup {Nothing})]
          /\ \A f \in Files : file'[f] \in maybeFile'[f]
          /\ loose' \subseteq Dirs \cup Puts
      <3>1. PICK x \in Dirs : BestEffort(Parent(x), {x, p})
        BY <1>9 DEF SyncParent
      <3>2. UNCHANGED <<dirs, file>>
        BY <1>9 DEF SyncParent
      <3> QED BY <3>1, <3>2, BestEffortTyped
    <2> QED BY <1>9, <2>1, <2>2 DEF SyncParent
  <1>10. ASSUME NEW p \in Puts, Return(p)
         PROVE  TypeOK'
    <2>1. pc' \in [Puts -> {"idle"} \cup Under \cup Ended]
      BY <1>10, GotoTyped DEF Return, Ended
    <2> QED BY <1>10, <2>1 DEF Return, disk
  <1>11. ASSUME NEW p \in Puts, Fail(p)
         PROVE  TypeOK'
    <2>1. /\ dirs' \subseteq Dirs /\ dirs \subseteq dirs'
          /\ \A d \in dirs' : Above[d] \subseteq dirs'
          /\ maybeDir' \in [Dirs -> (SUBSET BOOLEAN) \ {{}}]
      <3>1. CASE pc[p] = "dirs"
        <4>1. PICK D \in SUBSET made[p] :
                  (\A d \in D : Above[d] \subseteq dirs \cup D) /\ Mkdirs(D)
          BY <1>11, <3>1 DEF Fail
        <4>2. D \in SUBSET Dirs
          OBVIOUS
        <4>3. dirs \subseteq dirs'
          BY <4>1 DEF Mkdirs
        <4> QED BY <4>1, <4>2, <4>3, MkdirsTyped
      <3>2. CASE pc[p] # "dirs"
        <4>1. UNCHANGED <<dirs, maybeDir>>
          BY <1>11, <3>2 DEF Fail
        <4> QED BY <4>1
      <3> QED BY <3>1, <3>2
    <2>2. pc' \in [Puts -> {"idle"} \cup Under \cup Ended] /\ temps' \subseteq Puts
      BY <1>11 DEF Fail, Ended
    <2>3. UNCHANGED <<windows, file, flushed, torn, maybeFile, loose, open, target, made,
                      owed, waited, acked>>
      BY <1>11 DEF Fail
    <2> QED BY <2>1, <2>2, <2>3
  <1>12. ASSUME NEW f \in Files, Delete(f)
         PROVE  TypeOK'
    <2>1. /\ file' \in [Files -> Puts \cup {Nothing}]
          /\ maybeFile' \in [Files -> SUBSET (Puts \cup {Nothing})]
          /\ acked' \in [Files -> Puts \cup {Nothing}]
          /\ \A g \in Files : file'[g] \in maybeFile'[g]
          /\ \A g \in Files : file'[g] = IF g = f THEN Nothing ELSE file[g]
      BY <1>12, EntryTyped DEF Delete
    <2>2. UNCHANGED <<windows, dirs, temps, flushed, torn, maybeDir, loose, open, pc,
                      target, made, owed, waited>>
      BY <1>12 DEF Delete
    <2> QED BY <2>1, <2>2
  <1>13. ASSUME NEW d \in Dirs, RemoveDir(d)
         PROVE  TypeOK'
    <2>1. maybeDir' \in [Dirs -> (SUBSET BOOLEAN) \ {{}}]
      BY <1>13 DEF RemoveDir
    <2>2. \A f \in Files : file[f] # Nothing => Above[f] \subseteq dirs'
      BY <1>13 DEF RemoveDir, Empty, Listed
    <2>3. dirs' \subseteq Dirs /\ \A e \in dirs' : Above[e] \subseteq dirs'
      BY <1>13 DEF RemoveDir
    <2>4. UNCHANGED <<windows, file, temps, flushed, torn, maybeFile, open, pc, target,
                      made, owed, waited, acked>>
      BY <1>13 DEF RemoveDir
    <2>5. loose' \subseteq loose
      BY <1>13 DEF RemoveDir
    <2> QED BY <2>1, <2>2, <2>3, <2>4, <2>5
  <1>14. ASSUME NEW f \in Files, HoldOpen(f) \/ Close(f)
         PROVE  TypeOK'
    BY <1>14 DEF HoldOpen, Close, disk
  <1>15. CASE Kill
    BY <1>15 DEF Kill, Dead, disk, Ended
  <1>18. CASE Opens
    <2>1. PICK D \in SUBSET (RootPath \ dirs) :
              /\ \A d \in D : Above[d] \subseteq dirs \cup D
              /\ Mkdirs(D) /\ loose' = loose \cup D
      BY <1>18 DEF Opens
    <2>2. D \in SUBSET Dirs
      BY RootPathTyped
    <2>3. /\ dirs' \subseteq Dirs /\ dirs \subseteq dirs'
          /\ \A d \in dirs' : Above[d] \subseteq dirs'
          /\ maybeDir' \in [Dirs -> (SUBSET BOOLEAN) \ {{}}]
      BY <2>1, <2>2, MkdirsTyped DEF Mkdirs
    <2>4. UNCHANGED <<windows, file, temps, flushed, torn, maybeFile, open, pc, target,
                      made, owed, waited, acked>>
      BY <1>18 DEF Opens
    <2> QED BY <2>1, <2>2, <2>3, <2>4
  <1>16. CASE PowerCut
    <2>1. maybeDir' \in [Dirs -> (SUBSET BOOLEAN) \ {{}}]
      <3>1. \A d \in Dirs : {(d \in dirs')} \in (SUBSET BOOLEAN) \ {{}}
        OBVIOUS
      <3> QED BY <1>16, <3>1 DEF PowerCut
    <2>2. dirs' \subseteq Dirs /\ \A d \in dirs' : Above[d] \subseteq dirs'
      <3>1. PICK D \in SUBSET Dirs :
                (\A d \in D : TRUE \in maybeDir[d] /\ Above[d] \subseteq D) /\ dirs' = D
        BY <1>16 DEF PowerCut
      <3> QED BY <3>1
    <2>3. /\ file' \in [Files -> Puts \cup {Nothing}]
          /\ \A f \in Files : file'[f] # Nothing => Above[f] \subseteq dirs'
      BY <1>16 DEF PowerCut
    <2>4. /\ maybeFile' \in [Files -> SUBSET (Puts \cup {Nothing})]
          /\ \A f \in Files : file'[f] \in maybeFile'[f]
      BY <1>16, <2>3 DEF PowerCut
    <2>5. torn' \subseteq Puts
      BY <1>16 DEF PowerCut
    <2> QED BY <1>16, <2>1, <2>2, <2>3, <2>4, <2>5 DEF PowerCut, Dead, Ended, Running
  <1>17. CASE UNCHANGED vars
    BY <1>17 DEF vars, disk
  <1> QED BY <1>1, <1>2, <1>3, <1>4, <1>5, <1>6, <1>7, <1>8, <1>9, <1>10, <1>11, <1>12,
             <1>13, <1>14, <1>15, <1>16, <1>17, <1>18 DEF Next, Step

-----------------------------------------------------------------------------
(* The calls, their partial files and what they flushed.                   *)

\* A step of a call that goes on to another of its stages.
LEMMA MoveKeepsCalls ==
    ASSUME TypeOK, CallInv, NEW p \in Puts,
           NEW from \in Under, NEW to \in Under \cup Ended, Goto(p, from, to),
           to \in Under \ {"climb"} => from # "climb",
           UNCHANGED <<target, made, owed>>
    PROVE  CallInv'
  <1>1. \A q \in Puts : pc'[q] = IF q = p THEN to ELSE pc[q]
    BY GotoTyped
  <1>2. pc[p] = from
    BY DEF Goto
  <1>3. ASSUME NEW q \in Puts
        PROVE  /\ pc'[q] = "idle" => pc[q] = "idle"
               /\ pc'[q] # "idle" => pc[q] # "idle"
               /\ pc'[q] \in Under \ {"climb"} => pc[q] \in Under \ {"climb"}
    BY <1>1, <1>2, <1>3 DEF Under, Ended
  <1> QED BY <1>3 DEF CallInv

LEMMA CallStep ==
    ASSUME StorageAssumption, TypeOK, CallInv, [Next]_vars
    PROVE  CallInv'
  <1>1. ASSUME NEW p \in Puts, NEW f \in Files, Begin(p, f)
        PROVE  CallInv'
    <2>1. \A q \in Puts : pc'[q] = IF q = p THEN "dirs" ELSE pc[q]
      BY <1>1, GotoTyped DEF Begin, Under
    <2>2. \A q \in Puts : /\ target'[q] = IF q = p THEN f ELSE target[q]
                          /\ made'[q] = IF q = p THEN Above[f] \ dirs ELSE made[q]
                          /\ owed'[q] = IF q = p THEN made'[p] ELSE owed[q]
      BY <1>1 DEF Begin, TypeOK
    <2> QED BY <2>1, <2>2 DEF CallInv
  <1>2. ASSUME NEW p \in Puts,
               \/ MakeDirs(p) \/ CreateTemp(p) \/ WriteData(p) \/ SyncData(p)
               \/ Rename(p) \/ SyncDir(p) \/ Return(p)
        PROVE  CallInv'
    <2>1. UNCHANGED <<target, made, owed>>
      BY <1>2 DEF MakeDirs, CreateTemp, WriteData, SyncData, Rename, SyncDir, Return
    <2>2. PICK from \in Under, to \in Under \cup Ended :
              Goto(p, from, to) /\ (to \in Under \ {"climb"} => from # "climb")
      BY <1>2 DEF MakeDirs, CreateTemp, WriteData, SyncData, Rename, SyncDir, Return, Under, Ended
    <2> QED BY <2>1, <2>2, MoveKeepsCalls
  <1>3. ASSUME NEW p \in Puts, SyncParent(p)
        PROVE  CallInv'
    <2>1. UNCHANGED <<pc, target, made>> /\ pc[p] = "climb"
      BY <1>3 DEF SyncParent
    <2>2. \A q \in Puts : q # p => owed'[q] = owed[q]
      BY <1>3 DEF SyncParent, TypeOK
    <2> QED BY <2>1, <2>2 DEF CallInv
  <1>4. ASSUME NEW p \in Puts, Fail(p)
        PROVE  CallInv'
    <2>1. UNCHANGED <<target, made, owed>> /\ pc' = [pc EXCEPT ![p] = "err"] /\ pc[p] # "idle"
      BY <1>4 DEF Fail, MayFail
    <2>2. \A q \in Puts : pc'[q] = IF q = p THEN "err" ELSE pc[q]
      BY <2>1 DEF TypeOK
    <2> QED BY <2>1, <2>2 DEF CallInv, Under
  <1>5. CASE Kill
    <2>1. \A q \in Puts : pc'[q] = pc[q] \/ (pc[q] \in Under /\ pc'[q] = "dead")
      BY <1>5, DeadStep
    <2>2. UNCHANGED <<target, made, owed>>
      BY <1>5 DEF Kill
    <2> QED BY <2>1, <2>2 DEF CallInv, Under
  <1>6. CASE PowerCut
    <2>1. \A q \in Puts : pc'[q] = IF pc[q] \in Under THEN "dead" ELSE pc[q]
      BY <1>6, DeadStep
    <2>2. target' = target /\ \A q \in Puts : made'[q] = {} /\ owed'[q] = {}
      BY <1>6 DEF PowerCut
    <2> QED BY <2>1, <2>2 DEF CallInv, Under
  <1>7. CASE UNCHANGED <<pc, target, made, owed>>
    BY <1>7 DEF CallInv
  <1>8. ASSUME NEW p \in Puts, Wait(p)
        PROVE  UNCHANGED <<pc, target, made, owed>>
    BY <1>8 DEF Wait
  <1>9. ASSUME NEW f \in Files, Delete(f) \/ HoldOpen(f) \/ Close(f)
        PROVE  UNCHANGED <<pc, target, made, owed>>
    BY <1>9 DEF Delete, HoldOpen, Close
  <1>10. ASSUME NEW d \in Dirs, RemoveDir(d)
         PROVE  UNCHANGED <<pc, target, made, owed>>
    BY <1>10 DEF RemoveDir
  <1>11. CASE UNCHANGED vars
    BY <1>7, <1>11 DEF vars
  <1>12. CASE Opens
    BY <1>7, <1>12 DEF Opens
  <1> QED BY <1>1, <1>2, <1>3, <1>4, <1>5, <1>6, <1>7, <1>8, <1>9, <1>10, <1>11, <1>12
          DEF Next, Step

\* Directories that are made leave the partial files where they are.
LEMMA TempStep ==
    ASSUME StorageAssumption, TypeOK, CallInv, TempInv, [Next]_vars
    PROVE  TempInv'
  <1>1. ASSUME NEW p \in Puts, NEW f \in Files, Begin(p, f)
        PROVE  TempInv'
    <2>1. \A q \in Puts : pc'[q] = IF q = p THEN "dirs" ELSE pc[q]
      BY <1>1, GotoTyped DEF Begin, Under
    <2>2. pc[p] = "idle" /\ UNCHANGED <<temps, dirs>>
      BY <1>1 DEF Begin, Goto, disk
    <2>3. \A q \in Puts : q # p => target'[q] = target[q]
      BY <1>1 DEF Begin, TypeOK
    <2> QED BY <2>1, <2>2, <2>3 DEF TempInv
  <1>2. ASSUME NEW p \in Puts, MakeDirs(p) \/ SyncDir(p) \/ Return(p)
        PROVE  TempInv'
    <2>1. UNCHANGED <<temps, target>> /\ dirs \subseteq dirs'
      BY <1>2 DEF MakeDirs, SyncDir, Return, disk, Mkdirs
    <2>2. PICK to \in {"temp", "climb", "ok"}, from \in {"dirs", "entry", "climb"} :
              Goto(p, from, to)
      BY <1>2 DEF MakeDirs, SyncDir, Return
    <2>3. \A q \in Puts : pc'[q] = IF q = p THEN to ELSE pc[q]
      BY <2>2, GotoTyped DEF Under, Ended
    <2>4. pc[p] = from
      BY <2>2 DEF Goto
    <2> QED BY <2>1, <2>3, <2>4 DEF TempInv
  <1>3. ASSUME NEW p \in Puts, CreateTemp(p)
        PROVE  TempInv'
    <2>1. \A q \in Puts : pc'[q] = IF q = p THEN "data" ELSE pc[q]
      BY <1>3, GotoTyped DEF CreateTemp, Under
    <2> QED BY <1>3, <2>1 DEF CreateTemp, TempInv
  <1>4. ASSUME NEW p \in Puts, WriteData(p) \/ SyncData(p)
        PROVE  TempInv'
    <2>1. PICK to \in {"sync", "rename"}, from \in {"data", "sync"} : Goto(p, from, to)
      BY <1>4 DEF WriteData, SyncData
    <2>2. \A q \in Puts : pc'[q] = IF q = p THEN to ELSE pc[q]
      BY <2>1, GotoTyped DEF Under
    <2>3. UNCHANGED <<temps, target, dirs>> /\ pc[p] = from
      BY <1>4, <2>1 DEF WriteData, SyncData, disk, Goto
    <2> QED BY <2>2, <2>3 DEF TempInv
  <1>5. ASSUME NEW p \in Puts, Rename(p)
        PROVE  TempInv'
    <2>1. \A q \in Puts : pc'[q] = IF q = p THEN "entry" ELSE pc[q]
      BY <1>5, GotoTyped DEF Rename, Under
    <2> QED BY <1>5, <2>1 DEF Rename, TempInv
  <1>6. ASSUME NEW p \in Puts, Fail(p)
        PROVE  TempInv'
    <2>1. \A q \in Puts : pc'[q] = IF q = p THEN "err" ELSE pc[q]
      BY <1>6 DEF Fail, TypeOK
    <2>2. dirs \subseteq dirs'
      BY <1>6 DEF Fail, Mkdirs
    <2>3. temps' = temps \ {p} /\ target' = target
      BY <1>6 DEF Fail
    <2> QED BY <2>1, <2>2, <2>3 DEF TempInv
  <1>7. ASSUME NEW d \in Dirs, RemoveDir(d)
        PROVE  TempInv'
    BY <1>7 DEF RemoveDir, Empty, TempInv
  <1>8. CASE Kill \/ PowerCut
    <2>1. \A q \in Puts : pc'[q] = pc[q] \/ (pc[q] \in Under /\ pc'[q] = "dead")
      BY <1>8, DeadStep
    <2>2. target' = target /\ temps' \subseteq temps
      <3>1. CASE Kill
        BY <3>1 DEF Kill, disk
      <3>2. CASE PowerCut
        <4>1. temps' = {q \in temps : Above[target[q]] \subseteq dirs'} /\ target' = target
          BY <3>2 DEF PowerCut
        <4> QED BY <4>1
      <3> QED BY <1>8, <3>1, <3>2
    <2>3. \A q \in temps' : Above[target[q]] \subseteq dirs'
      <3>1. CASE Kill
        BY <1>8, <3>1 DEF Kill, disk, TempInv, TypeOK
      <3>2. CASE PowerCut
        <4>1. temps' = {q \in temps : Above[target[q]] \subseteq dirs'}
          BY <3>2 DEF PowerCut
        <4> QED BY <4>1
      <3> QED BY <1>8, <3>1, <3>2
    <2>4. \A q \in Puts : pc'[q] \in {"data", "sync", "rename"} => q \in temps'
      <3>1. CASE Kill
        BY <2>1, <3>1 DEF Kill, disk, TempInv
      <3>2. CASE PowerCut
        BY <3>2, DeadStep DEF Under
      <3> QED BY <1>8, <3>1, <3>2
    <2> QED BY <2>1, <2>2, <2>3, <2>4 DEF TempInv
  <1>9. CASE UNCHANGED <<pc, target, temps, dirs>>
    BY <1>9 DEF TempInv
  <1>10. ASSUME NEW p \in Puts, Wait(p) \/ SyncParent(p)
         PROVE  UNCHANGED <<pc, target, temps, dirs>>
    BY <1>10 DEF Wait, SyncParent, disk
  <1>11. ASSUME NEW f \in Files, Delete(f) \/ HoldOpen(f) \/ Close(f)
         PROVE  UNCHANGED <<pc, target, temps, dirs>>
    BY <1>11 DEF Delete, HoldOpen, Close, disk
  <1>12. CASE UNCHANGED vars
    BY <1>9, <1>12 DEF vars, disk
  <1>13. CASE Opens
    <2>1. UNCHANGED <<pc, target, temps>> /\ dirs \subseteq dirs'
      BY <1>13 DEF Opens, Mkdirs
    <2> QED BY <2>1 DEF TempInv
  <1> QED BY <1>1, <1>2, <1>3, <1>4, <1>5, <1>6, <1>7, <1>8, <1>9, <1>10, <1>11, <1>12, <1>13
          DEF Next, Step

\* What is flushed stays flushed, and a file is flushed before it is there.
LEMMA FlushStep ==
    ASSUME StorageAssumption, TypeOK, FlushInv, [Next]_vars
    PROVE  FlushInv'
  <1>1. ASSUME NEW p \in Puts, NEW f \in Files, Begin(p, f)
        PROVE  FlushInv'
    <2>1. \A q \in Puts : pc'[q] = IF q = p THEN "dirs" ELSE pc[q]
      BY <1>1, GotoTyped DEF Begin, Under
    <2>2. pc[p] = "idle" /\ UNCHANGED <<torn, flushed, maybeFile>>
      BY <1>1 DEF Begin, Goto, disk
    <2> QED BY <2>1, <2>2 DEF FlushInv, TypeOK, Ended
  <1>2. ASSUME NEW p \in Puts, MakeDirs(p) \/ CreateTemp(p) \/ WriteData(p) \/ Return(p)
        PROVE  FlushInv'
    <2>1. UNCHANGED <<torn, flushed, maybeFile>>
      BY <1>2 DEF MakeDirs, CreateTemp, WriteData, Return, disk
    <2>2. PICK to \in {"temp", "data", "sync", "ok"}, from \in {"dirs", "temp", "data", "climb"} :
              Goto(p, from, to)
      BY <1>2 DEF MakeDirs, CreateTemp, WriteData, Return
    <2>3. /\ \A q \in Puts : pc'[q] = IF q = p THEN to ELSE pc[q]
          /\ pc[p] \notin Ended
      BY <2>2, GotoTyped, ZenonT(30) DEF Under, Ended, Goto
    <2> QED BY <2>1, <2>3 DEF FlushInv, TypeOK
  <1>3. ASSUME NEW p \in Puts, SyncData(p)
        PROVE  FlushInv'
    <2>1. \A q \in Puts : pc'[q] = IF q = p THEN "rename" ELSE pc[q]
      BY <1>3, GotoTyped DEF SyncData, Under
    <2>2. pc[p] \notin Ended
      BY <1>3 DEF SyncData, Goto, Ended
    <2>3. UNCHANGED <<torn, maybeFile>>
      BY <1>3 DEF SyncData
    <2>4. flushed' = IF Fsync THEN flushed \cup {p} ELSE flushed
      BY <1>3 DEF SyncData
    <2> QED BY <2>1, <2>2, <2>3, <2>4 DEF FlushInv, TypeOK
  <1>4. ASSUME NEW p \in Puts, Rename(p)
        PROVE  FlushInv'
    <2>1. \A q \in Puts : pc'[q] = IF q = p THEN "entry" ELSE pc[q]
      BY <1>4, GotoTyped DEF Rename, Under
    <2>2. pc[p] = "rename" /\ UNCHANGED <<torn, flushed>>
      BY <1>4 DEF Rename, Goto
    <2>3. \A f \in Files : maybeFile'[f] \subseteq maybeFile[f] \cup {p}
      BY <1>4 DEF Rename, Entry, TypeOK
    <2> QED BY <2>1, <2>2, <2>3 DEF FlushInv, TypeOK, Ended
  <1>5. ASSUME NEW p \in Puts, SyncDir(p) \/ SyncParent(p)
        PROVE  FlushInv'
    <2>1. UNCHANGED <<torn, flushed>>
      BY <1>5 DEF SyncDir, SyncParent
    <2>2. \A f \in Files : maybeFile'[f] \subseteq maybeFile[f]
      <3>1. PICK x, X : BestEffort(x, X)
        BY <1>5 DEF SyncDir, SyncParent
      <3> QED BY <3>1 DEF BestEffort, Synced, SyncedFiles, TypeOK
    <2>3. \A q \in Puts : pc'[q] = pc[q] \/ (q = p /\ pc[q] = "entry" /\ pc'[q] = "climb")
      BY <1>5 DEF SyncDir, SyncParent, Goto, TypeOK
    <2> QED BY <2>1, <2>2, <2>3 DEF FlushInv, TypeOK, Ended
  <1>6. ASSUME NEW p \in Puts, Fail(p)
        PROVE  FlushInv'
    <2>1. \A q \in Puts : pc'[q] = IF q = p THEN "err" ELSE pc[q]
      BY <1>6 DEF Fail, TypeOK
    <2>2. UNCHANGED <<torn, flushed, maybeFile>>
      BY <1>6 DEF Fail
    <2> QED BY <2>1, <2>2 DEF FlushInv, TypeOK, Ended
  <1>7. ASSUME NEW f \in Files, Delete(f)
        PROVE  FlushInv'
    <2>1. UNCHANGED <<torn, flushed, pc>>
      BY <1>7 DEF Delete
    <2>2. \A g \in Files : maybeFile'[g] \subseteq maybeFile[g] \cup {Nothing}
      BY <1>7 DEF Delete, Entry, TypeOK
    <2> QED BY <2>1, <2>2 DEF FlushInv
  <1>8. CASE Kill
    <2>1. \A q \in Puts : pc'[q] = pc[q] \/ (pc[q] \in Under /\ pc'[q] = "dead")
      BY <1>8, DeadStep
    <2>2. UNCHANGED <<torn, flushed, maybeFile>>
      BY <1>8 DEF Kill, disk
    <2> QED BY <2>1, <2>2 DEF FlushInv, TypeOK, Ended
  <1>9. CASE PowerCut
    <2>1. \A q \in Puts : pc'[q] = IF pc[q] \in Under THEN "dead" ELSE pc[q]
      BY <1>9, DeadStep
    <2>2. PICK T \in SUBSET {p \in Puts \ flushed : pc[p] # "idle"} : torn' = torn \cup T
      BY <1>9 DEF PowerCut
    <2>3. flushed' = flushed /\ \A f \in Files : maybeFile'[f] = {file'[f]}
      BY <1>9 DEF PowerCut
    <2>4. \A f \in Files : file'[f] = Nothing \/ file'[f] \in maybeFile[f]
      BY <1>9 DEF PowerCut
    <2>5. torn' \cap flushed' = {} /\ \A q \in torn' : pc'[q] \in Ended
      BY <2>1, <2>2, <2>3 DEF FlushInv, TypeOK, Under, Ended
    <2>6. \A q \in Puts : pc'[q] # "rename"
      BY <2>1 DEF Under
    <2>7. Fsync => \A f \in Files : maybeFile'[f] \ {Nothing} \subseteq flushed'
      BY <2>3, <2>4 DEF FlushInv
    <2> QED BY <2>5, <2>6, <2>7 DEF FlushInv
  <1>10. CASE UNCHANGED <<pc, torn, flushed, maybeFile>>
    BY <1>10 DEF FlushInv
  <1>11. ASSUME NEW p \in Puts, Wait(p)
         PROVE  UNCHANGED <<pc, torn, flushed, maybeFile>>
    BY <1>11 DEF Wait, disk
  <1>12. ASSUME NEW f \in Files, HoldOpen(f) \/ Close(f)
         PROVE  UNCHANGED <<pc, torn, flushed, maybeFile>>
    BY <1>12 DEF HoldOpen, Close, disk
  <1>13. ASSUME NEW d \in Dirs, RemoveDir(d)
         PROVE  UNCHANGED <<pc, torn, flushed, maybeFile>>
    BY <1>13 DEF RemoveDir
  <1>14. CASE UNCHANGED vars
    BY <1>10, <1>14 DEF vars, disk
  <1>15. CASE Opens
    BY <1>10, <1>15 DEF Opens
  <1> QED BY <1>1, <1>2, <1>3, <1>4, <1>5, <1>6, <1>7, <1>8, <1>9, <1>10, <1>11, <1>12,
             <1>13, <1>14, <1>15 DEF Next, Step

-----------------------------------------------------------------------------
(* The directories.                                                        *)

\* Unless a call begins or a directory is removed, directories only appear
\* and no call comes to where it makes them.
LEMMA MkdirKept ==
    ASSUME MkdirInv, dirs \subseteq dirs', UNCHANGED <<made, target>>,
           \A q \in Puts : pc'[q] = "dirs" => pc[q] = "dirs"
    PROVE  MkdirInv'
  BY DEF MkdirInv

LEMMA MkdirStep ==
    ASSUME StorageAssumption, TypeOK, CallInv, MkdirInv, [Next]_vars
    PROVE  MkdirInv'
  <1>1. ASSUME NEW p \in Puts, NEW f \in Files, Begin(p, f)
        PROVE  MkdirInv'
    <2>1. \A q \in Puts : /\ pc'[q] = IF q = p THEN "dirs" ELSE pc[q]
                          /\ target'[q] = IF q = p THEN f ELSE target[q]
                          /\ made'[q] = IF q = p THEN Above[f] \ dirs ELSE made[q]
      BY <1>1, GotoTyped DEF Begin, Under, TypeOK
    <2>2. dirs' = dirs
      BY <1>1 DEF Begin, disk
    <2>3. \A d \in Above[f] : Above[d] \ dirs # {} => d \in Above[f] \ dirs
      BY DEF TypeOK
    <2>4. \A e \in Above[f] \ dirs : \A d \in Above[f] :
              e \in Above[d] => d \in Above[f] \ dirs
      BY <2>3
    <2>5. ASSUME NEW q \in Puts, pc'[q] = "dirs", made'[q] # {}
          PROVE  /\ \A e \in made'[q] : \A d \in Above[target'[q]] :
                        e \in Above[d] => d \in made'[q]
                 /\ Above[target'[q]] \ dirs \subseteq made'[q]
      <3>1. CASE q = p
        BY <2>1, <2>4, <3>1
      <3>2. CASE q # p
        BY <2>1, <2>5, <3>2 DEF MkdirInv
      <3> QED BY <3>1, <3>2
    <2> QED BY <2>2, <2>5 DEF MkdirInv
  <1>2. ASSUME NEW d \in Dirs, RemoveDir(d)
        PROVE  MkdirInv'
    <2>1. /\ dirs' = dirs \ {d} /\ UNCHANGED <<pc, target, made>>
          /\ \A e \in Dirs : d \notin Above[e]
      BY <1>2 DEF RemoveDir
    <2>2. ASSUME NEW q \in Puts, pc[q] = "dirs", NEW e \in made[q], d \in Above[target[q]]
          PROVE  d \in made[q]
      <3>1. target[q] \in Files /\ e \in Above[target[q]] /\ e \in Dirs
        BY <2>2 DEF CallInv, TypeOK
      <3>2. d = e \/ d \in Above[e] \/ e \in Above[d]
        BY <2>2, <3>1 DEF StorageAssumption
      <3> QED BY <2>1, <2>2, <3>1, <3>2 DEF MkdirInv
    <2> QED BY <2>1, <2>2 DEF MkdirInv
  <1>3. ASSUME NEW p \in Puts,
               \/ CreateTemp(p) \/ WriteData(p) \/ SyncData(p)
               \/ Rename(p) \/ Wait(p) \/ SyncDir(p) \/ SyncParent(p) \/ Return(p)
        PROVE  MkdirInv'
    <2>1. UNCHANGED <<dirs, made, target>>
      BY <1>3 DEF CreateTemp, WriteData, SyncData, Rename, Wait, SyncDir, SyncParent, Return, disk
    <2>2. \A q \in Puts : pc'[q] = "dirs" => pc[q] = "dirs"
      BY <1>3 DEF CreateTemp, WriteData, SyncData, Rename, Wait, SyncDir, SyncParent, Return, Goto, TypeOK
    <2> QED BY <2>1, <2>2, MkdirKept
  <1>4. ASSUME NEW p \in Puts, MakeDirs(p) \/ Fail(p)
        PROVE  MkdirInv'
    <2>1. UNCHANGED <<made, target>> /\ dirs \subseteq dirs'
      BY <1>4 DEF MakeDirs, Fail, Mkdirs
    <2>2. \A q \in Puts : pc'[q] = "dirs" => pc[q] = "dirs"
      BY <1>4 DEF MakeDirs, Fail, Goto, TypeOK
    <2> QED BY <2>1, <2>2, MkdirKept
  <1>5. CASE PowerCut
    <2>1. \A q \in Puts : pc'[q] # "dirs"
      BY <1>5, DeadStep DEF Under
    <2> QED BY <2>1 DEF MkdirInv
  <1>9. CASE Kill
    <2>1. UNCHANGED <<dirs, made, target>>
      BY <1>9 DEF Kill, disk
    <2>2. \A q \in Puts : pc'[q] = "dirs" => pc[q] = "dirs"
      BY <1>9, DeadStep
    <2> QED BY <2>1, <2>2, MkdirKept
  <1>10. CASE Opens
    <2>1. UNCHANGED <<pc, made, target>> /\ dirs \subseteq dirs'
      BY <1>10 DEF Opens, Mkdirs
    <2> QED BY <2>1, MkdirKept
  <1>6. ASSUME NEW f \in Files, Delete(f) \/ HoldOpen(f) \/ Close(f)
        PROVE  UNCHANGED <<pc, target, made, dirs>>
    BY <1>6 DEF Delete, HoldOpen, Close, disk
  <1>7. CASE UNCHANGED <<pc, target, made, dirs>>
    BY <1>7, MkdirKept
  <1>8. CASE UNCHANGED vars
    BY <1>7, <1>8 DEF vars, disk
  <1> QED BY <1>1, <1>2, <1>3, <1>4, <1>5, <1>6, <1>7, <1>8, <1>9, <1>10 DEF Next, Step

\* Directories that a call makes are among those it owes.
LEMMA NewDirsAreOwed ==
    ASSUME TypeOK, DirsAreOwed, NEW D \in SUBSET Dirs, Mkdirs(D),
           NEW p \in Puts, D \ dirs \subseteq owed[p], UNCHANGED <<owed, loose>>
    PROVE  DirsAreOwed'
  <1>1. ASSUME NEW d \in dirs', d \notin dirs
        PROVE  d \in owed'[p]
    BY <1>1 DEF Mkdirs
  <1>2. ASSUME NEW d \in dirs
        PROVE  maybeDir'[d] = maybeDir[d]
    BY DEF Mkdirs, TypeOK
  <1> QED BY <1>1, <1>2 DEF DirsAreOwed

LEMMA DirsStep ==
    ASSUME StorageAssumption, TypeOK, CallInv, MkdirInv, Fsync, ~windows, DirsAreOwed,
           [Next]_vars
    PROVE  DirsAreOwed'
  <1>1. ASSUME NEW p \in Puts, NEW f \in Files, Begin(p, f)
        PROVE  DirsAreOwed'
    <2>1. UNCHANGED <<dirs, maybeDir, loose>> /\ pc[p] = "idle"
      BY <1>1 DEF Begin, disk, Goto
    <2>2. owed[p] = {}
      BY <2>1 DEF CallInv, TypeOK
    <2>3. \A q \in Puts : owed[q] \subseteq owed'[q]
      BY <1>1, <2>2 DEF Begin, TypeOK
    <2> QED BY <2>1, <2>3 DEF DirsAreOwed
  <1>2. ASSUME NEW p \in Puts, MakeDirs(p)
        PROVE  DirsAreOwed'
    <2>1. /\ UNCHANGED <<owed, loose>> /\ pc[p] = "dirs"
          /\ Mkdirs(IF made[p] = {} THEN {} ELSE Above[target[p]])
      BY <1>2 DEF MakeDirs, Goto
    <2>2. owed[p] = made[p] /\ target[p] \in Files
      BY <2>1 DEF CallInv, Under
    <2>3. CASE made[p] = {}
      BY <2>1, <2>3, NewDirsAreOwed
    <2>4. CASE made[p] # {}
      <3>1. Above[target[p]] \ dirs \subseteq owed[p]
        BY <2>1, <2>2, <2>4 DEF MkdirInv
      <3>2. Above[target[p]] \in SUBSET Dirs
        BY <2>2 DEF StorageAssumption
      <3> QED BY <2>1, <2>4, <3>1, <3>2, NewDirsAreOwed
    <2> QED BY <2>3, <2>4
  <1>3. ASSUME NEW p \in Puts, Fail(p)
        PROVE  DirsAreOwed'
    <2>1. UNCHANGED <<owed, loose>>
      BY <1>3 DEF Fail
    <2>2. CASE pc[p] = "dirs"
      <3>1. PICK D \in SUBSET made[p] : Mkdirs(D)
        BY <1>3, <2>2 DEF Fail
      <3>2. D \in SUBSET Dirs /\ D \ dirs \subseteq owed[p]
        BY <2>2 DEF CallInv, TypeOK, Under
      <3> QED BY <2>1, <3>1, <3>2, NewDirsAreOwed
    <2>3. CASE pc[p] # "dirs"
      <3>1. UNCHANGED <<dirs, maybeDir>>
        BY <1>3, <2>3 DEF Fail
      <3> QED BY <2>1, <3>1 DEF DirsAreOwed
    <2> QED BY <2>2, <2>3
  <1>4. ASSUME NEW p \in Puts, SyncDir(p)
        PROVE  DirsAreOwed'
    <2>1. UNCHANGED <<dirs, file, owed>> /\ BestEffort(Parent(target[p]), {p})
      BY <1>4 DEF SyncDir
    <2>2. \A d \in dirs : \/ maybeDir'[d] = {TRUE}
                          \/ maybeDir'[d] = maybeDir[d] /\ (d \in loose => d \in loose')
      BY <2>1, BestEffortKeeps
    <2> QED BY <2>1, <2>2 DEF DirsAreOwed
  <1>5. ASSUME NEW p \in Puts, SyncParent(p)
        PROVE  DirsAreOwed'
    <2>1. PICK x \in Dirs : /\ owed' = [owed EXCEPT ![p] = @ \ {x}]
                            /\ BestEffort(Parent(x), {x, p})
      BY <1>5 DEF SyncParent
    <2>2. UNCHANGED <<dirs, file>>
      BY <1>5 DEF SyncParent
    <2>3. /\ \A d \in dirs : \/ maybeDir'[d] = {TRUE}
                             \/ maybeDir'[d] = maybeDir[d] /\ (d \in loose => d \in loose')
          /\ x \in dirs => maybeDir'[x] = {TRUE} \/ x \in loose'
      <3>1. /\ \A d \in dirs : \/ maybeDir'[d] = {TRUE}
                               \/ maybeDir'[d] = maybeDir[d] /\ (d \in loose => d \in loose')
            /\ \A d \in dirs : Parent(d) = Parent(x) =>
                    maybeDir'[d] = {TRUE} \/ {x, p} \subseteq loose'
        BY <2>1, <2>2, BestEffortKeeps
      <3> QED BY <3>1
    <2>4. \A q \in Puts : \A d \in owed[q] : d # x => d \in owed'[q]
      BY <2>1 DEF TypeOK
    <2> QED BY <2>2, <2>3, <2>4 DEF DirsAreOwed
  <1>6. ASSUME NEW d \in Dirs, RemoveDir(d)
        PROVE  DirsAreOwed'
    BY <1>6 DEF RemoveDir, DirsAreOwed, TypeOK
  <1>7. CASE PowerCut
    <2>1. \A d \in Dirs : d \in dirs' => {(d \in dirs')} = {TRUE}
      OBVIOUS
    <2>2. maybeDir' = [d \in Dirs |-> {(d \in dirs')}]
      BY <1>7 DEF PowerCut
    <2>3. dirs' \subseteq Dirs
      BY <1>7 DEF PowerCut
    <2> QED BY <2>1, <2>2, <2>3 DEF DirsAreOwed
  <1>8. CASE UNCHANGED <<dirs, maybeDir, owed, loose>>
    BY <1>8 DEF DirsAreOwed
  <1>9. ASSUME NEW p \in Puts,
               \/ CreateTemp(p) \/ WriteData(p) \/ SyncData(p) \/ Rename(p) \/ Wait(p) \/ Return(p)
        PROVE  UNCHANGED <<dirs, maybeDir, owed, loose>>
    BY <1>9 DEF CreateTemp, WriteData, SyncData, Rename, Wait, Return, disk
  <1>10. ASSUME NEW f \in Files, Delete(f) \/ HoldOpen(f) \/ Close(f)
         PROVE  UNCHANGED <<dirs, maybeDir, owed, loose>>
    BY <1>10 DEF Delete, HoldOpen, Close, disk
  <1>11. CASE Kill
    BY <1>8, <1>11 DEF Kill, disk
  <1>12. CASE UNCHANGED vars
    BY <1>8, <1>12 DEF vars, disk
  <1>13. CASE Opens
    <2>1. PICK D \in SUBSET (RootPath \ dirs) : Mkdirs(D) /\ loose' = loose \cup D
      BY <1>13 DEF Opens
    <2>2. owed' = owed
      BY <1>13 DEF Opens
    <2>3. ASSUME NEW d \in dirs
          PROVE  maybeDir'[d] = maybeDir[d]
      BY <2>1, <2>3 DEF Mkdirs, TypeOK
    <2>4. \A d \in dirs' : d \in dirs \/ d \in loose'
      BY <2>1 DEF Mkdirs
    <2> QED BY <2>1, <2>2, <2>3, <2>4 DEF DirsAreOwed
  <1> QED BY <1>1, <1>2, <1>3, <1>4, <1>5, <1>6, <1>7, <1>8, <1>9, <1>10, <1>11, <1>12, <1>13
          DEF Next, Step

-----------------------------------------------------------------------------
(* What a power cut may change.                                            *)

\* A step that changes no file, and takes no outcome but for good.
Settles ==
    /\ UNCHANGED <<windows, file>>
    /\ \A f \in Files : maybeFile'[f] = maybeFile[f] \/ maybeFile'[f] = {file[f]}
    /\ \A f \in Files : file[f] # Nothing =>
            \A d \in Above[f] : maybeDir'[d] = maybeDir[d] \/ maybeDir'[d] = {TRUE}

\* Making directories changes no directory above a file.
LEMMA MkdirsSettles ==
    ASSUME StorageAssumption, TypeOK, NEW D, Mkdirs(D), UNCHANGED <<windows, file, maybeFile>>
    PROVE  Settles
  <1>1. \A d \in dirs : maybeDir'[d] = maybeDir[d]
    BY DEF Mkdirs, TypeOK
  <1>2. \A f \in Files : file[f] # Nothing => Above[f] \subseteq dirs
    BY DEF TypeOK
  <1> QED BY <1>1, <1>2 DEF Settles

LEMMA SyncSettles ==
    ASSUME StorageAssumption, TypeOK, NEW x, maybeDir' = SyncedDirs(x),
           maybeFile' = SyncedFiles(x), UNCHANGED <<windows, dirs, file>>
    PROVE  Settles
  <1>1. /\ \A d \in dirs : maybeDir'[d] = maybeDir[d] \/ maybeDir'[d] = {TRUE}
        /\ \A f \in Files : maybeFile'[f] = maybeFile[f] \/ maybeFile'[f] = {file[f]}
    BY SyncedTyped
  <1>2. \A f \in Files : file[f] # Nothing => Above[f] \subseteq dirs
    BY DEF TypeOK
  <1> QED BY <1>1, <1>2 DEF Settles

LEMMA BestEffortSettles ==
    ASSUME StorageAssumption, TypeOK, NEW x, NEW X, BestEffort(x, X),
           UNCHANGED <<windows, dirs, file>>
    PROVE  Settles
  <1>1. CASE Synced(x)
    BY <1>1, SyncSettles DEF Synced
  <1>2. CASE UNCHANGED <<maybeDir, maybeFile>>
    BY <1>2 DEF Settles
  <1> QED BY <1>1, <1>2 DEF BestEffort

LEMMA OpensSettles ==
    ASSUME StorageAssumption, TypeOK, Opens
    PROVE  Settles
  <1>1. PICK D : Mkdirs(D)
    BY DEF Opens
  <1>2. UNCHANGED <<windows, file, maybeFile>>
    BY DEF Opens
  <1> QED BY <1>1, <1>2, MkdirsSettles

\* Every step of a call but the rename.
LEMMA StepSettles ==
    ASSUME StorageAssumption, TypeOK, NEW p \in Puts, Step(p), ~ Rename(p)
    PROVE  Settles
  <1>1. CASE MakeDirs(p)
    BY <1>1, MkdirsSettles DEF MakeDirs
  <1>2. CASE Fail(p)
    <2>1. UNCHANGED <<windows, file, maybeFile>>
      BY <1>2 DEF Fail
    <2>2. CASE pc[p] = "dirs"
      <3>1. PICK D \in SUBSET made[p] : Mkdirs(D)
        BY <1>2, <2>2 DEF Fail
      <3> QED BY <2>1, <3>1, MkdirsSettles
    <2>3. CASE pc[p] # "dirs"
      <3>1. maybeDir' = maybeDir
        BY <1>2, <2>3 DEF Fail
      <3> QED BY <2>1, <3>1 DEF Settles
    <2> QED BY <2>2, <2>3
  <1>3. CASE SyncDir(p)
    BY <1>3, BestEffortSettles DEF SyncDir
  <1>4. CASE SyncParent(p)
    <2>1. PICK x : BestEffort(Parent(x), {x, p})
      BY <1>4 DEF SyncParent
    <2>2. UNCHANGED <<windows, dirs, file>>
      BY <1>4 DEF SyncParent
    <2> QED BY <2>1, <2>2, BestEffortSettles
  <1>5. CASE CreateTemp(p) \/ WriteData(p) \/ SyncData(p) \/ Wait(p) \/ Return(p)
    BY <1>5 DEF CreateTemp, WriteData, SyncData, Wait, Return, disk, Settles
  <1> QED BY <1>1, <1>2, <1>3, <1>4, <1>5 DEF Step

\* Removing a directory changes none above a file.
LEMMA RemoveSettles ==
    ASSUME StorageAssumption, TypeOK, NEW d \in Dirs, RemoveDir(d)
    PROVE  Settles
  <1>1. \A f \in Files : file[f] # Nothing => d \notin Above[f]
    BY DEF RemoveDir, Empty, Listed
  <1>2. \A e \in Dirs : e # d => maybeDir'[e] = maybeDir[e]
    BY DEF RemoveDir, TypeOK
  <1>3. \A f \in Files : Above[f] \subseteq Dirs
    BY DEF StorageAssumption
  <1>4. UNCHANGED <<windows, file, maybeFile>>
    BY DEF RemoveDir
  <1> QED BY <1>1, <1>2, <1>3, <1>4, ZenonT(30) DEF Settles

\* Every other step but a rename, a delete and a power cut.
LEMMA OthersSettle ==
    ASSUME \/ \E p \in Puts, f \in Files : Begin(p, f)
           \/ \E f \in Files : HoldOpen(f) \/ Close(f)
           \/ Kill
           \/ UNCHANGED vars
    PROVE  Settles
  <1>1. UNCHANGED <<windows, file, maybeFile, maybeDir>>
    BY DEF Begin, HoldOpen, Close, Kill, vars, disk
  <1> QED BY <1>1 DEF Settles

\* A path is replaced or deleted: the others and the directories stay.
LEMMA EntrySpares ==
    ASSUME TypeOK, NEW f \in Files, NEW c \in Puts \cup {Nothing}, Entry(f, c), maybeDir' = maybeDir
    PROVE  /\ \A g \in Files : g # f => /\ file'[g] = file[g]
                                        /\ maybeFile'[g] = maybeFile[g]
                                        /\ acked'[g] = acked[g]
           /\ file'[f] = c /\ acked'[f] = Nothing
  BY DEF TypeOK, Entry

\* A put that was refused a sync stays one, unless the power goes.
LEMMA LooseStays ==
    ASSUME StorageAssumption, TypeOK, [Next]_vars, NEW q \in Puts, q \in loose, pc'[q] = "climb"
    PROVE  q \in loose'
  <1>1. ASSUME NEW x, NEW X, BestEffort(x, X)
        PROVE  q \in loose'
    BY <1>1 DEF BestEffort, Synced, StorageAssumption
  <1>2. ASSUME NEW p \in Puts, SyncDir(p) \/ SyncParent(p)
        PROVE  q \in loose'
    BY <1>1, <1>2 DEF SyncDir, SyncParent
  <1>3. ASSUME NEW d \in Dirs, RemoveDir(d)
        PROVE  q \in loose'
    BY <1>3 DEF RemoveDir, StorageAssumption
  <1>4. ASSUME NEW p \in Puts,
               \/ MakeDirs(p) \/ CreateTemp(p) \/ WriteData(p) \/ SyncData(p) \/ Rename(p)
               \/ Wait(p) \/ Return(p) \/ Fail(p) \/ \E f \in Files : Begin(p, f)
        PROVE  loose' = loose
    BY <1>4 DEF MakeDirs, CreateTemp, WriteData, SyncData, Rename, Wait, Return, Fail, Begin, disk
  <1>5. ASSUME NEW f \in Files, Delete(f) \/ HoldOpen(f) \/ Close(f)
        PROVE  loose' = loose
    BY <1>5 DEF Delete, HoldOpen, Close, disk
  <1>6. CASE Opens
    BY <1>6 DEF Opens
  <1>7. CASE Kill \/ UNCHANGED vars
    BY <1>7 DEF Kill, vars, disk
  <1>8. CASE PowerCut
    BY <1>8, DeadStep DEF Under
  <1> QED BY <1>2, <1>3, <1>4, <1>5, <1>6, <1>7, <1>8 DEF Next, Step

LEMMA ClimbStep ==
    ASSUME StorageAssumption, TypeOK, CallInv, Fsync, ~windows, ClimbInv, [Next]_vars
    PROVE  ClimbInv'
  <1> DEFINE Climbs(q) == pc[q] = "climb" /\ file[target[q]] = q /\ q \notin loose
             OnDevice(q) == /\ maybeFile[target[q]] = {q}
                            /\ \A d \in made[q] \ owed[q] : maybeDir[d] = {TRUE}
  <1>1. \A q \in Puts : Climbs(q) => OnDevice(q)
    BY DEF ClimbInv
  <1>2. ASSUME NEW q \in Puts, Climbs(q)
        PROVE  target[q] \in Files /\ made[q] \subseteq Above[target[q]] /\ file[target[q]] # Nothing
    BY <1>2 DEF CallInv, StorageAssumption
  <1>15. ASSUME Settles, NEW q \in Puts, Climbs(q)
         PROVE  /\ maybeFile'[target[q]] = {q}
                /\ \A d \in made[q] \ owed[q] : maybeDir'[d] = {TRUE}
    <2>1. target[q] \in Files /\ file[target[q]] = q /\ maybeFile[target[q]] = {q}
      BY <1>1, <1>2, <1>15
    <2>2. maybeFile'[target[q]] = maybeFile[target[q]] \/ maybeFile'[target[q]] = {file[target[q]]}
      BY <1>15, <2>1 DEF Settles
    <2>3. \A d \in Above[target[q]] : maybeDir'[d] = maybeDir[d] \/ maybeDir'[d] = {TRUE}
      BY <1>2, <1>15, <2>1 DEF Settles
    <2>4. \A d \in made[q] \ owed[q] : maybeDir[d] = {TRUE} /\ d \in Above[target[q]]
      BY <1>1, <1>2, <1>15
    <2> QED BY <2>1, <2>2, <2>3, <2>4
  <1>16. ASSUME NEW q \in Puts, pc'[q] = "climb", q \in loose
         PROVE  q \in loose'
    BY <1>16, LooseStays
  <1>3. ASSUME Settles,
               \A q \in Puts : pc'[q] = "climb" /\ file'[target'[q]] = q =>
                    /\ pc[q] = "climb" /\ file[target[q]] = q /\ target'[q] = target[q]
                    /\ made'[q] \subseteq made[q] /\ owed'[q] = owed[q]
        PROVE  ClimbInv'
    <2>1. ASSUME NEW q \in Puts, Climbs(q)'
          PROVE  OnDevice(q)'
      <3>1. /\ Climbs(q) /\ target'[q] = target[q]
            /\ made'[q] \subseteq made[q] /\ owed'[q] = owed[q]
        BY <1>3, <1>16, <2>1
      <3>2. /\ maybeFile'[target[q]] = {q}
            /\ \A d \in made[q] \ owed[q] : maybeDir'[d] = {TRUE}
        BY <1>3, <1>15, <3>1
      <3> QED BY <3>1, <3>2
    <2> QED BY <2>1 DEF ClimbInv
  <1>4. ASSUME NEW p \in Puts,
               MakeDirs(p) \/ CreateTemp(p) \/ WriteData(p) \/ SyncData(p) \/ Wait(p) \/ Return(p)
        PROVE  ClimbInv'
    <2>1. ~ Rename(p)
      BY <1>4 DEF MakeDirs, CreateTemp, WriteData, SyncData, Wait, Return, Rename, Goto, TypeOK
    <2>2. Settles
      BY <1>4, <2>1, StepSettles DEF Step
    <2>3. UNCHANGED <<file, target, made, owed>>
      BY <1>4 DEF MakeDirs, CreateTemp, WriteData, SyncData, Wait, Return, disk
    <2>4. \A q \in Puts : pc'[q] = "climb" => pc[q] = "climb"
      BY <1>4 DEF MakeDirs, CreateTemp, WriteData, SyncData, Wait, Return, Goto, TypeOK
    <2> QED BY <1>3, <2>2, <2>3, <2>4
  <1>5. ASSUME NEW p \in Puts, Fail(p)
        PROVE  ClimbInv'
    <2>1. ~ Rename(p)
      BY <1>5 DEF Fail, Rename, Goto, TypeOK
    <2>2. Settles
      BY <1>5, <2>1, StepSettles DEF Step
    <2>3. UNCHANGED <<file, target, made, owed>>
      BY <1>5 DEF Fail
    <2>4. \A q \in Puts : pc'[q] = "climb" => pc[q] = "climb"
      BY <1>5 DEF Fail, TypeOK
    <2> QED BY <1>3, <2>2, <2>3, <2>4
  <1>6. ASSUME NEW p \in Puts, NEW f \in Files, Begin(p, f)
        PROVE  ClimbInv'
    <2>1. \A q \in Puts : pc'[q] = IF q = p THEN "dirs" ELSE pc[q]
      BY <1>6, GotoTyped DEF Begin, Under
    <2>2. file' = file /\ \A q \in Puts : q # p =>
              target'[q] = target[q] /\ made'[q] = made[q] /\ owed'[q] = owed[q]
      BY <1>6 DEF Begin, disk, TypeOK
    <2> QED BY <1>3, <1>6, <2>1, <2>2, OthersSettle
  <1>7. ASSUME NEW p \in Puts, Rename(p)
        PROVE  ClimbInv'
    <2>1. target[p] \in Files /\ UNCHANGED <<target, made, owed, maybeDir>>
      BY <1>7 DEF Rename, Goto, CallInv
    <2>2. /\ \A g \in Files : g # target[p] => file'[g] = file[g] /\ maybeFile'[g] = maybeFile[g]
          /\ file'[target[p]] = p
      BY <1>7, <2>1, EntrySpares DEF Rename
    <2>3. \A q \in Puts : pc'[q] = IF q = p THEN "entry" ELSE pc[q]
      BY <1>7, GotoTyped DEF Rename, Under
    <2>4. ASSUME NEW q \in Puts, Climbs(q)'
          PROVE  OnDevice(q)'
      <3>1. q # p /\ pc[q] = "climb"
        BY <2>3, <2>4
      <3>2. target[q] \in Files /\ target[q] # target[p]
        BY <2>1, <2>2, <2>4, <3>1 DEF CallInv
      <3> QED BY <1>1, <1>16, <2>1, <2>2, <2>4, <3>1, <3>2
    <2> QED BY <2>4 DEF ClimbInv
  <1>8. ASSUME NEW p \in Puts, SyncDir(p)
        PROVE  ClimbInv'
    <2>1. /\ UNCHANGED <<windows, dirs, file, target, made, owed>>
          /\ BestEffort(Parent(target[p]), {p})
      BY <1>8 DEF SyncDir
    <2>2. \A q \in Puts : pc'[q] = IF q = p THEN "climb" ELSE pc[q]
      BY <1>8, GotoTyped DEF SyncDir, Under
    <2>3. Settles /\ \A q \in Puts : q \in loose => q \in loose'
      BY <2>1, BestEffortSettles, BestEffortKeeps
    <2>4. ASSUME NEW q \in Puts, Climbs(q)'
          PROVE  OnDevice(q)'
      <3>1. CASE q # p
        <4>1. Climbs(q)
          BY <2>1, <2>2, <2>3, <2>4, <3>1
        <4>2. /\ maybeFile'[target[q]] = {q}
              /\ \A d \in made[q] \ owed[q] : maybeDir'[d] = {TRUE}
          BY <1>15, <2>3, <4>1
        <4> QED BY <2>1, <4>2
      <3>2. CASE q = p
        <4>1. target[p] \in Files /\ owed[p] = made[p]
          BY <1>8 DEF SyncDir, Goto, CallInv, Under
        <4>2. maybeFile'[target[p]] = {file[target[p]]} \/ p \in loose'
          BY <2>1, <4>1, BestEffortKeeps
        <4> QED BY <2>1, <2>4, <3>2, <4>1, <4>2
      <3> QED BY <3>1, <3>2
    <2> QED BY <2>4 DEF ClimbInv
  <1>9. ASSUME NEW p \in Puts, SyncParent(p)
        PROVE  ClimbInv'
    <2>1. PICK x \in Dirs : /\ owed' = [owed EXCEPT ![p] = @ \ {x}]
                            /\ BestEffort(Parent(x), {x, p})
      BY <1>9 DEF SyncParent
    <2>2. UNCHANGED <<windows, dirs, file, pc, target, made>>
      BY <1>9 DEF SyncParent
    <2>3. Settles /\ \A q \in Puts : q \in loose => q \in loose'
      BY <2>1, <2>2, BestEffortSettles, BestEffortKeeps
    <2>4. \A q \in Puts : owed'[q] = IF q = p THEN owed[q] \ {x} ELSE owed[q]
      BY <2>1 DEF TypeOK
    <2>5. x \in dirs => maybeDir'[x] = {TRUE} \/ p \in loose'
      <3>1. \A d \in dirs : Parent(d) = Parent(x) =>
                maybeDir'[d] = {TRUE} \/ {x, p} \subseteq loose'
        BY <2>1, <2>2, BestEffortKeeps
      <3> QED BY <3>1
    <2>6. ASSUME NEW q \in Puts, Climbs(q)'
          PROVE  OnDevice(q)'
      <3>1. Climbs(q)
        BY <2>2, <2>3, <2>6
      <3>2. /\ maybeFile'[target[q]] = {q}
            /\ \A d \in made[q] \ owed[q] : maybeDir'[d] = {TRUE}
        BY <1>15, <2>3, <3>1
      <3>3. made[q] \subseteq dirs
        BY <1>2, <3>1 DEF TypeOK
      <3>4. \A d \in made[q] \ owed'[q] : d \in made[q] \ owed[q] \/ (d = x /\ q = p)
        BY <2>4
      <3>5. \A d \in made[q] \ owed'[q] : maybeDir'[d] = {TRUE}
        <4>1. ASSUME NEW d \in made[q] \ owed'[q]
              PROVE  maybeDir'[d] = {TRUE}
          <5>1. d \in made[q] \ owed[q] \/ (d = x /\ q = p)
            BY <3>4, <4>1
          <5>2. d = x /\ q = p => maybeDir'[d] = {TRUE}
            BY <2>5, <2>6, <3>3, <4>1
          <5> QED BY <3>2, <5>1, <5>2
        <4> QED BY <4>1
      <3> QED BY <2>2, <3>2, <3>5
    <2> QED BY <2>6 DEF ClimbInv
  <1>10. ASSUME NEW f \in Files, Delete(f)
         PROVE  ClimbInv'
    <2>1. UNCHANGED <<pc, target, made, owed, maybeDir>>
      BY <1>10 DEF Delete
    <2>2. /\ \A g \in Files : g # f => file'[g] = file[g] /\ maybeFile'[g] = maybeFile[g]
          /\ file'[f] = Nothing
      BY <1>10, <2>1, EntrySpares DEF Delete
    <2>3. ASSUME NEW q \in Puts, Climbs(q)'
          PROVE  OnDevice(q)'
      <3>1. target[q] \in Files /\ target[q] # f
        BY <2>1, <2>2, <2>3 DEF CallInv, StorageAssumption
      <3> QED BY <1>1, <1>16, <2>1, <2>2, <2>3, <3>1
    <2> QED BY <2>3 DEF ClimbInv
  <1>11. ASSUME NEW d \in Dirs, RemoveDir(d)
         PROVE  ClimbInv'
    <2>1. UNCHANGED <<pc, target, made, owed, file>>
      BY <1>11 DEF RemoveDir
    <2> QED BY <1>3, <1>11, <2>1, RemoveSettles
  <1>12. CASE PowerCut
    <2>1. \A q \in Puts : pc'[q] # "climb"
      BY <1>12, DeadStep DEF Under
    <2> QED BY <2>1 DEF ClimbInv
  <1>17. CASE Kill
    <2>1. UNCHANGED <<target, made, owed, file>>
      BY <1>17 DEF Kill, disk
    <2>2. \A q \in Puts : pc'[q] = "climb" => pc[q] = "climb"
      BY <1>17, DeadStep
    <2> QED BY <1>3, <1>17, <2>1, <2>2, OthersSettle
  <1>18. CASE Opens
    <2>1. UNCHANGED <<pc, target, made, owed, file>>
      BY <1>18 DEF Opens
    <2> QED BY <1>3, <1>18, <2>1, OpensSettles
  <1>13. ASSUME NEW f \in Files, HoldOpen(f) \/ Close(f)
         PROVE  ClimbInv'
    <2>1. UNCHANGED <<pc, target, made, owed, file>>
      BY <1>13 DEF HoldOpen, Close, disk
    <2> QED BY <1>3, <1>13, <2>1, OthersSettle
  <1>14. CASE UNCHANGED vars
    <2>1. UNCHANGED <<pc, target, made, owed, file>>
      BY <1>14 DEF vars, disk
    <2> QED BY <1>3, <1>14, <2>1, OthersSettle
  <1> QED BY <1>4, <1>5, <1>6, <1>7, <1>8, <1>9, <1>10, <1>11, <1>12, <1>13, <1>14,
             <1>17, <1>18 DEF Next, Step

\* What an acknowledged put left is what is on the device; when the call
\* returns, its directories are because nobody owes them any more.
LEMMA AckedStep ==
    ASSUME StorageAssumption, StorageInv, [Next]_vars
    PROVE  AckedInv'
  <1> USE DEF StorageInv
  <1> DEFINE Durable(f, c) ==
        /\ file[f] = c
        /\ ~windows => maybeFile[f] = {c} /\ \A d \in Above[f] : maybeDir[d] = {TRUE}
  <1>1. \A f \in Files : acked[f] # Nothing => Fsync /\ Durable(f, acked[f])
    BY DEF AckedInv
  <1>2. ASSUME Settles, NEW f \in Files, NEW c \in Puts, Durable(f, c)
        PROVE  Durable(f, c)'
    <2>1. file[f] = c /\ file'[f] = c /\ windows' = windows /\ c # Nothing
      BY <1>2 DEF Settles, StorageAssumption
    <2>2. ASSUME ~windows
          PROVE  maybeFile'[f] = {c}
      BY <1>2, <2>1, <2>2 DEF Settles
    <2>3. ASSUME ~windows, NEW d \in Above[f]
          PROVE  maybeDir'[d] = {TRUE}
      <3>1. maybeDir'[d] = maybeDir[d] \/ maybeDir'[d] = {TRUE}
        BY <1>2, <2>1, <2>3 DEF Settles
      <3> QED BY <1>2, <2>3, <3>1
    <2> QED BY <2>1, <2>2, <2>3
  <1>3. ASSUME Settles, acked' = acked
        PROVE  AckedInv'
    <2>1. ASSUME NEW f \in Files, acked'[f] # Nothing
          PROVE  Fsync /\ Durable(f, acked[f])'
      <3>1. Fsync /\ Durable(f, acked[f]) /\ acked[f] \in Puts
        BY <1>1, <1>3, <2>1, ZenonT(30) DEF TypeOK
      <3>2. \A c \in Puts : Durable(f, c) => Durable(f, c)'
        BY <1>2, <1>3
      <3>3. acked'[f] = acked[f]
        BY <1>3
      <3> QED BY <1>3, <3>1, <3>2, <3>3
    <2> QED BY <1>3, <2>1 DEF AckedInv
  <1>4. ASSUME NEW f \in Files, NEW c \in Puts \cup {Nothing}, Entry(f, c),
               UNCHANGED <<windows, maybeDir>>
        PROVE  AckedInv'
    <2>1. /\ \A g \in Files : g # f => /\ file'[g] = file[g]
                                       /\ maybeFile'[g] = maybeFile[g]
                                       /\ acked'[g] = acked[g]
          /\ acked'[f] = Nothing
      BY <1>4, EntrySpares
    <2> QED BY <1>1, <1>4, <2>1 DEF AckedInv
  <1>5. ASSUME NEW p \in Puts, Return(p)
        PROVE  AckedInv'
    <2>1. ~ Rename(p)
      BY <1>5 DEF Return, Rename, Goto
    <2>2. Settles
      BY <1>5, <2>1, StepSettles DEF Step
    <2>3. UNCHANGED <<windows, disk>> /\ pc[p] = "climb" /\ owed[p] = {}
      BY <1>5 DEF Return, Goto
    <2>4. target[p] \in Files
      BY <2>3 DEF CallInv
    <2>5. CASE Fsync /\ Named(p) /\ file[target[p]] = p
      <3>1. \A f \in Files : acked'[f] = IF f = target[p] THEN p ELSE acked[f]
        BY <1>5, <2>5 DEF Return, TypeOK
      <3>2. ASSUME ~windows
            PROVE  maybeFile[target[p]] = {p} /\ \A d \in made[p] : maybeDir[d] = {TRUE}
        BY <2>3, <2>5, <3>2 DEF ClimbInv, Named
      <3>3. ASSUME ~windows, NEW d \in Above[target[p]], d \notin made[p]
            PROVE  maybeDir[d] = {TRUE}
        <4>1. d \notin loose /\ \A q \in Puts : d \notin owed[q]
          BY <2>3, <2>5, <3>3 DEF Named
        <4>2. d \in dirs
          BY <2>4, <2>5, <3>3 DEF TypeOK, StorageAssumption
        <4> QED BY <2>5, <3>3, <4>1, <4>2 DEF DirsAreOwed
      <3>4. Durable(target[p], p)
        BY <2>5, <3>2, <3>3
      <3>5. ASSUME NEW f \in Files, acked'[f] # Nothing
            PROVE  Durable(f, acked'[f])
        BY <1>1, <3>1, <3>4, <3>5
      <3> QED BY <2>3, <2>5, <3>5 DEF AckedInv, disk
    <2>6. CASE ~(Fsync /\ Named(p) /\ file[target[p]] = p)
      <3>1. acked' = acked
        BY <1>5, <2>6 DEF Return
      <3> QED BY <1>3, <2>2, <3>1
    <2> QED BY <2>5, <2>6
  <1>6. ASSUME NEW p \in Puts, Rename(p)
        PROVE  AckedInv'
    <2>1. target[p] \in Files
      BY <1>6 DEF Rename, Goto, CallInv
    <2>2. Entry(target[p], p) /\ UNCHANGED <<windows, maybeDir>>
      BY <1>6 DEF Rename
    <2> QED BY <1>4, <2>1, <2>2
  <1>7. ASSUME NEW f \in Files, Delete(f)
        PROVE  AckedInv'
    <2>1. Entry(f, Nothing) /\ UNCHANGED <<windows, maybeDir>>
      BY <1>7 DEF Delete
    <2> QED BY <1>4, <2>1
  <1>8. CASE PowerCut
    <2>1. ~windows /\ windows' = windows /\ acked' = acked
      BY <1>8 DEF PowerCut
    <2>2. /\ \A d \in Dirs \ dirs' : \E e \in Above[d] \cup {d} :
                e \notin dirs' /\ FALSE \in maybeDir[e]
          /\ \A d \in Dirs : maybeDir'[d] = {(d \in dirs')}
          /\ \A f \in Files : Above[f] \subseteq dirs' => file'[f] \in maybeFile[f]
          /\ \A f \in Files : maybeFile'[f] = {file'[f]}
      <3>1. PICK D \in SUBSET Dirs :
                /\ \A d \in Dirs \ D : \E e \in Above[d] \cup {d} :
                        e \notin D /\ FALSE \in maybeDir[e]
                /\ dirs' = D
        BY <1>8 DEF PowerCut
      <3>2. maybeDir' = [d \in Dirs |-> {(d \in dirs')}]
        BY <1>8 DEF PowerCut
      <3>3. \A f \in Files : Above[f] \subseteq dirs' => file'[f] \in maybeFile[f]
        BY <1>8 DEF PowerCut
      <3>4. maybeFile' = [f \in Files |-> {file'[f]}]
        BY <1>8 DEF PowerCut
      <3>5. \A d \in Dirs \ dirs' : \E e \in Above[d] \cup {d} :
                e \notin dirs' /\ FALSE \in maybeDir[e]
        BY <3>1
      <3>6. \A d \in Dirs : maybeDir'[d] = {(d \in dirs')}
        BY <3>2
      <3> QED BY <3>3, <3>4, <3>5, <3>6
    <2>3. ASSUME NEW f \in Files, acked[f] # Nothing
          PROVE  Fsync /\ Durable(f, acked[f])'
      <3>1. Fsync /\ maybeFile[f] = {acked[f]} /\ \A d \in Above[f] : maybeDir[d] = {TRUE}
        BY <1>1, <2>1, <2>3
      <3>2. Above[f] \subseteq Dirs /\ \A d \in Above[f] : Above[d] \subseteq Above[f]
        BY DEF StorageAssumption
      <3>3. Above[f] \subseteq dirs'
        <4>1. ASSUME NEW d \in Above[f], d \notin dirs'
              PROVE  FALSE
          <5>1. PICK e \in Above[d] \cup {d} : FALSE \in maybeDir[e]
            BY <2>2, <3>2, <4>1
          <5>2. e \in Above[f]
            BY <3>2, <4>1, <5>1
          <5>3. maybeDir[e] = {TRUE}
            BY <3>1, <5>2
          <5> QED BY <5>1, <5>3
        <4> QED BY <4>1
      <3>4. file'[f] = acked[f] /\ maybeFile'[f] = {acked[f]}
        BY <2>2, <3>1, <3>3
      <3>5. ASSUME NEW d \in Above[f]
            PROVE  maybeDir'[d] = {TRUE}
        <4>1. d \in dirs' /\ maybeDir'[d] = {(d \in dirs')}
          BY <2>2, <3>2, <3>3, <3>5
        <4> QED BY <4>1
      <3> QED BY <2>1, <3>1, <3>4, <3>5
    <2> QED BY <2>1, <2>3 DEF AckedInv
  <1>9. ASSUME NEW p \in Puts,
               \/ MakeDirs(p) \/ CreateTemp(p) \/ WriteData(p) \/ SyncData(p)
               \/ Wait(p) \/ SyncDir(p) \/ SyncParent(p)
        PROVE  AckedInv'
    <2>1. ~ Rename(p)
      BY <1>9 DEF MakeDirs, CreateTemp, WriteData, SyncData, Wait, SyncDir, SyncParent,
                  Rename, Goto, TypeOK
    <2>2. Settles
      BY <1>9, <2>1, StepSettles DEF Step
    <2>3. acked' = acked
      BY <1>9 DEF MakeDirs, CreateTemp, WriteData, SyncData, Wait, SyncDir, SyncParent
    <2> QED BY <1>3, <2>2, <2>3
  <1>10. ASSUME NEW p \in Puts, Fail(p)
         PROVE  AckedInv'
    <2>1. ~ Rename(p) /\ acked' = acked
      BY <1>10 DEF Fail, Rename, Goto, TypeOK
    <2> QED BY <1>3, <1>10, <2>1, StepSettles DEF Step
  <1>11. ASSUME NEW d \in Dirs, RemoveDir(d)
         PROVE  AckedInv'
    <2>1. acked' = acked
      BY <1>11 DEF RemoveDir
    <2> QED BY <1>3, <1>11, <2>1, RemoveSettles
  <1>12. ASSUME NEW p \in Puts, NEW f \in Files, Begin(p, f)
         PROVE  AckedInv'
    <2>1. acked' = acked
      BY <1>12 DEF Begin
    <2> QED BY <1>3, <1>12, <2>1, OthersSettle
  <1>13. ASSUME NEW f \in Files, HoldOpen(f) \/ Close(f)
         PROVE  AckedInv'
    <2>1. acked' = acked
      BY <1>13 DEF HoldOpen, Close
    <2> QED BY <1>3, <1>13, <2>1, OthersSettle
  <1>14. CASE Kill \/ UNCHANGED vars
    <2>1. acked' = acked
      BY <1>14 DEF Kill, vars
    <2> QED BY <1>3, <1>14, <2>1, OthersSettle
  <1>15. CASE Opens
    <2>1. acked' = acked
      BY <1>15 DEF Opens
    <2> QED BY <1>3, <1>15, <2>1, OpensSettles
  <1> QED BY <1>5, <1>6, <1>7, <1>8, <1>9, <1>10, <1>11, <1>12, <1>13, <1>14, <1>15
          DEF Next, Step

-----------------------------------------------------------------------------
(* The invariant.                                                          *)

LEMMA InitInv == ASSUME StorageAssumption, Init PROVE StorageInv
  <1>1. TypeOK
    BY InitTyped
  <1>2. /\ \A p \in Puts : pc[p] = "idle" /\ made[p] = {}
        /\ temps = {} /\ torn = {}
        /\ \A f \in Files : maybeFile[f] = {Nothing} /\ acked[f] = Nothing
    BY DEF Init
  <1>5. \A d \in dirs : maybeDir[d] = {TRUE}
    <2>1. \A d \in dirs : {(d \in dirs)} = {TRUE}
      OBVIOUS
    <2>2. dirs \subseteq Dirs /\ maybeDir = [d \in Dirs |-> {(d \in dirs)}]
      BY RootPathTyped DEF Init
    <2> QED BY <2>1, <2>2
  <1>3. CallInv /\ TempInv /\ FlushInv /\ MkdirInv
    BY <1>2 DEF CallInv, TempInv, FlushInv, MkdirInv, Under
  <1>4. DirsAreOwed /\ ClimbInv /\ AckedInv
    BY <1>2, <1>5 DEF DirsAreOwed, ClimbInv, AckedInv
  <1> QED BY <1>1, <1>3, <1>4 DEF StorageInv

\* The kind of system is fixed at the start.
LEMMA SystemStays == [Next]_vars => windows' = windows
  BY DEF Next, Step, vars, Begin, MakeDirs, CreateTemp, WriteData, SyncData, Rename, Wait,
         SyncDir, SyncParent, Return, Fail, Delete, HoldOpen, Close, RemoveDir, Opens, Kill,
         PowerCut

LEMMA InvStep ==
    ASSUME StorageAssumption, StorageInv, [Next]_vars
    PROVE  StorageInv'
  <1> USE DEF StorageInv
  <1>1. TypeOK' /\ CallInv' /\ TempInv' /\ FlushInv' /\ MkdirInv'
    BY TypeStep, CallStep, TempStep, FlushStep, MkdirStep
  <1>2. ASSUME Fsync, ~windows'
        PROVE  DirsAreOwed' /\ ClimbInv'
    BY <1>2, DirsStep, ClimbStep, SystemStays
  <1>3. AckedInv'
    BY AckedStep
  <1> QED BY <1>1, <1>2, <1>3

\* The invariant of write_parts, for any tree of directories, any number of
\* puts, and any number of failures, kills and power cuts.
THEOREM StorageInvariant == Spec => []StorageInv
  <1>1. Init => StorageInv
    BY InitInv, StorageAssumption
  <1>2. StorageInv /\ [Next]_vars => StorageInv'
    BY InvStep, StorageAssumption
  <1> QED BY <1>1, <1>2, PTL DEF Spec

\* Drop of NamedTempFile: a partial file belongs to a call under way or to
\* one that was killed.
THEOREM PartialFilesOwned == Spec => []PartialFilesHaveAnOwner
  <1>1. StorageInv => PartialFilesHaveAnOwner
    BY DEF StorageInv, TypeOK, TempInv, PartialFilesHaveAnOwner
  <1> QED BY <1>1, StorageInvariant, PTL

-----------------------------------------------------------------------------
(* FileService.                                                            *)

\* With syncs a reader never finds a torn file.
LEMMA NothingIsTorn ==
    ASSUME StorageAssumption, StorageInv, Fsync
    PROVE  [f \in Files |-> Content(f)] = file
  <1> USE DEF StorageInv
  <1>1. ASSUME NEW f \in Files
        PROVE  Content(f) = file[f]
    <2>1. file[f] \notin torn
      BY DEF TypeOK, FlushInv, StorageAssumption
    <2> QED BY <2>1 DEF Content
  <1>2. file = [f \in Files |-> file[f]]
    BY DEF TypeOK
  <1> QED BY <1>1, <1>2

\* The steps that change what a reader finds or what is kept.
LEMMA ServiceStep ==
    ASSUME StorageAssumption, StorageInv, StorageInv', Fsync, Next
    PROVE  Service!Next \/ UNCHANGED <<[f \in Files |-> Content(f)], acked>>
  <1>1. [f \in Files |-> Content(f)] = file
    BY NothingIsTorn
  <1>2. [f \in Files |-> Content(f)]' = file'
    <2>1. \A f \in Files : Content(f)' = file'[f]
      <3>1. ASSUME NEW f \in Files
            PROVE  file'[f] \notin torn'
        BY DEF StorageInv, TypeOK, FlushInv, StorageAssumption
      <3> QED BY <3>1 DEF Content
    <2>2. file' = [f \in Files |-> file'[f]]
      BY DEF StorageInv, TypeOK
    <2> QED BY <2>1, <2>2
  <1>3. ASSUME NEW f \in Files, NEW c \in Puts \cup {Nothing}, Entry(f, c)
        PROVE  Service!Replace(f)
    <2>1. file' = [file EXCEPT ![f] = c] /\ acked' = [acked EXCEPT ![f] = Nothing]
      BY <1>3 DEF Entry
    <2> QED BY <1>1, <1>2, <2>1 DEF Service!Replace, Service!Contents
  <1>4. ASSUME NEW p \in Puts, Rename(p)
        PROVE  Service!Next
    <2>1. target[p] \in Files /\ Entry(target[p], p)
      BY <1>4 DEF Rename, Goto, StorageInv, CallInv
    <2> QED BY <1>3, <2>1 DEF Service!Next
  <1>5. ASSUME NEW f \in Files, Delete(f)
        PROVE  Service!Next
    BY <1>3, <1>5 DEF Delete, Service!Next
  <1>6. ASSUME NEW p \in Puts, Return(p)
        PROVE  Service!Next \/ UNCHANGED <<file, acked>>
    <2>1. target[p] \in Files /\ file' = file
      BY <1>6 DEF Return, Goto, StorageInv, CallInv, disk
    <2>2. CASE Named(p) /\ file[target[p]] = p
      <3>1. acked' = [acked EXCEPT ![target[p]] = file[target[p]]] /\ file[target[p]] # Nothing
        BY <1>6, <2>2 DEF Return, StorageAssumption
      <3>2. Service!Acknowledge(target[p])
        BY <1>1, <1>2, <2>1, <3>1 DEF Service!Acknowledge
      <3> QED BY <2>1, <3>2 DEF Service!Next
    <2>3. CASE ~(Named(p) /\ file[target[p]] = p)
      BY <1>6, <2>1, <2>3 DEF Return
    <2> QED BY <2>2, <2>3
  <1>7. ASSUME PowerCut
        PROVE  Service!Crash
    <2>1. ~windows /\ windows' = windows /\ acked' = acked
      BY <1>7 DEF PowerCut
    <2>2. file' \in [Files -> Puts \cup {Nothing}]
      BY DEF StorageInv, TypeOK
    <2>3. \A f \in Files : acked[f] # Nothing => file'[f] = acked[f]
      BY <2>1 DEF StorageInv, AckedInv
    <2> QED BY <1>2, <2>1, <2>2, <2>3 DEF Service!Crash, Service!Contents
  <1>8. ASSUME NEW p \in Puts, Step(p), ~ Rename(p), ~ Return(p)
        PROVE  UNCHANGED <<file, acked>>
    BY <1>8 DEF Step, MakeDirs, CreateTemp, WriteData, SyncData, Wait, SyncDir, SyncParent,
                Fail, disk
  <1>9. ASSUME \/ \E p \in Puts, f \in Files : Begin(p, f)
               \/ \E f \in Files : HoldOpen(f) \/ Close(f)
               \/ \E d \in Dirs : RemoveDir(d)
               \/ Opens \/ Kill
        PROVE  UNCHANGED <<file, acked>>
    BY <1>9 DEF Begin, HoldOpen, Close, RemoveDir, Opens, Kill, disk
  <1>10. Service!Next \/ UNCHANGED <<file, acked>>
    BY <1>4, <1>5, <1>6, <1>7, <1>8, <1>9 DEF Next, Service!Next
  <1> QED BY <1>1, <1>2, <1>10

\* With syncs (MOONCLIP_FSYNC not 0) the local store is a FileService: what
\* a put that returned Ok wrote survives every kill and every power cut, and
\* nobody ever reads half a file.
THEOREM Durability == ASSUME Fsync PROVE Spec => ImplementsFileService
  <1>1. Init => Service!Init
    <2> SUFFICES ASSUME Init PROVE Service!Init
      OBVIOUS
    <2>1. [f \in Files |-> Content(f)] = file
      BY InitInv, NothingIsTorn, StorageAssumption
    <2> QED BY <2>1 DEF Init, Service!Init, Service!Contents
  <1>2. StorageInv /\ StorageInv' /\ [Next]_vars => [Service!Next]_(Service!vars)
    <2> SUFFICES ASSUME StorageInv, StorageInv', [Next]_vars
                 PROVE  [Service!Next]_(Service!vars)
      OBVIOUS
    <2>1. CASE Next
      BY <2>1, ServiceStep, StorageAssumption DEF Service!vars
    <2>2. CASE UNCHANGED vars
      BY <2>2 DEF vars, disk, Content, Service!vars
    <2> QED BY <2>1, <2>2
  <1> QED BY <1>1, <1>2, StorageInvariant, PTL DEF Spec, ImplementsFileService, Service!Spec
=============================================================================
