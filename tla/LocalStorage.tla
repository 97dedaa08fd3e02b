---------------------------- MODULE LocalStorage ----------------------------
(***************************************************************************)
(* The store in a local directory (src/src/storage.rs, LocalStorage): the  *)
(* calls of put, which several threads and processes make at once, one     *)
(* file operation per step, on a filesystem that keeps what it is told in  *)
(* a cache until it is told to flush it.                                   *)
(*                                                                         *)
(* The filesystem is the environment.  `dirs` and `file` are what every    *)
(* process sees; `maybeDir` and `maybeFile` are what each entry may read   *)
(* after a power cut: a change to an entry adds an outcome, a sync of the  *)
(* directory that holds it leaves the last one.  The data of a file that   *)
(* was not synced may come back as zeros, whatever its entry says.  A      *)
(* filesystem may refuse to sync a directory, and nobody hears of it.      *)
(*                                                                         *)
(* A path is known by the directories above it, the root of the store      *)
(* among them.  The put that wrote a file stands for its contents.         *)
(***************************************************************************)
EXTENDS Integers, FiniteSets

CONSTANTS
    Files, Dirs,
    Root,      \* the directory of the store
    Outside,   \* what holds the topmost directory that may be missing
    Above,     \* of a file or a directory: the directories that hold it
    Puts,      \* the calls of put a behaviour makes
    Nothing,   \* no file
    Torn,      \* a file of the right length full of zeros
    Fsync,     \* MOONCLIP_FSYNC
    Patience,  \* refusals a rename waits out (PERSIST_RETRY_BUDGET)
    MaxFaults  \* kills and power cuts, and failed steps of puts (bounds)

ASSUME StorageAssumption ==
    /\ Files \cap Dirs = {}
    /\ Above \in [Files \cup Dirs -> SUBSET Dirs]
    /\ \A x \in Files \cup Dirs : \A d \in Above[x] : Above[d] \subseteq Above[x] \ {d}
    /\ \A x \in Files \cup Dirs : \A d, e \in Above[x] :
            d = e \/ d \in Above[e] \/ e \in Above[d]
    /\ Root \in Dirs /\ \A f \in Files : Root \in Above[f]
    /\ Outside \notin Files \cup Dirs
    /\ Dirs \cap Puts = {}
    /\ Nothing \notin Puts /\ Torn \notin Puts \cup {Nothing}
    /\ Fsync \in BOOLEAN /\ Patience \in Nat /\ MaxFaults \in Nat

VARIABLES
    windows,   \* a file held open refuses a rename over it
    dirs,      \* the directories that exist
    file,      \* the put whose contents a reader finds under each path
    temps,     \* the puts whose partial file exists
    flushed,   \* the puts whose data reached the device
    torn,      \* the puts whose data a power cut took
    maybeDir,  \* whether each directory may exist after a power cut
    maybeFile, \* what each path may hold after a power cut
    loose,     \* the directories whose entry nobody will sync, and the puts
               \* that were refused a sync
    open,      \* the files somebody else holds open
    pc,        \* where each call of put is
    target,    \* the path it writes
    made,      \* the directories it found missing (new_dirs)
    owed,      \* those of them whose entry it has still to sync
    waited,    \* how often its rename was refused
    acked,     \* what a put that returned Ok left at each path
    faults

disk == <<dirs, file, temps, flushed, torn, maybeDir, maybeFile, loose>>

vars == <<windows, disk, open, pc, target, made, owed, waited, acked, faults>>

Ended == {"ok", "err", "dead"}
Under == {"dirs", "temp", "data", "sync", "rename", "entry", "climb"}

TypeOK ==
    /\ windows \in BOOLEAN
    /\ dirs \subseteq Dirs
    /\ \A d \in dirs : Above[d] \subseteq dirs
    /\ file \in [Files -> Puts \cup {Nothing}]
    /\ \A f \in Files : file[f] # Nothing => Above[f] \subseteq dirs
    /\ temps \subseteq Puts /\ flushed \subseteq Puts /\ torn \subseteq Puts
    /\ maybeDir \in [Dirs -> (SUBSET BOOLEAN) \ {{}}]
    /\ maybeFile \in [Files -> SUBSET (Puts \cup {Nothing})]
    /\ \A f \in Files : file[f] \in maybeFile[f]
    /\ loose \subseteq Dirs \cup Puts
    /\ open \subseteq Files
    /\ pc \in [Puts -> {"idle"} \cup Under \cup Ended]
    /\ target \in [Puts -> Files \cup {Nothing}]
    /\ made \in [Puts -> SUBSET Dirs] /\ owed \in [Puts -> SUBSET Dirs]
    /\ \A p \in Puts : owed[p] \subseteq made[p]
    /\ waited \in [Puts -> 0 .. Patience]
    /\ acked \in [Files -> Puts \cup {Nothing}]

-----------------------------------------------------------------------------
(* The filesystem.                                                         *)

Parent(x) ==
    IF Above[x] = {}
    THEN Outside
    ELSE CHOOSE d \in Above[x] : \A e \in Above[x] : Cardinality(Above[e]) <= Cardinality(Above[d])

\* The entries of d read what they read now.
SyncedDirs(d) ==
    [e \in Dirs |-> IF Parent(e) = d THEN {(e \in dirs)} ELSE maybeDir[e]]
SyncedFiles(d) ==
    [f \in Files |-> IF Parent(f) = d THEN {file[f]} ELSE maybeFile[f]]

Synced(d) ==
    /\ maybeDir' = SyncedDirs(d)
    /\ maybeFile' = SyncedFiles(d)
    /\ loose' = loose \ {e \in Dirs : Parent(e) = d}

\* sync_dir of d, for the sake of X: it drops the error of a filesystem
\* that refuses.
BestEffort(d, X) ==
    IF Fsync /\ ~windows
    THEN \/ Synced(d)
         \/ loose' = loose \cup X /\ UNCHANGED <<maybeDir, maybeFile>>
    ELSE UNCHANGED <<maybeDir, maybeFile, loose>>

\* create_dir_all: the directories of D that were missing.
Mkdirs(D) ==
    /\ dirs' = dirs \cup D
    /\ maybeDir' = [d \in Dirs |-> IF d \in D \ dirs THEN maybeDir[d] \cup {TRUE} ELSE maybeDir[d]]

Entry(f, c) ==
    /\ file' = [file EXCEPT ![f] = c]
    /\ maybeFile' = [maybeFile EXCEPT ![f] = @ \cup {c}]
    /\ acked' = [acked EXCEPT ![f] = Nothing]

-----------------------------------------------------------------------------
(* with_page_size: a process opens the store.  Nothing syncs the entries   *)
(* of the directories it makes, now or later.                              *)

RootPath == Above[Root] \cup {Root}

Opens ==
    /\ \E D \in SUBSET (RootPath \ dirs) :
        /\ D # {}
        /\ \A d \in D : Above[d] \subseteq dirs \cup D
        /\ Mkdirs(D)
        /\ loose' = loose \cup D
    /\ UNCHANGED <<windows, file, temps, flushed, torn, maybeFile, open, pc, target,
                   made, owed, waited, acked, faults>>

-----------------------------------------------------------------------------
(* write_parts.                                                            *)

Goto(p, from, to) ==
    /\ pc[p] = from
    /\ pc' = [pc EXCEPT ![p] = to]

\* create_dirs_recording_new walks up to the first directory that exists.
Begin(p, f) ==
    /\ Root \in dirs
    /\ Goto(p, "idle", "dirs")
    /\ target' = [target EXCEPT ![p] = f]
    /\ made' = [made EXCEPT ![p] = Above[f] \ dirs]
    /\ owed' = [owed EXCEPT ![p] = made'[p]]
    /\ UNCHANGED <<windows, disk, open, waited, acked, faults>>

\* create_dir_all, unless all of them were there.
MakeDirs(p) ==
    /\ Goto(p, "dirs", "temp")
    /\ Mkdirs(IF made[p] = {} THEN {} ELSE Above[target[p]])
    /\ UNCHANGED <<windows, file, temps, flushed, torn, maybeFile, loose, open, target,
                   made, owed, waited, acked, faults>>

CreateTemp(p) ==
    /\ Goto(p, "temp", "data")
    /\ Above[target[p]] \subseteq dirs
    /\ temps' = temps \cup {p}
    /\ UNCHANGED <<windows, dirs, file, flushed, torn, maybeDir, maybeFile, loose,
                   open, target, made, owed, waited, acked, faults>>

\* write_all of the parts and of the padding, then flush.
WriteData(p) ==
    /\ Goto(p, "data", "sync")
    /\ UNCHANGED <<windows, disk, open, target, made, owed, waited, acked, faults>>

SyncData(p) ==
    /\ Goto(p, "sync", "rename")
    /\ flushed' = IF Fsync THEN flushed \cup {p} ELSE flushed
    /\ UNCHANGED <<windows, dirs, file, temps, torn, maybeDir, maybeFile, loose,
                   open, target, made, owed, waited, acked, faults>>

\* held_open_elsewhere
Refused(p) == windows /\ target[p] \in open

\* persist_retrying, the attempt that goes through.
Rename(p) ==
    /\ Goto(p, "rename", "entry")
    /\ ~Refused(p)
    /\ temps' = temps \ {p}
    /\ Entry(target[p], p)
    /\ UNCHANGED <<windows, dirs, flushed, torn, maybeDir, loose, open, target, made,
                   owed, waited, faults>>

\* Mutant: the refusals are not counted.
WaitForever(p) ==
    /\ pc[p] = "rename"
    /\ Refused(p)
    /\ waited' = [waited EXCEPT ![p] = 1 - @]
    /\ UNCHANGED <<windows, disk, open, pc, target, made, owed, acked, faults>>

\* ... and one that is refused, while there is patience left.
Wait(p) ==
    /\ pc[p] = "rename"
    /\ Refused(p)
    /\ waited[p] < Patience
    /\ waited' = [waited EXCEPT ![p] = @ + 1]
    /\ UNCHANGED <<windows, disk, open, pc, target, made, owed, acked, faults>>

SyncDir(p) ==
    /\ Goto(p, "entry", "climb")
    /\ BestEffort(Parent(target[p]), {p})
    /\ UNCHANGED <<windows, dirs, file, temps, flushed, torn, open, target, made,
                   owed, waited, acked, faults>>

\* The directories this call made, shallowest first.
Shallowest(p, d) == d \in owed[p] /\ \A e \in owed[p] \ {d} : d \in Above[e]

\* Mutant: the directory is synced, not the one that names it.
SyncMade(p) ==
    /\ pc[p] = "climb"
    /\ \E d \in Dirs :
        /\ Shallowest(p, d)
        /\ owed' = [owed EXCEPT ![p] = @ \ {d}]
        /\ BestEffort(d, {d, p})
    /\ UNCHANGED <<windows, dirs, file, temps, flushed, torn, open, pc, target,
                   made, waited, acked, faults>>

SyncParent(p) ==
    /\ pc[p] = "climb"
    /\ \E d \in Dirs :
        /\ Shallowest(p, d)
        /\ owed' = [owed EXCEPT ![p] = @ \ {d}]
        /\ BestEffort(Parent(d), {d, p})
    /\ UNCHANGED <<windows, dirs, file, temps, flushed, torn, open, pc, target,
                   made, waited, acked, faults>>

\* What the call relies on was carried out: its own syncs, and those of the
\* directories it found, which nobody owes or has been refused or, as for a
\* new root, never asks for.
Named(p) ==
    /\ p \notin loose
    /\ \A d \in Above[target[p]] \ made[p] :
            d \notin loose /\ \A q \in Puts \ {p} : d \notin owed[q]

\* Mutant: a synced file in a directory nothing names.
ReturnUnnamed(p) ==
    /\ Goto(p, "climb", "ok")
    /\ acked' = IF Fsync /\ Named(p) /\ file[target[p]] = p
                THEN [acked EXCEPT ![target[p]] = p] ELSE acked
    /\ UNCHANGED <<windows, disk, open, target, made, owed, waited, faults>>

\* The call returns Ok, whatever was refused.  Where nothing was that it
\* relies on, what it wrote is there to stay.
Return(p) ==
    /\ owed[p] = {}
    /\ Goto(p, "climb", "ok")
    /\ acked' = IF Fsync /\ Named(p) /\ file[target[p]] = p
                THEN [acked EXCEPT ![target[p]] = p] ELSE acked
    /\ UNCHANGED <<windows, disk, open, target, made, owed, waited, faults>>

\* An operation fails: the error goes to the caller, and the temporary file
\* goes with its handle.  The directories made stay.
MayFail(p) ==
    \/ pc[p] \in {"dirs", "temp", "data", "sync", "rename"} /\ faults < MaxFaults
    \/ pc[p] = "temp" /\ ~ Above[target[p]] \subseteq dirs
    \/ pc[p] = "rename" /\ Refused(p) /\ waited[p] = Patience

\* Mutant: a refused rename is returned with its temporary file.
FailKeepsTemp(p) ==
    /\ MayFail(p)
    /\ pc' = [pc EXCEPT ![p] = "err"]
    /\ faults' = IF faults < MaxFaults THEN faults + 1 ELSE faults
    /\ UNCHANGED <<windows, disk, open, target, made, owed, waited, acked>>

Fail(p) ==
    /\ MayFail(p)
    /\ pc' = [pc EXCEPT ![p] = "err"]
    /\ temps' = temps \ {p}
    /\ IF pc[p] = "dirs"
       THEN \E D \in SUBSET made[p] :
                /\ \A d \in D : Above[d] \subseteq dirs \cup D
                /\ Mkdirs(D)
       ELSE UNCHANGED <<dirs, maybeDir>>
    /\ faults' = IF faults < MaxFaults THEN faults + 1 ELSE faults
    /\ UNCHANGED <<windows, file, flushed, torn, maybeFile, loose, open, target, made,
                   owed, waited, acked>>

-----------------------------------------------------------------------------
(* The other calls of the backend.                                         *)

\* list: every file below, the partial ones left out.
Listed == {f \in Files : file[f] # Nothing}

\* get, after it read the path.
Content(f) == IF file[f] \in torn THEN Torn ELSE file[f]

\* delete syncs nothing.
Delete(f) ==
    /\ f \in Listed
    /\ f \notin open
    /\ Entry(f, Nothing)
    /\ UNCHANGED <<windows, dirs, temps, flushed, torn, maybeDir, loose, open, pc, target,
                   made, owed, waited, faults>>

Empty(d) ==
    /\ \A f \in Listed : d \notin Above[f]
    /\ \A p \in temps : d \notin Above[target[p]]

\* remove_dir, of an empty directory or not at all: a partial file left by
\* a killed process keeps it.  The callers only remove the directories of
\* snapshots, which hold no others.
RemoveDir(d) ==
    /\ d \in dirs \ RootPath
    /\ \A e \in Dirs : d \notin Above[e]
    /\ Empty(d)
    /\ dirs' = dirs \ {d}
    /\ maybeDir' = [maybeDir EXCEPT ![d] = @ \cup {FALSE}]
    /\ loose' = loose \ {d}
    /\ UNCHANGED <<windows, file, temps, flushed, torn, maybeFile, open, pc, target,
                   made, owed, waited, acked, faults>>

-----------------------------------------------------------------------------
(* The environment: other programs, and the end of a process.              *)

HoldOpen(f) ==
    /\ windows
    /\ f \in Listed \ open
    /\ open' = open \cup {f}
    /\ UNCHANGED <<windows, disk, pc, target, made, owed, waited, acked, faults>>

Close(f) ==
    /\ open' = open \ {f}
    /\ f \in open
    /\ UNCHANGED <<windows, disk, pc, target, made, owed, waited, acked, faults>>

Running == {p \in Puts : pc[p] \in Under}

Dead(P) == [p \in Puts |-> IF p \in P THEN "dead" ELSE pc[p]]

\* A process is killed, with the calls it makes.  What it told the
\* filesystem stays told; its temporary files stay too, and nothing ever
\* removes them.
Kill ==
    /\ faults < MaxFaults
    /\ faults' = faults + 1
    /\ \E P \in SUBSET Running : P # {} /\ pc' = Dead(P)
    /\ UNCHANGED <<windows, disk, open, target, made, owed, waited, acked>>

\* The machine loses power.  Not on Windows, where sync_dir does nothing:
\* the journal of NTFS is taken to order what it is for.
PowerCut ==
    /\ ~windows
    /\ faults < MaxFaults
    /\ faults' = faults + 1
    /\ pc' = Dead(Running)
    /\ \E D \in SUBSET Dirs :
        /\ \A d \in D : TRUE \in maybeDir[d] /\ Above[d] \subseteq D
        /\ \A d \in Dirs \ D : \E e \in Above[d] \cup {d} : e \notin D /\ FALSE \in maybeDir[e]
        /\ dirs' = D
    /\ maybeDir' = [d \in Dirs |-> {(d \in dirs')}]
    /\ \E c \in [Files -> Puts \cup {Nothing}] :
        /\ \A f \in Files : IF Above[f] \subseteq dirs'
                            THEN c[f] \in maybeFile[f] ELSE c[f] = Nothing
        /\ file' = c
    /\ maybeFile' = [f \in Files |-> {file'[f]}]
    /\ \E T \in SUBSET {p \in Puts \ flushed : pc[p] # "idle"} : torn' = torn \cup T
    /\ temps' = {p \in temps : Above[target[p]] \subseteq dirs'}
    /\ loose' = {}
    /\ owed' = [p \in Puts |-> {}]
    /\ made' = [p \in Puts |-> {}]
    /\ UNCHANGED <<windows, flushed, open, target, waited, acked>>

-----------------------------------------------------------------------------
\* A store that is new, or in a directory that has been there for long.
Init ==
    /\ windows \in BOOLEAN
    /\ dirs \in {D \in SUBSET RootPath : \A d \in D : Above[d] \subseteq D}
    /\ file = [f \in Files |-> Nothing]
    /\ temps = {} /\ flushed = {} /\ torn = {}
    /\ maybeDir = [d \in Dirs |-> {(d \in dirs)}]
    /\ maybeFile = [f \in Files |-> {Nothing}]
    /\ loose = {}
    /\ open = {}
    /\ pc = [p \in Puts |-> "idle"]
    /\ target = [p \in Puts |-> Nothing]
    /\ made = [p \in Puts |-> {}] /\ owed = made
    /\ waited = [p \in Puts |-> 0]
    /\ acked = file
    /\ faults = 0

Step(p) ==
    \/ MakeDirs(p) \/ CreateTemp(p) \/ WriteData(p) \/ SyncData(p)
    \/ Rename(p) \/ Wait(p) \/ SyncDir(p) \/ SyncParent(p) \/ Return(p) \/ Fail(p)

Next ==
    \/ \E p \in Puts : Step(p) \/ \E f \in Files : Begin(p, f)
    \/ \E f \in Files : Delete(f) \/ HoldOpen(f) \/ Close(f)
    \/ \E d \in Dirs : RemoveDir(d)
    \/ Opens
    \/ Kill
    \/ PowerCut

\* The calls of the filesystem return.  Nobody has to close what they hold.
Spec == Init /\ [][Next]_vars /\ \A p \in Puts : WF_vars(Step(p))

-----------------------------------------------------------------------------
(* Properties.                                                             *)

\* Readers see a path change in one step and whole, whatever the writers,
\* the failures and the crashes, and what a put that returned Ok wrote is
\* there after a power cut unless a sync it relies on was refused or, as for
\* the directory of a new store, left out: the temporary file, the rename and
\* the three syncs of write_parts implement FileService.
Service == INSTANCE FileService
    WITH content <- [f \in Files |-> Content(f)], kept <- acked
ImplementsFileService == Service!Spec

\* The same without the condition: what a put that returned Ok wrote is there
\* after a power cut.  It does not hold (sync_dir, with_page_size, and Named).
OkIsDurable ==
    [][PowerCut => \A f \in Files :
            file[f] \in Puts /\ pc[file[f]] = "ok" => file'[f] = file[f]]_vars

\* An error leaves no partial file: one is there for a call under way, or
\* for one that was killed (Drop of NamedTempFile never ran).
PartialFilesHaveAnOwner ==
    \A p \in temps : pc[p] \in {"data", "sync", "rename", "dead"}

\* Every put returns, whoever holds its target open: persist_retrying gives
\* up, and the climb over the new directories ends.
PutsEnd == \A p \in Puts : pc[p] \in Under ~> pc[p] \in Ended
=============================================================================
