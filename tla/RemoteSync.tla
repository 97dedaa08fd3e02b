----------------------------- MODULE RemoteSync -----------------------------
(***************************************************************************)
(* The bucket behind a store (src/src/remote_sync.rs): the syncer thread   *)
(* that copies files to it and deletes what was deleted here, beside the   *)
(* save pipeline and the merger that go on writing, publishing and         *)
(* unlinking, until the machine is lost; and restore_from_remote on the    *)
(* machine that replaces it.                                               *)
(*                                                                         *)
(* A request to the bucket is one action and may fail, with or without     *)
(* having had its effect.  The local disk does not fail here, and what     *)
(* retention and the merger choose to drop is any choice that keeps the    *)
(* bases of what stays: how they choose is CheckpointStore's.              *)
(***************************************************************************)
EXTENDS Integers, FiniteSets, Sequences

CONSTANTS
    SyncEvery,  \* RemoteSyncConfig.sync_every_n_saves
    Transfers,  \* TRANSFERS: files copied at once
    MaxSnaps,   \* bound: snapshots written
    MaxSyncs,   \* bound: calls of sync_now
    MaxPins,    \* bound: times pins.json is written
    MaxFaults,  \* bound: requests that fail
    MaxLosses   \* bound: machines lost

ASSUME SyncAssumption ==
    /\ SyncEvery \in Nat
    /\ Transfers \in Nat \ {0}
    /\ {MaxSnaps, MaxSyncs, MaxPins, MaxFaults, MaxLosses} \subseteq Nat

Snaps == 1 .. MaxSnaps
None == 0

\* The files that are copied: a snapshot stands for its own, which are
\* written together and never rewritten, and None for pins.json.
Pins == None
Files == Snaps \cup {Pins}

Writers == {"saver", "merger"}

VARIABLES
    local,        \* disk: the snapshots whose files are there
    index,        \* disk: what manifest.json names, {} without one
    pins,         \* disk: which version of pins.json, 0 without one
    named,        \* memory: what the manifest names
    desc,         \* the step and the base of every identifier taken so far
    nextId,       \* the next fresh identifier
    merging,      \* is a merger configured?
    writer,       \* the save pipeline and the merger
    deletes,      \* PendingDeletes.keys
    saves,        \* RemoteSyncer.save_counter, modulo SyncEvery
    queue,        \* the syncer's commands
    syncer,       \* the syncer thread
    caller,       \* of sync_now
    remote,       \* bucket: the snapshots whose files are there
    remoteIndex,  \* bucket: what manifest.json names
    remotePins,   \* bucket: which version of pins.json
    stage,        \* "up", or how far the restore of a new machine is
    durable,      \* history: what a sync_now that said Ok covered, still listed
    removed,      \* history: files taken off the bucket
    budget        \* what is left of each bound on the environment

disk   == <<local, index, pins>>
names  == <<desc, nextId>>
bucket == <<remote, remoteIndex, remotePins>>
feed   == <<deletes, saves, queue>>
past   == <<durable, removed>>
vars   == <<disk, named, names, merging, writer, feed, syncer, caller, bucket, stage, past, budget>>

IdleWriter == [pc |-> "idle", id |-> None, gone |-> {}, left |-> {}]
IdleSyncer == [pc |-> "idle", cmd |-> "none", todo |-> {}, hand |-> {}, keys |-> {},
               index |-> {}, pins |-> 0, failed |-> FALSE]
NoCaller   == [pc |-> "out", asked |-> {}]

Spend(what) == /\ budget[what] > 0
               /\ budget' = [budget EXCEPT ![what] = @ - 1]

BaseOf(i) == IF desc.base[i] = None THEN {} ELSE {desc.base[i]}

\* No two snapshots of a manifest have the same step here, and it lists them
\* in the order of their steps.
Newest(S) == IF S = {} THEN None
             ELSE CHOOSE i \in S : \A j \in S : desc.step[j] <= desc.step[i]

\* Mutant: a delta is diffed against whatever came last.
LastOfAny == Newest(named)

LastFull == Newest({i \in named : BaseOf(i) = {}})

-----------------------------------------------------------------------------
(* The threads that write the store, file by file.                         *)

Fresh(step, base) ==
    /\ nextId \in Snaps
    /\ desc' = [desc EXCEPT !.step[nextId] = step, !.base[nextId] = base]
    /\ nextId' = nextId + 1

WritesPack(w, gone) ==
    /\ local' = local \cup {nextId}
    /\ writer' = [writer EXCEPT ![w] = [IdleWriter EXCEPT !.pc = "pack", !.id = nextId,
                                                           !.gone = gone]]
    /\ UNCHANGED <<index, pins, named, merging, feed, syncer, caller, bucket, stage, past, budget>>

\* A full, or a delta against the last full unless a merge has claimed it.
SaveWrites ==
    /\ stage = "up" /\ writer["saver"].pc = "idle"
    /\ \E base \in {None} \cup ({LastFull} \ writer["merger"].gone) :
        /\ {base} \ {None} \subseteq local
        /\ Fresh(nextId * 2, base)
    /\ WritesPack("saver", {})

\* The base of a save, until the save is recorded.
SaverPins == IF writer["saver"].pc = "pack"
             THEN BaseOf(writer["saver"].id) ELSE {}

\* A full and its deltas, if nobody is reading it, become one new full at
\* the step of the last delta.
MergeWrites ==
    LET full   == LastFull
        deltas == {i \in named : full \in BaseOf(i)}
    IN  /\ stage = "up" /\ merging /\ writer["merger"].pc = "idle"
        /\ full # None /\ deltas # {}
        /\ full \notin SaverPins
        /\ {full} \cup deltas \subseteq local
        /\ Fresh(desc.step[Newest(deltas)], None)
        /\ WritesPack("merger", {full} \cup deltas)

\* The manifest is pushed to, cut and persisted.
Publishes(w, gone) ==
    /\ writer[w].pc = "pack"
    /\ named' = (named \ gone) \cup {writer[w].id}
    /\ index' = named'
    /\ writer' = [writer EXCEPT ![w].pc = "unlink", ![w].gone = gone,
                                ![w].left = gone]
    /\ durable' = durable \ gone
    /\ UNCHANGED <<local, pins, names, merging, feed, syncer, caller, bucket, stage, removed, budget>>

\* Retention may drop whatever nothing that stays depends on.
SavePublishes ==
    /\ writer["saver"].pc = "pack"
    /\ \E gone \in SUBSET named :
        /\ \A i \in (named \ gone) \cup {writer["saver"].id} : BaseOf(i) \cap gone = {}
        /\ Publishes("saver", gone)

MergePublishes == Publishes("merger", writer["merger"].gone)

NextFile(w) == CHOOSE i \in writer[w].left : \A j \in writer[w].left : i <= j

\* The files of a dropped snapshot, and then their keys for the syncer.
Unlinks(w) ==
    /\ writer[w].pc = "unlink" /\ writer[w].left # {}
    /\ local' = local \ {NextFile(w)}
    /\ writer' = [writer EXCEPT ![w].pc = "push"]
    /\ UNCHANGED <<index, pins, named, names, merging, feed, syncer, caller, bucket, stage, past, budget>>

\* Mutant: a deletion stops at the local disk.
PushesNothing(w) ==
    /\ writer[w].pc = "push"
    /\ writer' = [writer EXCEPT ![w].pc = "unlink", ![w].left = @ \ {NextFile(w)}]
    /\ UNCHANGED <<disk, named, names, merging, feed, syncer, caller, bucket, stage, past, budget>>

Pushes(w) ==
    /\ writer[w].pc = "push"
    /\ deletes' = deletes \cup {NextFile(w)}
    /\ writer' = [writer EXCEPT ![w].pc = "unlink", ![w].left = @ \ {NextFile(w)}]
    /\ UNCHANGED <<disk, named, names, saves, queue, merging, syncer, caller, bucket, stage, past, budget>>

\* A reader outlasts the wait: the files are left where they are.
UnlinkTimesOut(w) ==
    /\ writer[w].pc = "unlink" /\ writer[w].left = writer[w].gone
    /\ writer[w].left # {}
    /\ writer' = [writer EXCEPT ![w].left = {}]
    /\ UNCHANGED <<disk, named, names, merging, feed, syncer, caller, bucket, stage, past, budget>>

\* notify_save: every SyncEvery saves two commands, in this order.
NotifySave ==
    IF SyncEvery = 0
    THEN UNCHANGED <<saves, queue>>
    ELSE /\ saves' = (saves + 1) % SyncEvery
         /\ queue' = IF saves' = 0 THEN queue \o <<"snapshots", "manifest">> ELSE queue

WriterEnds(w) ==
    /\ writer[w].pc = "unlink" /\ writer[w].left = {}
    /\ writer' = [writer EXCEPT ![w] = IdleWriter]
    /\ IF w = "saver" THEN NotifySave ELSE UNCHANGED <<saves, queue>>
    /\ UNCHANGED <<disk, named, names, merging, deletes, syncer, caller, bucket, stage, past, budget>>

\* pin and unpin rewrite pins.json.
WritesPins ==
    /\ stage = "up" /\ Spend("pin")
    /\ pins' = MaxPins - budget["pin"] + 1
    /\ UNCHANGED <<local, index, named, names, merging, writer, feed, syncer, caller, bucket, stage, past>>

-----------------------------------------------------------------------------
(* sync_now: the caller waits for the saver, sends and waits for the reply. *)

CallSyncNow ==
    /\ stage = "up" /\ caller.pc = "out" /\ writer["saver"].pc = "idle"
    /\ Spend("sync")
    /\ caller' = [pc |-> "waiting", asked |-> index]
    /\ queue' = Append(queue, "all")
    /\ UNCHANGED <<disk, named, names, merging, writer, deletes, saves, syncer, bucket, stage, past>>

SyncNowReturns ==
    /\ caller.pc \in {"ok", "failed"}
    /\ caller' = NoCaller
    /\ UNCHANGED <<disk, named, names, merging, writer, feed, syncer, bucket, stage, past, budget>>

-----------------------------------------------------------------------------
(* The syncer thread.                                                      *)

Takes ==
    /\ syncer.pc = "idle" /\ queue # <<>>
    /\ syncer' = [IdleSyncer EXCEPT !.cmd = Head(queue),
                                    !.pc = IF Head(queue) = "manifest" THEN "manifest" ELSE "list"]
    /\ queue' = Tail(queue)
    /\ UNCHANGED <<disk, named, names, merging, writer, deletes, saves, caller, bucket, stage, past, budget>>

\* The store has a file of the caller's beside the snapshots: pins.json.
Listed == local \cup (IF syncer.cmd = "all" /\ pins > 0 THEN {Pins} ELSE {})
Present == remote \cup (IF remotePins > 0 THEN {Pins} ELSE {})

\* What the bucket has is skipped by its name.
Lists ==
    /\ syncer.pc = "list"
    /\ syncer' = [syncer EXCEPT !.pc = "copy", !.todo = Listed \ Present]
    /\ UNCHANGED <<disk, named, names, merging, writer, feed, caller, bucket, stage, past, budget>>

\* The listing of the bucket fails, and so may every question after it: a
\* file is copied again.
ListsBlind ==
    /\ syncer.pc = "list" /\ Spend("fault")
    /\ \E again \in SUBSET (Listed \cap Present) :
        syncer' = [syncer EXCEPT !.pc = "copy", !.todo = (Listed \ Present) \cup again]
    /\ UNCHANGED <<disk, named, names, merging, writer, feed, caller, bucket, stage, past>>

\* Mutant: a file that is gone is waited for.
ReadsAgain ==
    /\ syncer.pc = "copy" /\ Cardinality(syncer.hand) < Transfers
    /\ \E f \in syncer.todo :
        syncer' = [syncer EXCEPT !.todo = @ \ ({f} \cap Listed),
                                 !.hand = @ \cup ({f} \cap Listed),
                                 !.pins = IF f = Pins THEN pins ELSE @]
    /\ UNCHANGED <<disk, named, names, merging, writer, feed, caller, bucket, stage, past, budget>>

\* A transfer reads its file whole.  A file that is gone by now is passed over.
Reads ==
    /\ syncer.pc = "copy" /\ Cardinality(syncer.hand) < Transfers
    /\ \E f \in syncer.todo :
        syncer' = [syncer EXCEPT !.todo = @ \ {f},
                                 !.hand = IF f \in Listed THEN @ \cup {f} ELSE @,
                                 !.pins = IF f = Pins THEN pins ELSE @]
    /\ UNCHANGED <<disk, named, names, merging, writer, feed, caller, bucket, stage, past, budget>>

Lands(f) ==
    /\ remote' = remote \cup ({f} \ {Pins})
    /\ remotePins' = IF f = Pins THEN syncer.pins ELSE remotePins
    /\ UNCHANGED remoteIndex

Puts ==
    /\ \E f \in syncer.hand :
        /\ Lands(f)
        /\ syncer' = [syncer EXCEPT !.hand = @ \ {f}]
    /\ UNCHANGED <<disk, named, names, merging, writer, feed, caller, stage, past, budget>>

\* The first error stops the files not yet started.
PutFails ==
    /\ Spend("fault")
    /\ \E f \in syncer.hand :
        /\ Lands(f) \/ UNCHANGED bucket
        /\ syncer' = [syncer EXCEPT !.hand = @ \ {f}, !.todo = {}, !.failed = TRUE]
    /\ UNCHANGED <<disk, named, names, merging, writer, feed, caller, stage, past>>

AfterCopy == IF syncer.cmd = "all" /\ ~syncer.failed THEN "manifest" ELSE "delete"

\* Mutant: the walk ends with transfers still writing.
CopiedTooSoon ==
    /\ syncer.pc = "copy" /\ syncer.todo = {}
    /\ syncer' = [syncer EXCEPT !.pc = AfterCopy]
    /\ UNCHANGED <<disk, named, names, merging, writer, feed, caller, bucket, stage, past, budget>>

Copied ==
    /\ syncer.pc = "copy" /\ syncer.todo = {} /\ syncer.hand = {}
    /\ syncer' = [syncer EXCEPT !.pc = AfterCopy]
    /\ UNCHANGED <<disk, named, names, merging, writer, feed, caller, bucket, stage, past, budget>>

\* manifest.json is copied whatever the bucket has, as it is by then.
ReadsIndex ==
    /\ syncer.pc = "manifest"
    /\ syncer' = [syncer EXCEPT !.pc = IF index = {} THEN "delete" ELSE "index",
                                !.index = index]
    /\ UNCHANGED <<disk, named, names, merging, writer, feed, caller, bucket, stage, past, budget>>

PutsIndex ==
    /\ syncer.pc = "index"
    /\ remoteIndex' = syncer.index
    /\ syncer' = [syncer EXCEPT !.pc = "delete"]
    /\ UNCHANGED <<disk, named, names, merging, writer, feed, caller, remote, remotePins, stage, past, budget>>

PutIndexFails ==
    /\ syncer.pc = "index" /\ Spend("fault")
    /\ remoteIndex' \in {remoteIndex, syncer.index}
    /\ syncer' = [syncer EXCEPT !.pc = "delete", !.failed = TRUE]
    /\ UNCHANGED <<disk, named, names, merging, writer, feed, caller, remote, remotePins, stage, past>>

\* apply_deletes, after every walk, whatever came of it.
Drains ==
    /\ syncer.pc = "delete"
    /\ syncer' = [syncer EXCEPT !.pc = "deleting", !.keys = deletes]
    /\ deletes' = {}
    /\ UNCHANGED <<disk, named, names, merging, writer, saves, queue, caller, bucket, stage, past, budget>>

Deletes ==
    /\ \E f \in syncer.keys :
        /\ remote' = remote \ {f}
        /\ removed' = removed \cup {f}
        /\ syncer' = [syncer EXCEPT !.keys = @ \ {f}]
    /\ UNCHANGED <<disk, named, names, merging, writer, feed, caller, remoteIndex, remotePins, stage,
                   durable, budget>>

\* A delete that fails is not tried again.
DeleteFails ==
    /\ Spend("fault")
    /\ \E f \in syncer.keys : syncer' = [syncer EXCEPT !.keys = @ \ {f}]
    /\ UNCHANGED <<disk, named, names, merging, writer, feed, caller, bucket, stage, past>>

\* Mutant: the outcome of a forced sync is swallowed.
RepliesOk ==
    /\ syncer.pc = "deleting" /\ syncer.keys = {}
    /\ syncer' = IdleSyncer
    /\ IF syncer.cmd = "all"
       THEN /\ caller' = [caller EXCEPT !.pc = "ok"]
            /\ durable' = durable \cup (caller.asked \cap index)
       ELSE UNCHANGED <<caller, durable>>
    /\ UNCHANGED <<disk, named, names, merging, writer, feed, bucket, stage, removed, budget>>

Replies ==
    /\ syncer.pc = "deleting" /\ syncer.keys = {}
    /\ syncer' = IdleSyncer
    /\ IF syncer.cmd = "all"
       THEN /\ caller' = [caller EXCEPT !.pc = IF syncer.failed THEN "failed" ELSE "ok"]
            /\ durable' = IF syncer.failed THEN durable
                          ELSE durable \cup (caller.asked \cap index)
       ELSE UNCHANGED <<caller, durable>>
    /\ UNCHANGED <<disk, named, names, merging, writer, feed, bucket, stage, removed, budget>>

\* A panic is caught; whoever waits hears of it.
Panics ==
    /\ syncer.pc # "idle" /\ Spend("fault")
    /\ syncer' = IdleSyncer
    /\ caller' = IF syncer.cmd = "all" THEN [caller EXCEPT !.pc = "failed"] ELSE caller
    /\ UNCHANGED <<disk, named, names, merging, writer, feed, bucket, stage, past>>

-----------------------------------------------------------------------------
(* The machine is lost with all it holds, and another takes its place.     *)
(* Training goes on there only after a restore that did not fail.          *)

Loses ==
    /\ Spend("loss")
    /\ local' = {} /\ index' = {} /\ pins' = 0 /\ named' = {}
    /\ writer' = [w \in Writers |-> IdleWriter]
    /\ deletes' = {} /\ saves' = 0 /\ queue' = <<>>
    /\ syncer' = IdleSyncer /\ caller' = NoCaller
    /\ stage' = "new" /\ merging' \in BOOLEAN
    /\ UNCHANGED <<names, bucket, past>>

\* Mutant: a delta is taken for whole without its base.
ReachableAlone(S, have) == S \cap have

\* What is whole, here or in the bucket, and has a base that is.
Reachable(S, have) ==
    {i \in S \cap have : BaseOf(i) \subseteq S \cap have}

\* The manifest first, filtered by one listing of the bucket.  Without one
\* there is nothing to restore.
RestoresIndex ==
    /\ stage = "new"
    /\ index' = Reachable(remoteIndex, local \cup remote)
    /\ stage' = IF remoteIndex = {} THEN "up" ELSE "filtered"
    /\ UNCHANGED <<local, pins, named, names, merging, writer, feed, syncer, caller, bucket,
                   past, budget>>

\* Mutant: the newest snapshot comes down without its base.
WantedAlone == IF merging THEN remote ELSE {Newest(index)} \cap remote

\* A store with a merger needs everything, another what a resume loads.
Wanted ==
    IF merging THEN remote
    ELSE LET newest == {Newest(index)} \ {None}
         IN  (newest \cup UNION {BaseOf(i) : i \in newest}) \cap remote

RestoresFiles ==
    /\ stage = "filtered"
    /\ local' = local \cup Wanted
    /\ pins' = remotePins
    /\ named' = index
    /\ stage' = "up"
    /\ UNCHANGED <<index, names, merging, writer, feed, syncer, caller, bucket, past, budget>>

\* A request of the restore fails: the manifest may be down, unfiltered, or
\* some of the files.  The restore is an error, and is called again.
RestoreFails ==
    /\ stage \in {"new", "filtered"} /\ Spend("fault")
    /\ IF stage = "new"
       THEN index' \in {index, remoteIndex} /\ UNCHANGED local
       ELSE \E some \in SUBSET Wanted : local' = local \cup some /\ UNCHANGED index
    /\ stage' = "new"
    /\ UNCHANGED <<pins, named, names, merging, writer, feed, syncer, caller, bucket, past>>

-----------------------------------------------------------------------------
Init ==
    /\ local = {} /\ index = {} /\ pins = 0 /\ named = {}
    /\ desc = [step |-> [i \in Snaps |-> 0], base |-> [i \in Snaps |-> None]]
    /\ nextId = 1
    /\ merging \in BOOLEAN
    /\ writer = [w \in Writers |-> IdleWriter]
    /\ deletes = {} /\ saves = 0 /\ queue = <<>>
    /\ syncer = IdleSyncer /\ caller = NoCaller
    /\ remote = {} /\ remoteIndex = {} /\ remotePins = 0
    /\ stage = "up" /\ durable = {} /\ removed = {}
    /\ budget = [sync |-> MaxSyncs, pin |-> MaxPins, fault |-> MaxFaults, loss |-> MaxLosses]

WriterStep(w) == Unlinks(w) \/ Pushes(w) \/ WriterEnds(w)

StoreStep ==
    \/ SaveWrites \/ MergeWrites \/ SavePublishes \/ MergePublishes
    \/ \E w \in Writers : WriterStep(w) \/ UnlinkTimesOut(w)
    \/ WritesPins

SyncerStep ==
    \/ Takes \/ Lists \/ Reads \/ Puts \/ Copied
    \/ ReadsIndex \/ PutsIndex
    \/ Drains \/ Deletes \/ Replies

SyncerFault ==
    ListsBlind \/ PutFails \/ PutIndexFails \/ DeleteFails \/ Panics

RestoreStep == RestoresIndex \/ RestoresFiles

Next ==
    \/ StoreStep
    \/ CallSyncNow \/ SyncNowReturns
    \/ SyncerStep \/ SyncerFault
    \/ Loses \/ RestoreStep \/ RestoreFails

Spec == Init /\ [][Next]_vars

\* The syncer thread runs.  Nothing has to be saved, and no request to fail.
FairSpec == Spec /\ WF_vars(SyncerStep)

-----------------------------------------------------------------------------
(* Properties.                                                             *)

\* Every variable holds a value of its kind.
TypeOK ==
    /\ local \subseteq Snaps /\ index \subseteq Snaps /\ pins \in 0 .. MaxPins
    /\ named \subseteq Snaps /\ merging \in BOOLEAN
    /\ desc \in [step : [Snaps -> Nat], base : [Snaps -> Snaps \cup {None}]]
    /\ nextId \in 1 .. MaxSnaps + 1
    /\ writer \in [Writers -> [pc : {"idle", "pack", "unlink", "push"},
                               id : Snaps \cup {None},
                               gone : SUBSET Snaps,
                               left : SUBSET Snaps]]
    /\ deletes \subseteq Files
    /\ saves \in Nat
    /\ queue \in Seq({"snapshots", "manifest", "all"})
    /\ syncer \in [pc : {"idle", "list", "copy", "manifest", "index", "delete", "deleting"},
                   cmd : {"none", "snapshots", "manifest", "all"},
                   todo : SUBSET Files, hand : SUBSET Files, keys : SUBSET Files,
                   index : SUBSET Snaps, pins : 0 .. MaxPins, failed : BOOLEAN]
    /\ caller \in [pc : {"out", "waiting", "ok", "failed"}, asked : SUBSET Snaps]
    /\ remote \subseteq Snaps /\ remoteIndex \subseteq Snaps
    /\ remotePins \in 0 .. MaxPins
    /\ stage \in {"up", "new", "filtered"}
    /\ durable \subseteq Snaps /\ removed \subseteq Files
    /\ budget \in [{"sync", "pin", "fault", "loss"} -> Nat]

\* What a restore would bring back now.
Restorable ==
    Reachable(remoteIndex, remote)

\* sync_now that returned Ok means that what it covered can be restored, from
\* then on and on whatever machine, until this store drops it itself: through
\* later syncs that fail or are cut short, merges, retention and restores.
SyncedIsDurable == durable \subseteq Restorable

\* What a machine lists it can load, from its disk or from the bucket.
ListedIsReachable ==
    stage = "up" =>
        \A i \in named : i \in local \cup remote /\ BaseOf(i) \subseteq named

\* The base the next save diffs against is on this disk, whatever a restore
\* left in the bucket.
BaseIsLocal ==
    (stage = "up" /\ LastFull # None) => LastFull \in local

\* What was taken off the bucket is not uploaded again.
DeletedStaysDeleted == [][(remote' \ remote) \cap removed = {}]_vars

\* With no fault and no loss, the bucket holds nothing the disk does not once
\* everything is written, pushed and drained: its bill is bounded like the
\* disk.
Quiet ==
    /\ stage = "up" /\ queue = <<>> /\ syncer.pc = "idle" /\ deletes = {}
    /\ \A w \in Writers : writer[w].pc = "idle"
    /\ budget["fault"] = MaxFaults /\ budget["loss"] = MaxLosses

BucketIsBounded == Quiet => remote \subseteq local

\* sync_now returns, whatever fails.
SyncNowEnds == (caller.pc = "waiting") ~> (caller.pc # "waiting")

\* Once a sync_now has said Ok there is always something to restore: a sync
\* cut short leaves the bucket behind, never broken.
BackupSurvives == [][Restorable # {} => Restorable' # {}]_vars
=============================================================================
