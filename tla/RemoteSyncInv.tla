--------------------------- MODULE RemoteSyncInv ---------------------------
(***************************************************************************)
(* Why what a sync_now covered can be restored, why the next save has its  *)
(* base, and why nothing comes back to the bucket: the inductive invariant *)
(* behind the safety properties of RemoteSync.                             *)
(***************************************************************************)
EXTENDS RemoteSync

Taken == 1 .. nextId - 1
IsFull(i) == BaseOf(i) = {}

\* A base is an older full of an earlier step, and steps grow with the
\* identifiers a save takes.
DescInv ==
    \A i \in Taken :
        /\ desc.step[i] <= 2 * i
        /\ \A b \in BaseOf(i) : b < i /\ IsFull(b) /\ desc.step[b] < desc.step[i]

\* What a manifest may name, on the disk, in the bucket or on its way there:
\* whole chains, one snapshot to a step, and no full between a delta and its
\* base.
IsManifest(S) ==
    /\ S \subseteq Taken
    /\ \A i \in S : BaseOf(i) \subseteq S
    /\ \A i, j \in S : desc.step[i] = desc.step[j] => i = j
    /\ \A i, j \in S : IsFull(j) /\ desc.step[j] <= desc.step[i] =>
                          \A b \in BaseOf(i) : desc.step[j] <= desc.step[b]

\* While training runs, the disk and the memory name the same, all of it
\* within reach and the base of the next save here.
UpInv ==
    stage = "up" =>
        /\ index = named
        /\ IsManifest(named)
        /\ named \subseteq local \cup remote
        /\ LastFull # None => LastFull \in local
        /\ durable \subseteq named

\* During a restore nobody else is there.
DownInv ==
    stage # "up" =>
        /\ \A w \in Writers : writer[w] = IdleWriter
        /\ syncer = IdleSyncer /\ caller = NoCaller
        /\ queue = <<>> /\ deletes = {} /\ named = {}
        /\ local \subseteq remote
        /\ stage = "filtered" => index = Restorable

\* A snapshot being written is new to everybody, one being dropped is unknown
\* to everybody.
WriterInv ==
    /\ \A w \in Writers :
        /\ writer[w].gone \subseteq Taken
        /\ writer[w].pc = "idle" => writer[w] = IdleWriter
        /\ writer[w].pc = "pack" =>
            /\ writer[w].id \in Taken \cap local
            /\ writer[w].id \notin named \cup caller.asked
            /\ \A v \in Writers : writer[w].id \notin writer[v].gone
            /\ writer[w].left = {}
        /\ writer[w].pc \in {"unlink", "push"} =>
            /\ writer[w].left \subseteq writer[w].gone
            /\ writer[w].gone \cap named = {}
        /\ writer[w].pc = "push" =>
            /\ writer[w].left # {}
            /\ NextFile(w) \notin local
    /\ writer["saver"].pc = "pack" /\ writer["merger"].pc = "pack" =>
            writer["saver"].id # writer["merger"].id

\* A save is newer than everything named, and its base is still the last full.
SaverInv ==
    writer["saver"].pc = "pack" =>
        LET x == writer["saver"].id
        IN  /\ writer["saver"].gone = {}
            /\ \A j \in named : desc.step[j] < desc.step[x]
            /\ \A b \in BaseOf(x) : b = LastFull /\ b \notin writer["merger"].gone

\* A merge takes whole chains, and comes after the last full or stands in for
\* it.
MergerInv ==
    writer["merger"].pc = "pack" =>
        LET m    == writer["merger"].id
            gone == writer["merger"].gone
        IN  /\ IsFull(m)
            /\ \A g \in gone : desc.step[g] <= desc.step[m]
            /\ LastFull \notin gone => LastFull # None /\ desc.step[m] < desc.step[LastFull]
            /\ \A i \in named \ gone :
                /\ desc.step[i] # desc.step[m]
                /\ BaseOf(i) \cap gone = {}
                /\ desc.step[m] <= desc.step[i] =>
                        \A b \in BaseOf(i) : desc.step[m] <= desc.step[b]
            /\ writer["saver"].pc = "pack" => desc.step[m] < desc.step[writer["saver"].id]

\* A file that has to leave the bucket is off the disk for good.
DeadInv ==
    /\ deletes \cup syncer.keys \cup removed \subseteq Taken
    /\ (deletes \cup syncer.keys \cup removed) \cap local = {}
    /\ (deletes \cup syncer.keys) \cap named = {}
    /\ removed \cap (remote \cup syncer.todo \cup syncer.hand) = {}

\* One thing at a time.
SyncerInv ==
    /\ syncer.pc = "idle" => syncer = IdleSyncer
    /\ syncer.pc # "copy" => syncer.todo = {} /\ syncer.hand = {}
    /\ syncer.pc # "deleting" => syncer.keys = {}
    /\ syncer.pc = "index" => IsManifest(syncer.index) /\ durable \subseteq syncer.index

\* One sync_now at a time.
CallerInv ==
    /\ syncer.cmd = "all" => caller.pc = "waiting"
    /\ \A p \in 1 .. Len(queue) : queue[p] = "all" =>
        /\ caller.pc = "waiting"
        /\ syncer.cmd # "all"
        /\ \A q \in 1 .. Len(queue) : queue[q] = "all" => p = q

Asked == caller.asked \cap named

\* How far a sync_now has come with what it was asked for.
AskedInv ==
    /\ caller.asked \subseteq Taken
    /\ \A i \in caller.asked : BaseOf(i) \subseteq caller.asked
    /\ syncer.cmd = "all" /\ ~syncer.failed =>
        /\ syncer.pc = "copy" => Asked \subseteq remote \cup syncer.todo \cup syncer.hand
        /\ syncer.pc \in {"manifest", "index", "delete", "deleting"} => Asked \subseteq remote
        /\ syncer.pc = "index" => Asked \subseteq syncer.index
        /\ syncer.pc \in {"delete", "deleting"} => Asked \subseteq remoteIndex

\* The bucket has one manifest, as it was published.
BucketInv == IsManifest(remoteIndex) /\ durable \subseteq Restorable

\* Deleted here and not yet in the bucket.
Leaving == deletes \cup syncer.keys
             \cup {NextFile(w) : w \in {v \in Writers : writer[v].pc = "push"}}

\* Before anything goes wrong the bucket has nothing else.
BillInv ==
    budget["fault"] = MaxFaults /\ budget["loss"] = MaxLosses =>
        /\ stage = "up"
        /\ remote \cup (syncer.hand \ {Pins}) \subseteq local \cup Leaving

\* What can still happen was never more than the bounds.
BudgetInv ==
    budget["pin"] <= MaxPins /\ budget["fault"] <= MaxFaults /\ budget["loss"] <= MaxLosses

\* The inductive invariant.
SyncInv ==
    /\ TypeOK /\ BudgetInv
    /\ DescInv /\ UpInv /\ DownInv
    /\ WriterInv /\ SaverInv /\ MergerInv
    /\ DeadInv /\ SyncerInv /\ CallerInv /\ AskedInv
    /\ BucketInv /\ BillInv
=============================================================================
