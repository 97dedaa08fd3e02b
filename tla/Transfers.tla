----------------------------- MODULE Transfers ------------------------------
(***************************************************************************)
(* One walk of the remote sync (copy_absent and copy_files of              *)
(* src/src/remote_sync.rs) over the S3 client: list both sides, then copy  *)
(* what the destination lacks, several files at once under a budget of     *)
(* bytes, in either direction.  While it walks, retention and the merger   *)
(* delete files it has listed.                                             *)
(*                                                                         *)
(* The files of a listing come in the order a directory or a bucket gives  *)
(* them: a transfer takes any of those not taken.                          *)
(***************************************************************************)
EXTENDS S3Client, FiniteSetsExt, Functions

CONSTANTS
    Walk,     \* the thread of the walk; the other callers are its transfers
    Unsized,  \* files whose size the listing does not give
    Limit     \* IN_FLIGHT_BYTES

ASSUME TransfersAssumption ==
    /\ IsFiniteSet(Callers)
    /\ Walk \in Callers /\ Callers # {Walk}
    /\ Unsized \subseteq Keys
    /\ Limit \in Nat \ {0}

Workers == Callers \ {Walk}

VARIABLES
    push,      \* from the local store to the bucket, or back
    local,     \* the files of the local store
    walk,      \* where the walk is
    listed,    \* the files at the source when it was listed
    missing,   \* those to copy that no transfer has taken
    worker,    \* where each transfer is, and its file
    used,      \* Budget.used
    asleep,    \* transfers that wait for Budget.freed
    failed,    \* is there a failure?
    vanished,  \* files gone by the time they were read
    panicked   \* did a transfer panic?

progress == <<listed, missing, worker, used, asleep, failed, vanished, panicked>>
vars == <<s3vars, push, local, walk, progress>>

Idle == [at |-> "look", file |-> 0]

\* The files at the destination.
There == IF push THEN stored ELSE local

-----------------------------------------------------------------------------
(* copy_absent.                                                            *)

\* The source is listed.  A local listing does not fail.
ListsLocalSource ==
    /\ push /\ walk = "source"
    /\ listed' = local
    /\ walk' = "dest"
    /\ UNCHANGED <<s3vars, push, local, missing, worker, used, asleep, failed, vanished, panicked>>

ListsBucket ==
    /\ walk = (IF push THEN "dest" ELSE "source")
    /\ Ask(Walk, "list", 0)
    /\ UNCHANGED <<push, local, walk, progress>>

\* The bucket as the source: an error ends the walk.
ReadsSource ==
    /\ ~push /\ walk = "source" /\ call[Walk].at = "told"
    /\ Hangs(Walk)
    /\ listed' = call[Walk].found
    /\ walk' = IF call[Walk].says = "ok" THEN "dest" ELSE "err"
    /\ UNCHANGED <<bucket, kept, orphans, faults, push, local, missing, worker,
                   used, asleep, failed, vanished, panicked>>

ListsLocalDest ==
    /\ ~push /\ walk = "dest"
    /\ missing' = listed \ local
    /\ walk' = "copy"
    /\ UNCHANGED <<s3vars, push, local, listed, worker, used, asleep, failed, vanished, panicked>>

\* The bucket as the destination: without a listing each file is asked for.
ReadsDest ==
    /\ push /\ walk = "dest" /\ call[Walk].at = "told"
    /\ Hangs(Walk)
    /\ IF call[Walk].says = "ok"
       THEN missing' = listed \ call[Walk].found /\ walk' = "copy"
       ELSE missing' = listed /\ walk' = "ask"
    /\ UNCHANGED <<bucket, kept, orphans, faults, push, local, listed, worker,
                   used, asleep, failed, vanished, panicked>>

\* One exists per file; one that fails is copied.  `call[Walk].key` is the
\* last one asked for.
NextToAsk == {k \in listed : k > call[Walk].key}

AsksFirst ==
    /\ walk = "ask" /\ call[Walk].at = "free" /\ listed # {}
    /\ Ask(Walk, "head", Min(listed))
    /\ UNCHANGED <<push, local, walk, progress>>

HearsOne ==
    /\ walk = "ask" /\ call[Walk].at = "told"
    /\ missing' = IF call[Walk].says = "ok" THEN missing \ {call[Walk].key} ELSE missing
    /\ IF NextToAsk = {}
       THEN Hangs(Walk) /\ walk' = "copy"
       ELSE /\ call' = [call EXCEPT ![Walk] = [Free EXCEPT !.at = "head", !.key = Min(NextToAsk)]]
            /\ walk' = walk
    /\ UNCHANGED <<bucket, kept, orphans, faults, push, local, listed, worker,
                   used, asleep, failed, vanished, panicked>>

AsksNothing ==
    /\ walk = "ask" /\ listed = {}
    /\ walk' = "copy"
    /\ UNCHANGED <<s3vars, push, local, progress>>

-----------------------------------------------------------------------------
(* copy_files: the work of one transfer.                                   *)

\* Mutant: a size the listing does not give is taken as nothing.
AskedNothing(f) == IF f \in Unsized THEN 0 ELSE IF Size[f] > Limit THEN Limit ELSE Size[f]

\* memory.take(size.unwrap_or(budget)), cut down to the budget.
Asked(f) == IF f \in Unsized \/ Size[f] > Limit THEN Limit ELSE Size[f]

Goes(w, at, f) == worker' = [worker EXCEPT ![w] = [at |-> at, file |-> f]]

\* A failure stops the files not yet started.
Looks(w) ==
    /\ walk = "copy" /\ worker[w].at = "look"
    /\ \/ /\ failed \/ missing = {}
          /\ Goes(w, "out", 0)
          /\ UNCHANGED missing
       \/ /\ ~failed
          /\ \E f \in missing : Goes(w, "take", f) /\ missing' = missing \ {f}
    /\ UNCHANGED <<s3vars, push, local, walk, listed, used, asleep, failed, vanished, panicked>>

\* Budget::take: the bytes fit, or nothing is held.
Takes(w) ==
    /\ worker[w].at = "take" /\ w \notin asleep
    /\ LET bytes == Asked(worker[w].file)
       IN  IF used > 0 /\ used + bytes > Limit
           THEN /\ asleep' = asleep \cup {w}
                /\ UNCHANGED <<used, worker>>
           ELSE /\ used' = used + bytes
                /\ Goes(w, "read", worker[w].file)
                /\ UNCHANGED asleep
    /\ UNCHANGED <<s3vars, push, local, walk, listed, missing, failed, vanished, panicked>>

\* Mutant: nobody is woken.
GivesBackQuietly(w) ==
    /\ used' = used - Asked(worker[w].file)
    /\ asleep' = asleep

\* Drop of Held, with its notify_all.
GivesBack(w) ==
    /\ used' = used - Asked(worker[w].file)
    /\ asleep' = {}

\* The file is done with: copied, gone, or failed.
Lands(w) ==
    /\ GivesBack(w)
    /\ Goes(w, "look", 0)
    /\ UNCHANGED <<failed, vanished>>

IsGone(w) ==
    /\ GivesBack(w)
    /\ Goes(w, "look", 0)
    /\ vanished' = vanished \cup {worker[w].file}
    /\ UNCHANGED failed

\* Mutant: an error is taken for a file that is gone.
FailsQuietly(w) == IsGone(w)

Fails(w) ==
    /\ GivesBack(w)
    /\ Goes(w, "out", 0)
    /\ failed' = TRUE
    /\ UNCHANGED vanished

\* from.get and to.put_exact of the local store.
Here == UNCHANGED <<s3vars, push, walk, listed, missing, panicked>>

ReadsHere(w) ==
    /\ push /\ worker[w].at = "read"
    /\ IF worker[w].file \in local
       THEN Goes(w, "write", worker[w].file) /\ UNCHANGED <<used, asleep, failed, vanished>>
       ELSE IsGone(w)
    /\ UNCHANGED local
    /\ Here

WritesHere(w) ==
    /\ ~push /\ worker[w].at = "write"
    /\ local' = local \cup {worker[w].file}
    /\ Lands(w)
    /\ Here

FailsHere(w) ==
    /\ worker[w].at = (IF push THEN "read" ELSE "write")
    /\ Fault
    /\ Fails(w)
    /\ UNCHANGED <<bucket, call, kept, orphans, push, local, walk, listed, missing, panicked>>

\* ... and of the bucket: the request, and what came of it.
AsksBucket(w) ==
    /\ \/ push /\ worker[w].at = "write" /\ AskPut(w, worker[w].file)
       \/ ~push /\ worker[w].at = "read" /\ Ask(w, "get", worker[w].file)
    /\ UNCHANGED <<push, local, walk, progress>>

HearsBucket(w) ==
    /\ call[w].at = "told"
    /\ Hangs(w)
    /\ CASE call[w].says = "err" -> Fails(w)
         [] call[w].says = "not found" -> IsGone(w)
         [] call[w].says = "ok" /\ push -> Lands(w)
         [] OTHER -> Goes(w, "write", worker[w].file) /\ UNCHANGED <<used, asleep, failed, vanished>>
    /\ UNCHANGED <<bucket, kept, orphans, faults, push, local, walk, listed, missing, panicked>>

\* A panic in a get or a put, between requests or in the middle of one,
\* unwinds through Held; the others go on.  Nobody aborts the upload.
Panics(w) ==
    /\ worker[w].at \in {"read", "write"}
    /\ Fault
    /\ Hangs(w)
    /\ orphans' = orphans \cup {u.id : u \in Mine(w)}
    /\ GivesBack(w)
    /\ Goes(w, "out", 0)
    /\ panicked' = TRUE
    /\ UNCHANGED <<bucket, kept, push, local, walk, listed, missing, failed, vanished>>

\* The scope ends with its last transfer.
Joins ==
    /\ walk = "copy"
    /\ \A w \in Workers : worker[w].at = "out"
    /\ walk' = IF panicked THEN "panic" ELSE IF failed THEN "err" ELSE "ok"
    /\ UNCHANGED <<s3vars, push, local, progress>>

-----------------------------------------------------------------------------
\* A file of the source is deleted: by retention or a merge here, by the
\* syncer of another machine in the bucket.
Vanishes ==
    /\ IF push
       THEN (\E f \in local : local' = local \ {f}) /\ UNCHANGED <<stored, kept>>
       ELSE /\ \E f \in stored : stored' = stored \ {f} /\ kept' = kept \ {f}
            /\ UNCHANGED local
    /\ UNCHANGED <<uploads, lastId, call, orphans, faults, push, walk, progress>>

Init ==
    /\ S3Init
    /\ push \in BOOLEAN
    /\ local \in SUBSET Keys
    /\ walk = "source"
    /\ listed = {} /\ missing = {}
    /\ worker = [w \in Workers |-> Idle]
    /\ used = 0 /\ asleep = {}
    /\ failed = FALSE /\ vanished = {} /\ panicked = FALSE

WalkStep ==
    \/ ListsLocalSource \/ ListsBucket \/ ReadsSource \/ ListsLocalDest \/ ReadsDest
    \/ AsksFirst \/ HearsOne \/ AsksNothing \/ Joins

WorkerStep(w) ==
    \/ Looks(w) \/ Takes(w) \/ ReadsHere(w) \/ WritesHere(w) \/ FailsHere(w)
    \/ AsksBucket(w) \/ HearsBucket(w) \/ Panics(w)

ClientStep(c) == Requests(c) /\ UNCHANGED <<push, local, walk, progress>>

Next ==
    \/ WalkStep
    \/ \E w \in Workers : WorkerStep(w)
    \/ \E c \in Callers : ClientStep(c)
    \/ Sweeps /\ UNCHANGED <<push, local, walk, progress>>
    \/ Vanishes

\* Threads run, and a request ends: it has a timeout.
Spec ==
    /\ Init /\ [][Next]_vars
    /\ WF_vars(WalkStep)
    /\ \A w \in Workers : WF_vars(WorkerStep(w))
    /\ \A c \in Callers : WF_vars(ClientStep(c))

-----------------------------------------------------------------------------
(* Properties.                                                             *)

Ended == {"ok", "err", "panic"}
Loaded == {w \in Workers : worker[w].at \in {"read", "write"}}

Asks   == [w \in Loaded |-> Asked(worker[w].file)]
Weighs == [w \in Loaded |-> Size[worker[w].file]]

\* Files held in memory at once fit in IN_FLIGHT_BYTES: one that does not,
\* or whose size nobody knows, is held alone, but for files without a byte
\* (copy_files and Budget::take).
MemoryIsBounded ==
    /\ used = SumFunction(Asks)
    /\ Cardinality({w \in Loaded : Weighs[w] > 0}) > 1 =>
        /\ SumFunction(Weighs) <= Limit
        /\ \A w \in Loaded : worker[w].file \notin Unsized

\* A walk that returns Ok left every file it listed at the destination,
\* unless the file was deleted at the source meanwhile; the skipped ones
\* and those whose upload was retried included (copy_absent).
DoneMeansCopied ==
    walk = "ok" => \A f \in listed :
        \/ f \in There
        \/ f \in vanished /\ f \notin (IF push THEN local ELSE stored)

\* An unfinished upload is one that a call is working on, or one whose
\* identifier the client never had, could not abort or lost in a panic: every
\* other way out of put_multipart goes through abort.
UploadsHaveAnOwner ==
    \A u \in uploads : \/ u.id \in orphans
                       \/ \E c \in Callers : Asking(c) /\ call[c].upload = u.id

\* The bucket keeps what the trait promises: an object is whole or absent,
\* and a put that said Ok left it there.
Service == INSTANCE FileService
    WITH Files <- Keys, Puts <- Keys, Nothing <- 0,
         content <- [k \in Keys |-> IF k \in stored THEN k ELSE 0],
         kept <- [k \in Keys |-> IF k \in kept THEN k ELSE 0]
ImplementsFileService == Service!Spec

\* Every walk ends: the transfers do not wait for each other's bytes for
\* ever, whatever fails, panics or does not fit (copy_files).
WalkEnds == <>(walk \in Ended)
=============================================================================
