---------------------------- MODULE TransfersInv ----------------------------
(***************************************************************************)
(* Why the uploads of Transfers are accounted for, why the bucket keeps    *)
(* what it acknowledged, why a walk that says Ok left nothing out, and why *)
(* the files in memory fit: the inductive invariants behind                *)
(* UploadsHaveAnOwner, ImplementsFileService, DoneMeansCopied and          *)
(* MemoryIsBounded.                                                        *)
(***************************************************************************)
EXTENDS Transfers

\* The requests of an upload that has an identifier.
Uploading == {"part", "complete", "abort"}
Writing == {"put", "create"} \cup Uploading
Reading == {"get", "head", "list"}

\* The fields of a call.
IsCall(r) == r = [at |-> r.at, key |-> r.key, upload |-> r.upload, part |-> r.part,
                  attempt |-> r.attempt, found |-> r.found, says |-> r.says]

\* What a call has, whatever the key it reads.
GoodCall(r) ==
    /\ IsCall(r)
    /\ r.at \in {"free", "told"} \cup Writing \cup Reading
    /\ r.at \in Writing => r.key \in Keys
    /\ r.at \notin {"free", "told"} => r.says = "nothing"
    /\ r.found \subseteq Keys

CallShape ==
    /\ call = [c \in Callers |-> call[c]]
    /\ \A c \in Callers : GoodCall(call[c])

\* Files come from a listing.
FileShape ==
    /\ local \subseteq Keys /\ listed \subseteq Keys /\ missing \subseteq Keys
    /\ worker \in [Workers -> [at : {"look", "take", "read", "write", "out"},
                               file : Keys \cup {0}]]
    /\ \A w \in Workers : worker[w].at \in {"take", "read", "write"} => worker[w].file \in Keys

\* A transfer has a request under way only while it reads or writes the
\* bucket.
BusyInv ==
    \A w \in Workers : call[w].at # "free" =>
        worker[w].at = IF push THEN "write" ELSE "read"

\* An object that was acknowledged is there.
BucketInv ==
    /\ stored \subseteq Keys
    /\ kept \subseteq stored
    /\ \A u \in uploads : u = [id |-> u.id, key |-> u.key, have |-> u.have]

\* An upload belongs to a call that has its identifier and has not finished
\* with it, not to any call that asks for something.
OwnerInv ==
    \A u \in uploads : \/ u.id \in orphans
                       \/ \E c \in Callers : call[c].at \in Uploading /\ call[c].upload = u.id

\* The inductive invariant.
UploadInv == CallShape /\ FileShape /\ BusyInv /\ BucketInv /\ OwnerInv

-----------------------------------------------------------------------------
\* The files at the source.
Source == IF push THEN local ELSE stored

InHand == {worker[w].file : w \in {v \in Workers : worker[v].at \in {"take", "read", "write"}}}

\* Transfers start after the listings, and a transfer that is out had a
\* reason.
WalkShape ==
    /\ walk \in {"source", "dest", "ask", "copy"} \cup Ended
    /\ walk = "ask" => push
    /\ walk \in {"source", "dest", "ask"} =>
            ~failed /\ ~panicked /\ \A w \in Workers : worker[w].at = "look"
    /\ walk = "ok" => ~failed /\ ~panicked /\ \A w \in Workers : worker[w].at = "out"
    /\ walk \in {"copy", "ok"} =>
            \A w \in Workers : worker[w].at = "out" => failed \/ panicked \/ missing = {}

\* What the walk hears of the bucket: to the destination nothing is lost.
WalkHears ==
    call[Walk].at # "free" =>
        \/ /\ walk = (IF push THEN "dest" ELSE "source")
           /\ call[Walk].at \in {"list", "told"}
           /\ push => call[Walk].found \subseteq stored
        \/ /\ walk = "ask" /\ listed # {} /\ call[Walk].at \in {"head", "told"}
           /\ call[Walk].at = "told" /\ call[Walk].says = "ok" => call[Walk].key \in stored

\* What a transfer hears: at the source nothing comes back.
WorkerHears ==
    \A w \in Workers : call[w].at # "free" =>
        /\ call[w].key = worker[w].file
        /\ push => /\ call[w].at \in {"told"} \cup Writing /\ call[w].says # "not found"
                   /\ call[w].at = "told" /\ call[w].says = "ok" => call[w].key \in stored
        /\ ~push => /\ call[w].at \in {"told", "get"}
                    /\ call[w].says = "not found" => call[w].key \notin stored

\* Every file that was listed is somewhere.
Accounted ==
    /\ walk = "ask" => listed \subseteq missing \cup stored
    /\ walk \in {"copy", "ok"} =>
            \A f \in listed : \/ f \in There \cup missing \cup InHand
                              \/ f \in vanished /\ f \notin Source
                              \/ failed \/ panicked

\* The inductive invariant of the walk.
CopyInv == UploadInv /\ WalkShape /\ WalkHears /\ WorkerHears /\ Accounted

-----------------------------------------------------------------------------
\* The bytes the budget counts are those of the files held, and fit in it.
BudgetInv == used = SumFunction(Asks) /\ used <= Limit

\* The inductive invariant of the budget.
MemoryInv == UploadInv /\ BudgetInv
=============================================================================
