------------------------------ MODULE S3Client ------------------------------
(***************************************************************************)
(* The store in a bucket (src/src/s3.rs, S3Storage): put, in one request   *)
(* or in parts, get, exists and list, by several threads over one bucket,  *)
(* one request per step.  A request may not arrive, its answer may not     *)
(* come back, the service may refuse it or answer what cannot be read, and *)
(* do_request tries again where that is worth it.                          *)
(*                                                                         *)
(* Keys are numbers, in the order a listing has them.  An object is        *)
(* written once, so a key stands for its contents; what the service knows  *)
(* of an upload is which of its parts it has.  A request the client gave   *)
(* up on is not carried out later.                                         *)
(***************************************************************************)
EXTENDS Integers, FiniteSets

CONSTANTS
    Callers,         \* threads that use the store
    Keys,
    Size,            \* bytes of each object
    SinglePutLimit,  \* S3Config.single_put_limit
    MinPart,         \* MIN_PART_SIZE
    MaxParts,        \* MAX_PARTS
    Headroom,        \* the 16 of part_size_for
    MaxAttempts,     \* MAX_ATTEMPTS
    PageSize,        \* keys in a page of a listing
    MaxFaults        \* requests that go wrong (bound)

ASSUME S3Assumption ==
    /\ Keys \subseteq Nat \ {0}
    /\ Size \in [Keys -> Nat]
    /\ SinglePutLimit \in Nat
    /\ MinPart \in Nat \ {0}
    /\ MaxParts \in Nat /\ Headroom \in Nat /\ Headroom < MaxParts
    /\ MaxAttempts \in Nat \ {0}
    /\ PageSize \in Nat \ {0}
    /\ MaxFaults \in Nat

VARIABLES
    stored,   \* bucket: the objects
    uploads,  \* bucket: multipart uploads neither completed nor aborted
    lastId,   \* bucket: the upload identifiers given out
    call,     \* what each caller is asking for
    kept,     \* objects some put said Ok of
    orphans,  \* uploads whose identifier nobody learned, or let go of
    faults

bucket == <<stored, uploads, lastId>>
s3vars == <<bucket, call, kept, orphans, faults>>

Free == [at |-> "free", key |-> 0, upload |-> 0, part |-> 0, attempt |-> 0,
         found |-> {}, says |-> "nothing"]

-----------------------------------------------------------------------------
(* The parts of a large object.                                            *)

\* usize::div_ceil
CeilDiv(a, b) == (a + b - 1) \div b

\* part_size_for
PartSize(total) ==
    LET spread == CeilDiv(total, MaxParts - Headroom)
    IN  IF spread > MinPart THEN spread ELSE MinPart

\* data.chunks(size)
PartCount(total) == CeilDiv(total, PartSize(total))

Split(k) == Size[k] > SinglePutLimit

AllParts(k) == 1 .. PartCount(Size[k])

-----------------------------------------------------------------------------
(* What the service does.                                                  *)

Mine(c) == {u \in uploads : u.id = call[c].upload}

IsWhole(c) == \E u \in Mine(c) : u.have = AllParts(u.key)

\* The request of c is carried out.
Effect(c) ==
    LET at == call[c].at  k == call[c].key
        completed == at = "complete" /\ IsWhole(c)
    IN  /\ stored' = IF at = "put" \/ completed THEN stored \cup {k} ELSE stored
        /\ uploads' =
             CASE at = "create" -> uploads \cup {[id |-> lastId + 1, key |-> k, have |-> {}]}
               [] at = "part"   -> (uploads \ Mine(c)) \cup
                                   {[u EXCEPT !.have = @ \cup {call[c].part}] : u \in Mine(c)}
               [] completed \/ at = "abort" -> uploads \ Mine(c)
               [] OTHER -> uploads
        /\ lastId' = IF at = "create" THEN lastId + 1 ELSE lastId

\* The keys of the next page of a listing, and whether it is the last.
After(c) == {k \in stored : k > call[c].key}
Page(c) == {k \in After(c) : Cardinality({j \in After(c) : j < k}) < PageSize}

-----------------------------------------------------------------------------
(* The calls.                                                              *)

Ask(c, what, k) ==
    /\ call[c].at = "free"
    /\ call' = [call EXCEPT ![c] = [Free EXCEPT !.at = what, !.key = k]]
    /\ UNCHANGED <<bucket, kept, orphans, faults>>

\* S3Storage::put chooses between one request and several.
AskPut(c, k) == Ask(c, IF Split(k) THEN "create" ELSE "put", k)

Told(c, what) == [call[c] EXCEPT !.at = "told", !.says = what]

\* The caller has read the answer.
Hangs(c) == call' = [call EXCEPT ![c] = Free]

\* Mutant: the error goes straight to the caller.
GivenUpAtOnce(c) == Told(c, "err")

\* A multipart upload that fails once it is started is aborted, and the
\* error is the one it failed with.
GivenUp(c) ==
    IF call[c].at \in {"part", "complete"}
    THEN [call[c] EXCEPT !.at = "abort", !.attempt = 0]
    ELSE Told(c, "err")

\* The answer arrived and can be read.  404 is an answer like any other.
Answered(c) ==
    LET me == call[c]  at == me.at IN
    CASE at = "put" -> Told(c, "ok")
      [] at = "create" -> [me EXCEPT !.at = "part", !.upload = lastId + 1,
                                     !.part = 1, !.attempt = 0]
      [] at = "part" /\ Mine(c) # {} ->
            IF me.part < PartCount(Size[me.key])
            THEN [me EXCEPT !.part = @ + 1, !.attempt = 0]
            ELSE [me EXCEPT !.at = "complete", !.attempt = 0]
      [] at = "complete" /\ IsWhole(c) -> Told(c, "ok")
      [] at = "abort" -> Told(c, "err")
      [] at \in {"get", "head"} -> Told(c, IF me.key \in stored THEN "ok" ELSE "not found")
      [] at = "list" ->
            LET read == [me EXCEPT !.found = @ \cup Page(c), !.attempt = 0]
            IN  IF Page(c) = After(c)
                THEN [read EXCEPT !.at = "told", !.says = "ok"]
                ELSE [read EXCEPT !.key = CHOOSE k \in Page(c) : \A j \in Page(c) : j <= k]
      [] OTHER -> GivenUp(c)

Asking(c) == call[c].at \notin {"free", "told"}

Serves(c) ==
    /\ Asking(c)
    /\ Effect(c)
    /\ call' = [call EXCEPT ![c] = Answered(c)]
    /\ kept' = IF call'[c].says = "ok" /\ call[c].at \in {"put", "complete"}
               THEN kept \cup {call[c].key} ELSE kept
    /\ UNCHANGED <<orphans, faults>>

\* do_request: a transport error, a 5xx or a 429 is tried again.
Retried(c) ==
    IF call[c].attempt + 1 < MaxAttempts
    THEN [call[c] EXCEPT !.attempt = @ + 1]
    ELSE GivenUp(c)

Fault == faults < MaxFaults /\ faults' = faults + 1

\* An upload is let go of when its abort fails for good.
LetGo(c, then) ==
    IF call[c].at = "abort" /\ then.at = "told"
    THEN {u.id : u \in Mine(c)} ELSE {}

RequestLost(c) ==
    /\ Asking(c) /\ Fault
    /\ call' = [call EXCEPT ![c] = Retried(c)]
    /\ orphans' = orphans \cup LetGo(c, Retried(c))
    /\ UNCHANGED <<bucket, kept>>

\* Nobody learns the identifier of the upload this created.
AnswerLost(c) ==
    /\ Asking(c) /\ Fault
    /\ Effect(c)
    /\ call' = [call EXCEPT ![c] = Retried(c)]
    /\ orphans' = IF call[c].at = "create" THEN orphans \cup {lastId + 1} ELSE orphans
    /\ UNCHANGED kept

\* A 4xx, which is not tried again.
Refused(c) ==
    /\ Asking(c) /\ Fault
    /\ call' = [call EXCEPT ![c] = GivenUp(c)]
    /\ orphans' = orphans \cup LetGo(c, GivenUp(c))
    /\ UNCHANGED <<bucket, kept>>

\* Carried out, and the body cannot be read, or has no UploadId or ETag.
Unreadable(c) ==
    /\ call[c].at \in {"create", "part", "complete", "get", "list"} /\ Fault
    /\ Effect(c)
    /\ call' = [call EXCEPT ![c] = GivenUp(c)]
    /\ orphans' = IF call[c].at = "create" THEN orphans \cup {lastId + 1} ELSE orphans
    /\ UNCHANGED kept

\* Mutant: the status code alone is the answer.
CompleteFailsUnread(c) ==
    /\ call[c].at = "complete" /\ Fault
    /\ call' = [call EXCEPT ![c] = Told(c, "ok")]
    /\ kept' = kept \cup {call[c].key}
    /\ UNCHANGED <<bucket, orphans>>

\* 200, with the failure in the body.
CompleteFails(c) ==
    /\ call[c].at = "complete" /\ Fault
    /\ call' = [call EXCEPT ![c] = GivenUp(c)]
    /\ UNCHANGED <<bucket, kept, orphans>>

\* A page says that it is not the last and does not say what comes next: the
\* listing ends with it.
CutShort(c) ==
    /\ call[c].at = "list" /\ Page(c) # After(c) /\ Fault
    /\ call' = [call EXCEPT ![c] = [Told(c, "ok") EXCEPT !.found = @ \cup Page(c)]]
    /\ UNCHANGED <<bucket, kept, orphans>>

\* Somebody lists the unfinished uploads and aborts one, whoever it is of.
Sweeps ==
    /\ \E u \in uploads : uploads' = uploads \ {u}
    /\ UNCHANGED <<stored, lastId, call, kept, orphans, faults>>

Requests(c) ==
    \/ Serves(c) \/ RequestLost(c) \/ AnswerLost(c) \/ Refused(c)
    \/ Unreadable(c) \/ CompleteFails(c) \/ CutShort(c)

S3Init ==
    /\ stored \in SUBSET Keys
    /\ uploads = {} /\ lastId = 0
    /\ call = [c \in Callers |-> Free]
    /\ kept = {} /\ orphans = {}
    /\ faults = 0
=============================================================================
