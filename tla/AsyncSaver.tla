----------------------------- MODULE AsyncSaver -----------------------------
(***************************************************************************)
(* The background save thread (src/src/coordinator/saver.rs) and the       *)
(* callers of a Coordinator that has one: save hands a job over and        *)
(* returns, flush and the calls that start with it wait and take the       *)
(* error, list_snapshots, merge_now and the like only wait, save_final     *)
(* (python/moonclip/pytorch.py) is a save, a merge_now and a sync_now.     *)
(*                                                                         *)
(* The state lock is held for one action.  A wait on the condition         *)
(* variable is a guard: every change of `busy` to FALSE notifies all.      *)
(* What a save does to the store is CheckpointStore's; here it works or    *)
(* it does not, and a panic is caught and is a failure.                    *)
(***************************************************************************)
EXTENDS Integers, Sequences

CONSTANTS
    Callers,  \* threads of the training process that share the Coordinator
    MaxJobs   \* bound: saves asked for

ASSUME SaverAssumption == MaxJobs \in Nat

Jobs == 1 .. MaxJobs

\* The threads a Coordinator starts beside the saver.
Background == {"merger", "syncer"}

\* error: None.
None == 0

VARIABLES
    busy,     \* SaverShared.busy: the in-flight slot is taken
    error,    \* SaverShared.error: the save it is about
    channel,  \* the jobs between submit and the thread
    worker,   \* the thread
    call,     \* what each caller is doing
    nextJob,  \* the next snapshot identifier
    dead,     \* which of the merger and the syncer have died?
    stage,    \* of the saver's life
    saved,    \* jobs that were written
    told      \* jobs whose failure a caller was given

vars == <<busy, error, channel, worker, call, nextJob, dead, stage, saved, told>>

IdleWorker == [pc |-> "idle", job |-> None, ok |-> FALSE]

\* `owed` is a history variable: the saves that were not settled, or whose
\* failure was not told, when the call was made.
NoCall == [pc |-> "out", kind |-> "none", job |-> None, owed |-> {}]

\* The jobs that took the slot and have not given it back.
InFlight ==
    {call[c].job : c \in {d \in Callers : call[d].pc = "send"}}
        \cup {channel[k] : k \in 1 .. Len(channel)}
        \cup (IF worker.pc \in {"running", "done"} THEN {worker.job} ELSE {})

Unreported == IF error = None THEN {} ELSE {error}

-----------------------------------------------------------------------------
(* Calls.                                                                  *)

Starts(c, kind, pc, job) ==
    /\ stage = "open" /\ call[c].pc = "out"
    /\ call' = [call EXCEPT ![c] = [pc |-> pc, kind |-> kind, job |-> job,
                                    owed |-> InFlight \cup Unreported]]
    /\ UNCHANGED <<busy, error, channel, worker, dead, stage, saved, told>>

\* Coordinator::save, alone or as the first step of save_final.
CallSave(c) ==
    /\ nextJob \in Jobs
    /\ nextJob' = nextJob + 1
    /\ \E kind \in {"save", "final"} : Starts(c, kind, "submit", nextJob)

\* flush, load, load_latest, load_tensors.
CallFlush(c) == Starts(c, "flush", "flush", None) /\ UNCHANGED nextJob

\* list_snapshots, describe, merge_now, sync_now.
CallWait(c) == Starts(c, "wait", "wait", None) /\ UNCHANGED nextJob

MovesTo(c, pc) == call' = [call EXCEPT ![c].pc = pc]

\* A failure of the save before is given to this one, which is not taken.
SubmitReports(c) ==
    /\ call[c].pc = "submit" /\ ~busy /\ error # None
    /\ error' = None
    /\ told' = told \cup {error}
    /\ MovesTo(c, "failed")
    /\ UNCHANGED <<busy, channel, worker, nextJob, dead, stage, saved>>

\* Mutant: the wait and the claim are two critical sections.
SubmitClaimsLater(c) ==
    /\ call[c].pc = "submit" /\ error = None
    /\ busy' = TRUE
    /\ MovesTo(c, "send")
    /\ UNCHANGED <<error, channel, worker, nextJob, dead, stage, saved, told>>

\* Mutant: the slot is claimed without a look at the error.
SubmitClaimsBlindly(c) ==
    /\ call[c].pc = "submit" /\ ~busy
    /\ busy' = TRUE
    /\ MovesTo(c, "send")
    /\ UNCHANGED <<error, channel, worker, nextJob, dead, stage, saved, told>>

\* The wait for the slot and the claim are one critical section.
SubmitClaims(c) ==
    /\ call[c].pc = "submit" /\ ~busy /\ error = None
    /\ busy' = TRUE
    /\ MovesTo(c, "send")
    /\ UNCHANGED <<error, channel, worker, nextJob, dead, stage, saved, told>>

\* tx.send: it cannot fail, since the thread lives as long as the channel.
SubmitSends(c) ==
    /\ call[c].pc = "send"
    /\ channel' = Append(channel, call[c].job)
    /\ MovesTo(c, IF call[c].kind = "final" THEN "merge" ELSE "ok")
    /\ UNCHANGED <<busy, error, worker, nextJob, dead, stage, saved, told>>

\* Mutant: flush does not wait for the save in flight.
FlushReturnsAtOnce(c) ==
    /\ call[c].pc = "flush"
    /\ error' = None
    /\ told' = told \cup Unreported
    /\ MovesTo(c, IF error # None \/ dead # {} THEN "failed" ELSE "ok")
    /\ UNCHANGED <<busy, channel, worker, nextJob, dead, stage, saved>>

\* flush takes the error, if there is one, and then asks whether a background
\* thread is gone, every time.
FlushReturns(c) ==
    /\ call[c].pc = "flush" /\ ~busy
    /\ error' = None
    /\ told' = told \cup Unreported
    /\ MovesTo(c, IF error # None \/ dead # {} THEN "failed" ELSE "ok")
    /\ UNCHANGED <<busy, channel, worker, nextJob, dead, stage, saved>>

\* wait_idle leaves the error where it is.
WaitReturns(c) ==
    /\ call[c].pc = "wait" /\ ~busy
    /\ MovesTo(c, "ok")
    /\ UNCHANGED <<busy, error, channel, worker, nextJob, dead, stage, saved, told>>

\* merge_now waits the same way, then asks the merger, which may be dead or
\* answer with an error.
FinalMerges(c) ==
    /\ call[c].pc = "merge" /\ ~busy
    /\ \/ "merger" \notin dead /\ MovesTo(c, "sync")
       \/ MovesTo(c, "failed")
    /\ UNCHANGED <<busy, error, channel, worker, nextJob, dead, stage, saved, told>>

\* And sync_now, with the syncer.
FinalSyncs(c) ==
    /\ call[c].pc = "sync" /\ ~busy
    /\ \/ "syncer" \notin dead /\ MovesTo(c, "ok")
       \/ MovesTo(c, "failed")
    /\ UNCHANGED <<busy, error, channel, worker, nextJob, dead, stage, saved, told>>

Leaves(c) ==
    /\ call[c].pc \in {"ok", "failed"}
    /\ call' = [call EXCEPT ![c] = NoCall]
    /\ UNCHANGED <<busy, error, channel, worker, nextJob, dead, stage, saved, told>>

CallStep(c) ==
    \/ SubmitReports(c) \/ SubmitClaims(c) \/ SubmitSends(c)
    \/ FlushReturns(c) \/ WaitReturns(c)
    \/ FinalMerges(c) \/ FinalSyncs(c)
    \/ Leaves(c)

-----------------------------------------------------------------------------
(* The thread.                                                             *)

WorkerTakes ==
    /\ worker.pc = "idle" /\ channel # <<>>
    /\ worker' = [pc |-> "running", job |-> Head(channel), ok |-> FALSE]
    /\ channel' = Tail(channel)
    /\ UNCHANGED <<busy, error, call, nextJob, dead, stage, saved, told>>

WorkerSaves ==
    /\ worker.pc = "running"
    /\ worker' = [worker EXCEPT !.pc = "done", !.ok = TRUE]
    /\ saved' = saved \cup {worker.job}
    /\ UNCHANGED <<busy, error, channel, call, nextJob, dead, stage, told>>

\* Mutant: nothing catches a panic of the pipeline.
WorkerPanics ==
    /\ worker.pc = "running"
    /\ worker' = [worker EXCEPT !.pc = "gone"]
    /\ UNCHANGED <<busy, error, channel, call, nextJob, dead, stage, saved, told>>

\* An error of save_sync, or a panic inside it.
WorkerFails ==
    /\ worker.pc = "running"
    /\ worker' = [worker EXCEPT !.pc = "done", !.ok = FALSE]
    /\ UNCHANGED <<busy, error, channel, call, nextJob, dead, stage, saved, told>>

\* The slot is given back and the error set in one critical section.
WorkerSettles ==
    /\ worker.pc = "done"
    /\ busy' = FALSE
    /\ error' = IF worker.ok THEN error ELSE worker.job
    /\ worker' = IdleWorker
    /\ UNCHANGED <<channel, call, nextJob, dead, stage, saved, told>>

WorkerExits ==
    /\ worker.pc = "idle" /\ channel = <<>> /\ stage = "closed"
    /\ worker' = [IdleWorker EXCEPT !.pc = "gone"]
    /\ UNCHANGED <<busy, error, channel, call, nextJob, dead, stage, saved, told>>

WorkerStep == WorkerTakes \/ WorkerSaves \/ WorkerFails \/ WorkerSettles \/ WorkerExits

-----------------------------------------------------------------------------
(* The end: Drop needs the saver alone, so no call is in progress.         *)

Drop ==
    /\ stage = "open"
    /\ \A c \in Callers : call[c].pc = "out"
    /\ stage' = "draining"
    /\ UNCHANGED <<busy, error, channel, worker, call, nextJob, dead, saved, told>>

\* Mutant: the sender is still there when the thread is joined.
ClosesNothing ==
    /\ stage = "draining" /\ ~busy
    /\ UNCHANGED vars

ClosesChannel ==
    /\ stage = "draining" /\ ~busy
    /\ stage' = "closed"
    /\ UNCHANGED <<busy, error, channel, worker, call, nextJob, dead, saved, told>>

Joins ==
    /\ stage = "closed" /\ worker.pc = "gone"
    /\ stage' = "joined"
    /\ UNCHANGED <<busy, error, channel, worker, call, nextJob, dead, saved, told>>

\* The merger or the syncer is gone, and stays gone.
ThreadDies ==
    /\ stage = "open"
    /\ \E thread \in Background \ dead : dead' = dead \cup {thread}
    /\ UNCHANGED <<busy, error, channel, worker, call, nextJob, stage, saved, told>>

-----------------------------------------------------------------------------
Init ==
    /\ busy = FALSE /\ error = None /\ channel = <<>>
    /\ worker = IdleWorker
    /\ call = [c \in Callers |-> NoCall]
    /\ nextJob = 1 /\ dead = {} /\ stage = "open"
    /\ saved = {} /\ told = {}

Next ==
    \/ \E c \in Callers : CallSave(c) \/ CallFlush(c) \/ CallWait(c) \/ CallStep(c)
    \/ WorkerStep
    \/ Drop \/ ClosesChannel \/ Joins
    \/ ThreadDies

Spec == Init /\ [][Next]_vars

\* Every thread that can go on does.  A call need not be made, and the saver
\* need not be dropped.
Fairness ==
    /\ \A c \in Callers : WF_vars(CallStep(c))
    /\ WF_vars(WorkerStep)
    /\ WF_vars(ClosesChannel \/ Joins)

FairSpec == Spec /\ Fairness

-----------------------------------------------------------------------------
(* Properties.                                                             *)

Calls == [pc : {"out", "submit", "send", "flush", "wait", "merge", "sync", "ok", "failed"},
          kind : {"none", "save", "final", "flush", "wait"},
          job : Jobs \cup {None},
          owed : SUBSET Jobs]

TypeOK ==
    /\ busy \in BOOLEAN
    /\ error \in Jobs \cup {None}
    /\ channel \in Seq(Jobs)
    /\ worker \in [pc : {"idle", "running", "done", "gone"},
                   job : Jobs \cup {None}, ok : BOOLEAN]
    /\ call \in [Callers -> Calls]
    /\ nextJob \in 1 .. MaxJobs + 1
    /\ dead \subseteq Background
    /\ stage \in {"open", "draining", "closed", "joined"}
    /\ saved \subseteq Jobs /\ told \subseteq Jobs

\* One flag stands for one job: the slot is taken exactly while one save is on
\* its way, from the claim in submit to the thread's verdict.
BusyIsOneInFlight ==
    /\ busy <=> InFlight # {}
    /\ \A j, k \in InFlight : j = k

\* A flush, a load or a save that returns Ok: every save that was on its way
\* or failed when it was called has been written, or its failure was told to
\* somebody.  A call that only waits may leave the error where it is.
OkMeansSettled ==
    \A c \in Callers :
        call[c].pc = "ok" =>
            call[c].owed \subseteq
                saved \cup told \cup (IF call[c].kind = "wait" THEN Unreported ELSE {})

\* The saver does what SaveService promises, settling included.
Service == INSTANCE SaveService WITH
    accepted <- InFlight,
    saved    <- saved \ InFlight,
    failed   <- Unreported,
    reported <- told

ImplementsService == Service!Spec

\* No call hangs, whatever the pipeline does.
CallsReturn == \A c \in Callers : (call[c].pc # "out") ~> (call[c].pc = "out")

\* Dropping the Coordinator ends.
DropEnds == (stage = "draining") ~> (stage = "joined")

\* save_final that returns without an error has saved the checkpoint.
FinalIsSaved ==
    \A c \in Callers :
        (call[c].kind = "final" /\ call[c].pc = "ok") => call[c].job \in saved
=============================================================================
