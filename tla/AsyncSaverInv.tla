--------------------------- MODULE AsyncSaverInv ----------------------------
(***************************************************************************)
(* The inductive invariant of AsyncSaver, in named parts: the slot is in   *)
(* one place, the error is about a save that is over, identifiers are used *)
(* once, and what a call owes is never forgotten.                          *)
(***************************************************************************)
EXTENDS AsyncSaver

Sending == {c \in Callers : call[c].pc = "send"}

-----------------------------------------------------------------------------
(* Where the slot is.                                                      *)

HeldBySender ==
    /\ \E c \in Sending : Sending = {c}
    /\ channel = <<>> /\ worker.pc = "idle"

HeldByChannel == Sending = {} /\ Len(channel) = 1 /\ worker.pc = "idle"

HeldByWorker == Sending = {} /\ channel = <<>> /\ worker.pc \in {"running", "done"}

HeldByNobody == Sending = {} /\ channel = <<>> /\ worker.pc \in {"idle", "gone"}

SlotInv == IF busy THEN HeldBySender \/ HeldByChannel \/ HeldByWorker ELSE HeldByNobody

\* The thread ends only when the channel is closed, and the channel is closed
\* only when nobody is left to send.
StageInv ==
    /\ stage # "open" => \A c \in Callers : call[c].pc = "out"
    /\ worker.pc = "gone" => stage \in {"closed", "joined"}

-----------------------------------------------------------------------------
(* What the error is about.                                                *)

\* A save is taken only when the last failure was told, so the thread never
\* overwrites one.
ErrorInv == busy => error = None

\* What is in flight is written only when the thread is done with it.
OutcomeInv ==
    \A j \in InFlight :
        j \in saved <=> (worker.pc = "done" /\ worker.ok)

-----------------------------------------------------------------------------
(* Identifiers.                                                            *)

Used == saved \cup told \cup Unreported \cup InFlight

FreshInv ==
    /\ Used \subseteq 1 .. nextJob - 1
    /\ \A c \in Callers :
        call[c].pc \in {"submit", "send"} => call[c].job \in 1 .. nextJob - 1
    /\ \A c \in Callers : call[c].pc = "submit" => call[c].job \notin Used
    /\ \A c, d \in Callers :
        (call[c].pc = "submit" /\ call[d].pc = "submit" /\ c # d)
            => call[c].job # call[d].job

-----------------------------------------------------------------------------
(* What a call owes.                                                       *)

KindInv ==
    \A c \in Callers :
        /\ call[c].pc \in {"submit", "send", "merge", "sync"} => call[c].kind # "wait"
        /\ call[c].pc \in {"flush", "wait"} => call[c].kind = call[c].pc

OwedInv ==
    \A c \in Callers :
        /\ call[c].owed \subseteq Used
        /\ call[c].pc \in {"send", "merge", "sync"} => call[c].owed \subseteq saved \cup told

SaverInv ==
    /\ TypeOK /\ SlotInv /\ StageInv /\ ErrorInv /\ OutcomeInv
    /\ FreshInv /\ KindInv /\ OwedInv /\ OkMeansSettled
=============================================================================
