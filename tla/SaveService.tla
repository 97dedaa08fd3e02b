---------------------------- MODULE SaveService -----------------------------
(***************************************************************************)
(* What the background saver promises to the training loop, without its    *)
(* thread, its channel and its condition variable: a save it takes is      *)
(* either written or failed, one at a time, and a failure is told to a     *)
(* caller exactly once, before the next save is taken.                     *)
(***************************************************************************)
CONSTANT Jobs

VARIABLES
    accepted,  \* taken, outcome unknown
    saved,     \* written
    failed,    \* failed, and nobody knows
    reported   \* failed, and a caller was told

vars == <<accepted, saved, failed, reported>>

Init == accepted = {} /\ saved = {} /\ failed = {} /\ reported = {}

Accept(j) ==
    /\ accepted = {} /\ failed = {}
    /\ j \notin saved \cup reported
    /\ accepted' = {j}
    /\ UNCHANGED <<saved, failed, reported>>

Complete(j) ==
    /\ j \in accepted
    /\ accepted' = accepted \ {j}
    /\ saved' = saved \cup {j}
    /\ UNCHANGED <<failed, reported>>

Fail(j) ==
    /\ j \in accepted
    /\ accepted' = accepted \ {j}
    /\ failed' = failed \cup {j}
    /\ UNCHANGED <<saved, reported>>

Report ==
    /\ failed # {}
    /\ failed' = {}
    /\ reported' = reported \cup failed
    /\ UNCHANGED <<accepted, saved>>

Settle == \E j \in Jobs : Complete(j) \/ Fail(j)

Next == (\E j \in Jobs : Accept(j)) \/ Settle \/ Report

SafeSpec == Init /\ [][Next]_vars

Spec == SafeSpec /\ WF_vars(Settle)
=============================================================================
