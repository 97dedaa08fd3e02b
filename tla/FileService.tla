---------------------------- MODULE FileService -----------------------------
(***************************************************************************)
(* What a store promises about its files, which is what the coordinator    *)
(* builds on: a file changes in one step, from one thing somebody put to   *)
(* another, it is never half of one; and what a put that returned Ok left  *)
(* there outlives the process and the machine.  An implementation says of  *)
(* which of its Ok it answers for that: `kept' holds those.                *)
(***************************************************************************)
EXTENDS Integers

CONSTANTS
    Files,   \* the paths of the store
    Puts,    \* the calls of put, each with its own contents
    Nothing  \* no file

VARIABLES
    content, \* what a reader finds under each path
    kept     \* what a put that is answered for left there

vars == <<content, kept>>

Contents == Puts \cup {Nothing}

Init ==
    /\ content \in [Files -> Contents]
    /\ kept = [f \in Files |-> Nothing]

\* A file is replaced, or deleted: what was kept there is not any more.  The
\* put may say Ok in the same step.
Replace(f) ==
    \E c \in Contents :
        /\ content' = [content EXCEPT ![f] = c]
        /\ \E k \in {Nothing, c} : kept' = [kept EXCEPT ![f] = k]

Acknowledge(f) ==
    /\ content[f] # Nothing
    /\ kept' = [kept EXCEPT ![f] = content[f]]
    /\ UNCHANGED content

\* The machine goes down: what was kept is still there.
Crash ==
    /\ content' \in [Files -> Contents]
    /\ \A f \in Files : kept[f] # Nothing => content'[f] = kept[f]
    /\ UNCHANGED kept

Next == Crash \/ \E f \in Files : Replace(f) \/ Acknowledge(f)

Spec == Init /\ [][Next]_vars
=============================================================================
