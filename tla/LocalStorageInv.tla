-------------------------- MODULE LocalStorageInv --------------------------
(***************************************************************************)
(* Why LocalStorage keeps what it acknowledged: the inductive invariant    *)
(* behind ImplementsFileService.                                           *)
(***************************************************************************)
EXTENDS LocalStorage

\* A call that has begun has a path; the directories it found missing are
\* above that path, and until it climbs it owes the sync of all of them.
CallInv ==
    \A p \in Puts :
        /\ pc[p] = "idle" => made[p] = {}
        /\ pc[p] # "idle" => target[p] \in Files /\ made[p] \subseteq Above[target[p]]
        /\ pc[p] \in Under \ {"climb"} => owed[p] = made[p]

\* A partial file is there while its call writes it, in a directory that is
\* there.
TempInv ==
    \A p \in Puts :
        /\ pc[p] \in {"data", "sync", "rename"} => p \in temps
        /\ p \in temps => /\ pc[p] \in {"data", "sync", "rename", "dead"}
                          /\ Above[target[p]] \subseteq dirs

\* What a rename publishes, now or after a power cut, was flushed before.
FlushInv ==
    /\ torn \cap flushed = {}
    /\ \A p \in torn : pc[p] \in Ended
    /\ Fsync =>
        /\ \A p \in Puts : pc[p] = "rename" => p \in flushed
        /\ \A f \in Files : maybeFile[f] \ {Nothing} \subseteq flushed

\* A call that makes directories makes the lowest of those it found missing
\* and, of the others, only ones it found missing too.
MkdirInv ==
    \A p \in Puts : pc[p] = "dirs" /\ made[p] # {} =>
        /\ \A e \in made[p] : \A d \in Above[target[p]] : e \in Above[d] => d \in made[p]
        /\ Above[target[p]] \ dirs \subseteq made[p]

\* A directory a power cut may take is owed by somebody, or loose.
DirsAreOwed ==
    \A d \in dirs : maybeDir[d] = {TRUE} \/ d \in loose \/ \E q \in Puts : d \in owed[q]

\* What a climbing call wrote is on the device, as are the directories it
\* has synced the names of, if no sync was refused to it.
ClimbInv ==
    \A p \in Puts : pc[p] = "climb" /\ file[target[p]] = p /\ p \notin loose =>
        /\ maybeFile[target[p]] = {p}
        /\ \A d \in made[p] \ owed[p] : maybeDir[d] = {TRUE}

\* What a put that returned Ok left is there, and a power cut leaves it.
AckedInv ==
    \A f \in Files : acked[f] # Nothing =>
        /\ Fsync
        /\ file[f] = acked[f]
        /\ ~windows => /\ maybeFile[f] = {acked[f]}
                       /\ \A d \in Above[f] : maybeDir[d] = {TRUE}

\* The inductive invariant: what write_parts relies on when it returns Ok.
StorageInv ==
    /\ TypeOK /\ CallInv /\ TempInv /\ FlushInv /\ MkdirInv
    /\ Fsync /\ ~windows => DirsAreOwed /\ ClimbInv
    /\ AckedInv
=============================================================================
