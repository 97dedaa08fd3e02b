------------------------- MODULE TensorPipelineInv -------------------------
(***************************************************************************)
(* The inductive invariant behind LoadIsFaithful: what an entry of each    *)
(* kind relies on in its own snapshot and in its base.                     *)
(***************************************************************************)
EXTENDS TensorPipeline

\* What the pack of s should give for a name that is stored under it.
Wanted(s, name) == Cast(s.state[name], s.rules[name])

\* The base holds the name itself, in full.
HeldBy(b, name, bytes) ==
    /\ name \in DOMAIN b.entries
    /\ b.entries[name].storage = "full"
    /\ b.entries[name].hash = bytes

\* The base has the bytes of the name, under it or behind its alias.
KnownTo(b, name, bytes) ==
    \/ HeldBy(b, name, bytes)
    \/ /\ name \in DOMAIN b.entries
       /\ b.entries[name].storage = "alias"
       /\ HeldBy(b, b.entries[name].alias, bytes)

StoredDelta(width, base, target) ==
    IF width > 1 THEN Shuffle(Xor(base, target), width) ELSE Xor(base, target)

\* A delta was computed against bytes its base holds under the same name.
IsDelta(s, entry, name, bytes) ==
    \E b \in snaps :
        /\ b.id = s.base
        /\ HeldBy(b, name, b.entries[name].hash)
        /\ b.entries[name].hash \in Seq(Bit)
        /\ Len(b.entries[name].hash) = Len(bytes)
        /\ entry.shuffled = (ElementSize(entry.dtype) > 1)
        /\ entry.blob =
            Compress(StoredDelta(ElementSize(entry.dtype), b.entries[name].hash, bytes), s.algo)

\* An entry with bytes of its own, here or in the base, describes the tensor of
\* its name under the rule of its name.
StoredSound(s, name) ==
    LET entry == s.entries[name]
        cast == Wanted(s, name)
    IN  /\ entry.dtype = cast.dtype
        /\ entry.scale = cast.scale
        /\ entry.hash = cast.bytes
        /\ \/ entry.storage = "full" /\ entry.blob = Compress(cast.bytes, s.algo)
           \/ /\ entry.storage = "skipped"
              /\ \E b \in snaps : b.id = s.base /\ KnownTo(b, name, cast.bytes)
           \/ entry.storage = "delta" /\ IsDelta(s, entry, name, cast.bytes)

\* An alias points at a twin that is no alias, and has its hash.
AliasSound(s, name) ==
    LET entry == s.entries[name]
    IN  /\ entry.storage = "alias"
        /\ entry.alias \in Twins(s.state, name)
        /\ s.entries[entry.alias].storage # "alias"
        /\ entry.hash = s.entries[entry.alias].hash

EntryFields ==
    {"storage", "dtype", "original", "scale", "hash", "blob", "shuffled", "alias"}

SnapSound(s) ==
    /\ s.id \in 1 .. (nextId - 1)
    /\ s.algo \in Algos
    /\ DOMAIN s.state \subseteq Names
    /\ s.state \in [DOMAIN s.state -> Tensors]
    /\ s.rules \in [Names -> Targets]
    /\ s.entries = [n \in DOMAIN s.state |-> s.entries[n]]
    /\ \A n \in DOMAIN s.state :
        /\ DOMAIN s.entries[n] = EntryFields
        /\ StoredSound(s, n) \/ AliasSound(s, n)

\* A full needs no other snapshot, a delta a full that is there.
BaseSound(s) ==
    \/ /\ s.base = NoBase
       /\ \A n \in DOMAIN s.state : s.entries[n].storage \in {"full", "alias"}
    \/ \E b \in snaps : b.id = s.base /\ b.base = NoBase

IdsAreUnique == \A s, t \in snaps : s.id = t.id => s = t

\* What is retained is of a full that was saved, and equals what its pack holds.
RetainedSound ==
    /\ retained.id \in Nat
    /\ retained.id < nextId
    /\ \A s \in snaps : s.id = retained.id =>
        \A n \in DOMAIN retained.bytes :
            n \in DOMAIN s.entries /\ HeldBy(s, n, retained.bytes[n])

TensorInv ==
    /\ nextId \in Nat \ {0}
    /\ config \in Configs
    /\ \A s \in snaps : SnapSound(s) /\ BaseSound(s)
    /\ IdsAreUnique
    /\ RetainedSound

=============================================================================
