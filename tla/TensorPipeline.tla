--------------------------- MODULE TensorPipeline ---------------------------
(***************************************************************************)
(* The bytes of a checkpoint: how a save turns the tensors of a state dict *)
(* into entries (stored in full, as a delta, skipped, or as an alias), how *)
(* a load and a full merge turn them back, and what of a full is retained  *)
(* in memory for the next delta.  Who may do so while others merge, evict  *)
(* or crash is CheckpointStore's; here each operation is one step.         *)
(***************************************************************************)
EXTENDS ByteFilters

CONSTANTS
    Names,        \* names of tensors
    Tensors,      \* the values they may have: [dtype, data]
    Configs,      \* the settings processes are started with: [algo, policy, keep]
    DeltaMin,     \* DELTA_MIN_SIZE, of tensor.rs and of delta.rs
    MergeAnyAlgo, \* may a merge meet snapshots of another algorithm than its own?
    MaxSaves, MaxMerges, MaxRestarts

\* "wide" stands for the floats that can be cast, "bool" for all the rest.
DTypes == {"wide", "bool"}
Targets == {"none", "half", "quant"}
NoBase == 0

ASSUME TensorAssumption ==
    /\ Tensors \subseteq [dtype : DTypes, data : Seq(Bit)]
    /\ Configs \subseteq [algo : Algos, policy : [Names -> Targets], keep : BOOLEAN]
    /\ MergeAnyAlgo \in BOOLEAN
    /\ {DeltaMin, MaxSaves, MaxMerges, MaxRestarts} \subseteq Nat

VARIABLES
    snaps,    \* the snapshots of the manifest, each with its pack
    retained, \* retained_base: a snapshot's id and bytes, by name
    config,   \* this process's compression, save_dtype, keep_base_in_memory
    nextId,
    budget

vars == <<snaps, retained, config, nextId, budget>>

-----------------------------------------------------------------------------
(***************************************************************************)
(* Casts.  A wide element is two bytes, <<hi, lo>>, of value 2 hi + lo.    *)
(* "half" keeps its upper byte, as bf16 does of a float32.  "quant" keeps  *)
(* one byte, the multiple of a scale chosen from the tensor's largest      *)
(* value, as the float8 formats do.                                        *)
(***************************************************************************)
ElementSize(dtype) == IF dtype = "wide" THEN 2 ELSE 1

Element(data, i) == 2 * data[2 * i - 1] + data[2 * i]

Scale(data) ==
    LET values == {Element(data, i) : i \in 1 .. Count(data, 2)}
        above == {v \in values : v > 0}
    IN IF above = {} THEN 1 ELSE CHOOSE v \in above : \A w \in above : w <= v

\* The casts refuse data that ends within an element.
Castable(tensor, target) ==
    target = "none" \/ tensor.dtype # "wide" \/ Len(tensor.data) % 2 = 0

\* cast_tensor: what is stored of a tensor whose rule is target.
Cast(tensor, target) ==
    LET data == tensor.data
        elements == 1 .. Count(data, 2)
        scale == Scale(data)
    IN IF target = "none" \/ tensor.dtype # "wide"
         THEN [bytes |-> data, dtype |-> tensor.dtype, scale |-> 0]
       ELSE IF target = "half"
         THEN [bytes |-> [i \in elements |-> data[2 * i - 1]], dtype |-> "half", scale |-> 0]
       ELSE [bytes |-> [i \in elements |-> (2 * Element(data, i) + scale) \div (2 * scale)],
             dtype |-> "quant", scale |-> scale]

\* uncast_tensor: what a load returns of stored bytes.
Uncast(bytes, dtype, scale) ==
    IF dtype \notin Targets THEN bytes ELSE
    [p \in 1 .. 2 * Len(bytes) |->
        LET byte == bytes[(p + 1) \div 2] IN
        IF dtype = "half" THEN (IF p % 2 = 1 THEN byte ELSE 0)
        ELSE IF p % 2 = 1 THEN (byte * scale) \div 2 ELSE (byte * scale) % 2]

-----------------------------------------------------------------------------
(***************************************************************************)
(* Entries and snapshots.  An entry's `hash' is hash_raw with the bytes in *)
(* place of their hash, `blob' its bytes in the pack.                      *)
(***************************************************************************)
Entry(storage, cast, dtype) ==
    [storage |-> storage, dtype |-> cast.dtype, original |-> dtype, scale |-> cast.scale,
     hash |-> cast.bytes, blob |-> <<>>, shuffled |-> FALSE, alias |-> "none"]

Fulls == {s \in snaps : s.base = NoBase}
Deltas(full) == {s \in snaps : s.base = full.id}
Latest(set) == {s \in set : \A t \in set : t.id <= s.id}
Bases(s) == {b \in snaps : b.id = s.base}

\* A base's entry is read where it is, alias or not: before aliases in bases were followed.
HolderUnfollowed(entries, name) ==
    {n \in {name} \cap DOMAIN entries : entries[n].storage # "alias"}

\* resolve_base_entry, base_tensor_data: the entry that holds the bytes of a
\* name in a base, one hop behind an alias. (The code follows up to eight, for
\* manifests written by something else.)
Holder(entries, name) ==
    LET at == {name} \cap DOMAIN entries
        hops == {IF entries[n].storage = "alias" THEN entries[n].alias ELSE n : n \in at}
    IN {n \in hops \cap DOMAIN entries : entries[n].storage # "alias"}

-----------------------------------------------------------------------------
(***************************************************************************)
(* Decoding.                                                               *)
(***************************************************************************)
DecodeFull(entry, algo) == IF entry.storage = "full" THEN Decompress(entry.blob, algo) ELSE {}

BaseBytes(base, name, algo) ==
    UNION {DecodeFull(base.entries[h], algo) : h \in Holder(base.entries, name)}

DecodeDelta(entry, algo) ==
    {IF entry.shuffled THEN Unshuffle(d, ElementSize(entry.dtype)) ELSE d :
        d \in Decompress(entry.blob, algo)}

\* The raw bytes of an entry whose pack is read with algo, over its base's bytes.
RawBytes(entry, algo, base) ==
    IF entry.storage = "delta"
      THEN UNION {ApplyDelta(b, d) : b \in base, d \in DecodeDelta(entry, algo)}
    ELSE IF entry.storage = "skipped" THEN base
    ELSE DecodeFull(entry, algo)

\* load_tensor, with the check of a delta's hash. Each pack is read with the
\* algorithm its snapshot names.
LoadTensor(s, name) ==
    LET entry == s.entries[name]
        base == UNION {BaseBytes(b, name, b.algo) : b \in Bases(s)}
        raw == {r \in RawBytes(entry, s.algo, base) : entry.storage = "delta" => r = entry.hash}
    IN  {Uncast(r, entry.dtype, entry.scale) : r \in raw}

\* load_in_pool, whose second pass resolves the aliases.
Load(s, name) ==
    IF s.entries[name].storage = "alias" THEN LoadTensor(s, s.entries[name].alias)
    ELSE LoadTensor(s, name)

-----------------------------------------------------------------------------
(***************************************************************************)
(* Encoding.                                                               *)
(***************************************************************************)
Large(tensor) == Len(tensor.data) >= DeltaMin

\* dedup_plan: of equal tensors the first is stored. Which is first changes with
\* the order of the state dict: any of them.
Twins(state, name) == {name} \cup {n \in DOMAIN state : state[n] = state[name] /\ Large(state[name])}

Owners(state) ==
    {o \in [DOMAIN state -> DOMAIN state] :
        \A n \in DOMAIN state : o[n] \in Twins(state, n) /\ \A m \in Twins(state, n) : o[m] = o[n]}

\* BaseCache::base_bytes: from memory when they are retained, else from the pack.
CachedBytes(base, name) ==
    IF retained.id = base.id /\ name \in DOMAIN retained.bytes THEN {retained.bytes[name]}
    ELSE DecodeFull(base.entries[name], base.algo)

\* The two tests of process_tensor against the base's entry of the same name.
Unchanged(bases, name, cast) ==
    \E b \in bases : name \in DOMAIN b.entries /\ b.entries[name].hash = cast.bytes

MayDiff(bases, name, cast) ==
    /\ Len(cast.bytes) >= DeltaMin
    /\ \E b \in bases :
        /\ name \in DOMAIN b.entries
        /\ b.entries[name].storage = "full"
        /\ Len(b.entries[name].hash) = Len(cast.bytes)

FullEntry(cast, dtype) ==
    [Entry("full", cast, dtype) EXCEPT !.blob = Compress(cast.bytes, config.algo)]

\* The delta is shuffled and its entry does not say so.
DeltaEntryUnmarked(cast, dtype, bytes) ==
    LET width == ElementSize(cast.dtype)
        xor == Xor(bytes, cast.bytes)
    IN [Entry("delta", cast, dtype) EXCEPT
            !.blob = Compress(IF width > 1 THEN Shuffle(xor, width) ELSE xor, config.algo)]

\* compute_delta, shuffle, compress. bytes are the base's, of one length with cast's.
DeltaEntry(cast, dtype, bytes) ==
    LET width == ElementSize(cast.dtype)
        xor == Xor(bytes, cast.bytes)
    IN [Entry("delta", cast, dtype) EXCEPT
            !.shuffled = width > 1,
            !.blob = Compress(IF width > 1 THEN Shuffle(xor, width) ELSE xor, config.algo)]

\* process_tensor. worth is the verdict of pays_off, which compares sizes.
Process(bases, name, tensor, worth) ==
    LET cast == Cast(tensor, config.policy[name])
        held == UNION {CachedBytes(b, name) : b \in bases}
        diffs == {bytes \in held : Len(bytes) = Len(cast.bytes) /\ bytes # cast.bytes}
    IN  IF ~Castable(tensor, config.policy[name]) THEN {}
        ELSE IF Unchanged(bases, name, cast) THEN {Entry("skipped", cast, tensor.dtype)}
        ELSE IF ~MayDiff(bases, name, cast) \/ ~worth THEN {FullEntry(cast, tensor.dtype)}
        ELSE IF held = {} THEN {}
        ELSE IF diffs = {} THEN {FullEntry(cast, tensor.dtype)}
        ELSE {DeltaEntry(cast, tensor.dtype, bytes) : bytes \in diffs}

\* make_alias_entry: everything but the name and the shape is the target's.
AliasEntry(target, owner) ==
    [target EXCEPT !.storage = "alias", !.alias = owner, !.blob = <<>>, !.shuffled = FALSE]

\* save_rank_tensors: the entries of a save, none if a tensor cannot be cast or
\* its base not be read.
Encoded(bases, state, owner, worth) ==
    LET stored == {n \in DOMAIN state : owner[n] = n}
        made == [n \in stored |-> Process(bases, n, state[n], worth[n])]
    IN  IF \E n \in stored : made[n] = {} THEN {}
        ELSE LET entry == [n \in stored |-> CHOOSE e \in made[n] : TRUE]
             IN {[n \in DOMAIN state |->
                    IF n \in stored THEN entry[n] ELSE AliasEntry(entry[owner[n]], owner[n])]}

\* Cast tensors are retained as well: as they arrived, not as they are stored.
RetainableCast(entries) == {n \in DOMAIN entries : entries[n].storage = "full"}

\* retain_base: what is on disk as it arrived.
Retainable(entries) ==
    {n \in DOMAIN entries : entries[n].storage = "full" /\ entries[n].original = entries[n].dtype}

Retains(id, entries, state) ==
    retained' = IF config.keep THEN [id |-> id, bytes |-> [n \in Retainable(entries) |-> state[n].data]]
                ELSE retained

-----------------------------------------------------------------------------
NothingRetained == [id |-> NoBase, bytes |-> <<>>]

Init ==
    /\ snaps = {}
    /\ retained = NothingRetained
    /\ config \in Configs
    /\ nextId = 1
    /\ budget = [save |-> MaxSaves, merge |-> MaxMerges, restart |-> MaxRestarts]

\* save_rank_tensors and the record of the snapshot. state and rules are the
\* history the properties compare with: what was saved, under which policy.
Save(bases, baseId) ==
    /\ budget.save > 0
    /\ budget' = [budget EXCEPT !.save = @ - 1]
    /\ \E names \in (SUBSET Names) \ {{}} :
       \E state \in [names -> Tensors], worth \in [names -> BOOLEAN] :
       \E owner \in Owners(state) :
       \E entries \in Encoded(bases, state, owner, worth) :
        /\ snaps' = snaps \cup
            {[id |-> nextId, base |-> baseId, algo |-> config.algo, entries |-> entries,
              state |-> state, rules |-> config.policy]}
        /\ IF bases = {} THEN Retains(nextId, entries, state) ELSE UNCHANGED retained
    /\ nextId' = nextId + 1
    /\ UNCHANGED config

SaveFull == Save({}, NoBase)
SaveDelta == \E full \in Latest(Fulls) : Save({full}, full.id)

(***************************************************************************)
(* do_full_merge_within: a new full in place of the last one and all of    *)
(* its deltas.  It walks the entries of the newest delta, and reads every  *)
(* pack with this process's own algorithm.                                 *)
(***************************************************************************)
MergedEntry(entry, base) ==
    IF entry.storage = "alias" THEN {entry}
    ELSE {[entry EXCEPT !.storage = "full", !.shuffled = FALSE, !.hash = raw,
                        !.blob = Compress(raw, config.algo)] :
            raw \in RawBytes(entry, config.algo, base)}

\* The base's list decides which tensors exist, as it did until 0.0.6.
WalkedBase(full, newest) == full

\* The newest delta's list decides.
Walked(full, newest) == newest

Merge(full, newest) ==
    LET walked == Walked(full, newest).entries
        made == [n \in DOMAIN walked |->
                    MergedEntry(walked[n], BaseBytes(full, n, config.algo))]
    IN  /\ budget.merge > 0
        /\ MergeAnyAlgo \/ (full.algo = config.algo /\ newest.algo = config.algo)
        /\ \A n \in DOMAIN made : made[n] # {}
        /\ snaps' = (snaps \ ({full} \cup Deltas(full))) \cup
            {[id |-> nextId, base |-> NoBase, algo |-> config.algo,
              entries |-> [n \in DOMAIN made |-> CHOOSE e \in made[n] : TRUE],
              state |-> newest.state, rules |-> newest.rules]}
        /\ nextId' = nextId + 1
        /\ budget' = [budget EXCEPT !.merge = @ - 1]
        /\ UNCHANGED <<retained, config>>

FullMerge == \E full \in Latest(Fulls) : \E newest \in Latest(Deltas(full)) : Merge(full, newest)

\* A new process over the same store, with the settings it is given.
Restart ==
    /\ budget.restart > 0
    /\ budget' = [budget EXCEPT !.restart = @ - 1]
    /\ config' \in Configs
    /\ retained' = NothingRetained
    /\ UNCHANGED <<snaps, nextId>>

Next == SaveFull \/ SaveDelta \/ FullMerge \/ Restart

Spec == Init /\ [][Next]_vars

-----------------------------------------------------------------------------
(***************************************************************************)
(* Properties.                                                             *)
(***************************************************************************)

\* What a tensor comes back as from a store that casts it to target.
Rounded(tensor, target) ==
    LET cast == Cast(tensor, target) IN Uncast(cast.bytes, cast.dtype, cast.scale)

\* Every snapshot loads, with the names it was saved with and no other, and each
\* tensor comes back as it was saved, up to the rounding of the target chosen for
\* it or for the tensor it shares its bytes with: across aliases whose owner
\* changes, skips, deltas, merges and changes of algorithm and policy.
LoadIsFaithful ==
    \A s \in snaps :
        /\ DOMAIN s.entries = DOMAIN s.state
        /\ \A n \in DOMAIN s.state :
            \E m \in Twins(s.state, n) : Load(s, n) = {Rounded(s.state[n], s.rules[m])}

\* What is retained of a full is what its pack holds: a delta computed against
\* memory is a delta against the base a load will read.
RetainedIsBase ==
    \A s \in snaps :
        s.id = retained.id =>
            \A n \in DOMAIN retained.bytes :
                DecodeFull(s.entries[n], s.algo) = {retained.bytes[n]}

\* A merge stands in for the newest delta: it loads the same names with the same
\* values.
MergeStandsIn ==
    [][snaps \subseteq snaps' \/
       \A s \in snaps' \ snaps, full \in Latest(Fulls) : \A newest \in Latest(Deltas(full)) :
        /\ DOMAIN s.entries = DOMAIN newest.entries
        /\ \A n \in DOMAIN s.entries : Load(s, n)' = Load(newest, n)]_vars

=============================================================================
