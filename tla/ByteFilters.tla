---------------------------- MODULE ByteFilters ----------------------------
(***************************************************************************)
(* What the pipeline does to bytes: the XOR delta of delta.rs, the byte    *)
(* planes of shuffle.rs, the frames of compression.rs.  XOR and the planes *)
(* never look at more than one bit or one position at a time, so a byte is *)
(* a bit here.  An operation that may fail returns the set of its results: *)
(* one, or none.                                                           *)
(***************************************************************************)
EXTENDS Integers, Sequences

Bit == {0, 1}

\* xor_bytes, for arguments of one length.
Xor(base, target) == [i \in DOMAIN base |-> (base[i] + target[i]) % 2]

ApplyDelta(base, delta) == IF Len(base) = Len(delta) THEN {Xor(base, delta)} ELSE {}

(***************************************************************************)
(* shuffle puts byte `plane' of element i at plane * count + i, unshuffle  *)
(* takes it back from there; a trailing partial element stays.  Positions  *)
(* are 1-based here, 0-based in the code.                                  *)
(***************************************************************************)
Count(data, itemsize) == Len(data) \div itemsize

Shuffle(data, itemsize) ==
    IF itemsize <= 1 \/ Count(data, itemsize) = 0 THEN data ELSE
    LET count == Count(data, itemsize) IN
    [p \in DOMAIN data |->
        IF p > count * itemsize THEN data[p]
        ELSE data[((p - 1) % count) * itemsize + ((p - 1) \div count) + 1]]

Unshuffle(data, itemsize) ==
    IF itemsize <= 1 \/ Count(data, itemsize) = 0 THEN data ELSE
    LET count == Count(data, itemsize) IN
    [p \in DOMAIN data |->
        IF p > count * itemsize THEN data[p]
        ELSE data[((p - 1) % itemsize) * count + ((p - 1) \div itemsize) + 1]]

(***************************************************************************)
(* A frame starts with a magic number and is as opaque as its content;     *)
(* that it is shorter is left out.  Read with the algorithm "none" it is   *)
(* returned as it is, magic and all.  What does not start with the magic   *)
(* is no frame and an error for zstd.                                      *)
(***************************************************************************)
Algos == {"none", "zstd"}
Magic == 2

Compress(data, algo) == IF algo = "zstd" THEN <<Magic>> \o data ELSE data

Decompress(blob, algo) ==
    IF algo = "none" \/ blob = <<>> THEN {blob}
    ELSE IF Head(blob) = Magic THEN {Tail(blob)} ELSE {}

=============================================================================
