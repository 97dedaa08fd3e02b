------------------------ MODULE TensorPipelineProofs ------------------------
(***************************************************************************)
(* Whatever is saved, for any tensors, names and settings, is what a load  *)
(* returns, as long as merges meet only their own algorithm.               *)
(***************************************************************************)
EXTENDS TensorPipelineInv, TLAPS

-----------------------------------------------------------------------------
(* Every filter is undone by its inverse, for tensors of any length and    *)
(* elements of any width.                                                  *)

\* Division of a position by a width: what shuffle.rs does with i, plane and itemsize.
LEMMA DivMod ==
    ASSUME NEW a \in Nat, NEW k \in Nat \ {0}
    PROVE  /\ a = k * (a \div k) + (a % k)
           /\ a % k \in 0 .. (k - 1)
           /\ a \div k \in Nat
  BY SMT

\* A quotient and a rest are those of one number only.
LEMMA Recompose ==
    ASSUME NEW q \in Nat, NEW k \in Nat, NEW r \in 0 .. (k - 1)
    PROVE  /\ (q * k + r) \div k = q
           /\ (q * k + r) % k = r
  BY SMT

\* Multiplication by a width is monotonic.
LEMMA Steps ==
    ASSUME NEW q \in Nat, NEW p \in Nat, NEW k \in Nat, q < p
    PROVE  q * k + k <= p * k
  BY SMT

\* A position of the transposed part, taken to its row and column, stays inside it.
LEMMA Transposed ==
    ASSUME NEW rows \in Nat \ {0}, NEW cols \in Nat \ {0}, NEW a \in 0 .. (rows * cols - 1)
    PROVE  /\ a \div cols \in 0 .. (rows - 1)
           /\ a % cols \in 0 .. (cols - 1)
           /\ a = (a \div cols) * cols + (a % cols)
           /\ (a % cols) * rows + (a \div cols) \in 0 .. (rows * cols - 1)
  <1> DEFINE q == a \div cols
             r == a % cols
  <1>1. rows * cols \in Nat
    BY SMT
  <1>2. a \in Nat
    BY <1>1, SMT
  <1>3. a = cols * q + r /\ r \in 0 .. (cols - 1) /\ q \in Nat
    BY <1>2, DivMod
  <1>4. cols * q = q * cols
    BY <1>3, SMT
  <1>5. q < rows
    <2>1. SUFFICES ASSUME ~(q < rows) PROVE FALSE
      OBVIOUS
    <2>2. rows * cols <= q * cols
      BY <2>1, <1>3, SMT
    <2> QED BY <2>2, <1>1, <1>2, <1>3, <1>4, SMT
  <1>6. r * rows + rows <= cols * rows
    BY <1>3, Steps
  <1>7. cols * rows = rows * cols /\ r * rows \in Nat
    BY <1>3, SMT
  <1> QED
    BY <1>1, <1>3, <1>4, <1>5, <1>6, <1>7, SMT

-----------------------------------------------------------------------------
(***************************************************************************)
(* Sequences given by a function on the positions of another.              *)
(***************************************************************************)
LEMMA SameLength ==
    ASSUME NEW S, NEW s \in Seq(S), NEW t, t = [i \in DOMAIN s |-> t[i]],
           \A i \in DOMAIN s : t[i] \in S
    PROVE  t \in Seq(S) /\ Len(t) = Len(s) /\ DOMAIN t = 1 .. Len(s)
  <1>1. DOMAIN s = 1 .. Len(s) /\ Len(s) \in Nat
    OBVIOUS
  <1>2. t \in [1 .. Len(s) -> S]
    BY <1>1
  <1> QED
    BY <1>1, <1>2, SMT

\* As many elements as fit, and they fit.
LEMMA CountFits ==
    ASSUME NEW S, NEW data \in Seq(S), NEW k \in Nat, ~(k <= 1 \/ Count(data, k) = 0)
    PROVE  /\ k \in Nat \ {0}
           /\ Count(data, k) \in Nat \ {0}
           /\ Count(data, k) * k \in Nat
           /\ Count(data, k) * k <= Len(data)
  <1>1. Len(data) \in Nat /\ k \in Nat \ {0}
    BY SMT
  <1>2. /\ Len(data) = k * Count(data, k) + (Len(data) % k)
        /\ Len(data) % k \in 0 .. (k - 1)
        /\ Count(data, k) \in Nat
    BY <1>1, DivMod DEF Count
  <1>3. k * Count(data, k) = Count(data, k) * k /\ Count(data, k) * k \in Nat
    BY <1>1, <1>2, SMT
  <1> QED
    BY <1>1, <1>2, <1>3, SMT

\* shuffle keeps the length and the alphabet.
LEMMA ShuffleType ==
    ASSUME NEW S, NEW data \in Seq(S), NEW k \in Nat
    PROVE  Shuffle(data, k) \in Seq(S) /\ Len(Shuffle(data, k)) = Len(data)
  <1>1. CASE k <= 1 \/ Count(data, k) = 0
    BY <1>1 DEF Shuffle
  <1>2. CASE ~(k <= 1 \/ Count(data, k) = 0)
    <2> DEFINE count == Count(data, k)
               from(p) == ((p - 1) % count) * k + ((p - 1) \div count) + 1
    <2>1. /\ k \in Nat \ {0} /\ count \in Nat \ {0}
          /\ count * k \in Nat /\ count * k <= Len(data)
      BY <1>2, CountFits
    <2>2. Shuffle(data, k) =
            [p \in DOMAIN data |-> IF p > count * k THEN data[p] ELSE data[from(p)]]
      BY <1>2 DEF Shuffle
    <2>3. ASSUME NEW p \in DOMAIN data, ~(p > count * k)
          PROVE  data[from(p)] \in S
      <3> HIDE DEF count
      <3>1. k * count = count * k
        BY <2>1, SMT
      <3>2. p - 1 \in 0 .. (k * count - 1)
        BY <2>1, <2>3, <3>1, SMT
      <3>3. ((p - 1) % count) * k + ((p - 1) \div count) \in 0 .. (k * count - 1)
        BY <2>1, <3>2, Transposed
      <3>4. from(p) \in 1 .. Len(data)
        BY <2>1, <3>1, <3>3, SMT
      <3> QED
        BY <3>4
    <2>4. \A p \in DOMAIN data : Shuffle(data, k)[p] \in S
      BY <2>2, <2>3
    <2> QED
      BY <2>2, <2>4, SameLength
  <1> QED
    BY <1>1, <1>2

\* unshuffle undoes shuffle: whatever the width, and with a partial element at the end.
THEOREM UnshuffleInverts ==
    ASSUME NEW S, NEW data \in Seq(S), NEW k \in Nat
    PROVE  Unshuffle(Shuffle(data, k), k) = data
  <1> DEFINE planes == Shuffle(data, k)
  <1>1. planes \in Seq(S) /\ Len(planes) = Len(data)
    BY ShuffleType
  <1>2. Count(planes, k) = Count(data, k)
    BY <1>1 DEF Count
  <1>3. CASE k <= 1 \/ Count(data, k) = 0
    BY <1>2, <1>3 DEF Shuffle, Unshuffle
  <1>4. CASE ~(k <= 1 \/ Count(data, k) = 0)
    <2> DEFINE count == Count(data, k)
               from(p) == ((p - 1) % count) * k + ((p - 1) \div count) + 1
               back(p) == ((p - 1) % k) * count + ((p - 1) \div k) + 1
    <2>1. /\ k \in Nat \ {0} /\ count \in Nat \ {0}
          /\ count * k \in Nat /\ count * k <= Len(data)
      BY <1>4, CountFits
    <2>2. planes = [p \in DOMAIN data |-> IF p > count * k THEN data[p] ELSE data[from(p)]]
      BY <1>4 DEF Shuffle
    <2>3. Unshuffle(planes, k) =
            [p \in DOMAIN planes |-> IF p > count * k THEN planes[p] ELSE planes[back(p)]]
      BY <1>2, <1>4 DEF Unshuffle
    <2> HIDE DEF planes, count
    <2>4. DOMAIN planes = DOMAIN data /\ DOMAIN data = 1 .. Len(data) /\ Len(data) \in Nat
      BY <1>1
    <2>5. ASSUME NEW p \in DOMAIN data, ~(p > count * k)
          PROVE  planes[back(p)] = data[p]
      <3> DEFINE row == (p - 1) \div k
                 col == (p - 1) % k
      <3>1. p - 1 \in 0 .. (count * k - 1)
        BY <2>1, <2>4, <2>5, SMT
      <3>2. /\ row \in 0 .. (count - 1)
            /\ col \in 0 .. (k - 1)
            /\ p - 1 = row * k + col
            /\ col * count + row \in 0 .. (count * k - 1)
        BY <2>1, <3>1, Transposed
      <3>3. back(p) = col * count + row + 1
        OBVIOUS
      <3> HIDE DEF row, col, back
      <3>4. /\ back(p) - 1 = col * count + row
            /\ back(p) \in DOMAIN data
            /\ ~(back(p) > count * k)
        BY <2>1, <2>4, <3>2, <3>3, SMT
      <3>5. /\ (col * count + row) \div count = col
            /\ (col * count + row) % count = row
        <4>1. col \in Nat /\ count \in Nat /\ row \in 0 .. (count - 1)
          BY <2>1, <3>2, SMT
        <4> QED
          BY <4>1, Recompose
      <3>6. from(back(p)) = row * k + col + 1
        BY <3>4, <3>5
      <3>7. planes[back(p)] = data[from(back(p))]
        BY <2>2, <3>4
      <3>8. row * k + col + 1 = p
        BY <2>1, <2>4, <3>2, SMT
      <3> QED
        BY <3>6, <3>7, <3>8
    <2>6. ASSUME NEW p \in DOMAIN data
          PROVE  Unshuffle(planes, k)[p] = data[p]
      BY <2>2, <2>3, <2>4, <2>5
    <2>7. Unshuffle(planes, k) = [p \in DOMAIN data |-> Unshuffle(planes, k)[p]]
      BY <2>3, <2>4
    <2>8. data = [p \in DOMAIN data |-> data[p]]
      OBVIOUS
    <2> QED
      BY <2>6, <2>7, <2>8 DEF planes
  <1> QED
    BY <1>3, <1>4

-----------------------------------------------------------------------------
\* The delta of two tensors of one length is a tensor of that length.
LEMMA XorType ==
    ASSUME NEW base \in Seq(Bit), NEW target \in Seq(Bit), Len(base) = Len(target)
    PROVE  Xor(base, target) \in Seq(Bit) /\ Len(Xor(base, target)) = Len(base)
  <1>1. DOMAIN base = 1 .. Len(base) /\ DOMAIN target = 1 .. Len(base)
    OBVIOUS
  <1>2. \A i \in DOMAIN base : Xor(base, target)[i] \in Bit
    <2> SUFFICES ASSUME NEW i \in DOMAIN base PROVE Xor(base, target)[i] \in Bit
      OBVIOUS
    <2>1. base[i] \in {0, 1} /\ target[i] \in {0, 1}
      BY <1>1 DEF Bit
    <2> QED
      BY <2>1, SMT DEF Xor, Bit
  <1>3. Xor(base, target) = [i \in DOMAIN base |-> Xor(base, target)[i]]
    BY DEF Xor
  <1> QED
    BY <1>2, <1>3, SameLength

\* apply_delta of compute_delta gives the target back.
THEOREM DeltaInverts ==
    ASSUME NEW base \in Seq(Bit), NEW target \in Seq(Bit), Len(base) = Len(target)
    PROVE  ApplyDelta(base, Xor(base, target)) = {target}
  <1> DEFINE delta == Xor(base, target)
  <1>1. delta \in Seq(Bit) /\ Len(delta) = Len(base)
    BY XorType
  <1>2. DOMAIN base = 1 .. Len(base) /\ DOMAIN target = 1 .. Len(base)
    OBVIOUS
  <1>3. ASSUME NEW i \in DOMAIN base PROVE Xor(base, delta)[i] = target[i]
    <2>1. base[i] \in {0, 1} /\ target[i] \in {0, 1}
      BY <1>2 DEF Bit
    <2>2. Xor(base, delta)[i] = (base[i] + ((base[i] + target[i]) % 2)) % 2
      BY DEF Xor
    <2> QED
      BY <2>1, <2>2, SMT
  <1>4. Xor(base, delta) = [i \in DOMAIN base |-> Xor(base, delta)[i]]
    BY DEF Xor
  <1>5. target = [i \in DOMAIN base |-> target[i]]
    BY <1>2
  <1>6. Xor(base, delta) = target
    BY <1>3, <1>4, <1>5
  <1> QED
    BY <1>1, <1>6 DEF ApplyDelta

\* What was compressed with an algorithm is read back with that algorithm.
THEOREM FrameInverts ==
    ASSUME NEW data \in Seq(Bit), NEW algo \in Algos
    PROVE  Decompress(Compress(data, algo), algo) = {data}
  <1>1. CASE algo = "none"
    BY <1>1 DEF Compress, Decompress
  <1>2. CASE algo = "zstd"
    <2> DEFINE frame == <<Magic>> \o data
    <2>1. <<Magic>> \in Seq(Nat) /\ data \in Seq(Nat)
      BY DEF Magic, Bit
    <2>2. frame # <<>> /\ Head(frame) = Magic /\ Tail(frame) = data
      BY <2>1, SMT
    <2> QED
      BY <1>2, <2>2 DEF Compress, Decompress
  <1> QED
    BY <1>1, <1>2 DEF Algos

-----------------------------------------------------------------------------
(***************************************************************************)
(* Casts give bytes.                                                       *)
(***************************************************************************)

\* A wide element is a number of two bits.
LEMMA ElementType ==
    ASSUME NEW data \in Seq(Bit), NEW i \in 1 .. Count(data, 2)
    PROVE  /\ Element(data, i) \in 0 .. 3
           /\ data[2 * i - 1] \in Bit
  <1>1. Len(data) \in Nat
    OBVIOUS
  <1>2. 2 * Count(data, 2) <= Len(data) /\ Count(data, 2) \in Nat
    <2> DEFINE length == Len(data)
    <2> HIDE DEF length
    <2>1. length \in Nat
      BY <1>1 DEF length
    <2>2. 2 * (length \div 2) <= length /\ length \div 2 \in Nat
      BY <2>1, SMT
    <2> QED
      BY <2>2 DEF Count, length
  <1>3. 2 * i - 1 \in 1 .. Len(data) /\ 2 * i \in 1 .. Len(data)
    BY <1>1, <1>2, SMT
  <1>4. data[2 * i - 1] \in {0, 1} /\ data[2 * i] \in {0, 1}
    BY <1>3 DEF Bit
  <1> QED
    BY <1>4, SMT DEF Element, Bit

\* The scale is the largest element, or 1 for a tensor of zeros.
LEMMA ScaleType ==
    ASSUME NEW data \in Seq(Bit)
    PROVE  /\ Scale(data) \in 1 .. 3
           /\ \A i \in 1 .. Count(data, 2) : Element(data, i) <= Scale(data)
  <1> DEFINE values == {Element(data, i) : i \in 1 .. Count(data, 2)}
             above == {v \in values : v > 0}
  <1>1. values \subseteq 0 .. 3
    BY ElementType
  <1>2. above \subseteq 1 .. 3
    BY <1>1, SMT
  <1>3. CASE above = {}
    <2>1. Scale(data) = 1
      BY <1>3 DEF Scale
    <2>2. \A v \in values : v <= 1
      BY <1>1, <1>3, SMT
    <2> QED
      BY <2>1, <2>2
  <1>4. CASE above # {}
    <2> HIDE DEF values
    <2>1. \E v \in above : \A w \in above : w <= v
      BY <1>2, <1>4, SMT
    <2>2. Scale(data) = CHOOSE v \in above : \A w \in above : w <= v
      BY <1>4 DEF Scale, values
    <2>3. Scale(data) \in above /\ \A w \in above : w <= Scale(data)
      BY <2>1, <2>2
    <2>4. Scale(data) \in 1 .. 3
      BY <1>2, <2>3
    <2>5. \A v \in values : v <= Scale(data)
      BY <1>1, <2>3, <2>4, SMT
    <2> QED
      BY <2>4, <2>5 DEF values
  <1> QED
    BY <1>3, <1>4

\* What is stored of a tensor is bytes, and unless its dtype changes its own bytes.
LEMMA CastType ==
    ASSUME NEW tensor \in [dtype : DTypes, data : Seq(Bit)], NEW target \in Targets
    PROVE  /\ Cast(tensor, target).bytes \in Seq(Bit)
           /\ Cast(tensor, target).dtype = tensor.dtype => Cast(tensor, target).bytes = tensor.data
  <1> DEFINE data == tensor.data
             count == Count(data, 2)
             scale == Scale(data)
  <1>0. data \in Seq(Bit) /\ tensor.dtype \in DTypes
    OBVIOUS
  <1>1. CASE target = "none" \/ tensor.dtype # "wide"
    BY <1>0, <1>1 DEF Cast
  <1>2. CASE target = "half" /\ tensor.dtype = "wide"
    <2>1. /\ Cast(tensor, target).bytes = [i \in 1 .. count |-> data[2 * i - 1]]
          /\ Cast(tensor, target).dtype = "half"
      BY <1>2 DEF Cast
    <2>2. [i \in 1 .. count |-> data[2 * i - 1]] \in [1 .. count -> Bit]
      BY <1>0, ElementType
    <2>3. count \in Nat
      BY <1>0, DivMod DEF Count
    <2>4. Cast(tensor, target).bytes \in Seq(Bit)
      <3> HIDE DEF count
      <3>1. \A f \in [1 .. count -> Bit] : f \in Seq(Bit)
        BY <2>3
      <3> QED
        BY <2>1, <2>2, <3>1
    <2> QED
      BY <1>2, <2>1, <2>4
  <1>3. CASE target = "quant" /\ tensor.dtype = "wide"
    <2> DEFINE byte(i) == (2 * Element(data, i) + scale) \div (2 * scale)
    <2>1. /\ Cast(tensor, target).bytes = [i \in 1 .. count |-> byte(i)]
          /\ Cast(tensor, target).dtype = "quant"
      BY <1>3 DEF Cast
    <2>2. ASSUME NEW i \in 1 .. count PROVE byte(i) \in Bit
      <3>1. Element(data, i) \in 0 .. 3
        BY <1>0, ElementType
      <3>2. scale \in 1 .. 3 /\ Element(data, i) <= scale
        BY <1>0, ScaleType
      <3> HIDE DEF scale
      <3>3. byte(i) \in {0, 1}
        BY <3>1, <3>2, SMT
      <3> QED
        BY <3>3 DEF Bit
    <2>3. [i \in 1 .. count |-> byte(i)] \in [1 .. count -> Bit]
      BY <2>2
    <2>4. count \in Nat
      BY <1>0, DivMod DEF Count
    <2>5. Cast(tensor, target).bytes \in Seq(Bit)
      BY <2>1, <2>3, <2>4
    <2> QED
      BY <1>3, <2>1, <2>5
  <1> QED
    BY <1>0, <1>1, <1>2, <1>3 DEF Targets

-----------------------------------------------------------------------------
(***************************************************************************)
(* Reading.                                                                *)
(***************************************************************************)

\* A sound snapshot has an entry for every name of its state, and its tensors are bytes.
LEMMA WantedType ==
    ASSUME NEW s, SnapSound(s), NEW n \in DOMAIN s.state
    PROVE  /\ Wanted(s, n).bytes \in Seq(Bit)
           /\ s.state[n] \in [dtype : DTypes, data : Seq(Bit)]
           /\ s.rules[n] \in Targets
           /\ DOMAIN s.entries = DOMAIN s.state
  <1>1. s.state[n] \in Tensors /\ s.rules[n] \in Targets
    BY DEF SnapSound
  <1>2. s.state[n] \in [dtype : DTypes, data : Seq(Bit)]
    BY <1>1, TensorAssumption DEF TensorAssumption
  <1>3. DOMAIN s.entries = DOMAIN s.state
    BY DEF SnapSound
  <1> QED
    BY <1>1, <1>2, <1>3, CastType DEF Wanted

\* What a snapshot holds in full is in its pack, compressed with its algorithm.
LEMMA HeldDecodes ==
    ASSUME NEW b, SnapSound(b), NEW name, NEW bytes, HeldBy(b, name, bytes)
    PROVE  /\ bytes \in Seq(Bit)
           /\ DecodeFull(b.entries[name], b.algo) = {bytes}
           /\ name \in DOMAIN b.state
  <1>1. name \in DOMAIN b.state
    BY DEF SnapSound, HeldBy
  <1>2. StoredSound(b, name)
    BY <1>1 DEF SnapSound, HeldBy, AliasSound
  <1>3. /\ b.entries[name].storage = "full"
        /\ b.entries[name].hash = bytes
        /\ bytes = Wanted(b, name).bytes
        /\ b.entries[name].blob = Compress(bytes, b.algo)
    BY <1>2 DEF StoredSound, HeldBy
  <1>4. bytes \in Seq(Bit) /\ b.algo \in Algos
    <2>1. bytes \in Seq(Bit)
      BY <1>1, <1>3, WantedType
    <2>2. b.algo \in Algos
      BY DEF SnapSound
    <2> QED
      BY <2>1, <2>2
  <1>5. Decompress(Compress(bytes, b.algo), b.algo) = {bytes}
    BY <1>4, FrameInverts
  <1> QED
    BY <1>1, <1>3, <1>4, <1>5 DEF DecodeFull

\* A base gives the bytes it knows of, under the name or behind its alias.
LEMMA BaseGives ==
    ASSUME NEW b, SnapSound(b), NEW name, NEW bytes, KnownTo(b, name, bytes)
    PROVE  BaseBytes(b, name, b.algo) = {bytes} /\ bytes \in Seq(Bit)
  <1>1. ASSUME NEW h, HeldBy(b, h, bytes), Holder(b.entries, name) = {h}
        PROVE  BaseBytes(b, name, b.algo) = {bytes} /\ bytes \in Seq(Bit)
    <2>1. DecodeFull(b.entries[h], b.algo) = {bytes} /\ bytes \in Seq(Bit)
      BY <1>1, HeldDecodes
    <2> QED
      BY <1>1, <2>1 DEF BaseBytes
  <1>2. CASE HeldBy(b, name, bytes)
    <2>1. Holder(b.entries, name) = {name}
      BY <1>2 DEF Holder, HeldBy
    <2> QED
      BY <1>1, <1>2, <2>1
  <1>3. CASE /\ name \in DOMAIN b.entries
             /\ b.entries[name].storage = "alias"
             /\ HeldBy(b, b.entries[name].alias, bytes)
    <2>1. Holder(b.entries, name) = {b.entries[name].alias}
      BY <1>3 DEF Holder, HeldBy
    <2> QED
      BY <1>1, <1>3, <2>1
  <1> QED
    BY <1>2, <1>3 DEF KnownTo

\* The blob of a delta, decoded and applied to its base, is the target.
LEMMA DeltaDecodes ==
    ASSUME NEW base \in Seq(Bit), NEW target \in Seq(Bit), Len(base) = Len(target),
           NEW algo \in Algos, NEW entry,
           entry.shuffled = (ElementSize(entry.dtype) > 1),
           entry.blob = Compress(StoredDelta(ElementSize(entry.dtype), base, target), algo)
    PROVE  UNION {ApplyDelta(b, d) : b \in {base}, d \in DecodeDelta(entry, algo)} = {target}
  <1> DEFINE width == ElementSize(entry.dtype)
             xor == Xor(base, target)
             stored == StoredDelta(width, base, target)
  <1>1. xor \in Seq(Bit) /\ width \in Nat
    BY XorType DEF ElementSize
  <1>2. stored \in Seq(Bit)
    BY <1>1, ShuffleType DEF StoredDelta
  <1>3. Decompress(entry.blob, algo) = {stored}
    BY <1>2, FrameInverts
  <1>4. (IF entry.shuffled THEN Unshuffle(stored, width) ELSE stored) = xor
    <2> HIDE DEF width, xor
    <2>1. CASE width > 1
      BY <1>1, <2>1, UnshuffleInverts DEF StoredDelta, width, xor
    <2>2. CASE ~(width > 1)
      BY <2>2 DEF StoredDelta, width, xor
    <2> QED
      BY <2>1, <2>2
  <1>5. DecodeDelta(entry, algo) = {xor}
    BY <1>3, <1>4 DEF DecodeDelta
  <1>6. ApplyDelta(base, xor) = {target}
    BY DeltaInverts
  <1> QED
    BY <1>5, <1>6

\* An entry that is no alias gives the bytes its tensor was stored as.
LEMMA RawGives ==
    ASSUME TensorInv, NEW s \in snaps, NEW n \in DOMAIN s.state, StoredSound(s, n), NEW base,
           \A b \in snaps : b.id = s.base => base = BaseBytes(b, n, b.algo)
    PROVE  RawBytes(s.entries[n], s.algo, base) = {Wanted(s, n).bytes}
  <1> DEFINE entry == s.entries[n]
             bytes == Wanted(s, n).bytes
  <1>1. SnapSound(s) /\ s.algo \in Algos
    BY DEF TensorInv, SnapSound
  <1>2. bytes \in Seq(Bit)
    BY <1>1, WantedType
  <1>3. CASE entry.storage = "full" /\ entry.blob = Compress(bytes, s.algo)
    <2>1. Decompress(entry.blob, s.algo) = {bytes}
      BY <1>1, <1>2, <1>3, FrameInverts
    <2> QED
      BY <1>3, <2>1 DEF RawBytes, DecodeFull
  <1>4. CASE entry.storage = "skipped" /\ \E b \in snaps : b.id = s.base /\ KnownTo(b, n, bytes)
    <2>1. PICK b \in snaps : b.id = s.base /\ KnownTo(b, n, bytes)
      BY <1>4
    <2>2. base = BaseBytes(b, n, b.algo) /\ SnapSound(b)
      BY <2>1 DEF TensorInv
    <2>3. base = {bytes}
      BY <2>1, <2>2, BaseGives
    <2> QED
      BY <1>4, <2>3 DEF RawBytes
  <1>5. CASE entry.storage = "delta" /\ IsDelta(s, entry, n, bytes)
    <2>1. PICK b \in snaps :
            /\ b.id = s.base
            /\ HeldBy(b, n, b.entries[n].hash)
            /\ b.entries[n].hash \in Seq(Bit)
            /\ Len(b.entries[n].hash) = Len(bytes)
            /\ entry.shuffled = (ElementSize(entry.dtype) > 1)
            /\ entry.blob =
                Compress(StoredDelta(ElementSize(entry.dtype), b.entries[n].hash, bytes), s.algo)
      BY <1>5 DEF IsDelta
    <2> DEFINE under == b.entries[n].hash
    <2>2. base = BaseBytes(b, n, b.algo) /\ SnapSound(b) /\ KnownTo(b, n, under)
      BY <2>1 DEF TensorInv, KnownTo
    <2>3. base = {under}
      BY <2>2, BaseGives
    <2>6. /\ under \in Seq(Bit) /\ Len(under) = Len(bytes)
          /\ entry.shuffled = (ElementSize(entry.dtype) > 1)
          /\ entry.blob = Compress(StoredDelta(ElementSize(entry.dtype), under, bytes), s.algo)
      BY <2>1
    <2> HIDE DEF under, bytes, entry
    <2>4. UNION {ApplyDelta(x, d) : x \in {under}, d \in DecodeDelta(entry, s.algo)} = {bytes}
      BY <1>1, <1>2, <2>6, DeltaDecodes
    <2>5. RawBytes(entry, s.algo, base) = {bytes}
      BY <1>5, <2>3, <2>4 DEF RawBytes
    <2> QED
      BY <2>5 DEF bytes, entry
  <1> QED
    BY <1>3, <1>4, <1>5 DEF StoredSound

-----------------------------------------------------------------------------
(***************************************************************************)
(* Loads.  What comes back of a name is its tensor under the rule of the   *)
(* name that holds its bytes.                                              *)
(***************************************************************************)
Holding(s, n) == IF s.entries[n].storage = "alias" THEN s.entries[n].alias ELSE n

Told(s, n) == Rounded(s.state[Holding(s, n)], s.rules[Holding(s, n)])

LoadsTold == \A s \in snaps : \A n \in DOMAIN s.state : Load(s, n) = {Told(s, n)}

\* The name that holds the bytes has the same tensor and an entry of its own.
LEMMA HoldingSound ==
    ASSUME TensorInv, NEW s \in snaps, NEW n \in DOMAIN s.state
    PROVE  /\ Holding(s, n) \in Twins(s.state, n)
           /\ Holding(s, n) \in DOMAIN s.state
           /\ s.state[Holding(s, n)] = s.state[n]
           /\ StoredSound(s, Holding(s, n))
  <1>1. \A m \in DOMAIN s.state : StoredSound(s, m) \/ AliasSound(s, m)
    BY DEF TensorInv, SnapSound
  <1>2. CASE s.entries[n].storage = "alias"
    <2>1. AliasSound(s, n)
      BY <1>1, <1>2 DEF StoredSound
    <2>2. Holding(s, n) \in Twins(s.state, n) /\ s.entries[Holding(s, n)].storage # "alias"
      BY <1>2, <2>1 DEF AliasSound, Holding
    <2>3. Holding(s, n) \in DOMAIN s.state /\ s.state[Holding(s, n)] = s.state[n]
      BY <2>2 DEF Twins
    <2> QED
      BY <1>1, <2>2, <2>3 DEF AliasSound
  <1>3. CASE s.entries[n].storage # "alias"
    BY <1>1, <1>3 DEF Holding, Twins, AliasSound
  <1> QED
    BY <1>2, <1>3

\* Every snapshot loads.
LEMMA LoadsFromInv ==
    ASSUME TensorInv PROVE LoadsTold
  <1> SUFFICES ASSUME NEW s \in snaps, NEW n \in DOMAIN s.state
               PROVE  Load(s, n) = {Told(s, n)}
    BY DEF LoadsTold
  <1> DEFINE h == Holding(s, n)
             entry == s.entries[h]
             cast == Wanted(s, h)
             base == UNION {BaseBytes(b, h, b.algo) : b \in Bases(s)}
  <1>1. h \in DOMAIN s.state /\ StoredSound(s, h)
    BY HoldingSound
  <1>2. Load(s, n) = LoadTensor(s, h)
    BY DEF Load, Holding
  <1>3. ASSUME NEW b \in snaps, b.id = s.base PROVE base = BaseBytes(b, h, b.algo)
    <2>1. Bases(s) = {b}
      BY <1>3 DEF Bases, TensorInv, IdsAreUnique
    <2> QED
      BY <2>1
  <1> HIDE DEF base, h
  <1>4. RawBytes(entry, s.algo, base) = {cast.bytes}
    BY <1>1, <1>3, RawGives
  <1>5. entry.dtype = cast.dtype /\ entry.scale = cast.scale /\ entry.hash = cast.bytes
    BY <1>1 DEF StoredSound
  <1>6. LoadTensor(s, h) = {Uncast(cast.bytes, cast.dtype, cast.scale)}
    BY <1>4, <1>5 DEF LoadTensor, base
  <1>7. Told(s, n) = Uncast(cast.bytes, cast.dtype, cast.scale)
    BY DEF Told, Rounded, Wanted, h
  <1> QED
    BY <1>2, <1>6, <1>7

\* What a load returns is what was saved, up to the rounding of a rule.
LEMMA FaithfulFromInv ==
    ASSUME TensorInv PROVE LoadIsFaithful
  <1> SUFFICES ASSUME NEW s \in snaps
               PROVE  /\ DOMAIN s.entries = DOMAIN s.state
                      /\ \A n \in DOMAIN s.state :
                            \E m \in Twins(s.state, n) :
                                Load(s, n) = {Rounded(s.state[n], s.rules[m])}
    BY DEF LoadIsFaithful
  <1>1. DOMAIN s.entries = DOMAIN s.state
    BY DEF TensorInv, SnapSound
  <1>2. ASSUME NEW n \in DOMAIN s.state
        PROVE  \E m \in Twins(s.state, n) : Load(s, n) = {Rounded(s.state[n], s.rules[m])}
    <2>1. Load(s, n) = {Told(s, n)}
      BY LoadsFromInv DEF LoadsTold
    <2> QED
      BY <2>1, HoldingSound DEF Told
  <1> QED
    BY <1>1, <1>2

\* What is retained is what the pack of its snapshot holds.
LEMMA RetainedFromInv ==
    ASSUME TensorInv PROVE RetainedIsBase
  <1> SUFFICES ASSUME NEW s \in snaps, s.id = retained.id, NEW n \in DOMAIN retained.bytes
               PROVE  DecodeFull(s.entries[n], s.algo) = {retained.bytes[n]}
    BY DEF RetainedIsBase
  <1>1. HeldBy(s, n, retained.bytes[n]) /\ SnapSound(s)
    BY DEF TensorInv, RetainedSound
  <1> QED
    BY <1>1, HeldDecodes

-----------------------------------------------------------------------------
(***************************************************************************)
(* What a step leaves alone.                                               *)
(***************************************************************************)

\* A full is read without any other snapshot, and knows all of its names.
LEMMA FullKnows ==
    ASSUME TensorInv, NEW b \in Fulls, NEW name \in DOMAIN b.entries
    PROVE  KnownTo(b, name, b.entries[name].hash)
  <1>1. b \in snaps /\ b.base = NoBase /\ SnapSound(b) /\ BaseSound(b)
    BY DEF TensorInv, Fulls
  <1>2. \A c \in snaps : c.id # NoBase
    <2>1. ASSUME NEW c \in snaps PROVE c.id \in 1 .. (nextId - 1)
      BY DEF TensorInv, SnapSound
    <2> QED
      BY <2>1, SMT DEF NoBase, TensorInv
  <1>3. DOMAIN b.entries = DOMAIN b.state
    BY <1>1 DEF SnapSound
  <1>4. \A n \in DOMAIN b.state : b.entries[n].storage \in {"full", "alias"}
    BY <1>1, <1>2 DEF BaseSound
  <1>5. CASE b.entries[name].storage = "full"
    BY <1>5 DEF KnownTo, HeldBy
  <1>6. CASE b.entries[name].storage = "alias"
    <2>1. AliasSound(b, name)
      BY <1>1, <1>3, <1>6 DEF SnapSound, StoredSound
    <2>2. b.entries[name].alias \in DOMAIN b.state
      BY <1>3, <2>1 DEF AliasSound, Twins
    <2> QED
      BY <1>3, <1>4, <1>6, <2>1, <2>2 DEF KnownTo, HeldBy, AliasSound
  <1> QED
    BY <1>3, <1>4, <1>5, <1>6

\* A snapshot stays sound as long as its base stays.
LEMMA Persists ==
    ASSUME NEW s \in snaps, SnapSound(s), BaseSound(s), nextId \in Nat, nextId' \in Nat,
           nextId <= nextId', \A b \in snaps : b.id = s.base => b \in snaps'
    PROVE  SnapSound(s)' /\ BaseSound(s)'
  <1>1. ASSUME NEW n \in DOMAIN s.state, StoredSound(s, n) PROVE StoredSound(s, n)'
    <2>1. /\ Wanted(s, n)' = Wanted(s, n)
          /\ \A b, bytes : KnownTo(b, n, bytes)' = KnownTo(b, n, bytes)
      BY DEF Wanted, KnownTo, HeldBy
    <2>2. IsDelta(s, s.entries[n], n, Wanted(s, n).bytes) =>
            IsDelta(s, s.entries[n], n, Wanted(s, n).bytes)'
      BY DEF IsDelta, HeldBy, Wanted
    <2> QED
      BY <1>1, <2>1, <2>2 DEF StoredSound
  <1>2. ASSUME NEW n \in DOMAIN s.state, AliasSound(s, n) PROVE AliasSound(s, n)'
    BY <1>2 DEF AliasSound
  <1>3. s.id \in 1 .. (nextId' - 1)
    <2>1. s.id \in 1 .. (nextId - 1)
      BY DEF SnapSound
    <2> QED
      BY <2>1, SMT
  <1>4. SnapSound(s)'
    BY <1>1, <1>2, <1>3 DEF SnapSound
  <1>5. BaseSound(s)'
    BY DEF BaseSound
  <1> QED
    BY <1>4, <1>5

-----------------------------------------------------------------------------
(***************************************************************************)
(* Saves.                                                                  *)
(***************************************************************************)

\* What process_tensor may return for a tensor, over the full it is saved against.
IsEncoded(e, bases, name, tensor) ==
    LET cast == Cast(tensor, config.policy[name])
    IN  /\ DOMAIN e = EntryFields
        /\ e.dtype = cast.dtype
        /\ e.scale = cast.scale
        /\ e.hash = cast.bytes
        /\ e.original = tensor.dtype
        /\ \/ e.storage = "full" /\ e.blob = Compress(cast.bytes, config.algo)
           \/ /\ e.storage = "skipped"
              /\ \E b \in bases : KnownTo(b, name, cast.bytes)
           \/ /\ e.storage = "delta"
              /\ \E b \in bases :
                    /\ HeldBy(b, name, b.entries[name].hash)
                    /\ b.entries[name].hash \in Seq(Bit)
                    /\ Len(b.entries[name].hash) = Len(cast.bytes)
                    /\ e.shuffled = (ElementSize(e.dtype) > 1)
                    /\ e.blob =
                        Compress(StoredDelta(ElementSize(e.dtype), b.entries[name].hash,
                                             cast.bytes), config.algo)

\* Bytes from memory or from the pack are the bytes the base holds.
LEMMA CacheSound ==
    ASSUME TensorInv, NEW b \in snaps, NEW name, HeldBy(b, name, b.entries[name].hash)
    PROVE  /\ CachedBytes(b, name) = {b.entries[name].hash}
           /\ b.entries[name].hash \in Seq(Bit)
  <1>1. SnapSound(b)
    BY DEF TensorInv
  <1>2. /\ DecodeFull(b.entries[name], b.algo) = {b.entries[name].hash}
        /\ b.entries[name].hash \in Seq(Bit)
    BY <1>1, HeldDecodes
  <1>3. CASE retained.id = b.id /\ name \in DOMAIN retained.bytes
    BY <1>2, <1>3 DEF CachedBytes, TensorInv, RetainedSound, HeldBy
  <1>4. CASE ~(retained.id = b.id /\ name \in DOMAIN retained.bytes)
    BY <1>2, <1>4 DEF CachedBytes
  <1> QED
    BY <1>2, <1>3, <1>4

\* process_tensor returns what its snapshot will need.
LEMMA ProcessSound ==
    ASSUME TensorInv, NEW bases \in SUBSET Fulls, \A b, c \in bases : b = c,
           NEW name, NEW tensor, NEW worth, NEW e \in Process(bases, name, tensor, worth)
    PROVE  IsEncoded(e, bases, name, tensor)
  <1> DEFINE cast == Cast(tensor, config.policy[name])
             held == UNION {CachedBytes(b, name) : b \in bases}
             diffs == {bytes \in held : Len(bytes) = Len(cast.bytes) /\ bytes # cast.bytes}
  <1>1. CASE Unchanged(bases, name, cast) /\ e = Entry("skipped", cast, tensor.dtype)
    <2>1. PICK b \in bases : name \in DOMAIN b.entries /\ b.entries[name].hash = cast.bytes
      BY <1>1 DEF Unchanged
    <2>2. KnownTo(b, name, cast.bytes)
      BY <2>1, FullKnows
    <2>3. /\ DOMAIN e = EntryFields
          /\ e.dtype = cast.dtype /\ e.scale = cast.scale /\ e.hash = cast.bytes
          /\ e.original = tensor.dtype /\ e.storage = "skipped"
      BY <1>1 DEF Entry, EntryFields
    <2> QED
      BY <2>2, <2>3 DEF IsEncoded
  <1>2. CASE e = FullEntry(cast, tensor.dtype)
    <2>1. /\ DOMAIN e = EntryFields
          /\ e.dtype = cast.dtype /\ e.scale = cast.scale /\ e.hash = cast.bytes
          /\ e.original = tensor.dtype /\ e.storage = "full"
          /\ e.blob = Compress(cast.bytes, config.algo)
      BY <1>2 DEF FullEntry, Entry, EntryFields
    <2> QED
      BY <2>1 DEF IsEncoded
  <1>3. ASSUME MayDiff(bases, name, cast), NEW bytes \in diffs, e = DeltaEntry(cast, tensor.dtype, bytes)
        PROVE  IsEncoded(e, bases, name, tensor)
    <2>1. PICK b \in bases : name \in DOMAIN b.entries /\ b.entries[name].storage = "full"
      BY <1>3 DEF MayDiff
    <2>2. HeldBy(b, name, b.entries[name].hash) /\ b \in snaps
      BY <2>1 DEF HeldBy, Fulls
    <2>3. CachedBytes(b, name) = {b.entries[name].hash} /\ b.entries[name].hash \in Seq(Bit)
      BY <2>2, CacheSound
    <2>4. held = {b.entries[name].hash}
      BY <2>3
    <2>5. bytes = b.entries[name].hash /\ Len(bytes) = Len(cast.bytes)
      BY <1>3, <2>4
    <2>6. /\ DOMAIN e = EntryFields
          /\ e.dtype = cast.dtype /\ e.scale = cast.scale /\ e.hash = cast.bytes
          /\ e.original = tensor.dtype /\ e.storage = "delta"
          /\ e.shuffled = (ElementSize(cast.dtype) > 1)
          /\ e.blob = Compress(StoredDelta(ElementSize(cast.dtype), bytes, cast.bytes), config.algo)
      BY <1>3 DEF DeltaEntry, Entry, EntryFields, StoredDelta
    <2> QED
      BY <2>2, <2>3, <2>5, <2>6 DEF IsEncoded
  <1> QED
    BY <1>1, <1>2, <1>3 DEF Process

\* The first of equal tensors is stored, the others are its aliases.
LEMMA EncodedSound ==
    ASSUME TensorInv, NEW bases \in SUBSET Fulls, \A b, c \in bases : b = c,
           NEW state, NEW owner \in Owners(state), NEW worth,
           NEW entries \in Encoded(bases, state, owner, worth)
    PROVE  /\ entries = [n \in DOMAIN state |-> entries[n]]
           /\ \A n \in DOMAIN state :
                IF owner[n] = n THEN IsEncoded(entries[n], bases, n, state[n])
                ELSE /\ owner[n] \in Twins(state, n)
                     /\ owner[n] \in DOMAIN state
                     /\ owner[owner[n]] = owner[n]
                     /\ entries[n] = AliasEntry(entries[owner[n]], owner[n])
  <1> DEFINE stored == {n \in DOMAIN state : owner[n] = n}
             made == [n \in stored |-> Process(bases, n, state[n], worth[n])]
             entry == [n \in stored |-> CHOOSE e \in made[n] : TRUE]
  <1>1. /\ \A n \in stored : made[n] # {}
        /\ entries = [n \in DOMAIN state |->
                        IF n \in stored THEN entry[n] ELSE AliasEntry(entry[owner[n]], owner[n])]
    BY DEF Encoded
  <1>2. ASSUME NEW n \in stored PROVE IsEncoded(entries[n], bases, n, state[n])
    <2>1. entries[n] = entry[n] /\ entry[n] \in made[n]
      BY <1>1
    <2> QED
      BY <2>1, ProcessSound
  <1>3. ASSUME NEW n \in DOMAIN state
        PROVE  /\ owner[n] \in Twins(state, n)
               /\ owner[n] \in DOMAIN state
               /\ owner[owner[n]] = owner[n]
    <2>1. owner[n] \in Twins(state, n) /\ owner[n] \in DOMAIN state
      BY DEF Owners
    <2>2. \A m \in Twins(state, n) : owner[m] = owner[n]
      BY DEF Owners
    <2> QED
      BY <2>1, <2>2
  <1>4. ASSUME NEW n \in DOMAIN state, owner[n] # n
        PROVE  entries[n] = AliasEntry(entries[owner[n]], owner[n])
    <2>1. owner[n] \in stored /\ n \notin stored
      BY <1>3, <1>4
    <2>2. entries[owner[n]] = entry[owner[n]]
      BY <1>1, <2>1
    <2> QED
      BY <1>1, <2>1, <2>2
  <1>5. entries = [n \in DOMAIN state |-> entries[n]]
    BY <1>1
  <1>6. ASSUME NEW n \in DOMAIN state
        PROVE  IF owner[n] = n THEN IsEncoded(entries[n], bases, n, state[n])
               ELSE /\ owner[n] \in Twins(state, n)
                    /\ owner[n] \in DOMAIN state
                    /\ owner[owner[n]] = owner[n]
                    /\ entries[n] = AliasEntry(entries[owner[n]], owner[n])
    <2>1. CASE owner[n] = n
      BY <1>2, <2>1
    <2>2. CASE owner[n] # n
      BY <1>3, <1>4, <2>2
    <2> QED
      BY <2>1, <2>2
  <1> HIDE DEF stored, made, entry
  <1> QED
    BY <1>5, <1>6

\* Every name of a save has a sound entry in its snapshot.
LEMMA SavedSound ==
    ASSUME TensorInv, NEW bases \in SUBSET Fulls, \A b, c \in bases : b = c,
           NEW state, state \in [DOMAIN state -> Tensors], DOMAIN state \subseteq Names,
           NEW owner \in Owners(state), NEW worth,
           NEW entries \in Encoded(bases, state, owner, worth),
           NEW s, s.algo = config.algo, s.entries = entries, s.state = state,
           s.rules = config.policy, s.id = nextId, nextId' = nextId + 1,
           \A b \in bases : b.id = s.base /\ b \in snaps'
    PROVE  /\ SnapSound(s)'
           /\ \A n \in DOMAIN state :
                IsEncoded(entries[n], bases, n, state[n]) \/ entries[n].storage = "alias"
  <1>1. /\ entries = [n \in DOMAIN state |-> entries[n]]
        /\ \A n \in DOMAIN state :
              IF owner[n] = n THEN IsEncoded(entries[n], bases, n, state[n])
              ELSE /\ owner[n] \in Twins(state, n)
                   /\ owner[n] \in DOMAIN state
                   /\ owner[owner[n]] = owner[n]
                   /\ entries[n] = AliasEntry(entries[owner[n]], owner[n])
    BY EncodedSound
  <1>2. ASSUME NEW n \in DOMAIN state, IsEncoded(entries[n], bases, n, state[n])
        PROVE  StoredSound(s, n)'
    <2> DEFINE e == entries[n]
               cast == Wanted(s, n)
    <2>0. Cast(state[n], config.policy[n]) = cast
      BY DEF Wanted
    <2>1. s.entries[n] = e /\ Wanted(s, n)' = cast
      BY DEF Wanted
    <2>2. e.dtype = cast.dtype /\ e.scale = cast.scale /\ e.hash = cast.bytes
      BY <1>2, <2>0 DEF IsEncoded
    <2>3. CASE e.storage = "full" /\ e.blob = Compress(cast.bytes, config.algo)
      BY <2>1, <2>2, <2>3 DEF StoredSound
    <2>4. CASE e.storage = "skipped" /\ \E b \in bases : KnownTo(b, n, cast.bytes)
      <3>1. \E b \in snaps' : b.id = s.base /\ KnownTo(b, n, cast.bytes)
        BY <2>4
      <3>2. \A b : KnownTo(b, n, cast.bytes)' = KnownTo(b, n, cast.bytes)
        BY DEF KnownTo, HeldBy
      <3> QED
        BY <2>1, <2>2, <2>4, <3>1, <3>2 DEF StoredSound
    <2>5. ASSUME e.storage = "delta",
                 NEW b \in bases,
                 HeldBy(b, n, b.entries[n].hash),
                 b.entries[n].hash \in Seq(Bit),
                 Len(b.entries[n].hash) = Len(cast.bytes),
                 e.shuffled = (ElementSize(e.dtype) > 1),
                 e.blob = Compress(StoredDelta(ElementSize(e.dtype), b.entries[n].hash, cast.bytes),
                                   config.algo)
          PROVE  StoredSound(s, n)'
      <3>1. b \in snaps' /\ b.id = s.base
        OBVIOUS
      <3>2. HeldBy(b, n, b.entries[n].hash)'
        BY <2>5 DEF HeldBy
      <3> HIDE DEF cast, e
      <3>3. IsDelta(s, s.entries[n], n, Wanted(s, n).bytes)'
        BY <2>1, <2>5, <3>1, <3>2 DEF IsDelta, cast
      <3> QED
        BY <2>1, <2>2, <2>5, <3>3 DEF StoredSound, cast
    <2> QED
      BY <1>2, <2>0, <2>3, <2>4, <2>5 DEF IsEncoded
  <1>3. ASSUME NEW n \in DOMAIN state, owner[n] = n
        PROVE  /\ DOMAIN entries[n] = EntryFields
               /\ StoredSound(s, n)'
               /\ entries[n].storage # "alias"
    <2>1. IsEncoded(entries[n], bases, n, state[n])
      BY <1>1, <1>3
    <2>2. DOMAIN entries[n] = EntryFields /\ entries[n].storage # "alias"
      BY <2>1 DEF IsEncoded
    <2> QED
      BY <1>2, <2>1, <2>2
  <1>4. ASSUME NEW n \in DOMAIN state, owner[n] # n
        PROVE  /\ DOMAIN entries[n] = EntryFields
               /\ AliasSound(s, n)'
               /\ entries[n].storage = "alias"
    <2> DEFINE o == owner[n]
               target == entries[o]
    <2>1. /\ o \in Twins(state, n) /\ o \in DOMAIN state /\ owner[o] = o
          /\ entries[n] = AliasEntry(target, o)
      BY <1>1, <1>4
    <2>2. DOMAIN target = EntryFields /\ target.storage # "alias"
      BY <1>3, <2>1
    <2> HIDE DEF o, target
    <2>3. /\ DOMAIN entries[n] = EntryFields
          /\ entries[n].storage = "alias"
          /\ entries[n].alias = o
          /\ entries[n].hash = target.hash
      BY <2>1, <2>2 DEF AliasEntry, EntryFields
    <2> QED
      BY <2>1, <2>2, <2>3 DEF AliasSound, target
  <1>5. SnapSound(s)'
    <2>1. s.id \in 1 .. (nextId' - 1)
      BY SMT DEF TensorInv
    <2>2. config.algo \in Algos /\ config.policy \in [Names -> Targets]
      BY TensorAssumption DEF TensorAssumption, TensorInv
    <2>3. \A n \in DOMAIN state :
            DOMAIN entries[n] = EntryFields /\ (StoredSound(s, n)' \/ AliasSound(s, n)')
      BY <1>3, <1>4
    <2> QED
      BY <1>1, <2>1, <2>2, <2>3 DEF SnapSound
  <1>6. ASSUME NEW n \in DOMAIN state
        PROVE  IsEncoded(entries[n], bases, n, state[n]) \/ entries[n].storage = "alias"
    <2>1. CASE owner[n] = n
      BY <1>1, <2>1
    <2>2. CASE owner[n] # n
      BY <1>4, <2>2
    <2> QED
      BY <2>1, <2>2
  <1> QED
    BY <1>5, <1>6

\* The snapshots and the record of a save keep the invariant, whatever its base.
LEMMA SaveKeepsInv ==
    ASSUME TensorInv, NEW bases \in SUBSET Fulls, \A b, c \in bases : b = c, NEW baseId,
           Save(bases, baseId),
           (bases = {} /\ baseId = NoBase) \/ (\E b \in bases : b.id = baseId)
    PROVE  TensorInv'
  <1>1. PICK names \in (SUBSET Names) \ {{}} :
        \E state \in [names -> Tensors], worth \in [names -> BOOLEAN] :
        \E owner \in Owners(state) :
        \E entries \in Encoded(bases, state, owner, worth) :
            /\ snaps' = snaps \cup
                {[id |-> nextId, base |-> baseId, algo |-> config.algo, entries |-> entries,
                  state |-> state, rules |-> config.policy]}
            /\ IF bases = {} THEN Retains(nextId, entries, state) ELSE UNCHANGED retained
    BY DEF Save
  <1>2. PICK state, worth, owner, entries :
            /\ state \in [names -> Tensors]
            /\ owner \in Owners(state)
            /\ entries \in Encoded(bases, state, owner, worth)
            /\ snaps' = snaps \cup
                {[id |-> nextId, base |-> baseId, algo |-> config.algo, entries |-> entries,
                  state |-> state, rules |-> config.policy]}
            /\ IF bases = {} THEN Retains(nextId, entries, state) ELSE UNCHANGED retained
    BY <1>1
  <1>3. PICK new : new =
            [id |-> nextId, base |-> baseId, algo |-> config.algo, entries |-> entries,
             state |-> state, rules |-> config.policy]
    OBVIOUS
  <1>4. /\ new.id = nextId /\ new.base = baseId /\ new.algo = config.algo
        /\ new.entries = entries /\ new.state = state /\ new.rules = config.policy
        /\ snaps' = snaps \cup {new}
    BY <1>2, <1>3
  <1>5. nextId' = nextId + 1 /\ config' = config /\ nextId \in Nat /\ nextId' \in Nat \ {0}
    BY DEF Save, TensorInv
  <1>6. \A b \in bases : b.id = baseId /\ b \in snaps /\ b.base = NoBase
    BY DEF Fulls
  <1>7. DOMAIN state = names /\ names \subseteq Names /\ state \in [DOMAIN state -> Tensors]
    BY <1>2
  <1>8. /\ SnapSound(new)'
        /\ \A n \in DOMAIN state :
              IsEncoded(entries[n], bases, n, state[n]) \/ entries[n].storage = "alias"
    BY <1>2, <1>4, <1>5, <1>6, <1>7, SavedSound
  <1>9. \A s \in snaps : s.id \in 1 .. (nextId - 1)
    BY DEF TensorInv, SnapSound
  <1>10. ASSUME NEW s \in snaps PROVE SnapSound(s)' /\ BaseSound(s)'
    <2>1. nextId <= nextId'
      BY <1>5
    <2>2. \A b \in snaps : b \in snaps'
      BY <1>4
    <2> QED
      BY <1>5, <2>1, <2>2, Persists DEF TensorInv
  <1>11. BaseSound(new)'
    <2>1. CASE bases = {} /\ baseId = NoBase
      <3>1. \A n \in DOMAIN state : entries[n].storage \in {"full", "alias"}
        BY <1>8, <2>1 DEF IsEncoded
      <3> QED
        BY <1>4, <2>1, <3>1 DEF BaseSound
    <2>2. CASE \E b \in bases : b.id = baseId
      BY <1>4, <1>6, <2>2 DEF BaseSound
    <2> QED
      BY <2>1, <2>2
  <1>12. IdsAreUnique'
    <2>1. \A s \in snaps : s.id # new.id
      BY <1>4, <1>5, <1>9, SMT
    <2>2. \A s, t \in snaps : s.id = t.id => s = t
      BY DEF TensorInv, IdsAreUnique
    <2> QED
      BY <1>4, <2>1, <2>2 DEF IdsAreUnique
  <1>13. RetainedSound'
    <2>1. CASE bases = {} /\ config.keep
      <3>1. retained' = [id |-> nextId, bytes |-> [n \in Retainable(entries) |-> state[n].data]]
        BY <1>2, <2>1 DEF Retains
      <3>2. retained'.id = nextId
        BY <3>1
      <3>3. DOMAIN entries = DOMAIN state
        BY <1>4, <1>8 DEF SnapSound
      <3>4. ASSUME NEW n \in Retainable(entries)
            PROVE  /\ n \in DOMAIN entries
                   /\ HeldBy(new, n, retained'.bytes[n])
        <4>1. /\ n \in DOMAIN state /\ entries[n].storage = "full"
              /\ entries[n].original = entries[n].dtype
          BY <3>3 DEF Retainable
        <4>2. /\ entries[n].original = state[n].dtype
              /\ entries[n].dtype = Cast(state[n], config.policy[n]).dtype
              /\ entries[n].hash = Cast(state[n], config.policy[n]).bytes
          BY <1>8, <4>1 DEF IsEncoded
        <4>3. state[n] \in [dtype : DTypes, data : Seq(Bit)] /\ config.policy[n] \in Targets
          BY <1>7, <4>1, TensorAssumption DEF TensorAssumption, TensorInv
        <4>4. entries[n].hash = state[n].data
          BY <4>1, <4>2, <4>3, CastType
        <4>5. retained'.bytes[n] = state[n].data
          BY <3>1
        <4> QED
          BY <1>4, <3>3, <4>1, <4>4, <4>5 DEF HeldBy
      <3>5. \A s \in snaps' : s.id = nextId => s = new
        BY <1>4, <1>5, <1>9, SMT
      <3>6. DOMAIN retained'.bytes = Retainable(entries)
        BY <3>1
      <3>7. nextId \in Nat /\ nextId < nextId'
        BY <1>5
      <3> QED
        BY <1>4, <3>2, <3>4, <3>5, <3>6, <3>7 DEF RetainedSound, HeldBy
    <2>2. CASE ~(bases = {} /\ config.keep)
      <3>1. retained' = retained
        BY <1>2, <2>2 DEF Retains
      <3>2. retained.id \in Nat /\ retained.id < nextId
        BY DEF TensorInv, RetainedSound
      <3>3. retained.id < nextId' /\ new.id # retained.id
        BY <1>4, <1>5, <3>2
      <3> QED
        BY <1>4, <3>1, <3>2, <3>3 DEF TensorInv, RetainedSound, HeldBy
    <2> QED
      BY <2>1, <2>2
  <1> QED
    BY <1>4, <1>5, <1>8, <1>10, <1>11, <1>12, <1>13 DEF TensorInv

-----------------------------------------------------------------------------
(***************************************************************************)
(* Merges.                                                                 *)
(***************************************************************************)

\* What a merge makes of a delta: the aliases as they were, the rest in full.
Merged(new, newest) ==
    /\ new.algo \in Algos
    /\ new.state = newest.state
    /\ new.rules = newest.rules
    /\ new.base = NoBase
    /\ new.entries = [n \in DOMAIN newest.state |-> new.entries[n]]
    /\ \A n \in DOMAIN newest.state :
        IF newest.entries[n].storage = "alias" THEN new.entries[n] = newest.entries[n]
        ELSE /\ StoredSound(newest, n)
             /\ DOMAIN new.entries[n] = EntryFields
             /\ new.entries[n].storage = "full"
             /\ new.entries[n].dtype = Wanted(newest, n).dtype
             /\ new.entries[n].scale = Wanted(newest, n).scale
             /\ new.entries[n].hash = Wanted(newest, n).bytes
             /\ new.entries[n].blob = Compress(Wanted(newest, n).bytes, new.algo)

\* Over snapshots of its own algorithm, do_full_merge_within reads them as a load does.
LEMMA MergeMakes ==
    ASSUME TensorInv, ~MergeAnyAlgo, NEW full \in Fulls, NEW newest \in Deltas(full),
           Merge(full, newest)
    PROVE  \E new :
              /\ new.id = nextId
              /\ Merged(new, newest)
              /\ snaps' = (snaps \ ({full} \cup Deltas(full))) \cup {new}
  <1> DEFINE walked == newest.entries
             made == [n \in DOMAIN walked |->
                        MergedEntry(walked[n], BaseBytes(full, n, config.algo))]
             entries == [n \in DOMAIN made |-> CHOOSE e \in made[n] : TRUE]
             new == [id |-> nextId, base |-> NoBase, algo |-> config.algo, entries |-> entries,
                     state |-> newest.state, rules |-> newest.rules]
  <1>1. /\ full.algo = config.algo /\ newest.algo = config.algo
        /\ \A n \in DOMAIN made : made[n] # {}
        /\ snaps' = (snaps \ ({full} \cup Deltas(full))) \cup {new}
    BY DEF Merge, Walked
  <1>2. /\ newest \in snaps /\ full \in snaps /\ newest.base = full.id
        /\ SnapSound(newest)
        /\ DOMAIN walked = DOMAIN newest.state
    BY DEF Deltas, Fulls, TensorInv, SnapSound
  <1>3. config.algo \in Algos
    BY TensorAssumption DEF TensorAssumption, TensorInv
  <1>4. ASSUME NEW n \in DOMAIN newest.state PROVE entries[n] \in made[n]
    BY <1>1, <1>2
  <1>5. ASSUME NEW n \in DOMAIN newest.state, walked[n].storage = "alias"
        PROVE  entries[n] = walked[n]
    BY <1>2, <1>4, <1>5 DEF MergedEntry
  <1>6. ASSUME NEW n \in DOMAIN newest.state, walked[n].storage # "alias"
        PROVE  /\ StoredSound(newest, n)
               /\ DOMAIN entries[n] = EntryFields
               /\ entries[n].storage = "full"
               /\ entries[n].dtype = Wanted(newest, n).dtype
               /\ entries[n].scale = Wanted(newest, n).scale
               /\ entries[n].hash = Wanted(newest, n).bytes
               /\ entries[n].blob = Compress(Wanted(newest, n).bytes, config.algo)
    <2> DEFINE base == BaseBytes(full, n, config.algo)
               raw == Wanted(newest, n).bytes
    <2>1. StoredSound(newest, n) /\ DOMAIN walked[n] = EntryFields
      BY <1>2, <1>6 DEF SnapSound, AliasSound
    <2>2. ASSUME NEW b \in snaps, b.id = newest.base PROVE base = BaseBytes(b, n, b.algo)
      <3>1. b = full
        BY <1>2, <2>2 DEF TensorInv, IdsAreUnique
      <3> QED
        BY <1>1, <3>1
    <2> HIDE DEF base
    <2>3. RawBytes(walked[n], config.algo, base) = {raw}
      BY <1>1, <1>2, <2>1, <2>2, RawGives
    <2>4. made[n] = {[walked[n] EXCEPT !.storage = "full", !.shuffled = FALSE, !.hash = raw,
                                       !.blob = Compress(raw, config.algo)]}
      BY <1>2, <1>6, <2>3 DEF MergedEntry, base
    <2>5. entries[n] = [walked[n] EXCEPT !.storage = "full", !.shuffled = FALSE, !.hash = raw,
                                         !.blob = Compress(raw, config.algo)]
      BY <1>4, <2>4
    <2> DEFINE old == walked[n]
               made2 == entries[n]
    <2> HIDE DEF raw, old, made2, walked, entries, made
    <2>6. made2 = [old EXCEPT !.storage = "full", !.shuffled = FALSE, !.hash = raw,
                              !.blob = Compress(raw, config.algo)]
      BY <2>5 DEF old, made2
    <2>7. DOMAIN old = EntryFields
      BY <2>1 DEF old
    <2>8. /\ DOMAIN made2 = EntryFields
          /\ made2.storage = "full" /\ made2.hash = raw
          /\ made2.blob = Compress(raw, config.algo)
          /\ made2.dtype = old.dtype /\ made2.scale = old.scale
      BY <2>6, <2>7 DEF EntryFields
    <2>9. old.dtype = Wanted(newest, n).dtype /\ old.scale = Wanted(newest, n).scale
      BY <2>1 DEF StoredSound, old, walked
    <2> QED
      BY <2>1, <2>8, <2>9 DEF raw, made2
  <1> DEFINE fields == /\ new.id = nextId /\ new.algo = config.algo /\ new.state = newest.state
                       /\ new.rules = newest.rules /\ new.base = NoBase /\ new.entries = entries
  <1>7. fields
    OBVIOUS
  <1>8. entries = [n \in DOMAIN newest.state |-> entries[n]]
    BY <1>2
  <1> HIDE DEF new, entries, made
  <1>9. Merged(new, newest)
    BY <1>3, <1>5, <1>6, <1>7, <1>8 DEF Merged
  <1> QED
    BY <1>1, <1>7, <1>9

\* A merged snapshot is a full that tells what the delta told.
LEMMA MergedSound ==
    ASSUME NEW s, NEW new, SnapSound(s), Merged(new, s), new.id \in 1 .. (nextId' - 1)
    PROVE  /\ SnapSound(new)' /\ BaseSound(new)'
           /\ \A n \in DOMAIN s.state : Told(new, n) = Told(s, n)
  <1>1. ASSUME NEW n \in DOMAIN s.state, s.entries[n].storage # "alias"
        PROVE  /\ StoredSound(new, n)'
               /\ DOMAIN new.entries[n] = EntryFields
               /\ new.entries[n].storage = "full"
               /\ new.entries[n].hash = s.entries[n].hash
    <2>1. /\ Wanted(new, n) = Wanted(s, n)
          /\ Wanted(new, n)' = Wanted(s, n)
      BY DEF Merged, Wanted
    <2>2. s.entries[n].hash = Wanted(s, n).bytes
      BY <1>1 DEF Merged, StoredSound
    <2> QED
      BY <1>1, <2>1, <2>2 DEF Merged, StoredSound
  <1>2. ASSUME NEW n \in DOMAIN s.state, s.entries[n].storage = "alias"
        PROVE  /\ AliasSound(new, n)'
               /\ DOMAIN new.entries[n] = EntryFields
               /\ new.entries[n] = s.entries[n]
    <2> DEFINE target == s.entries[n].alias
    <2>1. AliasSound(s, n) /\ DOMAIN s.entries[n] = EntryFields /\ new.entries[n] = s.entries[n]
      BY <1>2 DEF Merged, SnapSound, StoredSound
    <2>2. target \in Twins(s.state, n) /\ s.entries[target].storage # "alias"
      BY <2>1 DEF AliasSound
    <2>3. target \in DOMAIN s.state
      BY <2>2 DEF Twins
    <2>4. new.entries[target].storage # "alias" /\ new.entries[target].hash = s.entries[target].hash
      BY <1>1, <2>2, <2>3
    <2>5. new.state = s.state
      BY DEF Merged
    <2> QED
      BY <2>1, <2>4, <2>5 DEF AliasSound
  <1>3. new.state = s.state /\ new.rules = s.rules /\ new.base = NoBase /\ new.algo \in Algos
    BY DEF Merged
  <1>4. SnapSound(new)'
    <2>1. /\ DOMAIN s.state \subseteq Names /\ s.state \in [DOMAIN s.state -> Tensors]
          /\ s.rules \in [Names -> Targets]
      BY DEF SnapSound
    <2>2. new.entries = [n \in DOMAIN s.state |-> new.entries[n]]
      BY DEF Merged
    <2>3. \A n \in DOMAIN s.state :
            DOMAIN new.entries[n] = EntryFields /\ (StoredSound(new, n)' \/ AliasSound(new, n)')
      BY <1>1, <1>2
    <2> QED
      BY <1>3, <2>1, <2>2, <2>3 DEF SnapSound
  <1>5. \A n \in DOMAIN s.state : new.entries[n].storage \in {"full", "alias"}
    BY <1>1, <1>2
  <1>6. BaseSound(new)'
    BY <1>3, <1>5 DEF BaseSound
  <1>7. \A n \in DOMAIN s.state : Told(new, n) = Told(s, n)
    BY <1>1, <1>2, <1>3 DEF Told, Holding
  <1> QED
    BY <1>4, <1>6, <1>7

\* A full merge replaces the full and its deltas, and nobody else relied on them.
LEMMA MergeKeepsInv ==
    ASSUME TensorInv, ~MergeAnyAlgo, NEW full \in Fulls, NEW newest \in Deltas(full),
           Merge(full, newest)
    PROVE  TensorInv'
  <1>1. PICK new : /\ new.id = nextId
                   /\ Merged(new, newest)
                   /\ snaps' = (snaps \ ({full} \cup Deltas(full))) \cup {new}
    BY MergeMakes
  <1>2. /\ nextId' = nextId + 1 /\ config' = config /\ retained' = retained
        /\ nextId \in Nat /\ nextId' \in Nat \ {0}
    BY DEF Merge, TensorInv
  <1>3. newest \in snaps /\ SnapSound(newest) /\ full \in snaps /\ full.base = NoBase
    BY DEF Deltas, Fulls, TensorInv
  <1>4. SnapSound(new)' /\ BaseSound(new)'
    <2>1. new.id \in 1 .. (nextId' - 1)
      BY <1>1, <1>2, SMT DEF TensorInv
    <2> QED
      BY <1>1, <1>3, <2>1, MergedSound
  <1>5. \A s \in snaps : s.id \in 1 .. (nextId - 1)
    BY DEF TensorInv, SnapSound
  <1>6. \A s \in snaps : s.id # NoBase /\ s.id # new.id
    BY <1>1, <1>2, <1>5, SMT DEF NoBase
  <1>7. ASSUME NEW s \in snaps, s \notin Deltas(full), NEW b \in snaps, b.id = s.base
        PROVE  b \in snaps'
    <2>1. b.base = NoBase
      BY <1>6, <1>7 DEF TensorInv, BaseSound, IdsAreUnique
    <2>2. b \notin Deltas(full) /\ b # full
      BY <1>3, <1>6, <1>7, <2>1 DEF Deltas
    <2> QED
      BY <1>1, <2>2
  <1>8. ASSUME NEW s \in snaps' PROVE SnapSound(s)' /\ BaseSound(s)'
    <2>1. CASE s = new
      BY <1>4, <2>1
    <2>2. CASE s \in snaps /\ s \notin Deltas(full)
      <3>1. SnapSound(s) /\ BaseSound(s) /\ nextId <= nextId'
        BY <1>2, <2>2 DEF TensorInv
      <3>2. \A b \in snaps : b.id = s.base => b \in snaps'
        BY <1>7, <2>2
      <3> QED
        BY <1>2, <2>2, <3>1, <3>2, Persists
    <2> QED
      BY <1>1, <2>1, <2>2
  <1>9. IdsAreUnique'
    BY <1>1, <1>6 DEF TensorInv, IdsAreUnique
  <1>10. RetainedSound'
    <2>1. retained.id \in Nat /\ retained.id < nextId
      BY DEF TensorInv, RetainedSound
    <2>2. retained.id < nextId' /\ new.id # retained.id
      BY <1>1, <1>2, <2>1
    <2> QED
      BY <1>1, <1>2, <2>1, <2>2 DEF TensorInv, RetainedSound, HeldBy
  <1> QED
    BY <1>2, <1>8, <1>9, <1>10 DEF TensorInv

-----------------------------------------------------------------------------
(***************************************************************************)
(* The theorems.                                                           *)
(***************************************************************************)

LEMMA InitInv ==
    ASSUME Init PROVE TensorInv
  <1>1. snaps = {} /\ nextId = 1 /\ config \in Configs /\ retained.id = 0
    BY DEF Init, NothingRetained, NoBase
  <1> QED
    BY <1>1 DEF TensorInv, IdsAreUnique, RetainedSound

LEMMA NextInv ==
    ASSUME TensorInv, ~MergeAnyAlgo, [Next]_vars PROVE TensorInv'
  <1>1. CASE SaveFull
    BY <1>1, SaveKeepsInv DEF SaveFull
  <1>2. CASE SaveDelta
    <2>1. PICK full \in Latest(Fulls) : Save({full}, full.id)
      BY <1>2 DEF SaveDelta
    <2>2. full \in Fulls
      BY DEF Latest
    <2> QED
      BY <2>1, <2>2, SaveKeepsInv
  <1>3. CASE FullMerge
    <2>1. PICK full \in Latest(Fulls) : \E newest \in Latest(Deltas(full)) : Merge(full, newest)
      BY <1>3 DEF FullMerge
    <2>2. PICK newest \in Latest(Deltas(full)) : Merge(full, newest)
      BY <2>1
    <2>3. full \in Fulls /\ newest \in Deltas(full)
      BY DEF Latest
    <2> QED
      BY <2>2, <2>3, MergeKeepsInv
  <1>4. CASE Restart
    <2>1. /\ snaps' = snaps /\ nextId' = nextId /\ config' \in Configs
          /\ retained'.id = 0 /\ DOMAIN retained'.bytes = {}
      BY <1>4 DEF Restart, NothingRetained, NoBase
    <2>2. ASSUME NEW s \in snaps' PROVE SnapSound(s)' /\ BaseSound(s)'
      BY <2>1, Persists DEF TensorInv
    <2>3. RetainedSound'
      BY <2>1 DEF RetainedSound, TensorInv
    <2>4. IdsAreUnique'
      BY <2>1 DEF TensorInv, IdsAreUnique
    <2> QED
      BY <2>1, <2>2, <2>3, <2>4 DEF TensorInv
  <1>5. CASE UNCHANGED vars
    <2>1. /\ snaps' = snaps /\ nextId' = nextId /\ config' = config /\ retained' = retained
      BY <1>5 DEF vars
    <2>2. ASSUME NEW s \in snaps' PROVE SnapSound(s)' /\ BaseSound(s)'
      BY <2>1, Persists DEF TensorInv
    <2>3. RetainedSound'
      BY <2>1 DEF RetainedSound, TensorInv, HeldBy
    <2>4. IdsAreUnique'
      BY <2>1 DEF TensorInv, IdsAreUnique
    <2> QED
      BY <2>1, <2>2, <2>3, <2>4 DEF TensorInv
  <1> QED
    BY <1>1, <1>2, <1>3, <1>4, <1>5 DEF Next

\* There is one last snapshot at most.
LEMMA OneLatest ==
    ASSUME TensorInv, NEW set \in SUBSET snaps, NEW s \in Latest(set), NEW t \in Latest(set)
    PROVE  s = t
  <1>1. s \in snaps /\ t \in snaps /\ s.id <= t.id /\ t.id <= s.id
    BY DEF Latest
  <1>2. s.id \in 1 .. (nextId - 1) /\ t.id \in 1 .. (nextId - 1)
    BY <1>1 DEF TensorInv, SnapSound
  <1>3. s.id = t.id
    BY <1>1, <1>2, SMT DEF TensorInv
  <1> QED
    BY <1>1, <1>3 DEF TensorInv, IdsAreUnique

\* The step of MergeStandsIn.
LEMMA MergeStep ==
    ASSUME TensorInv, LoadsTold, LoadsTold', ~MergeAnyAlgo,
           NEW full \in Latest(Fulls), NEW newest \in Latest(Deltas(full)), Merge(full, newest),
           NEW s \in snaps' \ snaps
    PROVE  /\ DOMAIN s.entries = DOMAIN newest.entries
           /\ \A n \in DOMAIN s.entries : Load(s, n)' = Load(newest, n)
  <1>1. full \in Fulls /\ newest \in Deltas(full)
    BY DEF Latest
  <1>2. PICK new : /\ new.id = nextId
                   /\ Merged(new, newest)
                   /\ snaps' = (snaps \ ({full} \cup Deltas(full))) \cup {new}
    BY <1>1, MergeMakes
  <1>3. s = new
    BY <1>2
  <1>4. newest \in snaps /\ SnapSound(newest)
    BY <1>1 DEF Deltas, TensorInv
  <1>5. new.id \in 1 .. (nextId' - 1)
    BY <1>2, SMT DEF Merge, TensorInv
  <1>6. \A n \in DOMAIN newest.state : Told(s, n) = Told(newest, n)
    BY <1>2, <1>3, <1>4, <1>5, MergedSound
  <1>7. /\ DOMAIN newest.entries = DOMAIN newest.state
        /\ DOMAIN s.entries = DOMAIN newest.state
        /\ s.state = newest.state
    BY <1>2, <1>3, <1>4 DEF SnapSound, Merged
  <1>8. ASSUME NEW n \in DOMAIN newest.state PROVE Load(s, n)' = Load(newest, n)
    <2>1. Load(newest, n) = {Told(newest, n)}
      BY <1>4 DEF LoadsTold
    <2>2. Load(s, n)' = {Told(s, n)'}
      BY <1>7 DEF LoadsTold
    <2>3. Told(s, n)' = Told(s, n)
      BY DEF Told, Holding
    <2> QED
      BY <1>6, <2>1, <2>2, <2>3
  <1> QED
    BY <1>7, <1>8

\* The invariant of TensorPipelineInv: what each entry relies on is there.
THEOREM Soundness ==
    ASSUME ~MergeAnyAlgo PROVE Spec => []TensorInv
  <1>1. Init => TensorInv
    BY InitInv
  <1>2. TensorInv /\ [Next]_vars => TensorInv'
    BY NextInv
  <1> QED
    BY <1>1, <1>2, PTL DEF Spec

\* Every snapshot loads, and its tensors come back as they were saved: load_in_pool
\* inverts save_rank_tensors, over any history of saves, merges and restarts.
THEOREM Faithfulness ==
    ASSUME ~MergeAnyAlgo PROVE Spec => []LoadIsFaithful
  <1>1. TensorInv => LoadIsFaithful
    BY FaithfulFromInv
  <1> QED
    BY <1>1, Soundness, PTL

\* What retain_base keeps in memory is what is on disk.
THEOREM Retention ==
    ASSUME ~MergeAnyAlgo PROVE Spec => []RetainedIsBase
  <1>1. TensorInv => RetainedIsBase
    BY RetainedFromInv
  <1> QED
    BY <1>1, Soundness, PTL

\* The full that do_full_merge_within writes loads as the delta it replaces.
THEOREM StandingIn ==
    ASSUME ~MergeAnyAlgo PROVE Spec => MergeStandsIn
  <1> DEFINE Step ==
        snaps \subseteq snaps' \/
        \A s \in snaps' \ snaps, full \in Latest(Fulls) : \A newest \in Latest(Deltas(full)) :
            /\ DOMAIN s.entries = DOMAIN newest.entries
            /\ \A n \in DOMAIN s.entries : Load(s, n)' = Load(newest, n)
  <1>1. TensorInv => LoadsTold
    BY LoadsFromInv
  <1>2. TensorInv /\ LoadsTold /\ LoadsTold' /\ [Next]_vars => [Step]_vars
    <2> SUFFICES ASSUME TensorInv, LoadsTold, LoadsTold', Next PROVE Step
      OBVIOUS
    <2>1. CASE SaveFull \/ SaveDelta \/ Restart
      <3>1. snaps \subseteq snaps'
        BY <2>1 DEF SaveFull, SaveDelta, Save, Restart
      <3> QED
        BY <3>1
    <2>2. ASSUME NEW full \in Latest(Fulls), NEW newest \in Latest(Deltas(full)),
                 Merge(full, newest)
          PROVE  Step
      <3>1. ASSUME NEW s \in snaps' \ snaps, NEW f \in Latest(Fulls), NEW d \in Latest(Deltas(f))
            PROVE  /\ DOMAIN s.entries = DOMAIN d.entries
                   /\ \A n \in DOMAIN s.entries : Load(s, n)' = Load(d, n)
        <4>1. f = full
          <5>1. Fulls \in SUBSET snaps
            BY DEF Fulls
          <5> QED
            BY <5>1, OneLatest
        <4>2. d = newest
          <5>1. Deltas(full) \in SUBSET snaps
            BY DEF Deltas
          <5> QED
            BY <4>1, <5>1, OneLatest
        <4> QED
          BY <2>2, <4>1, <4>2, MergeStep
      <3> QED
        BY <3>1
    <2> QED
      BY <2>1, <2>2 DEF Next, FullMerge
  <1>3. [][Step]_vars => MergeStandsIn
    BY PTL DEF MergeStandsIn
  <1> HIDE DEF Step
  <1> QED
    BY <1>1, <1>2, <1>3, Soundness, PTL DEF Spec

=============================================================================
