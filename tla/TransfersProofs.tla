-------------------------- MODULE TransfersProofs --------------------------
(***************************************************************************)
(* What holds of S3Client and Transfers for any objects, any number of     *)
(* transfers, requests and faults: an object is cut into no more parts     *)
(* than the service takes, no upload is forgotten, the bucket is a         *)
(* FileService, a walk that says Ok left nothing out, and the files in     *)
(* memory fit the budget.                                                  *)
(***************************************************************************)
EXTENDS TransfersInv, FiniteSetTheorems, WellFoundedInduction, TLAPS

-----------------------------------------------------------------------------
(* The parts of an object.                                                 *)

\* Division, rounded down.
LEMMA Quotient ==
    ASSUME NEW a \in Nat, NEW b \in Nat \ {0}
    PROVE  /\ a \div b \in Nat
           /\ b * (a \div b) <= a
           /\ a < b * (a \div b) + b
  BY SMT

\* ... and rounded up: as few pieces of b as hold a.
LEMMA CeilDivFits ==
    ASSUME NEW a \in Nat, NEW b \in Nat \ {0}
    PROVE  /\ CeilDiv(a, b) \in Nat
           /\ a <= b * CeilDiv(a, b)
           /\ b * CeilDiv(a, b) < a + b
  <1> DEFINE n == a + b - 1
             q == n \div b
  <1>1. n \in Nat
    BY SMT
  <1>2. q \in Nat /\ b * q <= n /\ n < b * q + b
    BY <1>1, Quotient
  <1>3. b * q \in Nat
    BY <1>2, SMT
  <1>4. a <= b * q /\ b * q < a + b
    <2> HIDE DEF q
    <2> QED BY <1>2, <1>3, SMT
  <1> QED BY <1>2, <1>4 DEF CeilDiv

\* A product grows with either factor.
LEMMA Grows ==
    ASSUME NEW a \in Nat, NEW b \in Nat, NEW c \in Nat, a <= b
    PROVE  a * c <= b * c
  BY SMT

LEMMA GrowsBy ==
    ASSUME NEW a \in Nat, NEW b \in Nat, NEW c \in Nat \ {0}, a < b
    PROVE  c * a + c <= c * b
  BY SMT

\* part_size_for: whatever the size of an object, its parts are large enough
\* for the service, at most MAX_PARTS less the headroom in number, and hold
\* all of it, the last one included.
THEOREM PartsFit ==
    ASSUME NEW total \in Nat
    PROVE  /\ PartSize(total) \in Nat /\ PartSize(total) >= MinPart
           /\ PartCount(total) \in 0 .. (MaxParts - Headroom)
           /\ total <= PartSize(total) * PartCount(total)
           /\ PartSize(total) * PartCount(total) < total + PartSize(total)
  <1> DEFINE M == MaxParts - Headroom
             spread == CeilDiv(total, M)
             size == PartSize(total)
             count == PartCount(total)
  <1>1. M \in Nat \ {0} /\ MinPart \in Nat \ {0}
    BY S3Assumption
  <1>2. spread \in Nat /\ total <= M * spread
    BY <1>1, CeilDivFits
  <1>3. size \in Nat \ {0} /\ size >= MinPart /\ size >= spread
    <2> HIDE DEF spread
    <2>1. size = IF spread > MinPart THEN spread ELSE MinPart
      BY DEF PartSize, spread
    <2> HIDE DEF size
    <2> QED BY <1>1, <1>2, <2>1
  <1> HIDE DEF size, spread, M
  <1>4. count = CeilDiv(total, size)
    BY DEF PartCount, size
  <1>5. /\ count \in Nat /\ total <= size * count
        /\ size * count < total + size
    BY <1>3, <1>4, CeilDivFits
  <1> HIDE DEF count
  <1>6. count <= M
    <2>1. SUFFICES ASSUME M < count PROVE FALSE
      BY <1>1, <1>5
    <2>2. size * M + size <= size * count
      BY <1>1, <1>3, <1>5, <2>1, GrowsBy
    <2>3. spread * M <= size * M
      BY <1>1, <1>2, <1>3, Grows
    <2>4. M * spread = spread * M /\ spread * M \in Nat /\ size * M \in Nat /\ size * count \in Nat
      BY <1>1, <1>2, <1>3, <1>5, SMT
    <2> QED BY <1>2, <1>3, <1>5, <2>2, <2>3, <2>4
  <1> QED BY <1>3, <1>5, <1>6 DEF size, count, M

-----------------------------------------------------------------------------
(* One request.                                                            *)

\* A call that changes, and the others that stay.
LEMMA OthersStay ==
    ASSUME CallShape, NEW c \in Callers, NEW r, call' = [call EXCEPT ![c] = r]
    PROVE  /\ call' = [d \in Callers |-> call'[d]]
           /\ call'[c] = r
           /\ \A d \in Callers : d # c => call'[d] = call[d]
  BY DEF CallShape

\* A call, by its fields.
Fields(a, k, u, p, t, f, s) ==
    [at |-> a, key |-> k, upload |-> u, part |-> p, attempt |-> t, found |-> f, says |-> s]

\* One field that changes.
LEMMA SetAt ==
    ASSUME NEW a, NEW k, NEW u, NEW p, NEW t, NEW f, NEW s, NEW x
    PROVE  [Fields(a, k, u, p, t, f, s) EXCEPT !.at = x] = Fields(x, k, u, p, t, f, s)
  BY DEF Fields

LEMMA SetKey ==
    ASSUME NEW a, NEW k, NEW u, NEW p, NEW t, NEW f, NEW s, NEW x
    PROVE  [Fields(a, k, u, p, t, f, s) EXCEPT !.key = x] = Fields(a, x, u, p, t, f, s)
  BY DEF Fields

LEMMA SetUpload ==
    ASSUME NEW a, NEW k, NEW u, NEW p, NEW t, NEW f, NEW s, NEW x
    PROVE  [Fields(a, k, u, p, t, f, s) EXCEPT !.upload = x] = Fields(a, k, x, p, t, f, s)
  BY DEF Fields

LEMMA SetPart ==
    ASSUME NEW a, NEW k, NEW u, NEW p, NEW t, NEW f, NEW s, NEW x
    PROVE  [Fields(a, k, u, p, t, f, s) EXCEPT !.part = x] = Fields(a, k, u, x, t, f, s)
  BY DEF Fields

LEMMA SetAttempt ==
    ASSUME NEW a, NEW k, NEW u, NEW p, NEW t, NEW f, NEW s, NEW x
    PROVE  [Fields(a, k, u, p, t, f, s) EXCEPT !.attempt = x] = Fields(a, k, u, p, x, f, s)
  BY DEF Fields

LEMMA SetFound ==
    ASSUME NEW a, NEW k, NEW u, NEW p, NEW t, NEW f, NEW s, NEW x
    PROVE  [Fields(a, k, u, p, t, f, s) EXCEPT !.found = x] = Fields(a, k, u, p, t, x, s)
  BY DEF Fields

LEMMA SetSays ==
    ASSUME NEW a, NEW k, NEW u, NEW p, NEW t, NEW f, NEW s, NEW x
    PROVE  [Fields(a, k, u, p, t, f, s) EXCEPT !.says = x] = Fields(a, k, u, p, t, f, x)
  BY DEF Fields

\* Several fields that change, one after the other.
Key(r, x) == [r EXCEPT !.key = x]
AtSays(r, x, y) == [r EXCEPT !.at = x, !.says = y]
AtAttempt(r, x, y) == [r EXCEPT !.at = x, !.attempt = y]
PartAttempt(r, x, y) == [r EXCEPT !.part = x, !.attempt = y]
FoundAttempt(r, x, y) == [r EXCEPT !.found = x, !.attempt = y]
Created(r, x, y, z, w) == [r EXCEPT !.at = x, !.upload = y, !.part = z, !.attempt = w]

LEMMA SetTheKey ==
    ASSUME NEW a, NEW k, NEW u, NEW p, NEW t, NEW f, NEW s, NEW x
    PROVE  Key(Fields(a, k, u, p, t, f, s), x) = Fields(a, x, u, p, t, f, s)
  BY SetKey DEF Key

LEMMA SetAtSays ==
    ASSUME NEW a, NEW k, NEW u, NEW p, NEW t, NEW f, NEW s,
           NEW x, NEW y
    PROVE  AtSays(Fields(a, k, u, p, t, f, s), x, y) = Fields(x, k, u, p, t, f, y)
  <1>1. [Fields(a, k, u, p, t, f, s) EXCEPT !.at = x] = Fields(x, k, u, p, t, f, s)
    BY SetAt
  <1>2. [Fields(x, k, u, p, t, f, s) EXCEPT !.says = y] = Fields(x, k, u, p, t, f, y)
    BY SetSays
  <1>4. [[Fields(a, k, u, p, t, f, s) EXCEPT !.at = x] EXCEPT !.says = y] = Fields(x, k, u, p, t, f, y)
    BY <1>2, <1>1
  <1> QED BY <1>4 DEF AtSays

LEMMA SetAtAttempt ==
    ASSUME NEW a, NEW k, NEW u, NEW p, NEW t, NEW f, NEW s,
           NEW x, NEW y
    PROVE  AtAttempt(Fields(a, k, u, p, t, f, s), x, y) = Fields(x, k, u, p, y, f, s)
  <1>1. [Fields(a, k, u, p, t, f, s) EXCEPT !.at = x] = Fields(x, k, u, p, t, f, s)
    BY SetAt
  <1>2. [Fields(x, k, u, p, t, f, s) EXCEPT !.attempt = y] = Fields(x, k, u, p, y, f, s)
    BY SetAttempt
  <1>4. [[Fields(a, k, u, p, t, f, s) EXCEPT !.at = x] EXCEPT !.attempt = y] = Fields(x, k, u, p, y, f, s)
    BY <1>2, <1>1
  <1> QED BY <1>4 DEF AtAttempt

LEMMA SetPartAttempt ==
    ASSUME NEW a, NEW k, NEW u, NEW p, NEW t, NEW f, NEW s,
           NEW x, NEW y
    PROVE  PartAttempt(Fields(a, k, u, p, t, f, s), x, y) = Fields(a, k, u, x, y, f, s)
  <1>1. [Fields(a, k, u, p, t, f, s) EXCEPT !.part = x] = Fields(a, k, u, x, t, f, s)
    BY SetPart
  <1>2. [Fields(a, k, u, x, t, f, s) EXCEPT !.attempt = y] = Fields(a, k, u, x, y, f, s)
    BY SetAttempt
  <1>4. [[Fields(a, k, u, p, t, f, s) EXCEPT !.part = x] EXCEPT !.attempt = y] = Fields(a, k, u, x, y, f, s)
    BY <1>2, <1>1
  <1> QED BY <1>4 DEF PartAttempt

LEMMA SetFoundAttempt ==
    ASSUME NEW a, NEW k, NEW u, NEW p, NEW t, NEW f, NEW s,
           NEW x, NEW y
    PROVE  FoundAttempt(Fields(a, k, u, p, t, f, s), x, y) = Fields(a, k, u, p, y, x, s)
  <1>1. [Fields(a, k, u, p, t, f, s) EXCEPT !.found = x] = Fields(a, k, u, p, t, x, s)
    BY SetFound
  <1>2. [Fields(a, k, u, p, t, x, s) EXCEPT !.attempt = y] = Fields(a, k, u, p, y, x, s)
    BY SetAttempt
  <1>4. [[Fields(a, k, u, p, t, f, s) EXCEPT !.found = x] EXCEPT !.attempt = y] = Fields(a, k, u, p, y, x, s)
    BY <1>2, <1>1
  <1> QED BY <1>4 DEF FoundAttempt

LEMMA SetCreated ==
    ASSUME NEW a, NEW k, NEW u, NEW p, NEW t, NEW f, NEW s,
           NEW x, NEW y, NEW z, NEW w
    PROVE  Created(Fields(a, k, u, p, t, f, s), x, y, z, w) = Fields(x, k, y, z, w, f, s)
  <1>1. [Fields(a, k, u, p, t, f, s) EXCEPT !.at = x] = Fields(x, k, u, p, t, f, s)
    BY SetAt
  <1>2. [Fields(x, k, u, p, t, f, s) EXCEPT !.upload = y] = Fields(x, k, y, p, t, f, s)
    BY SetUpload
  <1>3. [Fields(x, k, y, p, t, f, s) EXCEPT !.part = z] = Fields(x, k, y, z, t, f, s)
    BY SetPart
  <1>4. [Fields(x, k, y, z, t, f, s) EXCEPT !.attempt = w] = Fields(x, k, y, z, w, f, s)
    BY SetAttempt
  <1>6. [[Fields(a, k, u, p, t, f, s) EXCEPT !.at = x] EXCEPT !.upload = y] = Fields(x, k, y, p, t, f, s)
    BY <1>2, <1>1
  <1>7. [[[Fields(a, k, u, p, t, f, s) EXCEPT !.at = x] EXCEPT !.upload = y] EXCEPT !.part = z] = Fields(x, k, y, z, t, f, s)
    BY <1>3, <1>6
  <1>8. [[[[Fields(a, k, u, p, t, f, s) EXCEPT !.at = x] EXCEPT !.upload = y] EXCEPT !.part = z] EXCEPT !.attempt = w] = Fields(x, k, y, z, w, f, s)
    BY <1>4, <1>7
  <1> QED BY <1>8 DEF Created

LEMMA FieldsAreCall ==
    ASSUME NEW a, NEW k, NEW u, NEW p, NEW t, NEW f, NEW s
    PROVE  IsCall(Fields(a, k, u, p, t, f, s))
  BY DEF IsCall, Fields

LEMMA CallHasFields ==
    ASSUME CallShape, NEW c \in Callers
    PROVE  \E a, k, u, p, t, f, s :
                /\ call[c] = Fields(a, k, u, p, t, f, s)
                /\ a \in {"free", "told"} \cup Writing \cup Reading
                /\ a \in Writing => k \in Keys
                /\ a \notin {"free", "told"} => s = "nothing"
                /\ f \subseteq Keys
  <1>1. IsCall(call[c])
    BY DEF CallShape, GoodCall
  <1>2. call[c] = Fields(call[c].at, call[c].key, call[c].upload, call[c].part,
                         call[c].attempt, call[c].found, call[c].says)
    BY <1>1 DEF IsCall, Fields
  <1> QED BY <1>2 DEF CallShape, GoodCall

\* What a call is after a request that is given up on, or tried again.
LEMMA GivenUpFields ==
    ASSUME NEW c \in Callers, NEW a, NEW k, NEW u, NEW p, NEW t, NEW f, NEW s,
           call[c] = Fields(a, k, u, p, t, f, s)
    PROVE  GivenUp(c) = IF a \in {"part", "complete"}
                        THEN Fields("abort", k, u, p, 0, f, s)
                        ELSE Fields("told", k, u, p, t, f, "err")
  <1>1. call[c].at = a
    BY DEF Fields
  <1>2. AtAttempt(call[c], "abort", 0) = Fields("abort", k, u, p, 0, f, s)
    BY SetAtAttempt
  <1>3. AtSays(call[c], "told", "err") = Fields("told", k, u, p, t, f, "err")
    BY SetAtSays
  <1>4. GivenUp(c) = IF a \in {"part", "complete"}
                     THEN AtAttempt(call[c], "abort", 0) ELSE AtSays(call[c], "told", "err")
    BY <1>1 DEF GivenUp, Told, AtAttempt, AtSays
  <1> QED BY <1>2, <1>3, <1>4

LEMMA RetriedFields ==
    ASSUME NEW c \in Callers, NEW a, NEW k, NEW u, NEW p, NEW t, NEW f, NEW s,
           call[c] = Fields(a, k, u, p, t, f, s)
    PROVE  Retried(c) \in {GivenUp(c), Fields(a, k, u, p, t + 1, f, s)}
  BY DEF Retried, Fields

\* The identifiers of the uploads after a request that is carried out.
LEMMA EffectOnUploads ==
    ASSUME BucketInv, NEW c \in Callers, Effect(c)
    PROVE  /\ \A u \in uploads' : u = [id |-> u.id, key |-> u.key, have |-> u.have]
           /\ \A u \in uploads' : \/ \E v \in uploads : v.id = u.id
                                  \/ call[c].at = "create" /\ u.id = lastId + 1
           /\ call[c].at = "abort" => \A u \in uploads' : u.id # call[c].upload
           /\ call[c].at = "complete" /\ IsWhole(c) => \A u \in uploads' : u.id # call[c].upload
  <1>1. \A u \in uploads : [u EXCEPT !.have = @ \cup {call[c].part}] =
                           [id |-> u.id, key |-> u.key, have |-> u.have \cup {call[c].part}]
    BY DEF BucketInv
  <1>2. CASE call[c].at = "create"
    <2>1. uploads' = uploads \cup {[id |-> lastId + 1, key |-> call[c].key, have |-> {}]}
      BY <1>2 DEF Effect
    <2> QED BY <1>2, <2>1 DEF BucketInv
  <1>3. CASE call[c].at = "part"
    <2>1. uploads' = (uploads \ Mine(c)) \cup {[u EXCEPT !.have = @ \cup {call[c].part}] : u \in Mine(c)}
      BY <1>3 DEF Effect
    <2>2. Mine(c) \subseteq uploads
      BY DEF Mine
    <2> QED BY <1>1, <1>3, <2>1, <2>2 DEF BucketInv
  <1>4. CASE (call[c].at = "complete" /\ IsWhole(c)) \/ call[c].at = "abort"
    <2>1. uploads' = uploads \ Mine(c)
      BY <1>4 DEF Effect
    <2> QED BY <2>1 DEF BucketInv, Mine
  <1>5. CASE ~(call[c].at \in {"create", "part", "abort"} \/ (call[c].at = "complete" /\ IsWhole(c)))
    <2>1. uploads' = uploads
      BY <1>5 DEF Effect
    <2> QED BY <1>5, <2>1 DEF BucketInv
  <1> QED BY <1>2, <1>3, <1>4, <1>5

LEMMA EffectOnObjects ==
    ASSUME NEW c \in Callers, Effect(c)
    PROVE  \/ stored' = stored
           \/ /\ stored' = stored \cup {call[c].key}
              /\ call[c].at = "put" \/ (call[c].at = "complete" /\ IsWhole(c))
  BY DEF Effect

\* What an answer makes of a call.
LEMMA AnsweredFields ==
    ASSUME BucketInv, NEW c \in Callers, NEW a, NEW k, NEW u, NEW p, NEW t, NEW f, NEW s,
           call[c] = Fields(a, k, u, p, t, f, s),
           a \in Writing \cup Reading, f \subseteq Keys
    PROVE  \/ /\ a \in {"part", "complete"} /\ (a = "complete" => ~IsWhole(c))
              /\ Answered(c) = GivenUp(c)
           \/ /\ a = "create"
              /\ Answered(c) = Fields("part", k, lastId + 1, 1, 0, f, s)
           \/ /\ a = "part"
              /\ \E q, b : b \in {"part", "complete"} /\ Answered(c) = Fields(b, k, u, q, 0, f, s)
           \/ /\ a \in {"put", "abort"} \cup Reading \/ (a = "complete" /\ IsWhole(c))
              /\ \E x, g, y, v : g \subseteq Keys /\ Answered(c) = Fields("told", x, u, p, y, g, v)
           \/ /\ a = "list"
              /\ \E x, g : g \subseteq Keys /\ Answered(c) = Fields("list", x, u, p, 0, g, s)
  <1> USE DEF Writing, Reading, Uploading
  <1>0. call[c].at = a /\ call[c].key = k /\ call[c].part = p /\ call[c].found = f
    BY DEF Fields
  <1>10. \A v : AtSays(call[c], "told", v) = Fields("told", k, u, p, t, f, v)
    BY SetAtSays
  <1>1. CASE a = "put"
    <2>1. Answered(c) = Fields("told", k, u, p, t, f, "ok")
      BY <1>0, <1>10, <1>1 DEF Answered, Told, AtSays
    <2> QED BY <1>1, <2>1
  <1>2. CASE a = "create"
    <2>1. Answered(c) = Fields("part", k, lastId + 1, 1, 0, f, s)
      <3>1. Answered(c) = Created(call[c], "part", lastId + 1, 1, 0)
        BY <1>0, <1>2 DEF Answered, Created
      <3> QED BY <3>1, SetCreated
    <2> QED BY <1>2, <2>1
  <1>3. CASE a = "part" /\ Mine(c) # {}
    <2>1. Answered(c) = IF p < PartCount(Size[k])
                        THEN Fields("part", k, u, p + 1, 0, f, s)
                        ELSE Fields("complete", k, u, p, 0, f, s)
      <3>1. Answered(c) = IF p < PartCount(Size[k])
                          THEN PartAttempt(call[c], p + 1, 0) ELSE AtAttempt(call[c], "complete", 0)
        BY <1>0, <1>3 DEF Answered, PartAttempt, AtAttempt
      <3>2. PartAttempt(call[c], p + 1, 0) = Fields("part", k, u, p + 1, 0, f, s)
        BY <1>3, SetPartAttempt
      <3>3. AtAttempt(call[c], "complete", 0) = Fields("complete", k, u, p, 0, f, s)
        BY SetAtAttempt
      <3> QED BY <3>1, <3>2, <3>3
    <2> QED BY <1>3, <2>1
  <1>4. CASE a = "part" /\ Mine(c) = {}
    <2>1. Answered(c) = GivenUp(c)
      BY <1>0, <1>4 DEF Answered
    <2> QED BY <1>4, <2>1
  <1>5. CASE a = "complete" /\ IsWhole(c)
    <2>1. Answered(c) = Fields("told", k, u, p, t, f, "ok")
      BY <1>0, <1>10, <1>5 DEF Answered, Told, AtSays
    <2> QED BY <1>5, <2>1
  <1>6. CASE a = "complete" /\ ~IsWhole(c)
    <2>1. Answered(c) = GivenUp(c)
      BY <1>0, <1>6 DEF Answered
    <2> QED BY <1>6, <2>1
  <1>7. CASE a = "abort"
    <2>1. Answered(c) = Fields("told", k, u, p, t, f, "err")
      BY <1>0, <1>10, <1>7 DEF Answered, Told, AtSays
    <2> QED BY <1>7, <2>1
  <1>8. CASE a \in {"get", "head"}
    <2>1. Answered(c) = Fields("told", k, u, p, t, f, IF k \in stored THEN "ok" ELSE "not found")
      BY <1>0, <1>10, <1>8 DEF Answered, Told, AtSays
    <2> QED BY <1>8, <2>1
  <1>9. CASE a = "list"
    <2>1. Page(c) \subseteq Keys
      BY DEF Page, After, BucketInv
    <2> DEFINE last == CHOOSE x \in Page(c) : \A j \in Page(c) : j <= x
               read == [call[c] EXCEPT !.found = @ \cup Page(c), !.attempt = 0]
    <2>2. read = Fields("list", k, u, p, 0, f \cup Page(c), s)
      <3>1. read = FoundAttempt(call[c], f \cup Page(c), 0)
        BY <1>0 DEF FoundAttempt
      <3> QED BY <1>9, <3>1, SetFoundAttempt
    <2>3. Answered(c) = IF Page(c) = After(c)
                        THEN [read EXCEPT !.at = "told", !.says = "ok"]
                        ELSE [read EXCEPT !.key = last]
      BY <1>0, <1>9 DEF Answered
    <2> HIDE DEF last, read
    <2>4. CASE Page(c) = After(c)
      <3>1. Answered(c) = Fields("told", k, u, p, 0, f \cup Page(c), "ok")
        <4>1. Answered(c) = AtSays(read, "told", "ok")
          BY <2>3, <2>4 DEF AtSays
        <4> QED BY <2>2, <4>1, SetAtSays
      <3> QED BY <1>9, <2>1, <3>1
    <2>5. CASE Page(c) # After(c)
      <3>1. Answered(c) = Fields("list", last, u, p, 0, f \cup Page(c), s)
        <4>1. Answered(c) = Key(read, last)
          BY <2>3, <2>5 DEF Key
        <4> QED BY <2>2, <4>1, SetTheKey
      <3> QED BY <1>9, <2>1, <3>1
    <2> QED BY <2>4, <2>5
  <1> QED BY <1>1, <1>2, <1>3, <1>4, <1>5, <1>6, <1>7, <1>8, <1>9

\* What an answer tells: of which object, and whether it is there.
Tells(old, new) ==
    /\ old.at # "list" => new.key = old.key
    /\ old.at = "list" => new.found \subseteq old.found \cup stored
    /\ new.says = "not found" => old.at \in {"get", "head"} /\ old.key \notin stored
    /\ old.at \in {"get", "head"} /\ new.says = "ok" => old.key \in stored
    /\ old.at \in Reading => new.at \in {old.at, "told"}
    /\ old.at \in Writing => new.at \in {"told"} \cup Writing

\* ... in terms of the fields that it may change.
LEMMA TellsFields ==
    ASSUME NEW a, NEW k, NEW u, NEW p, NEW t, NEW f, NEW s,
           NEW b, NEW x, NEW v, NEW q, NEW y, NEW g, NEW z,
           a # "list" => x = k, a = "list" => g \subseteq f \cup stored,
           z = "not found" => a \in {"get", "head"} /\ k \notin stored,
           a \in {"get", "head"} /\ z = "ok" => k \in stored,
           a \in Reading => b \in {a, "told"}, a \in Writing => b \in {"told"} \cup Writing
    PROVE  Tells(Fields(a, k, u, p, t, f, s), Fields(b, x, v, q, y, g, z))
  BY DEF Tells, Fields

LEMMA AnsweredTells ==
    ASSUME CallShape, BucketInv, NEW c \in Callers, Asking(c)
    PROVE  /\ Tells(call[c], Answered(c))
           /\ call[c].at \in Writing /\ Answered(c).says = "ok" =>
                call[c].at = "put" \/ (call[c].at = "complete" /\ IsWhole(c))
  <1>1. PICK a, k, u, p, t, f, s :
            /\ call[c] = Fields(a, k, u, p, t, f, s)
            /\ a \in {"free", "told"} \cup Writing \cup Reading
            /\ a \notin {"free", "told"} => s = "nothing"
    BY CallHasFields
  <1>2. call[c].at = a /\ call[c].key = k /\ call[c].part = p /\ call[c].found = f
    BY <1>1 DEF Fields
  <1>3. a \in Writing \cup Reading /\ s = "nothing"
    BY <1>1, <1>2 DEF Asking
  <1>4. SUFFICES /\ Tells(Fields(a, k, u, p, t, f, s), Answered(c))
                 /\ a \in Writing /\ Answered(c).says = "ok" =>
                        a = "put" \/ (a = "complete" /\ IsWhole(c))
    BY <1>1, <1>2
  <1>5. \A b, x, v, q, y, g, z : Fields(b, x, v, q, y, g, z).says = z
    BY DEF Fields
  <1>6. \A v : AtSays(call[c], "told", v) = Fields("told", k, u, p, t, f, v)
    BY <1>1, SetAtSays
  <1>7. GivenUp(c) = IF a \in {"part", "complete"}
                     THEN Fields("abort", k, u, p, 0, f, s)
                     ELSE Fields("told", k, u, p, t, f, "err")
    BY <1>1, GivenUpFields
  <1>8. /\ {"put", "create", "part", "complete", "abort", "told"} \subseteq {"told"} \cup Writing
        /\ \A x \in {"put", "create", "part", "complete", "abort"} : x \in Writing /\ x \notin Reading
        /\ \A x \in {"get", "head", "list"} : x \notin Writing
    BY DEF Writing, Reading, Uploading
  <1>9. CASE a = "put"
    <2>1. Answered(c) = Fields("told", k, u, p, t, f, "ok")
      BY <1>2, <1>6, <1>9 DEF Answered, Told, AtSays
    <2>2. Tells(Fields(a, k, u, p, t, f, s), Fields("told", k, u, p, t, f, "ok"))
      BY <1>8, <1>9, TellsFields
    <2> QED BY <1>9, <2>1, <2>2
  <1>10. CASE a = "create"
    <2>1. Answered(c) = Created(call[c], "part", lastId + 1, 1, 0)
      BY <1>2, <1>10 DEF Answered, Created
    <2>2. Answered(c) = Fields("part", k, lastId + 1, 1, 0, f, s)
      BY <1>1, <2>1, SetCreated
    <2>3. Tells(Fields(a, k, u, p, t, f, s), Fields("part", k, lastId + 1, 1, 0, f, s))
      BY <1>3, <1>8, <1>10, TellsFields
    <2> QED BY <1>3, <1>5, <2>2, <2>3
  <1>11. CASE a = "part" /\ Mine(c) # {}
    <2>1. Answered(c) = IF p < PartCount(Size[k])
                        THEN PartAttempt(call[c], p + 1, 0) ELSE AtAttempt(call[c], "complete", 0)
      BY <1>2, <1>11 DEF Answered, PartAttempt, AtAttempt
    <2>2. PartAttempt(call[c], p + 1, 0) = Fields("part", k, u, p + 1, 0, f, s)
      BY <1>1, <1>11, SetPartAttempt
    <2>3. AtAttempt(call[c], "complete", 0) = Fields("complete", k, u, p, 0, f, s)
      BY <1>1, SetAtAttempt
    <2>4. PICK b \in {"part", "complete"} : \E q : Answered(c) = Fields(b, k, u, q, 0, f, s)
      BY <2>1, <2>2, <2>3
    <2>5. PICK q : Answered(c) = Fields(b, k, u, q, 0, f, s)
      BY <2>4
    <2>6. Tells(Fields(a, k, u, p, t, f, s), Fields(b, k, u, q, 0, f, s))
      BY <1>3, <1>8, <1>11, TellsFields
    <2> QED BY <1>3, <1>5, <2>5, <2>6
  <1>12. CASE (a = "part" /\ Mine(c) = {}) \/ (a = "complete" /\ ~IsWhole(c))
    <2>1. Answered(c) = Fields("abort", k, u, p, 0, f, s)
      BY <1>2, <1>7, <1>12 DEF Answered
    <2>2. Tells(Fields(a, k, u, p, t, f, s), Fields("abort", k, u, p, 0, f, s))
      BY <1>3, <1>8, <1>12, TellsFields
    <2> QED BY <1>3, <1>5, <2>1, <2>2
  <1>13. CASE a = "complete" /\ IsWhole(c)
    <2>1. Answered(c) = Fields("told", k, u, p, t, f, "ok")
      BY <1>2, <1>6, <1>13 DEF Answered, Told, AtSays
    <2>2. Tells(Fields(a, k, u, p, t, f, s), Fields("told", k, u, p, t, f, "ok"))
      BY <1>8, <1>13, TellsFields
    <2> QED BY <1>13, <2>1, <2>2
  <1>14. CASE a = "abort"
    <2>1. Answered(c) = Fields("told", k, u, p, t, f, "err")
      BY <1>2, <1>6, <1>14 DEF Answered, Told, AtSays
    <2>2. Tells(Fields(a, k, u, p, t, f, s), Fields("told", k, u, p, t, f, "err"))
      BY <1>8, <1>14, TellsFields
    <2> QED BY <1>5, <2>1, <2>2
  <1>15. CASE a \in {"get", "head"}
    <2> DEFINE z == IF k \in stored THEN "ok" ELSE "not found"
    <2>1. Answered(c) = Fields("told", k, u, p, t, f, z)
      BY <1>2, <1>6, <1>15 DEF Answered, Told, AtSays
    <2>2. (z = "not found" => k \notin stored) /\ (z = "ok" => k \in stored)
      OBVIOUS
    <2> HIDE DEF z
    <2>3. Tells(Fields(a, k, u, p, t, f, s), Fields("told", k, u, p, t, f, z))
      BY <1>8, <1>15, <2>2, TellsFields
    <2> QED BY <1>8, <1>15, <2>1, <2>3
  <1>16. CASE a = "list"
    <2>1. Page(c) \subseteq stored
      BY DEF Page, After
    <2> DEFINE last == CHOOSE x \in Page(c) : \A j \in Page(c) : j <= x
               read == [call[c] EXCEPT !.found = @ \cup Page(c), !.attempt = 0]
    <2>2. read = FoundAttempt(call[c], f \cup Page(c), 0)
      BY <1>2 DEF FoundAttempt
    <2>3. read = Fields("list", k, u, p, 0, f \cup Page(c), s)
      BY <1>1, <1>16, <2>2, SetFoundAttempt
    <2>4. Answered(c) = IF Page(c) = After(c)
                        THEN [read EXCEPT !.at = "told", !.says = "ok"]
                        ELSE [read EXCEPT !.key = last]
      BY <1>2, <1>16 DEF Answered
    <2> HIDE DEF last, read
    <2>5. Answered(c) \in {AtSays(read, "told", "ok"), Key(read, last)}
      BY <2>4 DEF AtSays, Key
    <2>6. \/ Answered(c) = Fields("told", k, u, p, 0, f \cup Page(c), "ok")
          \/ Answered(c) = Fields("list", last, u, p, 0, f \cup Page(c), s)
      BY <2>3, <2>5, SetAtSays, SetTheKey
    <2>7. f \cup Page(c) \subseteq f \cup stored
      BY <2>1
    <2>8. Tells(Fields(a, k, u, p, t, f, s), Fields("told", k, u, p, 0, f \cup Page(c), "ok"))
      BY <1>8, <1>16, <2>7, TellsFields
    <2>9. Tells(Fields(a, k, u, p, t, f, s), Fields("list", last, u, p, 0, f \cup Page(c), s))
      BY <1>3, <1>8, <1>16, <2>7, TellsFields
    <2> QED BY <1>8, <1>16, <2>6, <2>8, <2>9
  <1>17. a \in {"put", "create", "part", "complete", "abort", "get", "head", "list"}
    BY <1>3 DEF Writing, Reading, Uploading
  <1> QED BY <1>9, <1>10, <1>11, <1>12, <1>13, <1>14, <1>15, <1>16, <1>17

LEMMA GoodFields ==
    ASSUME NEW a, NEW k, NEW u, NEW p, NEW t, NEW f, NEW s,
           a \in {"free", "told"} \cup Writing \cup Reading,
           a \in Writing => k \in Keys,
           a \notin {"free", "told"} => s = "nothing",
           f \subseteq Keys
    PROVE  /\ GoodCall(Fields(a, k, u, p, t, f, s))
           /\ Fields(a, k, u, p, t, f, s).at = a
           /\ Fields(a, k, u, p, t, f, s).upload = u
           /\ Fields(a, k, u, p, t, f, s).says = s
  <1>1. IsCall(Fields(a, k, u, p, t, f, s))
    BY FieldsAreCall
  <1> QED BY <1>1 DEF GoodCall, Fields

LEMMA GivenUpIsGood ==
    ASSUME CallShape, NEW c \in Callers, Asking(c)
    PROVE  /\ GoodCall(GivenUp(c))
           /\ call[c].at \in {"part", "complete"} =>
                GivenUp(c).at = "abort" /\ GivenUp(c).upload = call[c].upload
           /\ call[c].at \notin {"part", "complete"} => GivenUp(c).at = "told"
           /\ GivenUp(c).says # "ok"
  <1>1. PICK a, k, u, p, t, f, s :
            /\ call[c] = Fields(a, k, u, p, t, f, s)
            /\ a \in {"free", "told"} \cup Writing \cup Reading
            /\ a \in Writing => k \in Keys
            /\ a \notin {"free", "told"} => s = "nothing"
            /\ f \subseteq Keys
    BY CallHasFields
  <1>2. call[c].at = a /\ call[c].upload = u
    BY <1>1, GoodFields
  <1>3. CASE a \in {"part", "complete"}
    <2>1. GivenUp(c) = Fields("abort", k, u, p, 0, f, s)
      BY <1>1, <1>3, GivenUpFields
    <2>2. s = "nothing" /\ k \in Keys
      BY <1>1, <1>3 DEF Writing, Uploading
    <2>3. GoodCall(GivenUp(c)) /\ GivenUp(c).at = "abort" /\ GivenUp(c).upload = u /\ GivenUp(c).says = s
      BY <1>1, <2>1, <2>2, GoodFields DEF Writing, Uploading
    <2> QED BY <1>2, <1>3, <2>2, <2>3
  <1>4. CASE a \notin {"part", "complete"}
    <2>1. GivenUp(c) = Fields("told", k, u, p, t, f, "err")
      BY <1>1, <1>4, GivenUpFields
    <2>2. GoodCall(GivenUp(c)) /\ GivenUp(c).at = "told" /\ GivenUp(c).says = "err"
      BY <1>1, <2>1, GoodFields DEF Writing, Uploading
    <2> QED BY <1>2, <1>4, <2>2
  <1> QED BY <1>3, <1>4

LEMMA RetriedIsGood ==
    ASSUME CallShape, NEW c \in Callers, Asking(c)
    PROVE  /\ GoodCall(Retried(c))
           /\ \/ Retried(c) = GivenUp(c)
              \/ Retried(c).at = call[c].at /\ Retried(c).upload = call[c].upload
  <1>1. PICK a, k, u, p, t, f, s :
            /\ call[c] = Fields(a, k, u, p, t, f, s)
            /\ a \in {"free", "told"} \cup Writing \cup Reading
            /\ a \in Writing => k \in Keys
            /\ a \notin {"free", "told"} => s = "nothing"
            /\ f \subseteq Keys
    BY CallHasFields
  <1>2. call[c].at = a /\ call[c].upload = u
    BY <1>1, GoodFields
  <1>3. Retried(c) \in {GivenUp(c), Fields(a, k, u, p, t + 1, f, s)}
    BY <1>1, RetriedFields
  <1>4. CASE Retried(c) = Fields(a, k, u, p, t + 1, f, s)
    <2>1. GoodCall(Retried(c)) /\ Retried(c).at = a /\ Retried(c).upload = u
      BY <1>1, <1>4, GoodFields
    <2> QED BY <1>2, <2>1
  <1>5. CASE Retried(c) = GivenUp(c)
    BY <1>5, GivenUpIsGood
  <1> QED BY <1>3, <1>4, <1>5

LEMMA AnsweredIsGood ==
    ASSUME CallShape, BucketInv, NEW c \in Callers, Asking(c)
    PROVE  /\ GoodCall(Answered(c))
           /\ call[c].at = "create" => Answered(c).at = "part" /\ Answered(c).upload = lastId + 1
           /\ call[c].at \in Uploading =>
                \/ Answered(c).at \in Uploading /\ Answered(c).upload = call[c].upload
                \/ call[c].at = "abort" \/ (call[c].at = "complete" /\ IsWhole(c))
           /\ call[c].at = "complete" /\ Answered(c).says = "ok" => IsWhole(c)
  <1> USE DEF Writing, Reading, Uploading
  <1>1. PICK a, k, u, p, t, f, s :
            /\ call[c] = Fields(a, k, u, p, t, f, s)
            /\ a \in {"free", "told"} \cup Writing \cup Reading
            /\ a \in Writing => k \in Keys
            /\ a \notin {"free", "told"} => s = "nothing"
            /\ f \subseteq Keys
    BY CallHasFields
  <1>2. call[c].at = a /\ call[c].upload = u
    BY <1>1, GoodFields
  <1>3. a \in Writing \cup Reading /\ s = "nothing"
    BY <1>1, <1>2 DEF Asking
  <1>4. CASE a \in {"part", "complete"} /\ (a = "complete" => ~IsWhole(c)) /\ Answered(c) = GivenUp(c)
    <2>1. /\ GoodCall(GivenUp(c)) /\ GivenUp(c).says # "ok"
          /\ GivenUp(c).at = "abort" /\ GivenUp(c).upload = u
      BY <1>2, <1>4, GivenUpIsGood
    <2> QED BY <1>2, <1>4, <2>1
  <1>5. CASE a = "create" /\ Answered(c) = Fields("part", k, lastId + 1, 1, 0, f, s)
    <2>1. GoodCall(Answered(c)) /\ Answered(c).at = "part" /\ Answered(c).upload = lastId + 1
      BY <1>1, <1>3, <1>5, GoodFields
    <2> QED BY <1>2, <1>5, <2>1
  <1>6. ASSUME a = "part", NEW q, NEW b \in {"part", "complete"}, Answered(c) = Fields(b, k, u, q, 0, f, s)
        PROVE  /\ GoodCall(Answered(c)) /\ Answered(c).at \in Uploading /\ Answered(c).upload = u
    BY <1>1, <1>3, <1>6, GoodFields
  <1>7. ASSUME NEW x, NEW g \in SUBSET Keys, NEW y, NEW v, Answered(c) = Fields("told", x, u, p, y, g, v)
        PROVE  GoodCall(Answered(c))
    BY <1>7, GoodFields
  <1>8. ASSUME NEW x, NEW g \in SUBSET Keys, Answered(c) = Fields("list", x, u, p, 0, g, s)
        PROVE  GoodCall(Answered(c))
    BY <1>3, <1>8, GoodFields
  <1> QED BY <1>1, <1>2, <1>3, <1>4, <1>5, <1>6, <1>7, <1>8, AnsweredFields

-----------------------------------------------------------------------------
(* The calls keep their shape.                                             *)

LEMMA CallChanges ==
    ASSUME CallShape, NEW c \in Callers, NEW r, GoodCall(r), call' = [call EXCEPT ![c] = r]
    PROVE  CallShape' /\ call'[c] = r /\ \A d \in Callers : d # c => call'[d] = call[d]
  <1>1. /\ call' = [d \in Callers |-> call'[d]]
        /\ call'[c] = r
        /\ \A d \in Callers : d # c => call'[d] = call[d]
    BY OthersStay
  <1> QED BY <1>1 DEF CallShape, GoodCall, IsCall

\* What a call is asked to do.
AskedFor(w, k) == [Free EXCEPT !.at = w, !.key = k]

LEMMA AskedForFields ==
    ASSUME NEW w, NEW k
    PROVE  AskedFor(w, k) = Fields(w, k, 0, 0, 0, {}, "nothing")
  <1>1. Free = Fields("free", 0, 0, 0, 0, {}, "nothing")
    BY DEF Free, Fields
  <1>2. [Fields("free", 0, 0, 0, 0, {}, "nothing") EXCEPT !.at = w] = Fields(w, 0, 0, 0, 0, {}, "nothing")
    BY SetAt
  <1>3. [Fields(w, 0, 0, 0, 0, {}, "nothing") EXCEPT !.key = k] = Fields(w, k, 0, 0, 0, {}, "nothing")
    BY SetKey
  <1>4. [Free EXCEPT !.at = w] = Fields(w, 0, 0, 0, 0, {}, "nothing")
    BY <1>1, <1>2
  <1>5. [[Free EXCEPT !.at = w] EXCEPT !.key = k] = Fields(w, k, 0, 0, 0, {}, "nothing")
    BY <1>3, <1>4
  <1> QED BY <1>5 DEF AskedFor

LEMMA AskedIsGood ==
    ASSUME NEW w \in Writing \cup Reading, NEW k, w \in Writing => k \in Keys
    PROVE  GoodCall(AskedFor(w, k)) /\ AskedFor(w, k).at = w
  <1>1. AskedFor(w, k) = Fields(w, k, 0, 0, 0, {}, "nothing")
    BY AskedForFields
  <1> QED BY <1>1, GoodFields

LEMMA FreeIsGood == GoodCall(Free) /\ Free.at = "free"
  <1>1. Free = Fields("free", 0, 0, 0, 0, {}, "nothing")
    BY DEF Free, Fields
  <1> QED BY <1>1, GoodFields DEF Writing, Uploading

\* A listing that ends too soon has the pages it read.
Found(r, x) == [r EXCEPT !.found = x]

LEMMA CutShortTells ==
    ASSUME CallShape, BucketInv, NEW c \in Callers, CutShort(c)
    PROVE  \E r : /\ call' = [call EXCEPT ![c] = r]
                  /\ GoodCall(r) /\ r.at = "told" /\ Tells(call[c], r)
  <1>1. PICK a, k, u, p, t, f, s :
            /\ call[c] = Fields(a, k, u, p, t, f, s)
            /\ f \subseteq Keys
    BY CallHasFields
  <1>2. call[c].at = a /\ call[c].found = f /\ a = "list"
    BY <1>1 DEF Fields, CutShort
  <1> DEFINE g == f \cup Page(c)
  <1>3. g \subseteq Keys /\ g \subseteq f \cup stored
    BY <1>1 DEF Page, After, BucketInv
  <1>4. Told(c, "ok") = Fields("told", k, u, p, t, f, "ok")
    <2>1. Told(c, "ok") = AtSays(call[c], "told", "ok")
      BY DEF Told, AtSays
    <2> QED BY <1>1, <2>1, SetAtSays
  <1>5. call' = [call EXCEPT ![c] = Found(Told(c, "ok"), g)]
    <2>1. [Told(c, "ok") EXCEPT !.found = @ \cup Page(c)] = Found(Told(c, "ok"), g)
      BY <1>4 DEF Found, Fields
    <2> QED BY <2>1 DEF CutShort
  <1> HIDE DEF g
  <1>6. Found(Told(c, "ok"), g) = Fields("told", k, u, p, t, g, "ok")
    BY <1>4, SetFound DEF Found
  <1>7. GoodCall(Fields("told", k, u, p, t, g, "ok")) /\ Fields("told", k, u, p, t, g, "ok").at = "told"
    BY <1>3, GoodFields DEF Writing, Uploading
  <1>8. Tells(Fields(a, k, u, p, t, f, s), Fields("told", k, u, p, t, g, "ok"))
    BY <1>2, <1>3, TellsFields DEF Writing, Uploading
  <1> QED BY <1>1, <1>5, <1>6, <1>7, <1>8

\* A request: what it makes of its call.
LEMMA RequestCall ==
    ASSUME CallShape, BucketInv, NEW c \in Callers, Requests(c)
    PROVE  Asking(c) /\ CallShape' /\ \A d \in Callers : d # c => call'[d] = call[d]
  <1>1. Asking(c)
    BY DEF Requests, Serves, RequestLost, AnswerLost, Refused, Unreadable, CompleteFails, CutShort,
           Asking
  <1>2. GoodCall(Answered(c)) /\ GoodCall(Retried(c)) /\ GoodCall(GivenUp(c))
    BY <1>1, AnsweredIsGood, RetriedIsGood, GivenUpIsGood
  <1>3. \/ CutShort(c)
        \/ \E r \in {Answered(c), Retried(c), GivenUp(c)} : call' = [call EXCEPT ![c] = r]
    BY DEF Requests, Serves, RequestLost, AnswerLost, Refused, Unreadable, CompleteFails
  <1>4. PICK r : GoodCall(r) /\ call' = [call EXCEPT ![c] = r]
    BY <1>2, <1>3, CutShortTells
  <1> QED BY <1>1, <1>4, CallChanges

-----------------------------------------------------------------------------
(* Uploads have an owner.                                                  *)

\* The owner of an upload is the call that asks, or another one, which
\* stays as it is.
LEMMA OwnerKept ==
    ASSUME OwnerInv, NEW c \in Callers, orphans \subseteq orphans',
           \A d \in Callers : d # c => call'[d] = call[d],
           \A u \in uploads' : \/ \E v \in uploads : v.id = u.id
                               \/ u.id \in orphans'
                               \/ call'[c].at \in Uploading /\ call'[c].upload = u.id,
           \A u \in uploads' : call[c].at \in Uploading /\ call[c].upload = u.id =>
                               \/ u.id \in orphans'
                               \/ call'[c].at \in Uploading /\ call'[c].upload = u.id
    PROVE  OwnerInv'
  BY DEF OwnerInv

LEMMA RequestOwner ==
    ASSUME CallShape, BucketInv, OwnerInv, NEW c \in Callers, Requests(c)
    PROVE  OwnerInv'
  <1> USE DEF Uploading
  <1>1. Asking(c) /\ \A d \in Callers : d # c => call'[d] = call[d]
    BY RequestCall
  <1>2. \A r : call' = [call EXCEPT ![c] = r] => call'[c] = r
    BY OthersStay
  <1>3. /\ call[c].at \in {"part", "complete"} =>
             GivenUp(c).at = "abort" /\ GivenUp(c).upload = call[c].upload
        /\ call[c].at \notin {"part", "complete"} => GivenUp(c).at = "told"
    BY <1>1, GivenUpIsGood
  <1>4. \/ Retried(c) = GivenUp(c)
        \/ Retried(c).at = call[c].at /\ Retried(c).upload = call[c].upload
    BY <1>1, RetriedIsGood
  <1>5. CASE Serves(c)
    <2>1. call'[c] = Answered(c) /\ orphans' = orphans /\ Effect(c)
      BY <1>2, <1>5 DEF Serves
    <2>2. /\ \A u \in uploads' : \/ \E v \in uploads : v.id = u.id
                                 \/ call[c].at = "create" /\ u.id = lastId + 1
          /\ call[c].at = "abort" => \A u \in uploads' : u.id # call[c].upload
          /\ call[c].at = "complete" /\ IsWhole(c) => \A u \in uploads' : u.id # call[c].upload
      BY <2>1, EffectOnUploads
    <2>3. /\ call[c].at = "create" => Answered(c).at = "part" /\ Answered(c).upload = lastId + 1
          /\ call[c].at \in Uploading =>
                \/ Answered(c).at \in Uploading /\ Answered(c).upload = call[c].upload
                \/ call[c].at = "abort" \/ (call[c].at = "complete" /\ IsWhole(c))
      BY <1>1, AnsweredIsGood
    <2> QED BY <1>1, <2>1, <2>2, <2>3, OwnerKept
  <1>6. ASSUME uploads' = uploads, orphans \subseteq orphans',
               call'[c] \in {Retried(c), GivenUp(c)},
               call[c].at = "abort" /\ call'[c].at = "told" =>
                    \A u \in Mine(c) : u.id \in orphans'
        PROVE  OwnerInv'
    <2>1. \A u \in uploads' : call[c].at = "abort" /\ call'[c].at = "told" /\ call[c].upload = u.id =>
              u.id \in orphans'
      BY <1>6 DEF Mine
    <2>2. \/ call'[c].at = call[c].at /\ call'[c].upload = call[c].upload
          \/ call[c].at \in {"part", "complete"} /\ call'[c].at = "abort" /\ call'[c].upload = call[c].upload
          \/ call[c].at \notin {"part", "complete"} /\ call'[c].at = "told"
      BY <1>3, <1>4, <1>6
    <2>3. \A u \in uploads' : call[c].at \in Uploading /\ call[c].upload = u.id =>
              \/ u.id \in orphans'
              \/ call'[c].at \in Uploading /\ call'[c].upload = u.id
      BY <2>1, <2>2
    <2> QED BY <1>1, <1>6, <2>3, OwnerKept
  <1>7. CASE RequestLost(c)
    <2>1. uploads' = uploads /\ call'[c] = Retried(c) /\ orphans' = orphans \cup LetGo(c, Retried(c))
      BY <1>2, <1>7 DEF RequestLost, bucket
    <2>2. call[c].at = "abort" /\ call'[c].at = "told" => \A u \in Mine(c) : u.id \in orphans'
      BY <2>1 DEF LetGo
    <2> QED BY <1>6, <2>1, <2>2
  <1>8. CASE Refused(c)
    <2>1. uploads' = uploads /\ call'[c] = GivenUp(c) /\ orphans' = orphans \cup LetGo(c, GivenUp(c))
      BY <1>2, <1>8 DEF Refused, bucket
    <2>2. call[c].at = "abort" /\ call'[c].at = "told" => \A u \in Mine(c) : u.id \in orphans'
      BY <2>1 DEF LetGo
    <2> QED BY <1>6, <2>1, <2>2
  <1>9. CASE CompleteFails(c)
    <2>1. uploads' = uploads /\ call'[c] = GivenUp(c) /\ orphans' = orphans /\ call[c].at = "complete"
      BY <1>2, <1>9 DEF CompleteFails, bucket
    <2> QED BY <1>6, <2>1
  <1>10. CASE AnswerLost(c) \/ Unreadable(c)
    <2>1. /\ Effect(c) /\ call'[c] \in {Retried(c), GivenUp(c)}
          /\ orphans' = IF call[c].at = "create" THEN orphans \cup {lastId + 1} ELSE orphans
      BY <1>2, <1>10 DEF AnswerLost, Unreadable
    <2>2. /\ \A u \in uploads' : \/ \E v \in uploads : v.id = u.id
                                 \/ call[c].at = "create" /\ u.id = lastId + 1
          /\ call[c].at = "abort" => \A u \in uploads' : u.id # call[c].upload
      BY <2>1, EffectOnUploads
    <2>3. call[c].at \in {"part", "complete"} =>
              call'[c].at \in Uploading /\ call'[c].upload = call[c].upload
      BY <1>3, <1>4, <2>1
    <2> QED BY <1>1, <2>1, <2>2, <2>3, OwnerKept
  <1>11. CASE CutShort(c)
    <2>1. call[c].at \notin Uploading /\ UNCHANGED <<uploads, orphans>>
      BY <1>11 DEF CutShort, bucket
    <2> QED BY <1>1, <2>1, OwnerKept
  <1> QED BY <1>5, <1>7, <1>8, <1>9, <1>10, <1>11 DEF Requests

-----------------------------------------------------------------------------
(* The objects in the bucket.                                              *)

\* What a request may do to the objects: put the one it is about.
LEMMA RequestObjects ==
    ASSUME CallShape, BucketInv, NEW c \in Callers, Requests(c)
    PROVE  \/ UNCHANGED <<stored, kept>>
           \/ \E k \in Keys : stored' = stored \cup {k} /\ kept' \in {kept, kept \cup {k}}
  <1>1. call[c].at \in Writing => call[c].key \in Keys
    BY DEF CallShape, GoodCall
  <1>2. ASSUME Effect(c), kept' = kept
        PROVE  \/ UNCHANGED <<stored, kept>>
               \/ \E k \in Keys : stored' = stored \cup {k} /\ kept' \in {kept, kept \cup {k}}
    <2>1. \/ stored' = stored
          \/ stored' = stored \cup {call[c].key} /\ call[c].at \in {"put", "complete"}
      BY <1>2, EffectOnObjects
    <2> QED BY <1>1, <1>2, <2>1 DEF Writing, Uploading
  <1>3. CASE Serves(c)
    <2>1. Asking(c) /\ Effect(c) /\ call'[c] = Answered(c)
      <3>1. Asking(c) /\ Effect(c) /\ call' = [call EXCEPT ![c] = Answered(c)]
        BY <1>3 DEF Serves
      <3> QED BY <3>1, OthersStay
    <2>2. CASE call'[c].says = "ok" /\ call[c].at \in {"put", "complete"}
      <3>1. kept' = kept \cup {call[c].key}
        BY <1>3, <2>2 DEF Serves
      <3>2. call[c].at = "complete" => IsWhole(c)
        BY <2>1, <2>2, AnsweredIsGood
      <3>3. stored' = stored \cup {call[c].key}
        BY <2>1, <2>2, <3>2 DEF Effect
      <3> QED BY <1>1, <2>2, <3>1, <3>3 DEF Writing, Uploading
    <2>3. CASE ~(call'[c].says = "ok" /\ call[c].at \in {"put", "complete"})
      <3>1. kept' = kept
        BY <1>3, <2>3 DEF Serves
      <3> QED BY <1>2, <2>1, <3>1
    <2> QED BY <2>2, <2>3
  <1>4. CASE AnswerLost(c) \/ Unreadable(c)
    <2>1. Effect(c) /\ kept' = kept
      BY <1>4 DEF AnswerLost, Unreadable
    <2> QED BY <1>2, <2>1
  <1>5. CASE RequestLost(c) \/ Refused(c) \/ CompleteFails(c) \/ CutShort(c)
    BY <1>5 DEF RequestLost, Refused, CompleteFails, CutShort, bucket
  <1> QED BY <1>3, <1>4, <1>5 DEF Requests

LEMMA RequestBucket ==
    ASSUME CallShape, BucketInv, NEW c \in Callers, Requests(c)
    PROVE  BucketInv'
  <1>1. stored' \subseteq Keys /\ kept' \subseteq stored'
    BY RequestObjects DEF BucketInv
  <1>2. \A u \in uploads' : u = [id |-> u.id, key |-> u.key, have |-> u.have]
    <2>1. CASE Effect(c)
      BY <2>1, EffectOnUploads
    <2>2. CASE uploads' = uploads
      BY <2>2 DEF BucketInv
    <2> QED BY <2>1, <2>2 DEF Requests, Serves, AnswerLost, Unreadable, RequestLost, Refused,
                              CompleteFails, CutShort, bucket
  <1> QED BY <1>1, <1>2 DEF BucketInv

-----------------------------------------------------------------------------
(* The files of the transfers.                                             *)

\* A transfer that moves.
LEMMA Moves ==
    ASSUME FileShape, NEW w \in Workers,
           NEW at \in {"look", "take", "read", "write", "out"}, NEW f \in Keys \cup {0},
           at \in {"take", "read", "write"} => f \in Keys, Goes(w, at, f),
           local' \subseteq Keys, listed' \subseteq Keys, missing' \subseteq Keys
    PROVE  FileShape'
  BY DEF FileShape, Goes

\* Nothing is asked in its name, before or after.
LEMMA MovesUnasked ==
    ASSUME FileShape, BusyInv, NEW w \in Workers, NEW at, NEW f, Goes(w, at, f),
           UNCHANGED push, call'[w].at = "free",
           \A v \in Workers : v # w => call'[v] = call[v]
    PROVE  BusyInv'
  <1>1. \A v \in Workers : v # w => worker'[v] = worker[v]
    BY DEF FileShape, Goes
  <1> QED BY <1>1 DEF BusyInv

\* The walk itself has no file and copies nothing.
LEMMA WalkMoves ==
    ASSUME FileShape, BusyInv, UNCHANGED <<push, local, worker>>,
           listed' \subseteq Keys, missing' \subseteq Keys,
           \A w \in Workers : call'[w] = call[w]
    PROVE  FileShape' /\ BusyInv'
  BY DEF FileShape, BusyInv

-----------------------------------------------------------------------------
(* Each step of the walk and of the transfers.                             *)

\* A step that leaves the uploads alone, or takes some away.
LEMMA OwnersStay ==
    ASSUME OwnerInv, uploads' \subseteq uploads, orphans' = orphans,
           \A d \in Callers : call[d].at \in Uploading => call'[d] = call[d]
    PROVE  OwnerInv'
  BY DEF OwnerInv

\* A caller without a request turns to another call.
LEMMA Turns ==
    ASSUME CallShape, NEW c \in Callers, call[c].at \in {"free", "told"},
           NEW r, GoodCall(r), call' = [call EXCEPT ![c] = r]
    PROVE  /\ CallShape' /\ call'[c] = r
           /\ \A d \in Callers : d # c => call'[d] = call[d]
           /\ \A d \in Callers : call[d].at \in Uploading => call'[d] = call[d]
  <1>1. CallShape' /\ call'[c] = r /\ \A d \in Callers : d # c => call'[d] = call[d]
    BY CallChanges
  <1> QED BY <1>1 DEF Uploading

LEMMA AskTurns ==
    ASSUME CallShape, NEW c \in Callers, NEW w \in Writing \cup Reading, NEW k,
           w \in Writing => k \in Keys, Ask(c, w, k)
    PROVE  /\ CallShape'
           /\ \A d \in Callers : d # c => call'[d] = call[d]
           /\ \A d \in Callers : call[d].at \in Uploading => call'[d] = call[d]
  <1>1. call[c].at = "free" /\ call' = [call EXCEPT ![c] = AskedFor(w, k)]
    BY DEF Ask, AskedFor
  <1> QED BY <1>1, AskedIsGood, Turns

LEMMA HangTurns ==
    ASSUME CallShape, NEW c \in Callers, call[c].at = "told", Hangs(c)
    PROVE  /\ CallShape' /\ call'[c].at = "free"
           /\ \A d \in Callers : d # c => call'[d] = call[d]
           /\ \A d \in Callers : call[d].at \in Uploading => call'[d] = call[d]
  BY FreeIsGood, Turns DEF Hangs

\* The walk itself has no file and copies nothing.
LEMMA WalkKeeps ==
    ASSUME UploadInv, UNCHANGED <<bucket, kept, orphans, push, local, worker>>,
           listed' \subseteq Keys, missing' \subseteq Keys, CallShape',
           \A d \in Callers : d # Walk => call'[d] = call[d],
           \A d \in Callers : call[d].at \in Uploading => call'[d] = call[d]
    PROVE  UploadInv'
  <1>1. \A w \in Workers : w \in Callers /\ call'[w] = call[w]
    BY DEF Workers
  <1>2. FileShape' /\ BusyInv'
    BY <1>1, WalkMoves DEF UploadInv
  <1>3. OwnerInv'
    BY OwnersStay DEF UploadInv, bucket
  <1>4. BucketInv'
    BY DEF UploadInv, BucketInv, bucket
  <1> QED BY <1>2, <1>3, <1>4 DEF UploadInv

LEMMA WalkInv == ASSUME UploadInv, WalkStep PROVE UploadInv'
  <1> USE DEF UploadInv
  <1>1. Walk \in Callers
    BY TransfersAssumption
  <1>2. listed \subseteq Keys /\ missing \subseteq Keys /\ local \subseteq Keys
    BY DEF FileShape
  <1>3. call[Walk].found \subseteq Keys
    BY <1>1 DEF CallShape, GoodCall
  <1>4. ASSUME UNCHANGED <<s3vars, push, local, worker>>,
               listed' \subseteq Keys, missing' \subseteq Keys
        PROVE  UploadInv'
    <2>1. CallShape' /\ UNCHANGED <<bucket, kept, orphans, call>>
      BY <1>4 DEF s3vars, CallShape, GoodCall, IsCall
    <2> QED BY <1>4, <2>1, WalkKeeps
  <1>5. CASE ListsLocalSource
    BY <1>2, <1>4, <1>5 DEF ListsLocalSource
  <1>6. CASE ListsLocalDest
    BY <1>2, <1>4, <1>6 DEF ListsLocalDest
  <1>7. CASE AsksNothing \/ Joins
    BY <1>2, <1>4, <1>7 DEF AsksNothing, Joins, progress
  <1>8. CASE ListsBucket \/ AsksFirst
    <2>1. /\ \E w \in {"list", "head"} : \E k : Ask(Walk, w, k)
          /\ UNCHANGED <<push, local, progress>>
      BY <1>8 DEF ListsBucket, AsksFirst
    <2>2. PICK w \in {"list", "head"} : \E k : Ask(Walk, w, k)
      BY <2>1
    <2>3. PICK k : Ask(Walk, w, k)
      BY <2>2
    <2>4. w \in Reading /\ w \notin Writing
      BY DEF Reading, Writing, Uploading
    <2>5. /\ CallShape'
          /\ \A d \in Callers : d # Walk => call'[d] = call[d]
          /\ \A d \in Callers : call[d].at \in Uploading => call'[d] = call[d]
      BY <1>1, <2>3, <2>4, AskTurns
    <2>6. UNCHANGED <<bucket, kept, orphans, push, local, worker, listed, missing>>
      BY <2>1, <2>3 DEF Ask, progress
    <2> QED BY <1>2, <2>5, <2>6, WalkKeeps
  <1>9. ASSUME call[Walk].at = "told", Hangs(Walk),
               UNCHANGED <<bucket, kept, orphans, push, local, worker>>,
               listed' \subseteq Keys, missing' \subseteq Keys
        PROVE  UploadInv'
    BY <1>1, <1>9, HangTurns, WalkKeeps
  <1>10. CASE ReadsSource
    BY <1>2, <1>3, <1>9, <1>10 DEF ReadsSource
  <1>11. CASE ReadsDest
    <2>1. missing' \subseteq Keys
      BY <1>2, <1>11 DEF ReadsDest
    <2> QED BY <1>2, <1>9, <1>11, <2>1 DEF ReadsDest
  <1>12. CASE HearsOne
    <2>1. /\ call[Walk].at = "told" /\ missing' \subseteq Keys /\ listed' = listed
          /\ UNCHANGED <<bucket, kept, orphans, push, local, worker>>
      BY <1>2, <1>12 DEF HearsOne
    <2>2. CASE NextToAsk = {}
      BY <1>2, <1>9, <1>12, <2>1, <2>2 DEF HearsOne
    <2>3. CASE NextToAsk # {}
      <3>1. call' = [call EXCEPT ![Walk] = AskedFor("head", Min(NextToAsk))]
        BY <1>12, <2>3 DEF HearsOne, AskedFor
      <3>2. "head" \in Reading /\ "head" \notin Writing
        BY DEF Reading, Writing, Uploading
      <3>3. GoodCall(AskedFor("head", Min(NextToAsk)))
        BY <3>2, AskedIsGood
      <3>4. /\ CallShape'
            /\ \A d \in Callers : d # Walk => call'[d] = call[d]
            /\ \A d \in Callers : call[d].at \in Uploading => call'[d] = call[d]
        BY <1>1, <2>1, <3>1, <3>3, Turns
      <3> QED BY <1>2, <2>1, <3>4, WalkKeeps
    <2> QED BY <2>2, <2>3
  <1> QED BY <1>5, <1>6, <1>7, <1>8, <1>10, <1>11, <1>12 DEF WalkStep

\* A transfer moves on and asks nothing.
LEMMA WorkerKeeps ==
    ASSUME UploadInv, NEW w \in Workers,
           UNCHANGED <<bucket, kept, orphans, push, listed>>,
           local' \subseteq Keys, missing' \subseteq Keys, CallShape',
           call'[w].at = "free",
           \A d \in Callers : d # w => call'[d] = call[d],
           \A d \in Callers : call[d].at \in Uploading => call'[d] = call[d],
           NEW at \in {"look", "take", "read", "write", "out"}, NEW f \in Keys \cup {0},
           at \in {"take", "read", "write"} => f \in Keys, Goes(w, at, f)
    PROVE  UploadInv'
  <1>1. FileShape'
    <2>1. listed' \subseteq Keys
      BY DEF UploadInv, FileShape
    <2> QED BY <2>1, Moves DEF UploadInv
  <1>2. BusyInv'
    <2>1. \A v \in Workers : v # w => call'[v] = call[v]
      BY DEF Workers
    <2> QED BY <2>1, MovesUnasked DEF UploadInv
  <1>3. OwnerInv'
    BY OwnersStay DEF UploadInv, bucket
  <1>4. BucketInv'
    BY DEF UploadInv, BucketInv, bucket
  <1> QED BY <1>1, <1>2, <1>3, <1>4 DEF UploadInv

\* ... without a word of the bucket.
LEMMA WorkerAlone ==
    ASSUME UploadInv, NEW w \in Workers, call[w].at = "free",
           UNCHANGED <<bucket, call, kept, orphans, push, listed>>,
           local' \subseteq Keys, missing' \subseteq Keys,
           NEW at \in {"look", "take", "read", "write", "out"}, NEW f \in Keys \cup {0},
           at \in {"take", "read", "write"} => f \in Keys, Goes(w, at, f)
    PROVE  UploadInv'
  <1>1. CallShape'
    BY DEF UploadInv, CallShape, GoodCall, IsCall
  <1> QED BY <1>1, WorkerKeeps

LEMMA WorkerInv == ASSUME UploadInv, NEW w \in Workers, WorkerStep(w) PROVE UploadInv'
  <1> USE DEF UploadInv
  <1>1. w \in Callers /\ w # Walk
    BY DEF Workers
  <1>2. listed \subseteq Keys /\ missing \subseteq Keys /\ local \subseteq Keys
    BY DEF FileShape
  <1>3. worker[w].at \in {"take", "read", "write"} => worker[w].file \in Keys
    BY DEF FileShape
  <1>4. call[w].at # "free" => worker[w].at = IF push THEN "write" ELSE "read"
    BY DEF BusyInv
  <1>5. \/ Lands(w) \/ IsGone(w) \/ Fails(w) => \E at \in {"look", "out"} : Goes(w, at, 0)
    BY DEF Lands, IsGone, Fails
  <1>6. CASE Looks(w)
    <2>1. /\ call[w].at = "free" /\ missing' \subseteq Keys
          /\ UNCHANGED <<s3vars, push, local, listed>>
      BY <1>2, <1>4, <1>6 DEF Looks
    <2>2. UNCHANGED <<bucket, call, kept, orphans>>
      BY <2>1 DEF s3vars
    <2>3. \/ Goes(w, "out", 0) \/ \E f \in Keys : Goes(w, "take", f)
      BY <1>2, <1>6 DEF Looks
    <2> QED BY <1>2, <2>1, <2>2, <2>3, WorkerAlone
  <1>7. CASE Takes(w)
    <2>1. /\ call[w].at = "free" /\ worker[w].file \in Keys
          /\ UNCHANGED <<s3vars, push, local, listed, missing>>
      BY <1>3, <1>4, <1>7 DEF Takes
    <2>2. UNCHANGED <<bucket, call, kept, orphans>>
      BY <2>1 DEF s3vars
    <2>3. worker' = worker \/ Goes(w, "read", worker[w].file)
      BY <1>7 DEF Takes
    <2>4. CASE worker' = worker
      <3>1. CallShape'
        BY <2>2 DEF CallShape, GoodCall, IsCall
      <3> QED BY <1>2, <2>1, <2>2, <2>4, <3>1, WalkKeeps
    <2>5. CASE Goes(w, "read", worker[w].file)
      BY <1>2, <2>1, <2>2, <2>5, WorkerAlone
    <2> QED BY <2>3, <2>4, <2>5
  <1>8. CASE ReadsHere(w)
    <2>1. /\ call[w].at = "free" /\ worker[w].file \in Keys
          /\ UNCHANGED <<s3vars, push, local, listed, missing>>
      BY <1>3, <1>4, <1>8 DEF ReadsHere, Here
    <2>2. UNCHANGED <<bucket, call, kept, orphans>>
      BY <2>1 DEF s3vars
    <2>3. Goes(w, "write", worker[w].file) \/ Goes(w, "look", 0)
      BY <1>8 DEF ReadsHere, IsGone
    <2> QED BY <1>2, <2>1, <2>2, <2>3, WorkerAlone
  <1>9. CASE WritesHere(w)
    <2>1. /\ call[w].at = "free" /\ worker[w].file \in Keys
          /\ local' = local \cup {worker[w].file}
          /\ UNCHANGED <<s3vars, push, listed, missing>>
      BY <1>3, <1>4, <1>9 DEF WritesHere, Here
    <2>2. UNCHANGED <<bucket, call, kept, orphans>>
      BY <2>1 DEF s3vars
    <2>3. Goes(w, "look", 0)
      BY <1>9 DEF WritesHere, Lands
    <2> QED BY <1>2, <2>1, <2>2, <2>3, WorkerAlone
  <1>10. CASE FailsHere(w)
    <2>1. /\ call[w].at = "free"
          /\ UNCHANGED <<bucket, call, kept, orphans, push, local, listed, missing>>
      BY <1>4, <1>10 DEF FailsHere
    <2>2. Goes(w, "out", 0)
      BY <1>10 DEF FailsHere, Fails
    <2> QED BY <1>2, <2>1, <2>2, WorkerAlone
  <1>11. CASE AsksBucket(w)
    <2>1. /\ worker[w].at = IF push THEN "write" ELSE "read"
          /\ UNCHANGED <<push, local, progress>>
      BY <1>11 DEF AsksBucket
    <2>2. PICK what \in {"create", "put", "get"} : Ask(w, what, worker[w].file)
      BY <1>11 DEF AsksBucket, AskPut
    <2>3. what \in Writing \cup Reading /\ worker[w].file \in Keys
      BY <1>3, <2>1 DEF Writing, Reading
    <2>4. /\ CallShape'
          /\ \A d \in Callers : d # w => call'[d] = call[d]
          /\ \A d \in Callers : call[d].at \in Uploading => call'[d] = call[d]
      BY <1>1, <2>2, <2>3, AskTurns
    <2>5. UNCHANGED <<bucket, kept, orphans, local, push, worker, listed, missing>>
      BY <2>1, <2>2 DEF Ask, progress
    <2>6. FileShape'
      BY <2>5 DEF FileShape
    <2>7. BusyInv'
      BY <2>1, <2>4, <2>5 DEF BusyInv, Workers
    <2>8. OwnerInv'
      BY <2>4, <2>5, OwnersStay DEF bucket
    <2>9. BucketInv'
      BY <2>5 DEF BucketInv, bucket
    <2> QED BY <2>4, <2>6, <2>7, <2>8, <2>9
  <1>12. CASE HearsBucket(w)
    <2>1. /\ call[w].at = "told" /\ Hangs(w)
          /\ UNCHANGED <<bucket, kept, orphans, push, local, listed, missing>>
      BY <1>12 DEF HearsBucket
    <2>2. worker[w].file \in Keys
      BY <1>3, <1>4, <2>1
    <2>3. /\ CallShape' /\ call'[w].at = "free"
          /\ \A d \in Callers : d # w => call'[d] = call[d]
          /\ \A d \in Callers : call[d].at \in Uploading => call'[d] = call[d]
      BY <1>1, <2>1, HangTurns
    <2>4. \/ Goes(w, "look", 0) \/ Goes(w, "out", 0) \/ Goes(w, "write", worker[w].file)
      BY <1>12 DEF HearsBucket, Fails, IsGone, Lands
    <2> QED BY <1>2, <2>1, <2>2, <2>3, <2>4, WorkerKeeps
  <1>13. CASE Panics(w)
    <2>1. /\ call' = [call EXCEPT ![w] = Free] /\ Goes(w, "out", 0)
          /\ orphans' = orphans \cup {u.id : u \in Mine(w)}
          /\ UNCHANGED <<bucket, kept, push, local, listed, missing>>
      BY <1>13 DEF Panics, Hangs
    <2>2. CallShape' /\ call'[w].at = "free" /\ \A d \in Callers : d # w => call'[d] = call[d]
      BY <1>1, <2>1, FreeIsGood, CallChanges
    <2>3. FileShape'
      BY <1>2, <2>1, Moves
    <2>4. BusyInv'
      <3>1. \A v \in Workers : v # w => call'[v] = call[v]
        BY <2>2 DEF Workers
      <3> QED BY <2>1, <2>2, <3>1, MovesUnasked
    <2>5. OwnerInv'
      <3>1. UNCHANGED uploads /\ \A u \in uploads : call[w].upload = u.id => u.id \in orphans'
        BY <2>1 DEF bucket, Mine
      <3> QED BY <1>1, <2>1, <2>2, <3>1, OwnerKept
    <2>6. BucketInv'
      BY <2>1 DEF BucketInv, bucket
    <2> QED BY <2>2, <2>3, <2>4, <2>5, <2>6
  <1> QED BY <1>6, <1>7, <1>8, <1>9, <1>10, <1>11, <1>12, <1>13 DEF WorkerStep

\* A request of the walk or of a transfer.
LEMMA ClientInv == ASSUME UploadInv, NEW c \in Callers, ClientStep(c) PROVE UploadInv'
  <1> USE DEF UploadInv
  <1>1. Requests(c) /\ UNCHANGED <<push, local, progress>>
    BY DEF ClientStep
  <1>2. Asking(c) /\ CallShape' /\ \A d \in Callers : d # c => call'[d] = call[d]
    BY <1>1, RequestCall
  <1>3. UNCHANGED <<listed, missing, worker>>
    BY <1>1 DEF progress
  <1>4. FileShape'
    BY <1>1, <1>3 DEF FileShape
  <1>5. BusyInv'
    <2>1. call[c].at # "free"
      BY <1>2 DEF Asking
    <2> QED BY <1>1, <1>2, <1>3, <2>1 DEF BusyInv, Workers
  <1>6. BucketInv' /\ OwnerInv'
    BY <1>1, RequestBucket, RequestOwner
  <1> QED BY <1>2, <1>4, <1>5, <1>6

\* What others do: uploads swept away, files deleted.
LEMMA OthersInv ==
    ASSUME UploadInv,
           \/ Sweeps /\ UNCHANGED <<push, local, walk, progress>>
           \/ Vanishes
    PROVE  UploadInv'
  <1> USE DEF UploadInv
  <1>1. /\ UNCHANGED <<call, orphans, push, progress>>
        /\ uploads' \subseteq uploads /\ local' \subseteq local
    BY DEF Sweeps, Vanishes
  <1>2. stored' \subseteq stored /\ kept' \subseteq stored'
    BY DEF Sweeps, Vanishes, BucketInv
  <1>3. CallShape'
    BY <1>1 DEF CallShape, GoodCall, IsCall
  <1>4. FileShape' /\ BusyInv'
    BY <1>1 DEF FileShape, BusyInv, progress
  <1>5. BucketInv'
    BY <1>1, <1>2 DEF BucketInv
  <1>6. OwnerInv'
    BY <1>1, OwnersStay
  <1> QED BY <1>3, <1>4, <1>5, <1>6

LEMMA InitUpload == ASSUME Init PROVE UploadInv
  <1>1. CallShape
    <2>1. \A c \in Callers : call[c] = Free
      BY DEF Init, S3Init
    <2>2. call = [c \in Callers |-> call[c]]
      BY DEF Init, S3Init
    <2> QED BY <2>1, <2>2, FreeIsGood DEF CallShape
  <1>2. FileShape
    BY DEF Init, FileShape, Idle
  <1>3. BusyInv
    <2>1. \A w \in Workers : call[w].at = "free"
      BY FreeIsGood DEF Init, S3Init, Workers
    <2> QED BY <2>1 DEF BusyInv
  <1>4. BucketInv /\ OwnerInv
    BY DEF Init, S3Init, BucketInv, OwnerInv
  <1> QED BY <1>1, <1>2, <1>3, <1>4 DEF UploadInv

\* The calls of put_multipart and the objects they leave, for any number of
\* transfers, of lost requests and lost answers.
THEOREM UploadInvariant == Spec => []UploadInv
  <1>1. Init => UploadInv
    BY InitUpload
  <1>2. UploadInv /\ [Next]_vars => UploadInv'
    <2> SUFFICES ASSUME UploadInv, [Next]_vars PROVE UploadInv'
      OBVIOUS
    <2>1. CASE Next
      BY <2>1, WalkInv, WorkerInv, ClientInv, OthersInv DEF Next
    <2>2. CASE UNCHANGED vars
      <3>1. UNCHANGED <<bucket, kept, orphans, call, push, local, worker, listed, missing>>
        BY <2>2 DEF vars, s3vars, progress
      <3>2. CallShape'
        BY <3>1 DEF UploadInv, CallShape, GoodCall, IsCall
      <3>3. listed \subseteq Keys /\ missing \subseteq Keys
        BY DEF UploadInv, FileShape
      <3> QED BY <3>1, <3>2, <3>3, WalkKeeps
    <2> QED BY <2>1, <2>2
  <1> QED BY <1>1, <1>2, PTL DEF Spec

\* put_multipart and abort: no upload is left that nobody works on, but for
\* those whose identifier was lost or whose abort failed.
THEOREM UploadsOwned == Spec => []UploadsHaveAnOwner
  <1>1. UploadInv => UploadsHaveAnOwner
    BY DEF UploadInv, OwnerInv, UploadsHaveAnOwner, Asking, Uploading
  <1> QED BY <1>1, UploadInvariant, PTL

-----------------------------------------------------------------------------
(* FileService.                                                            *)

\* The objects as the service has them.
Objects(set) == [k \in Keys |-> IF k \in set THEN k ELSE 0]

LEMMA ObjectPut ==
    ASSUME NEW set, NEW k \in Keys
    PROVE  /\ Objects(set \cup {k}) = [Objects(set) EXCEPT ![k] = k]
           /\ Objects(set \ {k}) = [Objects(set) EXCEPT ![k] = 0]
  BY DEF Objects

\* The steps that change what the bucket holds, or what it answers for.
LEMMA ServiceStep ==
    ASSUME UploadInv, Next
    PROVE  Service!Next \/ UNCHANGED <<Objects(stored), Objects(kept)>>
  <1> DEFINE C == Objects(stored)
             K == Objects(kept)
  <1>1. kept \subseteq stored /\ stored \subseteq Keys
    BY DEF UploadInv, BucketInv
  <1>2. C' = Objects(stored') /\ K' = Objects(kept')
    BY DEF Objects
  <1>3. ASSUME NEW k \in Keys, NEW v \in {k, 0}, C' = [C EXCEPT ![k] = v],
               K' = [K EXCEPT ![k] = 0] \/ K' = [K EXCEPT ![k] = v]
        PROVE  Service!Next
    <2>1. Service!Replace(k)
      BY <1>3 DEF Service!Replace, Service!Contents, Objects
    <2> QED BY <2>1 DEF Service!Next
  <1>4. ASSUME NEW k \in Keys, stored' = stored \cup {k}, kept' \in {kept, kept \cup {k}}
        PROVE  Service!Next \/ UNCHANGED <<C, K>>
    <2>1. C' = [C EXCEPT ![k] = k]
      BY <1>2, <1>4, ObjectPut
    <2>2. CASE kept' = kept \cup {k}
      <3>1. K' = [K EXCEPT ![k] = k]
        BY <1>2, <2>2, ObjectPut
      <3> QED BY <1>3, <2>1, <3>1
    <2>3. CASE kept' = kept /\ k \in kept
      <3>1. stored' = stored
        BY <1>1, <1>4, <2>3
      <3> QED BY <1>2, <2>3, <3>1
    <2>4. CASE kept' = kept /\ k \notin kept
      <3>1. K' = [K EXCEPT ![k] = 0]
        BY <1>2, <2>4 DEF Objects
      <3> QED BY <1>3, <2>1, <3>1
    <2> QED BY <1>4, <2>2, <2>3, <2>4
  <1>5. ASSUME NEW c \in Callers, ClientStep(c)
        PROVE  Service!Next \/ UNCHANGED <<C, K>>
    <2>1. \/ UNCHANGED <<stored, kept>>
          \/ \E k \in Keys : stored' = stored \cup {k} /\ kept' \in {kept, kept \cup {k}}
      BY <1>5, RequestObjects DEF ClientStep, UploadInv
    <2> QED BY <1>2, <1>4, <2>1
  <1>6. CASE Vanishes
    <2>1. CASE push
      BY <1>2, <1>6, <2>1 DEF Vanishes
    <2>2. CASE ~push
      <3>1. PICK k \in Keys : stored' = stored \ {k} /\ kept' = kept \ {k}
        BY <1>1, <1>6, <2>2 DEF Vanishes
      <3>2. C' = [C EXCEPT ![k] = 0] /\ K' = [K EXCEPT ![k] = 0]
        BY <1>2, <3>1, ObjectPut
      <3> QED BY <1>3, <3>2
    <2> QED BY <2>1, <2>2
  <1>7. ASSUME UNCHANGED <<bucket, kept>>
        PROVE  UNCHANGED <<C, K>>
    BY <1>2, <1>7 DEF bucket
  <1>8. CASE WalkStep
    <2>1. UNCHANGED <<bucket, kept>>
      BY <1>8 DEF WalkStep, ListsLocalSource, ListsBucket, ReadsSource, ListsLocalDest,
                  ReadsDest, AsksFirst, HearsOne, AsksNothing, Joins, Ask, s3vars
    <2> QED BY <1>7, <2>1
  <1>9. ASSUME NEW w \in Workers, WorkerStep(w)
        PROVE  UNCHANGED <<C, K>>
    <2>1. UNCHANGED <<bucket, kept>>
      BY <1>9 DEF WorkerStep, Looks, Takes, ReadsHere, WritesHere, Here, FailsHere,
                  AsksBucket, AskPut, Ask, HearsBucket, Panics, s3vars
    <2> QED BY <1>7, <2>1
  <1>10. CASE Sweeps
    BY <1>2, <1>10 DEF Sweeps
  <1>11. \/ WalkStep \/ \E w \in Workers : WorkerStep(w)
         \/ \E c \in Callers : ClientStep(c)
         \/ Sweeps \/ Vanishes
    BY DEF Next
  <1> QED BY <1>5, <1>6, <1>8, <1>9, <1>10, <1>11

\* The bucket is a FileService: an object is whole or absent, and one that a
\* put said Ok of stays until somebody deletes it, through every retry.
THEOREM BucketIsFileService == Spec => ImplementsFileService
  <1>1. Init => Service!Init
    BY DEF Init, S3Init, Service!Init, Service!Contents
  <1>2. UploadInv /\ [Next]_vars => [Service!Next]_(Service!vars)
    <2> SUFFICES ASSUME UploadInv, [Next]_vars PROVE [Service!Next]_(Service!vars)
      OBVIOUS
    <2>1. CASE Next
      BY <2>1, ServiceStep DEF Service!vars, Objects
    <2>2. CASE UNCHANGED vars
      BY <2>2 DEF vars, s3vars, bucket, Service!vars
    <2> QED BY <2>1, <2>2
  <1> QED BY <1>1, <1>2, UploadInvariant, PTL DEF Spec, ImplementsFileService, Service!Spec

-----------------------------------------------------------------------------
(* What a walk copied.                                                     *)

\* What a request that is given up on or tried again tells: nothing.
LEMMA UntoldFields ==
    ASSUME CallShape, NEW c \in Callers, Asking(c), NEW r \in {GivenUp(c), Retried(c)}
    PROVE  Tells(call[c], r) /\ r.says # "ok"
  <1>1. PICK a, k, u, p, t, f, s :
            /\ call[c] = Fields(a, k, u, p, t, f, s)
            /\ a \in {"free", "told"} \cup Writing \cup Reading
            /\ a \notin {"free", "told"} => s = "nothing"
    BY CallHasFields
  <1>2. call[c].at = a
    BY <1>1 DEF Fields
  <1>3. a \in Writing \cup Reading /\ s = "nothing"
    BY <1>1, <1>2 DEF Asking
  <1>4. GivenUp(c) = IF a \in {"part", "complete"}
                     THEN Fields("abort", k, u, p, 0, f, s)
                     ELSE Fields("told", k, u, p, t, f, "err")
    BY <1>1, GivenUpFields
  <1>5. Retried(c) \in {GivenUp(c), Fields(a, k, u, p, t + 1, f, s)}
    BY <1>1, RetriedFields
  <1>6. \A b, x, v, q, y, g, z : Fields(b, x, v, q, y, g, z).says = z
    BY DEF Fields
  <1>7. /\ \A x \in {"part", "complete"} : x \in Writing /\ x \notin Reading
        /\ "abort" \in Writing
    BY DEF Writing, Reading, Uploading
  <1>8. CASE r = Fields("abort", k, u, p, 0, f, s) /\ a \in {"part", "complete"}
    <2>1. Tells(Fields(a, k, u, p, t, f, s), Fields("abort", k, u, p, 0, f, s))
      BY <1>3, <1>7, <1>8, TellsFields
    <2> QED BY <1>1, <1>3, <1>6, <1>8, <2>1
  <1>9. CASE r = Fields("told", k, u, p, t, f, "err")
    <2>1. Tells(Fields(a, k, u, p, t, f, s), Fields("told", k, u, p, t, f, "err"))
      BY TellsFields
    <2> QED BY <1>1, <1>6, <1>9, <2>1
  <1>10. CASE r = Fields(a, k, u, p, t + 1, f, s)
    <2>1. Tells(Fields(a, k, u, p, t, f, s), Fields(a, k, u, p, t + 1, f, s))
      BY <1>3, TellsFields
    <2> QED BY <1>1, <1>3, <1>6, <1>10, <2>1
  <1> QED BY <1>4, <1>5, <1>8, <1>9, <1>10

\* What a request makes of its call and of the objects.
LEMMA RequestTells ==
    ASSUME CallShape, BucketInv, NEW c \in Callers, Requests(c)
    PROVE  /\ call[c].at \in Writing \cup Reading
           /\ Tells(call[c], call'[c])
           /\ call[c].at \in Writing /\ call'[c].says = "ok" => call[c].key \in stored'
           /\ stored \subseteq stored' /\ (call[c].at \notin Writing => stored' = stored)
  <1>1. Asking(c)
    BY RequestCall
  <1>2. call[c].at \in Writing \cup Reading
    BY <1>1 DEF CallShape, GoodCall, Asking
  <1>3. \A r : call' = [call EXCEPT ![c] = r] => call'[c] = r
    BY OthersStay
  <1>4. {"put", "complete"} \subseteq Writing
    BY DEF Writing, Uploading
  <1>5. Effect(c) => /\ stored \subseteq stored'
                     /\ call[c].at \notin Writing => stored' = stored
                     /\ call[c].at = "put" \/ (call[c].at = "complete" /\ IsWhole(c)) =>
                            call[c].key \in stored'
    BY <1>4 DEF Effect
  <1>6. CASE Serves(c)
    <2>1. call'[c] = Answered(c) /\ Effect(c)
      BY <1>3, <1>6 DEF Serves
    <2> QED BY <1>1, <1>2, <1>5, <2>1, AnsweredTells
  <1>7. CASE AnswerLost(c) \/ Unreadable(c)
    <2>1. Effect(c) /\ call'[c] \in {GivenUp(c), Retried(c)}
      BY <1>3, <1>7 DEF AnswerLost, Unreadable
    <2> QED BY <1>1, <1>2, <1>5, <2>1, UntoldFields
  <1>8. CASE RequestLost(c) \/ Refused(c) \/ CompleteFails(c)
    <2>1. stored' = stored /\ call'[c] \in {GivenUp(c), Retried(c)}
      BY <1>3, <1>8 DEF RequestLost, Refused, CompleteFails, bucket
    <2> QED BY <1>1, <1>2, <2>1, UntoldFields
  <1>9. CASE CutShort(c)
    <2>1. Tells(call[c], call'[c])
      BY <1>3, <1>9, CutShortTells
    <2>2. stored' = stored /\ call[c].at = "list" /\ "list" \notin Writing
      BY <1>9 DEF CutShort, bucket, Writing, Uploading
    <2> QED BY <1>2, <2>1, <2>2
  <1> QED BY <1>6, <1>7, <1>8, <1>9 DEF Requests

LEMMA CallIs ==
    ASSUME UploadInv, NEW c \in Callers
    PROVE  /\ \A r : call' = [call EXCEPT ![c] = r] =>
                call'[c] = r /\ \A d \in Callers : d # c => call'[d] = call[d]
           /\ Hangs(c) => call'[c].at = "free" /\ \A d \in Callers : d # c => call'[d] = call[d]
           /\ \A what \in Writing \cup Reading : \A k :
                (what \in Writing => k \in Keys) /\ Ask(c, what, k) =>
                    /\ call[c].at = "free"
                    /\ call'[c].at = what /\ call'[c].key = k /\ call'[c].found = {}
                    /\ call'[c].says = "nothing"
                    /\ \A d \in Callers : d # c => call'[d] = call[d]
  <1>1. \A r : call' = [call EXCEPT ![c] = r] =>
                call'[c] = r /\ \A d \in Callers : d # c => call'[d] = call[d]
    BY OthersStay DEF UploadInv
  <1>2. Hangs(c) => call'[c].at = "free" /\ \A d \in Callers : d # c => call'[d] = call[d]
    BY <1>1, FreeIsGood DEF Hangs
  <1>3. ASSUME NEW what, NEW k, Ask(c, what, k)
        PROVE  /\ call[c].at = "free"
               /\ call'[c].at = what /\ call'[c].key = k /\ call'[c].found = {}
               /\ call'[c].says = "nothing"
               /\ \A d \in Callers : d # c => call'[d] = call[d]
    <2>1. call' = [call EXCEPT ![c] = AskedFor(what, k)] /\ call[c].at = "free"
      BY <1>3 DEF Ask, AskedFor
    <2>2. AskedFor(what, k) = Fields(what, k, 0, 0, 0, {}, "nothing")
      BY AskedForFields
    <2>3. /\ AskedFor(what, k).at = what /\ AskedFor(what, k).key = k
          /\ AskedFor(what, k).found = {} /\ AskedFor(what, k).says = "nothing"
      BY <2>2 DEF Fields
    <2> QED BY <1>1, <2>1, <2>3
  <1> QED BY <1>1, <1>2, <1>3

\* Steps of the walk leave the transfers alone.
LEMMA WalkHearsAlone ==
    ASSUME WorkerHears, UNCHANGED <<push, stored, worker>>,
           \A d \in Callers : d # Walk => call'[d] = call[d]
    PROVE  WorkerHears'
  <1>1. \A w \in Workers : call'[w] = call[w]
    BY DEF Workers
  <1> QED BY <1>1 DEF WorkerHears

LEMMA WalkCopies ==
    ASSUME CopyInv, WalkStep
    PROVE  WalkShape' /\ WalkHears' /\ WorkerHears' /\ Accounted'
  <1> USE DEF CopyInv
  <1>1. /\ Walk \in Callers /\ UNCHANGED <<push, worker, failed, panicked, vanished, local, stored>>
    <2>1. CASE ListsBucket \/ AsksFirst
      BY <2>1, TransfersAssumption DEF ListsBucket, AsksFirst, Ask, progress, bucket
    <2>2. CASE Joins \/ AsksNothing \/ ListsLocalSource \/ ListsLocalDest
      BY <2>2, TransfersAssumption DEF Joins, AsksNothing, ListsLocalSource, ListsLocalDest, progress,
         s3vars, bucket
    <2>3. CASE ReadsSource \/ ReadsDest \/ HearsOne
      BY <2>3, TransfersAssumption DEF ReadsSource, ReadsDest, HearsOne, bucket
    <2> QED BY <2>1, <2>2, <2>3 DEF WalkStep
  <1>2. There' = There /\ Source' = Source /\ InHand' = InHand
    BY <1>1 DEF There, Source, InHand
  <1>3. CASE ListsLocalSource \/ ListsLocalDest
    <2>1. /\ call' = call /\ call[Walk].at = "free" /\ listed' \subseteq Keys
          /\ \/ walk = "source" /\ walk' = "dest"
             \/ /\ walk = "dest" /\ walk' = "copy" /\ ~push /\ listed' = listed
                /\ missing' = listed \ local
      BY <1>3 DEF ListsLocalSource, ListsLocalDest, WalkHears, s3vars, UploadInv, FileShape
    <2>2. WorkerHears'
      BY <1>1, <2>1 DEF WorkerHears
    <2>3. WalkHears'
      BY <2>1 DEF WalkHears
    <2>4. WalkShape'
      BY <1>1, <2>1 DEF WalkShape, Ended
    <2>5. Accounted'
      BY <1>1, <1>2, <2>1 DEF Accounted, There
    <2> QED BY <2>2, <2>3, <2>4, <2>5
  <1>4. CASE ListsBucket
    <2>1. /\ walk = (IF push THEN "dest" ELSE "source") /\ Ask(Walk, "list", 0)
          /\ UNCHANGED <<walk, listed, missing>>
      BY <1>4 DEF ListsBucket, progress
    <2>2. "list" \in Writing \cup Reading /\ "list" \notin Writing
      BY DEF Writing, Reading, Uploading
    <2>3. /\ call'[Walk].at = "list" /\ call'[Walk].found = {}
          /\ \A d \in Callers : d # Walk => call'[d] = call[d]
      BY <1>1, <2>1, <2>2, CallIs
    <2>4. WalkHears'
      BY <1>1, <2>1, <2>3 DEF WalkHears
    <2>5. WalkShape'
      BY <1>1, <2>1 DEF WalkShape, Ended
    <2>6. Accounted'
      BY <1>1, <2>1 DEF Accounted
    <2> QED BY <1>1, <2>3, <2>4, <2>5, <2>6, WalkHearsAlone
  <1>5. CASE ReadsSource
    <2>1. Hangs(Walk) /\ walk = "source" /\ walk' \in {"dest", "err"}
      BY <1>5 DEF ReadsSource
    <2>2. call'[Walk].at = "free" /\ \A d \in Callers : d # Walk => call'[d] = call[d]
      BY <1>1, <2>1, CallIs
    <2>3. WalkShape'
      BY <1>1, <2>1 DEF WalkShape, Ended
    <2> QED BY <1>1, <2>1, <2>2, <2>3, WalkHearsAlone DEF WalkHears, Accounted
  <1>6. CASE ReadsDest
    <2>1. Hangs(Walk) /\ walk = "dest" /\ push /\ walk' \in {"copy", "ask"} /\ listed' = listed
      BY <1>6 DEF ReadsDest
    <2>2. call'[Walk].at = "free" /\ \A d \in Callers : d # Walk => call'[d] = call[d]
      BY <1>1, <2>1, CallIs
    <2>3. call[Walk].found \subseteq stored
      BY <1>6, <2>1 DEF ReadsDest, WalkHears
    <2>4. /\ walk' = "copy" => missing' = listed \ call[Walk].found
          /\ walk' = "ask" => missing' = listed
      BY <1>6 DEF ReadsDest
    <2>5. WalkShape'
      BY <1>1, <2>1 DEF WalkShape, Ended
    <2>6. Accounted'
      BY <1>1, <2>1, <2>3, <2>4 DEF Accounted, There
    <2> QED BY <1>1, <2>2, <2>5, <2>6, WalkHearsAlone DEF WalkHears
  <1>7. CASE AsksFirst
    <2>1. /\ walk = "ask" /\ listed # {} /\ Ask(Walk, "head", Min(listed))
          /\ UNCHANGED <<walk, listed, missing>>
      BY <1>7 DEF AsksFirst, progress
    <2>2. "head" \in Writing \cup Reading /\ "head" \notin Writing
      BY DEF Writing, Reading, Uploading
    <2>3. /\ call'[Walk].at = "head"
          /\ \A d \in Callers : d # Walk => call'[d] = call[d]
      BY <1>1, <2>1, <2>2, CallIs
    <2>4. WalkHears'
      BY <1>1, <2>1, <2>3 DEF WalkHears
    <2>5. WalkShape'
      BY <1>1, <2>1 DEF WalkShape, Ended
    <2>6. Accounted'
      BY <1>1, <2>1 DEF Accounted
    <2> QED BY <1>1, <2>3, <2>4, <2>5, <2>6, WalkHearsAlone
  <1>8. CASE HearsOne
    <2>1. /\ walk = "ask" /\ call[Walk].at = "told" /\ listed' = listed
          /\ missing' = IF call[Walk].says = "ok" THEN missing \ {call[Walk].key} ELSE missing
      BY <1>8 DEF HearsOne
    <2>2. /\ call[Walk].says = "ok" => call[Walk].key \in stored
          /\ listed # {}
      BY <2>1 DEF WalkHears
    <2>3. push /\ listed \subseteq missing' \cup stored
      BY <2>1, <2>2 DEF Accounted, WalkShape
    <2>4. /\ \/ walk' = "copy" /\ call'[Walk].at = "free"
             \/ walk' = "ask" /\ call'[Walk].at = "head"
          /\ \A d \in Callers : d # Walk => call'[d] = call[d]
      <3>1. CASE NextToAsk = {}
        BY <1>1, <1>8, <3>1, CallIs DEF HearsOne
      <3>2. CASE NextToAsk # {}
        <4>1. call' = [call EXCEPT ![Walk] = AskedFor("head", Min(NextToAsk))] /\ walk' = walk
          BY <1>8, <3>2 DEF HearsOne, AskedFor
        <4>2. AskedFor("head", Min(NextToAsk)) = Fields("head", Min(NextToAsk), 0, 0, 0, {}, "nothing")
          BY AskedForFields
        <4>3. AskedFor("head", Min(NextToAsk)).at = "head"
          BY <4>2 DEF Fields
        <4> QED BY <1>1, <2>1, <4>1, <4>3, CallIs
      <3> QED BY <3>1, <3>2
    <2>5. WalkHears'
      BY <2>1, <2>2, <2>4 DEF WalkHears
    <2>6. WalkShape'
      BY <1>1, <2>1, <2>3, <2>4 DEF WalkShape, Ended
    <2>7. Accounted'
      BY <1>1, <2>1, <2>3 DEF Accounted, There
    <2> QED BY <1>1, <2>4, <2>5, <2>6, <2>7, WalkHearsAlone
  <1>9. CASE AsksNothing \/ Joins
    <2>1. /\ UNCHANGED <<call, listed, missing>> /\ call[Walk].at = "free"
          /\ \/ walk = "ask" /\ listed = {} /\ walk' = "copy"
             \/ /\ walk = "copy" /\ walk' \in Ended
                /\ walk' = "ok" => ~failed /\ ~panicked /\ \A w \in Workers : worker[w].at = "out"
      BY <1>9 DEF AsksNothing, Joins, progress, s3vars, WalkHears, Ended
    <2>2. WorkerHears'
      BY <1>1, <2>1 DEF WorkerHears
    <2>3. WalkHears'
      BY <2>1 DEF WalkHears
    <2>4. WalkShape'
      BY <1>1, <2>1 DEF WalkShape, Ended
    <2>5. Accounted'
      BY <1>1, <1>2, <2>1 DEF Accounted, Ended
    <2> QED BY <2>2, <2>3, <2>4, <2>5
  <1> QED BY <1>3, <1>4, <1>5, <1>6, <1>7, <1>8, <1>9 DEF WalkStep

\* A transfer moves on: its file stays in hand, or something became of it.
LEMMA TransferMoves ==
    ASSUME FileShape, WalkShape, Accounted, NEW w \in Workers, NEW at, NEW g, Goes(w, at, g),
           UNCHANGED <<push, walk, listed>>, walk \in {"copy", "err", "panic"},
           failed => failed', panicked => panicked', vanished \subseteq vanished',
           There \subseteq There', Source' \subseteq Source, missing' \subseteq missing,
           at = "out" => failed' \/ panicked' \/ missing' = {},
           \A f \in missing \ missing' : at = "take" /\ g = f,
           worker[w].at \in {"take", "read", "write"} =>
                \/ at \in {"take", "read", "write"} /\ g = worker[w].file
                \/ worker[w].file \in There'
                \/ worker[w].file \in vanished' /\ worker[w].file \notin Source'
                \/ failed' \/ panicked'
    PROVE  WalkShape' /\ Accounted'
  <1>1. /\ worker'[w].at = at /\ worker'[w].file = g
        /\ \A v \in Workers : v # w => worker'[v] = worker[v]
    BY DEF FileShape, Goes
  <1>2. ASSUME NEW v \in Workers, worker'[v].at \in {"take", "read", "write"}
        PROVE  worker'[v].file \in InHand'
    BY <1>2 DEF InHand
  <1>3. ASSUME NEW f \in InHand
        PROVE  f \in InHand' \/ (worker[w].at \in {"take", "read", "write"} /\ f = worker[w].file)
    <2>1. PICK v \in Workers : worker[v].at \in {"take", "read", "write"} /\ worker[v].file = f
      BY <1>3 DEF InHand
    <2>2. CASE v = w
      BY <2>1, <2>2
    <2>3. CASE v # w
      BY <1>1, <1>2, <2>1, <2>3
    <2> QED BY <2>2, <2>3
  <1>4. WalkShape'
    <2>1. ASSUME NEW v \in Workers, worker'[v].at = "out", walk = "copy"
          PROVE  failed' \/ panicked' \/ missing' = {}
      BY <1>1, <2>1 DEF WalkShape
    <2> QED BY <2>1 DEF WalkShape, Ended
  <1>5. Accounted'
    <2> SUFFICES ASSUME walk = "copy", NEW f \in listed, ~failed', ~panicked'
                 PROVE  f \in There' \cup missing' \cup InHand' \/ (f \in vanished' /\ f \notin Source')
      BY DEF Accounted
    <2>1. f \in There \cup missing \cup InHand \/ (f \in vanished /\ f \notin Source)
      BY DEF Accounted
    <2>2. CASE f \in There \cup missing'
      BY <2>2
    <2>3. CASE f \in missing \ missing'
      <3>1. at = "take" /\ g = f
        BY <2>3
      <3> QED BY <1>1, <1>2, <3>1
    <2>4. CASE f \in InHand
      <3>1. CASE worker[w].at \in {"take", "read", "write"} /\ f = worker[w].file
        BY <1>1, <1>2, <3>1
      <3> QED BY <1>3, <2>4, <3>1
    <2>5. CASE f \in vanished /\ f \notin Source
      BY <2>5
    <2> QED BY <2>1, <2>2, <2>3, <2>4, <2>5
  <1> QED BY <1>4, <1>5

\* ... and nobody else hears anything new.
LEMMA TransferHears ==
    ASSUME UploadInv, WalkHears, WorkerHears, NEW w \in Workers, NEW at, NEW g, Goes(w, at, g),
           UNCHANGED <<push, walk, listed, stored>>, call'[w].at = "free",
           \A d \in Callers : d # w => call'[d] = call[d]
    PROVE  WalkHears' /\ WorkerHears'
  <1>1. \A v \in Workers : v # w => worker'[v] = worker[v] /\ call'[v] = call[v]
    BY DEF UploadInv, FileShape, Goes, Workers
  <1>2. call'[Walk] = call[Walk]
    BY TransfersAssumption DEF Workers
  <1>3. WalkHears'
    BY <1>2 DEF WalkHears
  <1>4. WorkerHears'
    BY <1>1 DEF WorkerHears
  <1> QED BY <1>3, <1>4

LEMMA TransferCopies ==
    ASSUME CopyInv, NEW w \in Workers, WorkerStep(w)
    PROVE  WalkShape' /\ WalkHears' /\ WorkerHears' /\ Accounted'
  <1> USE DEF CopyInv
  <1>1. FileShape /\ w \in Callers /\ w # Walk
    BY DEF UploadInv, Workers
  <1>2. worker[w].at \in {"take", "read", "write"} => walk \in {"copy", "err", "panic"}
    BY DEF WalkShape, Ended
  <1>3. call[w].at # "free" => worker[w].at = IF push THEN "write" ELSE "read"
    BY DEF UploadInv, BusyInv
  <1>4. CASE Looks(w)
    <2>1. /\ UNCHANGED <<push, walk, listed, stored, call, local, failed, panicked, vanished>>
          /\ walk = "copy" /\ worker[w].at = "look"
      BY <1>4 DEF Looks, s3vars, bucket
    <2>2. There' = There /\ Source' = Source
      BY <2>1 DEF There, Source
    <2>3. call'[w].at = "free"
      BY <1>3, <2>1
    <2>4. CASE (failed \/ missing = {}) /\ Goes(w, "out", 0) /\ missing' = missing
      BY <1>1, <2>1, <2>2, <2>3, <2>4, TransferMoves, TransferHears
    <2>5. ASSUME NEW f \in missing, Goes(w, "take", f), missing' = missing \ {f}
          PROVE  WalkShape' /\ WalkHears' /\ WorkerHears' /\ Accounted'
      <3>1. WalkShape' /\ Accounted'
        BY <1>1, <2>1, <2>2, <2>5, TransferMoves
      <3>2. WalkHears' /\ WorkerHears'
        BY <2>1, <2>3, <2>5, TransferHears
      <3> QED BY <3>1, <3>2
    <2> QED BY <1>4, <2>4, <2>5 DEF Looks
  <1>5. CASE Takes(w)
    <2>1. /\ UNCHANGED <<push, walk, listed, stored, call, local, missing, failed, panicked, vanished>>
          /\ worker[w].at = "take"
      BY <1>5 DEF Takes, s3vars, bucket
    <2>2. There' = There /\ Source' = Source
      BY <2>1 DEF There, Source
    <2>3. call'[w].at = "free"
      BY <1>3, <2>1
    <2>4. CASE Goes(w, "read", worker[w].file)
      <3>1. WalkShape' /\ Accounted'
        BY <1>1, <1>2, <2>1, <2>2, <2>4, TransferMoves
      <3>2. WalkHears' /\ WorkerHears'
        BY <2>1, <2>3, <2>4, TransferHears
      <3> QED BY <3>1, <3>2
    <2>5. CASE worker' = worker
      <3>1. InHand' = InHand
        BY <2>5 DEF InHand
      <3>2. WalkShape' /\ Accounted'
        BY <2>1, <2>2, <2>5, <3>1 DEF WalkShape, Accounted
      <3> QED BY <2>1, <2>5, <3>2 DEF WalkHears, WorkerHears
    <2>6. Goes(w, "read", worker[w].file) \/ worker' = worker
      BY <1>5 DEF Takes
    <2> QED BY <2>4, <2>5, <2>6
  <1>6. CASE ReadsHere(w)
    <2>1. /\ UNCHANGED <<push, walk, listed, stored, call, local, missing, panicked>>
          /\ worker[w].at = "read" /\ push
      BY <1>6 DEF ReadsHere, Here, s3vars, bucket
    <2>2. There' = There /\ Source' = Source /\ Source = local
      BY <2>1 DEF There, Source
    <2>3. call'[w].at = "free"
      BY <1>3, <2>1
    <2>4. CASE worker[w].file \in local
      <3>1. Goes(w, "write", worker[w].file) /\ UNCHANGED <<failed, vanished>>
        BY <1>6, <2>4 DEF ReadsHere
      <3>2. WalkShape' /\ Accounted'
        BY <1>1, <1>2, <2>1, <2>2, <3>1, TransferMoves
      <3>3. WalkHears' /\ WorkerHears'
        BY <2>1, <2>3, <3>1, TransferHears
      <3> QED BY <3>2, <3>3
    <2>5. CASE worker[w].file \notin local
      <3>1. /\ Goes(w, "look", 0) /\ UNCHANGED failed
            /\ vanished' = vanished \cup {worker[w].file}
        BY <1>6, <2>5 DEF ReadsHere, IsGone
      <3>2. WalkShape' /\ Accounted'
        BY <1>1, <1>2, <2>1, <2>2, <2>5, <3>1, TransferMoves
      <3>3. WalkHears' /\ WorkerHears'
        BY <2>1, <2>3, <3>1, TransferHears
      <3> QED BY <3>2, <3>3
    <2> QED BY <2>4, <2>5
  <1>7. CASE WritesHere(w)
    <2>1. /\ UNCHANGED <<push, walk, listed, stored, call, missing, panicked, failed, vanished>>
          /\ worker[w].at = "write" /\ ~push /\ local' = local \cup {worker[w].file}
          /\ Goes(w, "look", 0)
      BY <1>7 DEF WritesHere, Here, Lands, s3vars, bucket
    <2>2. /\ There \subseteq There' /\ worker[w].file \in There' /\ Source' = Source
      BY <2>1 DEF There, Source
    <2>3. call'[w].at = "free"
      BY <1>3, <2>1
    <2>4. WalkShape' /\ Accounted'
      BY <1>1, <1>2, <2>1, <2>2, TransferMoves
    <2>5. WalkHears' /\ WorkerHears'
      BY <2>1, <2>3, TransferHears
    <2> QED BY <2>4, <2>5
  <1>8. CASE FailsHere(w) \/ Panics(w)
    <2>1. /\ UNCHANGED <<push, walk, listed, stored, local, missing, vanished>>
          /\ call' = call \/ call' = [call EXCEPT ![w] = Free]
          /\ worker[w].at \in {"read", "write"} /\ Goes(w, "out", 0)
          /\ \/ failed' /\ UNCHANGED panicked
             \/ panicked' /\ UNCHANGED failed
      BY <1>8 DEF FailsHere, Panics, Fails, Hangs, bucket
    <2>2. There' = There /\ Source' = Source
      BY <2>1 DEF There, Source
    <2>3. call'[w].at = "free" /\ \A d \in Callers : d # w => call'[d] = call[d]
      <3>1. CASE FailsHere(w)
        BY <1>3, <3>1 DEF FailsHere
      <3>2. CASE Panics(w)
        BY <1>1, <3>2, FreeIsGood, OthersStay DEF Panics, Hangs, UploadInv
      <3> QED BY <1>8, <3>1, <3>2
    <2>4. WalkShape' /\ Accounted'
      BY <1>1, <1>2, <2>1, <2>2, TransferMoves
    <2>5. WalkHears' /\ WorkerHears'
      BY <2>1, <2>3, TransferHears
    <2> QED BY <2>4, <2>5
  <1>9. CASE AsksBucket(w)
    <2>1. UNCHANGED <<push, local, walk, listed, missing, worker, failed, vanished, panicked>>
      BY <1>9 DEF AsksBucket, progress
    <2>2. PICK what \in {"create", "put", "get"} :
              /\ Ask(w, what, worker[w].file)
              /\ push => what # "get"
              /\ ~push => what = "get"
              /\ worker[w].at \in {"read", "write"}
      BY <1>9 DEF AsksBucket, AskPut
    <2>3. what \in Writing \cup Reading /\ worker[w].file \in Keys /\ (push => what \in Writing)
      BY <1>1, <2>2 DEF Writing, Reading, FileShape
    <2>4. /\ call'[w].at = what /\ call'[w].key = worker[w].file /\ call'[w].says = "nothing"
          /\ \A d \in Callers : d # w => call'[d] = call[d]
      BY <1>1, <2>2, <2>3, CallIs
    <2>5. stored' = stored
      BY <2>2 DEF Ask, bucket
    <2>6. There' = There /\ Source' = Source /\ InHand' = InHand
      BY <2>1, <2>5 DEF There, Source, InHand
    <2>7. WalkShape' /\ Accounted'
      BY <2>1, <2>5, <2>6 DEF WalkShape, Accounted
    <2>8. WalkHears'
      BY <1>1, <2>1, <2>4, <2>5, TransfersAssumption DEF WalkHears
    <2>9. WorkerHears'
      BY <2>1, <2>2, <2>3, <2>4, <2>5 DEF WorkerHears, Workers
    <2> QED BY <2>7, <2>8, <2>9
  <1>10. CASE HearsBucket(w)
    <2>1. /\ UNCHANGED <<push, walk, listed, stored, local, missing, panicked>>
          /\ call[w].at = "told" /\ Hangs(w)
      BY <1>10 DEF HearsBucket, bucket
    <2>2. There' = There /\ Source' = Source
      BY <2>1 DEF There, Source
    <2>3. call'[w].at = "free" /\ \A d \in Callers : d # w => call'[d] = call[d]
      BY <1>1, <2>1, CallIs
    <2>4. /\ worker[w].at = IF push THEN "write" ELSE "read"
          /\ call[w].key = worker[w].file
          /\ push => call[w].says # "not found"
          /\ push /\ call[w].says = "ok" => worker[w].file \in There
          /\ ~push /\ call[w].says = "not found" => worker[w].file \notin Source
      BY <1>3, <2>1 DEF WorkerHears, There, Source
    <2>5. CASE call[w].says = "err"
      <3>1. Goes(w, "out", 0) /\ failed' /\ UNCHANGED vanished
        BY <1>10, <2>5 DEF HearsBucket, Fails
      <3>2. WalkShape' /\ Accounted'
        BY <1>1, <1>2, <2>1, <2>2, <2>4, <3>1, TransferMoves
      <3> QED BY <2>1, <2>3, <3>1, <3>2, TransferHears
    <2>6. CASE call[w].says = "not found"
      <3>1. Goes(w, "look", 0) /\ UNCHANGED failed /\ vanished' = vanished \cup {worker[w].file}
        BY <1>10, <2>6 DEF HearsBucket, IsGone
      <3>2. WalkShape' /\ Accounted'
        BY <1>1, <1>2, <2>1, <2>2, <2>4, <2>6, <3>1, TransferMoves
      <3> QED BY <2>1, <2>3, <3>1, <3>2, TransferHears
    <2>7. CASE call[w].says = "ok" /\ push
      <3>1. Goes(w, "look", 0) /\ UNCHANGED <<failed, vanished>>
        BY <1>10, <2>7 DEF HearsBucket, Lands
      <3>2. WalkShape' /\ Accounted'
        BY <1>1, <1>2, <2>1, <2>2, <2>4, <2>7, <3>1, TransferMoves
      <3> QED BY <2>1, <2>3, <3>1, <3>2, TransferHears
    <2>8. CASE call[w].says \notin {"err", "not found"} /\ ~(call[w].says = "ok" /\ push)
      <3>1. Goes(w, "write", worker[w].file) /\ UNCHANGED <<failed, vanished>>
        BY <1>10, <2>8 DEF HearsBucket
      <3>2. WalkShape' /\ Accounted'
        BY <1>1, <1>2, <2>1, <2>2, <2>4, <3>1, TransferMoves
      <3> QED BY <2>1, <2>3, <3>1, <3>2, TransferHears
    <2> QED BY <2>5, <2>6, <2>7, <2>8
  <1> QED BY <1>4, <1>5, <1>6, <1>7, <1>8, <1>9, <1>10 DEF WorkerStep

\* A request tells its caller the truth, and takes nothing away.
LEMMA ClientCopies ==
    ASSUME CopyInv, NEW c \in Callers, ClientStep(c)
    PROVE  WalkShape' /\ WalkHears' /\ WorkerHears' /\ Accounted'
  <1> USE DEF CopyInv
  <1>1. /\ Requests(c)
        /\ UNCHANGED <<push, local, walk, listed, missing, worker, failed, vanished, panicked>>
    BY DEF ClientStep, progress
  <1>2. /\ CallShape /\ BucketInv /\ Walk \in Callers
        /\ \A d \in Callers : d # c => call'[d] = call[d]
    BY <1>1, RequestCall, TransfersAssumption DEF UploadInv
  <1>3. /\ call[c].at \in Writing \cup Reading
        /\ Tells(call[c], call'[c])
        /\ call[c].at \in Writing /\ call'[c].says = "ok" => call[c].key \in stored'
        /\ stored \subseteq stored' /\ (call[c].at \notin Writing => stored' = stored)
    BY <1>1, <1>2, RequestTells
  <1>4. /\ call[c].at \notin {"free", "told"}
        /\ \A x \in {"get", "head", "list"} : x \in Reading /\ x \notin Writing
        /\ \A x \in Writing : x \notin {"get", "head", "list", "told", "free"}
    BY <1>3 DEF Writing, Reading, Uploading
  <1>5. ~push => stored' = stored
    <2>1. CASE c = Walk
      BY <1>3, <1>4, <2>1 DEF WalkHears
    <2>2. CASE c # Walk
      BY <1>3, <1>4, <2>2 DEF WorkerHears, Workers
    <2> QED BY <2>1, <2>2
  <1>6. There \subseteq There' /\ Source' = Source /\ InHand' = InHand
    BY <1>1, <1>3, <1>5 DEF There, Source, InHand
  <1>7. WalkShape'
    BY <1>1 DEF WalkShape
  <1>8. Accounted'
    BY <1>1, <1>3, <1>6 DEF Accounted
  <1>9. WalkHears'
    <2>1. CASE c # Walk
      <3>1. call'[Walk] = call[Walk]
        BY <1>2, <2>1
      <3> QED BY <1>1, <1>3, <3>1 DEF WalkHears
    <2>2. CASE c = Walk /\ call[Walk].at = "list"
      <3>1. /\ walk = (IF push THEN "dest" ELSE "source")
            /\ push => call[Walk].found \subseteq stored
        BY <2>2 DEF WalkHears
      <3>2. call'[Walk].at \in {"list", "told"} /\ call'[Walk].found \subseteq call[Walk].found \cup stored
        BY <1>3, <1>4, <2>2 DEF Tells
      <3> QED BY <1>1, <1>3, <3>1, <3>2 DEF WalkHears
    <2>3. CASE c = Walk /\ call[Walk].at = "head"
      <3>1. walk = "ask" /\ listed # {}
        BY <2>3 DEF WalkHears
      <3>2. /\ call'[Walk].at \in {"head", "told"} /\ call'[Walk].key = call[Walk].key
            /\ call'[Walk].says = "ok" => call[Walk].key \in stored
        BY <1>3, <1>4, <2>3 DEF Tells
      <3> QED BY <1>1, <1>3, <3>1, <3>2 DEF WalkHears
    <2> QED BY <1>4, <2>1, <2>2, <2>3 DEF WalkHears
  <1>10. WorkerHears'
    <2> SUFFICES ASSUME NEW w \in Workers, call'[w].at # "free"
                 PROVE  /\ call'[w].key = worker[w].file
                        /\ push => /\ call'[w].at \in {"told"} \cup Writing
                                   /\ call'[w].says # "not found"
                                   /\ call'[w].at = "told" /\ call'[w].says = "ok" =>
                                        call'[w].key \in stored'
                        /\ ~push => /\ call'[w].at \in {"told", "get"}
                                    /\ call'[w].says = "not found" => call'[w].key \notin stored'
      BY <1>1 DEF WorkerHears
    <2>1. CASE c # w
      <3>1. call'[w] = call[w]
        BY <1>2, <2>1 DEF Workers
      <3> QED BY <1>3, <1>5, <3>1 DEF WorkerHears
    <2>2. CASE c = w /\ push
      <3>1. call[w].at \in Writing /\ call[w].key = worker[w].file
        BY <1>4, <2>2 DEF WorkerHears
      <3>2. call[w].at \notin {"get", "head", "list"}
        BY <1>4, <3>1
      <3>3. /\ call'[w].key = call[w].key /\ call'[w].says # "not found"
            /\ call'[w].at \in {"told"} \cup Writing
        BY <1>3, <2>2, <3>1, <3>2 DEF Tells
      <3> QED BY <1>3, <2>2, <3>1, <3>3
    <2>3. CASE c = w /\ ~push
      <3>1. call[w].at = "get" /\ call[w].key = worker[w].file
        BY <1>4, <2>3 DEF WorkerHears
      <3>2. /\ call'[w].key = call[w].key /\ call'[w].at \in {"told", "get"}
            /\ call'[w].says = "not found" => call[w].key \notin stored
        BY <1>3, <1>4, <2>3, <3>1 DEF Tells
      <3> QED BY <1>5, <2>3, <3>1, <3>2
    <2> QED BY <2>1, <2>2, <2>3
  <1> QED BY <1>7, <1>8, <1>9, <1>10

\* What others do takes files of the source alone.
LEMMA OthersCopies ==
    ASSUME CopyInv,
           \/ Sweeps /\ UNCHANGED <<push, local, walk, progress>>
           \/ Vanishes
    PROVE  WalkShape' /\ WalkHears' /\ WorkerHears' /\ Accounted'
  <1> USE DEF CopyInv
  <1>1. /\ UNCHANGED <<push, walk, call, listed, missing, worker, failed, vanished, panicked>>
        /\ push => stored' = stored
        /\ ~push => local' = local /\ stored' \subseteq stored
        /\ push => local' \subseteq local
    BY DEF Sweeps, Vanishes, progress
  <1>2. There' = There /\ Source' \subseteq Source /\ InHand' = InHand
    BY <1>1 DEF There, Source, InHand
  <1>3. WalkShape'
    BY <1>1 DEF WalkShape
  <1>4. WalkHears'
    BY <1>1 DEF WalkHears, WalkShape
  <1>5. WorkerHears'
    BY <1>1 DEF WorkerHears
  <1>6. Accounted'
    BY <1>1, <1>2 DEF Accounted, WalkShape
  <1> QED BY <1>3, <1>4, <1>5, <1>6

\* Where every listed file is, whatever fails, vanishes or is asked again.
THEOREM CopyInvariant == Spec => []CopyInv
  <1>1. Init => CopyInv
    <2> SUFFICES ASSUME Init PROVE CopyInv
      OBVIOUS
    <2>1. \A c \in Callers : call[c].at = "free"
      BY FreeIsGood DEF Init, S3Init
    <2>2. WalkHears /\ WorkerHears
      BY <2>1, TransfersAssumption DEF WalkHears, WorkerHears, Workers
    <2>3. WalkShape /\ Accounted
      BY DEF Init, Idle, WalkShape, Accounted
    <2> QED BY <2>2, <2>3, InitUpload DEF CopyInv
  <1>2. CopyInv /\ [Next]_vars => CopyInv'
    <2> SUFFICES ASSUME CopyInv, [Next]_vars PROVE CopyInv'
      OBVIOUS
    <2>1. UploadInv
      BY DEF CopyInv
    <2>2. CASE WalkStep
      BY <2>1, <2>2, WalkInv, WalkCopies DEF CopyInv
    <2>3. ASSUME NEW w \in Workers, WorkerStep(w) PROVE CopyInv'
      BY <2>1, <2>3, WorkerInv, TransferCopies DEF CopyInv
    <2>4. ASSUME NEW c \in Callers, ClientStep(c) PROVE CopyInv'
      BY <2>1, <2>4, ClientInv, ClientCopies DEF CopyInv
    <2>5. CASE (Sweeps /\ UNCHANGED <<push, local, walk, progress>>) \/ Vanishes
      BY <2>1, <2>5, OthersInv, OthersCopies DEF CopyInv
    <2>6. CASE UNCHANGED vars
      <3>1. UNCHANGED <<s3vars, bucket, push, local, walk, listed, missing, worker, failed,
                        vanished, panicked>>
        BY <2>6 DEF vars, s3vars, progress
      <3>2. UploadInv'
        BY <2>1, <3>1 DEF s3vars, bucket, UploadInv, CallShape, GoodCall, IsCall, FileShape,
                          BusyInv, BucketInv, OwnerInv
      <3>3. There' = There /\ Source' = Source /\ InHand' = InHand
        BY <3>1 DEF There, Source, InHand, bucket
      <3>4. WalkShape' /\ Accounted'
        BY <3>1, <3>3 DEF CopyInv, WalkShape, Accounted, bucket
      <3>5. WalkHears' /\ WorkerHears'
        BY <3>1 DEF CopyInv, WalkHears, WorkerHears, s3vars, bucket
      <3> QED BY <3>2, <3>4, <3>5 DEF CopyInv
    <2> QED BY <2>2, <2>3, <2>4, <2>5, <2>6 DEF Next
  <1> QED BY <1>1, <1>2, PTL DEF Spec

\* A walk that says Ok left every file it listed at the destination, or the
\* file was deleted at the source (copy_absent): no file is given to nobody,
\* and none is taken for one that vanished because a request failed.
THEOREM DoneIsCopied == Spec => []DoneMeansCopied
  <1>1. CopyInv => DoneMeansCopied
    <2> SUFFICES ASSUME CopyInv, walk = "ok", NEW f \in listed
                 PROVE  f \in There \/ (f \in vanished /\ f \notin Source)
      BY DEF DoneMeansCopied, Source
    <2>1. /\ ~failed /\ ~panicked /\ \A w \in Workers : worker[w].at = "out"
          /\ \A w \in Workers : missing = {}
      BY DEF CopyInv, WalkShape
    <2>2. Workers # {}
      BY TransfersAssumption DEF Workers
    <2>3. InHand = {} /\ missing = {}
      BY <2>1, <2>2 DEF InHand
    <2> QED BY <2>1, <2>3 DEF CopyInv, Accounted
  <1> QED BY <1>1, CopyInvariant, PTL

-----------------------------------------------------------------------------
(* Sums over finite sets.                                                  *)

\* The numbers are well ordered.
LEMMA LeastNumber ==
    ASSUME NEW T \in SUBSET Nat, T # {}
    PROVE  \E x \in T : \A y \in T : x <= y
<1> DEFINE R == {ss \in Nat \X Nat : ss[1] < ss[2]}
<1>1. IsWellFoundedOn(R, Nat)
  BY NatLessThanWellFounded DEF OpToRel
<1>2. PICK x \in T : \A y \in T : ~(<<y, x>> \in R)
  <2> HIDE DEF R
  <2> QED
    BY <1>1, WFMin
<1>3. \A y \in T : ~(y < x)
  BY <1>2
<1> QED
  BY <1>3

\* A set of finite sets has a smallest one.
LEMMA SmallestSet ==
    ASSUME NEW B, B # {}, \A s \in B : IsFiniteSet(s)
    PROVE  \E s \in B : \A t \in B : Cardinality(s) <= Cardinality(t)
<1> DEFINE T == {Cardinality(s) : s \in B}
<1>1. T \in SUBSET Nat /\ T # {}
  BY FS_CardinalityType
<1>2. \E x \in T : \A y \in T : x <= y
  <2> HIDE DEF T
  <2> QED
    BY <1>1, LeastNumber
<1> QED
  BY <1>2

\* g sums f over the subsets of S, in whatever order.
Adds(g, f, S) ==
    /\ g \in [SUBSET S -> Nat]
    /\ g[{}] = 0
    /\ \A T \in SUBSET S : \A x \in T : g[T] = f[x] + g[T \ {x}]

\* With one more member there is one more summand.
LEMMA AddsOneMore ==
    ASSUME NEW S, NEW a \in S, NEW f, \A x \in S : f[x] \in Nat,
           NEW h, Adds(h, f, S \ {a})
    PROVE  \E g : Adds(g, f, S)
<1> DEFINE g == [T \in SUBSET S |-> IF a \in T THEN f[a] + h[T \ {a}] ELSE h[T]]
<1>1. \A T \in SUBSET S : T \ {a} \in SUBSET (S \ {a}) /\ (a \notin T => T \in SUBSET (S \ {a}))
  OBVIOUS
<1>2. \A T \in SUBSET (S \ {a}) : h[T] \in Nat
  BY DEF Adds
<1>3. \A T \in SUBSET S : g[T] = IF a \in T THEN f[a] + h[T \ {a}] ELSE h[T]
  OBVIOUS
<1>4. g \in [SUBSET S -> Nat]
  <2>1. \A T \in SUBSET S : (IF a \in T THEN f[a] + h[T \ {a}] ELSE h[T]) \in Nat
    BY <1>1, <1>2
  <2> QED
    BY <2>1
<1>5. g[{}] = 0
  BY <1>3 DEF Adds
<1> HIDE DEF g
<1>6. ASSUME NEW T \in SUBSET S, NEW x \in T
      PROVE  g[T] = f[x] + g[T \ {x}]
  <2>1. T \ {x} \in SUBSET S /\ f[x] \in Nat /\ f[a] \in Nat /\ x \in S
    OBVIOUS
  <2>2. CASE x = a
    BY <1>3, <2>1, <2>2
  <2>3. CASE x # a /\ a \in T
    <3>1. g[T] = f[a] + h[T \ {a}] /\ g[T \ {x}] = f[a] + h[(T \ {x}) \ {a}]
      BY <1>3, <2>1, <2>3
    <3>2. T \ {a} \in SUBSET (S \ {a}) /\ x \in T \ {a}
      BY <2>3
    <3>3. h[T \ {a}] = f[x] + h[(T \ {a}) \ {x}]
      BY <3>2 DEF Adds
    <3>4. (T \ {a}) \ {x} = (T \ {x}) \ {a}
      OBVIOUS
    <3>5. h[(T \ {x}) \ {a}] \in Nat
      BY <1>1, <1>2, <2>1
    <3>6. h[T \ {a}] = f[x] + h[(T \ {x}) \ {a}]
      BY <3>3, <3>4, Zenon
    <3> DEFINE y == h[(T \ {x}) \ {a}]
               z == h[T \ {a}]
    <3>7. y \in Nat /\ z = f[x] + y
      BY <3>5, <3>6
    <3>8. g[T] = f[a] + z /\ g[T \ {x}] = f[a] + y
      BY <3>1
    <3> HIDE DEF y, z
    <3> QED
      BY <2>1, <3>7, <3>8
  <2>4. CASE a \notin T
    <3>1. T \in SUBSET (S \ {a})
      BY <2>4
    <3>2. h[T] = f[x] + h[T \ {x}]
      BY <3>1 DEF Adds
    <3>3. g[T] = h[T] /\ g[T \ {x}] = h[T \ {x}]
      BY <1>3, <2>1, <2>4
    <3> QED
      BY <3>2, <3>3
  <2> QED
    BY <2>2, <2>3, <2>4
<1> QED
  BY <1>4, <1>5, <1>6 DEF Adds

\* Every finite set has sums: the smallest that had none would have one.
LEMMA AddsExists ==
    ASSUME NEW S, IsFiniteSet(S), NEW f, \A x \in S : f[x] \in Nat
    PROVE  \E g : Adds(g, f, S)
<1> DEFINE Bad == {T \in SUBSET S : ~ \E g : Adds(g, f, T)}
<1>1. CASE Bad = {}
  BY <1>1
<1>2. CASE Bad # {}
  <2>1. \A T \in Bad : IsFiniteSet(T)
    BY FS_Subset
  <2>2. PICK T \in Bad : \A t \in Bad : Cardinality(T) <= Cardinality(t)
    <3> HIDE DEF Bad
    <3> QED
      BY <1>2, <2>1, SmallestSet
  <2>3. T \in SUBSET S /\ IsFiniteSet(T) /\ ~ \E g : Adds(g, f, T)
    BY <2>1, <2>2
  <2>4. T # {}
    <3>1. Adds([s \in SUBSET {} |-> 0], f, {})
      BY DEF Adds
    <3> QED
      BY <2>3, <3>1, Zenon
  <2>5. PICK a \in T : TRUE
    BY <2>4
  <2>6. /\ IsFiniteSet(T \ {a}) /\ Cardinality(T \ {a}) = Cardinality(T) - 1
        /\ Cardinality(T) \in Nat /\ T \ {a} \in SUBSET S
    BY <2>3, <2>5, FS_RemoveElement, FS_CardinalityType
  <2>7. T \ {a} \notin Bad
    BY <2>2, <2>6
  <2>8. PICK h : Adds(h, f, T \ {a})
    BY <2>6, <2>7
  <2>9. \A x \in T : f[x] \in Nat
    BY <2>3
  <2> HIDE DEF Bad
  <2> QED
    BY <2>3, <2>5, <2>8, <2>9, AddsOneMore
<1> QED
  BY <1>1, <1>2

\* SumFunctionOnSet takes the members in the order of CHOOSE, which is one.
LEMMA AddsIsSum ==
    ASSUME NEW S, IsFiniteSet(S), NEW f, NEW g, Adds(g, f, S)
    PROVE  SumFunctionOnSet(f, S) = g[S]
<1> DEFINE Turn(h, s) == IF s = {} THEN 0
                         ELSE LET x == CHOOSE x \in s : TRUE
                              IN  f[x] + h[s \ {x}]
           iter == CHOOSE h : h = [s \in SUBSET S |-> Turn(h, s)]
<1>1. SumFunctionOnSet(f, S) = iter[S]
  BY DEF SumFunctionOnSet, FoldFunctionOnSet, MapThenFoldSet
<1>2. ASSUME NEW s \in SUBSET S PROVE g[s] = Turn(g, s)
  <2>1. CASE s = {}
    BY <2>1 DEF Adds
  <2>2. CASE s # {}
    <3>1. (CHOOSE x \in s : TRUE) \in s
      BY <2>2
    <3> QED
      BY <2>2, <3>1 DEF Adds
  <2> QED
    BY <2>1, <2>2
<1> HIDE DEF Turn
<1>3. g = [s \in SUBSET S |-> Turn(g, s)]
  BY <1>2 DEF Adds
<1>4. iter = [s \in SUBSET S |-> Turn(iter, s)]
  BY <1>3, Zenon
<1> HIDE DEF iter
<1> DEFINE Bad == {s \in SUBSET S : iter[s] # g[s]}
<1>5. CASE Bad = {}
  BY <1>1, <1>5
<1>6. CASE Bad # {}
  <2>1. \A s \in Bad : IsFiniteSet(s)
    BY FS_Subset
  <2>2. PICK s \in Bad : \A t \in Bad : Cardinality(s) <= Cardinality(t)
    <3> HIDE DEF Bad
    <3> QED
      BY <1>6, <2>1, SmallestSet
  <2>3. s \in SUBSET S /\ IsFiniteSet(s) /\ iter[s] # g[s]
    BY <2>1, <2>2
  <2>4. iter[s] = Turn(iter, s) /\ g[s] = Turn(g, s)
    BY <1>2, <1>4, <2>3
  <2>5. CASE s = {}
    BY <2>3, <2>4, <2>5 DEF Turn
  <2>6. CASE s # {}
    <3> DEFINE x == CHOOSE x \in s : TRUE
    <3>1. x \in s
      BY <2>6
    <3>2. iter[s] = f[x] + iter[s \ {x}] /\ g[s] = f[x] + g[s \ {x}]
      BY <2>4, <2>6 DEF Turn
    <3> HIDE DEF x
    <3>3. /\ s \ {x} \in SUBSET S /\ Cardinality(s \ {x}) = Cardinality(s) - 1
          /\ Cardinality(s) \in Nat
      BY <2>3, <3>1, FS_RemoveElement, FS_CardinalityType
    <3>4. s \ {x} \notin Bad
      BY <2>2, <3>3
    <3>5. iter[s \ {x}] = g[s \ {x}]
      BY <3>3, <3>4
    <3> QED
      BY <2>3, <3>2, <3>5
  <2> QED
    BY <2>5, <2>6
<1> QED
  BY <1>5, <1>6

\* So a sum is taken apart at any member.
LEMMA SumFacts ==
    ASSUME NEW S, IsFiniteSet(S), NEW f \in [S -> Nat]
    PROVE  /\ SumFunction(f) \in Nat
           /\ S = {} => SumFunction(f) = 0
           /\ \A x \in S : SumFunction(f) = f[x] + SumFunction([y \in S \ {x} |-> f[y]])
<1>1. PICK g : Adds(g, f, S)
  BY AddsExists
<1>2. SumFunction(f) = g[S]
  BY <1>1, AddsIsSum DEF SumFunction
<1>3. g[S] \in Nat /\ (S = {} => g[S] = 0)
  BY <1>1 DEF Adds
<1>4. ASSUME NEW x \in S
      PROVE  SumFunction(f) = f[x] + SumFunction([y \in S \ {x} |-> f[y]])
  <2> DEFINE R == S \ {x}
             e == [y \in R |-> f[y]]
             h == [T \in SUBSET R |-> g[T]]
  <2>1. IsFiniteSet(R) /\ R \subseteq S
    BY FS_RemoveElement
  <2>2. Adds(h, e, R)
    <3>1. h \in [SUBSET R -> Nat] /\ h[{}] = 0
      BY <1>1, <2>1 DEF Adds
    <3>2. ASSUME NEW T \in SUBSET R, NEW y \in T
          PROVE  h[T] = e[y] + h[T \ {y}]
      <4>1. T \ {y} \in SUBSET R /\ T \in SUBSET S /\ y \in R
        OBVIOUS
      <4>2. h[T] = g[T] /\ h[T \ {y}] = g[T \ {y}] /\ e[y] = f[y]
        BY <4>1
      <4>3. g[T] = f[y] + g[T \ {y}]
        BY <1>1, <4>1 DEF Adds
      <4> QED
        BY <4>2, <4>3
    <3> QED
      BY <3>1, <3>2 DEF Adds
  <2>3. h[R] = g[S \ {x}] /\ DOMAIN e = R
    OBVIOUS
  <2> HIDE DEF h, e, R
  <2>4. SumFunction(e) = h[R]
    BY <2>1, <2>2, <2>3, AddsIsSum DEF SumFunction
  <2>5. g[S] = f[x] + g[S \ {x}]
    BY <1>1 DEF Adds
  <2> QED
    BY <1>2, <2>3, <2>4, <2>5 DEF e, R
<1> QED
  BY <1>2, <1>3, <1>4

\* No summand is more than the sum, nor are two.
LEMMA SumBounds ==
    ASSUME NEW S, IsFiniteSet(S), NEW f \in [S -> Nat], NEW x \in S
    PROVE  /\ f[x] <= SumFunction(f)
           /\ \A y \in S \ {x} : f[x] + f[y] <= SumFunction(f)
<1> DEFINE R == S \ {x}
           e == [y \in R |-> f[y]]
<1>1. IsFiniteSet(R) /\ e \in [R -> Nat]
  BY FS_RemoveElement
<1>2. SumFunction(f) = f[x] + SumFunction(e)
  BY SumFacts
<1>3. \A y \in R : e[y] = f[y]
  OBVIOUS
<1> HIDE DEF e, R
<1>4. SumFunction(e) \in Nat
  BY <1>1, SumFacts
<1>5. ASSUME NEW y \in R PROVE f[y] <= SumFunction(e)
  <2> DEFINE Q == R \ {y}
             d == [z \in Q |-> e[z]]
  <2>1. IsFiniteSet(Q) /\ d \in [Q -> Nat]
    BY <1>1, FS_RemoveElement
  <2>2. SumFunction(e) = e[y] + SumFunction(d)
    BY <1>1, SumFacts
  <2> HIDE DEF d, Q
  <2>3. SumFunction(d) \in Nat
    BY <2>1, SumFacts
  <2>4. e[y] \in Nat
    BY <1>1
  <2> QED
    BY <1>3, <2>2, <2>3, <2>4
<1>6. f[x] \in Nat /\ \A y \in R : f[y] \in Nat
  BY DEF R
<1>7. \A y \in R : SumFunction(e) \in Nat /\ f[y] <= SumFunction(e)
  BY <1>4, <1>5
<1> QED
  BY <1>2, <1>4, <1>6, <1>7 DEF R


-----------------------------------------------------------------------------
(* The bytes in memory.                                                    *)

\* A transfer that reads or writes holds a file, with what was asked for it.
LEMMA LoadedFacts ==
    ASSUME UploadInv
    PROVE  /\ IsFiniteSet(Loaded) /\ Loaded \subseteq Workers
           /\ \A w \in Loaded : worker[w].file \in Keys
           /\ Asks \in [Loaded -> Nat] /\ Weighs \in [Loaded -> Nat]
           /\ \A w \in Loaded : /\ Asks[w] = Asked(worker[w].file)
                                /\ Weighs[w] = Size[worker[w].file]
           /\ \A f \in Keys : Asked(f) \in Nat /\ Asked(f) <= Limit /\ Size[f] \in Nat
<1>1. IsFiniteSet(Loaded) /\ Loaded \subseteq Workers
  <2>1. Loaded \in SUBSET Callers
    BY DEF Loaded, Workers
  <2> QED
    BY <2>1, TransfersAssumption, FS_Subset DEF Loaded
<1>2. \A w \in Loaded : worker[w].file \in Keys
  BY DEF Loaded, UploadInv, FileShape
<1>3. \A f \in Keys : Asked(f) \in Nat /\ Asked(f) <= Limit /\ Size[f] \in Nat
  BY TransfersAssumption, S3Assumption DEF Asked
<1> QED
  BY <1>1, <1>2, <1>3 DEF Asks, Weighs

\* Where a transfer is after a step.
LEMMA GoesTo ==
    ASSUME UploadInv, NEW w \in Workers, NEW at, NEW f, Goes(w, at, f)
    PROVE  /\ worker'[w].at = at /\ worker'[w].file = f
           /\ \A v \in Workers \ {w} : worker'[v] = worker[v]
           /\ Loaded' = IF at \in {"read", "write"} THEN Loaded \cup {w} ELSE Loaded \ {w}
<1>1. /\ worker'[w] = [at |-> at, file |-> f]
      /\ \A v \in Workers \ {w} : worker'[v] = worker[v]
  BY DEF Goes, UploadInv, FileShape
<1> QED
  BY <1>1 DEF Loaded

\* The same files are held.
LEMMA BudgetKeeps ==
    ASSUME BudgetInv, used' = used, Loaded' = Loaded,
           \A w \in Loaded : worker'[w].file = worker[w].file
    PROVE  BudgetInv'
<1>1. Asks' = Asks
  BY DEF Asks, Asked
<1> QED
  BY <1>1 DEF BudgetInv

\* A transfer got its bytes.
LEMMA BudgetTaken ==
    ASSUME UploadInv, UploadInv', BudgetInv, NEW w \in Workers, worker[w].at = "take",
           Goes(w, "read", worker[w].file),
           ~(used > 0 /\ used + Asked(worker[w].file) > Limit),
           used' = used + Asked(worker[w].file)
    PROVE  BudgetInv'
<1> DEFINE f == worker[w].file
           e == [v \in Loaded' \ {w} |-> Asks'[v]]
<1>1. /\ Loaded' = Loaded \cup {w} /\ w \notin Loaded /\ worker'[w].file = f
      /\ \A v \in Loaded : worker'[v] = worker[v]
  BY GoesTo, LoadedFacts DEF Loaded
<1>2. f \in Keys
  BY DEF UploadInv, FileShape
<1>3. IsFiniteSet(Loaded') /\ Asks' \in [Loaded' -> Nat]
  <2>1. IsFiniteSet(Loaded')
    BY <1>1, LoadedFacts, FS_AddElement
  <2>2. \A v \in Loaded' : worker'[v].file \in Keys
    BY <1>1, <1>2, LoadedFacts
  <2>3. \A k \in Keys : Asked(k) \in Nat
    BY LoadedFacts
  <2>4. Asks' = [v \in Loaded' |-> Asked(worker'[v].file)]
    BY DEF Asks, Asked
  <2> QED
    BY <2>1, <2>2, <2>3, <2>4
<1>4. Asks'[w] = Asked(f)
  BY <1>1 DEF Asks, Asked
<1>5. e = Asks
  BY <1>1 DEF Asks, Asked
<1>6. SumFunction(Asks') = Asks'[w] + SumFunction(e)
  BY <1>1, <1>3, SumFacts
<1>7. used \in Nat /\ Asked(f) \in Nat /\ Asked(f) <= Limit /\ Limit \in Nat
  BY <1>2, LoadedFacts, SumFacts, TransfersAssumption DEF BudgetInv
<1>8. used' <= Limit
  BY <1>7
<1> HIDE DEF e
<1> QED
  BY <1>4, <1>5, <1>6, <1>7, <1>8 DEF BudgetInv

\* A transfer gave its bytes back.
LEMMA BudgetGiven ==
    ASSUME UploadInv, BudgetInv, NEW w \in Workers, worker[w].at \in {"read", "write"},
           NEW at \in {"look", "out"}, Goes(w, at, 0), GivesBack(w)
    PROVE  BudgetInv'
<1> DEFINE f == worker[w].file
           e == [v \in Loaded \ {w} |-> Asks[v]]
<1>1. /\ Loaded' = Loaded \ {w} /\ w \in Loaded
      /\ \A v \in Loaded \ {w} : worker'[v] = worker[v]
  BY GoesTo, LoadedFacts DEF Loaded
<1>2. /\ IsFiniteSet(Loaded) /\ Asks \in [Loaded -> Nat] /\ Asks[w] = Asked(f)
      /\ Limit \in Nat
  BY <1>1, LoadedFacts, TransfersAssumption
<1>3. Asks' = e
  BY <1>1 DEF Asks, Asked
<1>4. SumFunction(Asks) = Asks[w] + SumFunction(e)
  BY <1>1, <1>2, SumFacts
<1>5. SumFunction(e) \in Nat /\ Asks[w] \in Nat
  <2>1. IsFiniteSet(Loaded \ {w}) /\ e \in [Loaded \ {w} -> Nat]
    BY <1>2, FS_RemoveElement
  <2> HIDE DEF e
  <2> QED
    BY <1>1, <1>2, <2>1, SumFacts
<1>6. used' = used - Asked(f)
  BY DEF GivesBack
<1> HIDE DEF e
<1> QED
  BY <1>2, <1>3, <1>4, <1>5, <1>6 DEF BudgetInv

\* A transfer takes and gives back no more than it asked for, on whatever way
\* it is done with the file.
LEMMA WorkerBudget ==
    ASSUME UploadInv, UploadInv', BudgetInv, NEW w \in Workers, WorkerStep(w)
    PROVE  BudgetInv'
<1>1. ASSUME worker[w].at \in {"read", "write"}, Lands(w) \/ IsGone(w) \/ Fails(w)
      PROVE  BudgetInv'
  BY <1>1, BudgetGiven DEF Lands, IsGone, Fails
<1>2. ASSUME worker[w].at \in {"read", "write"}, Goes(w, "write", worker[w].file), used' = used
      PROVE  BudgetInv'
  <2>1. /\ Loaded' = Loaded /\ w \in Loaded
        /\ \A v \in Loaded : worker'[v].file = worker[v].file
    BY <1>2, GoesTo, LoadedFacts DEF Loaded
  <2> QED
    BY <1>2, <2>1, BudgetKeeps
<1>3. ASSUME UNCHANGED <<worker, used>>
      PROVE  BudgetInv'
  BY <1>3, BudgetKeeps DEF Loaded
<1>4. CASE Looks(w)
  <2>1. /\ worker[w].at = "look" /\ used' = used
        /\ Goes(w, "out", 0) \/ \E f : Goes(w, "take", f)
    BY <1>4 DEF Looks
  <2>2. PICK at \in {"out", "take"} : \E f : Goes(w, at, f)
    BY <2>1
  <2>3. w \notin Loaded /\ Loaded' = Loaded /\ \A v \in Loaded : worker'[v] = worker[v]
    BY <2>1, <2>2, GoesTo, LoadedFacts DEF Loaded
  <2> QED
    BY <2>1, <2>3, BudgetKeeps
<1>5. CASE Takes(w)
  <2>1. /\ worker[w].at = "take"
        /\ \/ UNCHANGED <<worker, used>>
           \/ /\ ~(used > 0 /\ used + Asked(worker[w].file) > Limit)
              /\ used' = used + Asked(worker[w].file)
              /\ Goes(w, "read", worker[w].file)
    BY <1>5 DEF Takes
  <2> QED
    BY <1>3, <2>1, BudgetTaken
<1>6. CASE ReadsHere(w) \/ WritesHere(w) \/ FailsHere(w)
  BY <1>1, <1>2, <1>6 DEF ReadsHere, WritesHere, FailsHere
<1>7. CASE AsksBucket(w)
  BY <1>3, <1>7 DEF AsksBucket, progress
<1>8. CASE HearsBucket(w)
  <2>1. worker[w].at \in {"read", "write"}
    BY <1>8 DEF HearsBucket, UploadInv, BusyInv
  <2>2. \/ Lands(w) \/ IsGone(w) \/ Fails(w)
        \/ Goes(w, "write", worker[w].file) /\ used' = used
    BY <1>8 DEF HearsBucket
  <2> QED
    BY <1>1, <1>2, <2>1, <2>2
<1>9. CASE Panics(w)
  BY <1>9, BudgetGiven DEF Panics
<1> QED
  BY <1>4, <1>5, <1>6, <1>7, <1>8, <1>9 DEF WorkerStep

\* What the budget counts is what is in memory, at any time, for any number of
\* transfers, failures and panics.
THEOREM MemoryInvariant == Spec => []MemoryInv
<1>1. Init => BudgetInv
  <2> SUFFICES ASSUME Init PROVE BudgetInv
    OBVIOUS
  <2>1. Loaded = {} /\ used = 0
    BY DEF Init, Idle, Loaded
  <2>2. Asks \in [Loaded -> Nat] /\ IsFiniteSet(Loaded)
    BY <2>1, FS_EmptySet DEF Asks
  <2>3. SumFunction(Asks) = 0
    BY <2>1, <2>2, SumFacts
  <2>4. Limit \in Nat
    BY TransfersAssumption
  <2> QED
    BY <2>1, <2>3, <2>4 DEF BudgetInv
<1>2. UploadInv /\ UploadInv' /\ BudgetInv /\ [Next]_vars => BudgetInv'
  <2> SUFFICES ASSUME UploadInv, UploadInv', BudgetInv, [Next]_vars PROVE BudgetInv'
    OBVIOUS
  <2>1. CASE UNCHANGED <<worker, used>>
    BY <2>1, BudgetKeeps DEF Loaded
  <2>2. ASSUME NEW w \in Workers, WorkerStep(w) PROVE BudgetInv'
    BY <2>2, WorkerBudget
  <2>3. CASE WalkStep
    <3>1. UNCHANGED <<worker, used>>
      BY <2>3 DEF WalkStep, ListsLocalSource, ListsBucket, ReadsSource, ListsLocalDest,
                  ReadsDest, AsksFirst, HearsOne, AsksNothing, Joins, progress
    <3> QED
      BY <2>1, <3>1
  <2>4. CASE \/ \E c \in Callers : ClientStep(c)
             \/ Sweeps /\ UNCHANGED <<push, local, walk, progress>>
             \/ Vanishes \/ UNCHANGED vars
    <3>1. UNCHANGED <<worker, used>>
      BY <2>4 DEF ClientStep, Vanishes, progress, vars
    <3> QED
      BY <2>1, <3>1
  <2> QED
    BY <2>2, <2>3, <2>4 DEF Next
<1>3. Spec => []UploadInv
  BY UploadInvariant
<1> QED
  BY <1>1, <1>2, <1>3, PTL DEF Spec, MemoryInv

\* Files in memory at once fit in IN_FLIGHT_BYTES (copy_files, Budget::take):
\* where two files with a byte each are held, nobody asked for less than its
\* file has.
THEOREM MemoryFits == Spec => []MemoryIsBounded
<1>1. MemoryInv => MemoryIsBounded
  <2> DEFINE H == {w \in Loaded : Weighs[w] > 0}
  <2> SUFFICES ASSUME MemoryInv, Cardinality(H) > 1
               PROVE  /\ SumFunction(Weighs) <= Limit
                      /\ \A w \in Loaded : worker[w].file \notin Unsized
    BY DEF MemoryIsBounded, MemoryInv, BudgetInv
  <2>1. /\ IsFiniteSet(Loaded) /\ Asks \in [Loaded -> Nat] /\ Weighs \in [Loaded -> Nat]
        /\ SumFunction(Asks) <= Limit /\ Limit \in Nat
        /\ \A w \in Loaded : /\ Asks[w] = Asked(worker[w].file) /\ worker[w].file \in Keys
                             /\ Weighs[w] = Size[worker[w].file]
    BY LoadedFacts, TransfersAssumption DEF MemoryInv, BudgetInv
  <2>2. \A w \in Loaded : \E v \in H : v # w
    <3> SUFFICES ASSUME NEW w \in Loaded, \A v \in H : v = w
                 PROVE  FALSE
      OBVIOUS
    <3>1. H \in SUBSET {w}
      OBVIOUS
    <3> HIDE DEF H
    <3>2. IsFiniteSet({w}) /\ Cardinality({w}) = 1
      BY FS_Singleton
    <3>3. IsFiniteSet(H) /\ Cardinality(H) <= 1 /\ Cardinality(H) \in Nat
      BY <3>1, <3>2, FS_Subset, FS_CardinalityType
    <3> QED
      BY <3>3
  <2>3. ASSUME NEW w \in Loaded
        PROVE  worker[w].file \notin Unsized /\ Weighs[w] = Asks[w]
    <3>1. PICK v \in H : v # w
      BY <2>2
    <3>2. v \in Loaded /\ Asks[v] \in Nat /\ Asks[v] > 0
      BY <2>1, <3>1, TransfersAssumption DEF Asked
    <3>3. Asks[w] + Asks[v] <= SumFunction(Asks) /\ SumFunction(Asks) \in Nat /\ Asks[w] \in Nat
      BY <2>1, <3>1, <3>2, SumBounds, SumFacts
    <3>4. Asks[w] # Limit
      BY <2>1, <3>2, <3>3
    <3> QED
      BY <2>1, <3>4 DEF Asked
  <2>4. Weighs = Asks
    BY <2>1, <2>3
  <2> QED
    BY <2>1, <2>3, <2>4
<1> QED
  BY <1>1, MemoryInvariant, PTL
=============================================================================
