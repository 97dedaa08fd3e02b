------------------------- MODULE RemoteSyncProofs --------------------------
(***************************************************************************)
(* What holds of RemoteSync for any number of snapshots, syncs, faults and *)
(* lost machines: what a sync_now covered can be restored, what is listed  *)
(* can be loaded, the next save has its base, and nothing comes back to    *)
(* the bucket.                                                             *)
(***************************************************************************)
EXTENDS RemoteSyncInv, SequenceTheorems, WellFoundedInduction, TLAPS

-----------------------------------------------------------------------------
(* Extremes of sets of numbers.                                            *)

\* The numbers are well ordered.
LEMMA Least ==
    ASSUME NEW T \in SUBSET Nat, T # {}
    PROVE  \E x \in T : \A y \in T : x <= y
<1> DEFINE R == {ss \in Nat \X Nat : ss[1] < ss[2]}
<1>1. IsWellFoundedOn(R, Nat)
  BY NatLessThanWellFounded DEF OpToRel
<1>2. PICK x \in T : \A y \in T : ~(<<y, x>> \in R)
  <2> HIDE DEF R
  <2> QED BY <1>1, WFMin
<1>3. \A y \in T : ~(y < x)
  BY <1>2
<1> QED BY <1>3

\* ... and below a bound they have a greatest.
LEMMA Greatest ==
    ASSUME NEW T \in SUBSET Nat, T # {}, NEW b \in Nat, \A x \in T : x <= b
    PROVE  \E x \in T : \A y \in T : y <= x
<1> DEFINE D == {b - x : x \in T}
<1>1. D \in SUBSET Nat
  OBVIOUS
<1>2. D # {}
  OBVIOUS
<1>3. PICK n \in D : \A k \in D : n <= k
  <2> HIDE DEF D
  <2> QED BY <1>1, <1>2, Least
<1>4. PICK x \in T : n = b - x
  BY <1>3
<1>5. \A y \in T : b - y \in D
  OBVIOUS
<1>6. \A y \in T : y <= x
  BY <1>3, <1>4, <1>5
<1> QED BY <1>6

-----------------------------------------------------------------------------
(* The operators of the model.                                             *)

WriterRecords == [pc : {"idle", "pack", "unlink", "push"}, id : Snaps \cup {None},
                  gone : SUBSET Snaps, left : SUBSET Snaps]
SyncerRecords ==
    [pc : {"idle", "list", "copy", "manifest", "index", "delete", "deleting"},
     cmd : {"none", "snapshots", "manifest", "all"},
     todo : SUBSET Files, hand : SUBSET Files, keys : SUBSET Files,
     index : SUBSET Snaps, pins : 0 .. MaxPins, failed : BOOLEAN]
CallerRecords == [pc : {"out", "waiting", "ok", "failed"}, asked : SUBSET Snaps]

\* The type invariant, part by part.
LEMMA Types ==
    ASSUME TypeOK
    PROVE  /\ writer \in [Writers -> WriterRecords]
           /\ syncer \in SyncerRecords /\ caller \in CallerRecords
           /\ desc.step \in [Snaps -> Nat] /\ desc.base \in [Snaps -> Snaps \cup {None}]
           /\ desc = [step |-> desc.step, base |-> desc.base]
           /\ nextId \in Nat \ {0} /\ Taken \subseteq Snaps /\ Snaps \subseteq Nat \ {0}
           /\ MaxSnaps \in Nat
<1>1. MaxSnaps \in Nat
  BY SyncAssumption
<1> QED BY <1>1 DEF TypeOK, WriterRecords, SyncerRecords, CallerRecords, Taken, Snaps

\* The newest of some snapshots is one of them, and no other is newer.
LEMMA NewestIs ==
    ASSUME TypeOK, DescInv, NEW S \in SUBSET Taken
    PROVE  /\ S = {} => Newest(S) = None
           /\ S # {} => /\ Newest(S) \in S
                        /\ \A j \in S : desc.step[j] <= desc.step[Newest(S)]
<1>1. CASE S = {}
  BY <1>1 DEF Newest
<1>2. CASE S # {}
  <2> DEFINE T == {desc.step[i] : i \in S}
             b == 2 * nextId
  <2>1. /\ T \in SUBSET Nat /\ b \in Nat
        /\ \A x \in T : x <= b
    BY Types DEF DescInv, Taken
  <2>2. T # {}
    BY <1>2
  <2>3. PICK x \in T : \A y \in T : y <= x
    <3> HIDE DEF T, b
    <3> QED BY <2>1, <2>2, Greatest
  <2>4. PICK i \in S : x = desc.step[i]
    BY <2>3
  <2>5. \A j \in S : desc.step[j] <= desc.step[i]
    BY <2>3, <2>4
  <2> QED BY <1>2, <2>5 DEF Newest
<1> QED BY <1>1, <1>2

\* The last full, likewise.
LEMMA LastFullIs ==
    ASSUME TypeOK, DescInv, named \subseteq Taken
    PROVE  /\ LastFull \in named \cup {None}
           /\ LastFull # None =>
                /\ IsFull(LastFull)
                /\ \A j \in named : IsFull(j) => desc.step[j] <= desc.step[LastFull]
           /\ LastFull = None => \A j \in named : ~IsFull(j)
<1> DEFINE S == {i \in named : BaseOf(i) = {}}
<1>1. S \in SUBSET Taken
  OBVIOUS
<1>2. LastFull = Newest(S)
  BY DEF LastFull
<1>3. None \notin S
  BY <1>1, Types DEF None
<1> HIDE DEF S
<1>4. CASE S = {}
  BY <1>1, <1>2, <1>4, NewestIs DEF S, IsFull
<1>5. CASE S # {}
  <2>1. LastFull \in S /\ \A j \in S : desc.step[j] <= desc.step[LastFull]
    BY <1>1, <1>2, <1>5, NewestIs
  <2> QED BY <1>3, <2>1 DEF S, IsFull
<1> QED BY <1>4, <1>5

\* The file that is unlinked next is one of those left.
LEMMA NextFileIs ==
    ASSUME TypeOK, NEW w \in Writers, writer[w].left # {}
    PROVE  NextFile(w) \in writer[w].left
<1>1. writer[w].left \in SUBSET Nat
  BY Types DEF WriterRecords
<1>2. \E i \in writer[w].left : \A j \in writer[w].left : i <= j
  BY <1>1, Least
<1> QED BY <1>2 DEF NextFile

-----------------------------------------------------------------------------
(* What each step of the syncer thread does to its record.                 *)

SyncerIs(s, pc, cmd, todo, hand, keys, idx, failed) ==
    /\ s \in SyncerRecords
    /\ s.pc = pc /\ s.cmd = cmd /\ s.todo = todo /\ s.hand = hand
    /\ s.keys = keys /\ s.index = idx /\ s.failed = failed

LEMMA SyncerNow ==
    ASSUME TypeOK
    PROVE  /\ SyncerIs(syncer, syncer.pc, syncer.cmd, syncer.todo, syncer.hand, syncer.keys,
                       syncer.index, syncer.failed)
           /\ Listed \subseteq Files /\ Present \subseteq Files
           /\ syncer.todo \subseteq Files /\ syncer.hand \subseteq Files
           /\ syncer.keys \subseteq Files /\ syncer.index \subseteq Snaps
<1>1. Listed \subseteq Files /\ Present \subseteq Files
  BY DEF TypeOK, Listed, Present, Files
<1> QED BY <1>1, Types DEF SyncerIs, SyncerRecords

LEMMA IdleIs ==
    SyncerIs(IdleSyncer, "idle", "none", {}, {}, {}, {}, FALSE)
<1>1. 0 \in 0 .. MaxPins
  BY SyncAssumption
<1> QED BY <1>1 DEF IdleSyncer, SyncerIs, SyncerRecords

LEMMA TakesIs ==
    ASSUME TypeOK, Takes
    PROVE  /\ syncer.pc = "idle" /\ queue # <<>> /\ queue' = Tail(queue)
           /\ Head(queue) \in {"snapshots", "manifest", "all"}
           /\ SyncerIs(syncer', IF Head(queue) = "manifest" THEN "manifest" ELSE "list",
                       Head(queue), {}, {}, {}, {}, FALSE)
           /\ UNCHANGED <<deletes, caller, remote, remoteIndex, durable, removed, budget>>
<1>1. Head(queue) \in {"snapshots", "manifest", "all"}
  BY DEF Takes, TypeOK
<1> QED BY <1>1, IdleIs DEF Takes, SyncerIs, SyncerRecords, bucket, past

LEMMA ListsIs ==
    ASSUME TypeOK, Lists \/ ListsBlind
    PROVE  /\ syncer.pc = "list"
           /\ \E again \in SUBSET (Listed \cap Present) :
                SyncerIs(syncer', "copy", syncer.cmd, (Listed \ Present) \cup again, syncer.hand,
                         syncer.keys, syncer.index, syncer.failed)
           /\ UNCHANGED <<queue, deletes, caller, remote, remoteIndex, durable, removed>>
<1>1. CASE Lists
  <2>1. (Listed \ Present) \cup {} = Listed \ Present
    OBVIOUS
  <2>2. SyncerIs(syncer', "copy", syncer.cmd, Listed \ Present, syncer.hand, syncer.keys,
                 syncer.index, syncer.failed)
    BY <1>1, SyncerNow DEF Lists, SyncerIs, SyncerRecords
  <2>3. \E again \in SUBSET (Listed \cap Present) :
          SyncerIs(syncer', "copy", syncer.cmd, (Listed \ Present) \cup again, syncer.hand,
                   syncer.keys, syncer.index, syncer.failed)
    <3>1. {} \in SUBSET (Listed \cap Present)
      OBVIOUS
    <3> QED BY <2>1, <2>2, <3>1, Zenon
  <2> QED BY <1>1, <2>3 DEF Lists, bucket, past, feed
<1>2. CASE ListsBlind
  BY <1>2, SyncerNow DEF ListsBlind, SyncerIs, SyncerRecords, bucket, past, feed
<1> QED BY <1>1, <1>2

LEMMA ReadsIs ==
    ASSUME TypeOK, Reads
    PROVE  /\ syncer.pc = "copy"
           /\ \E f \in syncer.todo :
                SyncerIs(syncer', syncer.pc, syncer.cmd, syncer.todo \ {f},
                         IF f \in Listed THEN syncer.hand \cup {f} ELSE syncer.hand,
                         syncer.keys, syncer.index, syncer.failed)
           /\ UNCHANGED <<queue, deletes, caller, remote, remoteIndex, durable, removed, budget>>
<1>1. PICK f \in syncer.todo :
        syncer' = [syncer EXCEPT !.todo = @ \ {f},
                                 !.hand = IF f \in Listed THEN @ \cup {f} ELSE @,
                                 !.pins = IF f = Pins THEN pins ELSE @]
  BY DEF Reads
<1>2. pins \in 0 .. MaxPins
  BY DEF TypeOK
<1>3. (IF f \in Listed THEN syncer.hand \cup {f} ELSE syncer.hand) \in SUBSET Files
  BY SyncerNow
<1>4. SyncerIs(syncer', syncer.pc, syncer.cmd, syncer.todo \ {f},
               IF f \in Listed THEN syncer.hand \cup {f} ELSE syncer.hand,
               syncer.keys, syncer.index, syncer.failed)
  BY <1>1, <1>2, <1>3, SyncerNow DEF SyncerIs, SyncerRecords
<1> QED BY <1>4 DEF Reads, bucket, past, feed

LEMMA PutsIs ==
    ASSUME TypeOK, Puts \/ PutFails
    PROVE  /\ \E f \in syncer.hand :
                /\ remote' \subseteq Snaps /\ remotePins' \in 0 .. MaxPins
                /\ remote \subseteq remote' /\ remote' \subseteq remote \cup ({f} \ {Pins})
                /\ \/ /\ remote' = remote \cup ({f} \ {Pins})
                      /\ SyncerIs(syncer', syncer.pc, syncer.cmd, syncer.todo, syncer.hand \ {f},
                                  syncer.keys, syncer.index, syncer.failed)
                   \/ SyncerIs(syncer', syncer.pc, syncer.cmd, {}, syncer.hand \ {f},
                               syncer.keys, syncer.index, TRUE)
           /\ UNCHANGED <<queue, deletes, caller, remoteIndex, durable, removed>>
<1>1. \A f \in syncer.hand : f \in Files /\ syncer.pins \in 0 .. MaxPins
  BY Types DEF SyncerRecords
<1>2. CASE Puts
  <2>1. PICK f \in syncer.hand : Lands(f) /\ syncer' = [syncer EXCEPT !.hand = @ \ {f}]
    BY <1>2 DEF Puts
  <2>2. SyncerIs(syncer', syncer.pc, syncer.cmd, syncer.todo, syncer.hand \ {f},
                 syncer.keys, syncer.index, syncer.failed)
    BY <2>1, SyncerNow DEF SyncerIs, SyncerRecords
  <2>3. /\ remote' \subseteq Snaps /\ remotePins' \in 0 .. MaxPins
        /\ remote' = remote \cup ({f} \ {Pins}) /\ remoteIndex' = remoteIndex
    BY <1>1, <2>1 DEF TypeOK, Lands, Files
  <2> QED BY <1>2, <2>2, <2>3 DEF Puts, past, feed
<1>3. CASE PutFails
  <2>1. PICK f \in syncer.hand :
          /\ Lands(f) \/ UNCHANGED bucket
          /\ syncer' = [syncer EXCEPT !.hand = @ \ {f}, !.todo = {}, !.failed = TRUE]
    BY <1>3 DEF PutFails
  <2>2. SyncerIs(syncer', syncer.pc, syncer.cmd, {}, syncer.hand \ {f},
                 syncer.keys, syncer.index, TRUE)
    BY <2>1, SyncerNow DEF SyncerIs, SyncerRecords
  <2>3. /\ remote' \subseteq Snaps /\ remotePins' \in 0 .. MaxPins
        /\ remote \subseteq remote' /\ remote' \subseteq remote \cup ({f} \ {Pins})
        /\ remoteIndex' = remoteIndex
    BY <1>1, <2>1 DEF TypeOK, Lands, Files, bucket
  <2> QED BY <1>3, <2>2, <2>3 DEF PutFails, past, feed
<1> QED BY <1>2, <1>3

LEMMA CopiedIs ==
    ASSUME TypeOK, Copied
    PROVE  /\ syncer.pc = "copy" /\ syncer.todo = {} /\ syncer.hand = {}
           /\ SyncerIs(syncer', AfterCopy, syncer.cmd, syncer.todo, syncer.hand,
                       syncer.keys, syncer.index, syncer.failed)
           /\ UNCHANGED <<queue, deletes, caller, remote, remoteIndex, durable, removed, budget>>
<1>1. syncer' = [syncer EXCEPT !.pc = AfterCopy]
  BY DEF Copied
<1>2. AfterCopy \in {"manifest", "delete"}
  BY DEF AfterCopy
<1>3. SyncerIs(syncer', AfterCopy, syncer.cmd, syncer.todo, syncer.hand,
               syncer.keys, syncer.index, syncer.failed)
  BY <1>1, <1>2, SyncerNow DEF SyncerIs, SyncerRecords
<1> QED BY <1>3 DEF Copied, bucket, past, feed

LEMMA ReadsIndexIs ==
    ASSUME TypeOK, ReadsIndex
    PROVE  /\ syncer.pc = "manifest"
           /\ SyncerIs(syncer', IF index = {} THEN "delete" ELSE "index", syncer.cmd, syncer.todo,
                       syncer.hand, syncer.keys, index, syncer.failed)
           /\ UNCHANGED <<queue, deletes, caller, remote, remoteIndex, durable, removed, budget>>
<1>1. index \subseteq Snaps
  BY DEF TypeOK
<1> QED BY <1>1, SyncerNow DEF ReadsIndex, SyncerIs, SyncerRecords, bucket, past, feed

LEMMA PutsIndexIs ==
    ASSUME TypeOK, PutsIndex \/ PutIndexFails
    PROVE  /\ syncer.pc = "index" /\ remoteIndex' \in {remoteIndex, syncer.index}
           /\ \/ /\ remoteIndex' = syncer.index
                 /\ SyncerIs(syncer', "delete", syncer.cmd, syncer.todo,
                             syncer.hand, syncer.keys, syncer.index, syncer.failed)
              \/ SyncerIs(syncer', "delete", syncer.cmd, syncer.todo,
                          syncer.hand, syncer.keys, syncer.index, TRUE)
           /\ UNCHANGED <<queue, deletes, caller, remote, durable, removed>>
<1>1. CASE PutsIndex
  BY <1>1, SyncerNow DEF PutsIndex, SyncerIs, SyncerRecords, past, feed
<1>2. CASE PutIndexFails
  BY <1>2, SyncerNow DEF PutIndexFails, SyncerIs, SyncerRecords, past, feed
<1> QED BY <1>1, <1>2

LEMMA DrainsIs ==
    ASSUME TypeOK, Drains
    PROVE  /\ syncer.pc = "delete" /\ deletes' = {}
           /\ SyncerIs(syncer', "deleting", syncer.cmd, syncer.todo,
                       syncer.hand, deletes, syncer.index, syncer.failed)
           /\ UNCHANGED <<queue, caller, remote, remoteIndex, durable, removed, budget>>
<1>1. deletes \subseteq Files
  BY DEF TypeOK
<1> QED BY <1>1, SyncerNow DEF Drains, SyncerIs, SyncerRecords, bucket, past

LEMMA DeletesIs ==
    ASSUME TypeOK, Deletes \/ DeleteFails
    PROVE  /\ \E f \in syncer.keys :
                /\ \/ remote' = remote \ {f} /\ removed' = removed \cup {f}
                   \/ UNCHANGED <<remote, removed>> /\ DeleteFails
                /\ SyncerIs(syncer', syncer.pc, syncer.cmd, syncer.todo, syncer.hand,
                            syncer.keys \ {f}, syncer.index, syncer.failed)
           /\ UNCHANGED <<queue, deletes, caller, remoteIndex, durable>>
<1>1. CASE Deletes
  BY <1>1, SyncerNow DEF Deletes, SyncerIs, SyncerRecords, feed
<1>2. CASE DeleteFails
  BY <1>2, SyncerNow DEF DeleteFails, SyncerIs, SyncerRecords, bucket, past, feed
<1> QED BY <1>1, <1>2

LEMMA RepliesIs ==
    ASSUME TypeOK, Replies
    PROVE  /\ syncer.pc = "deleting" /\ syncer.keys = {} /\ syncer' = IdleSyncer
           /\ caller' \in CallerRecords /\ caller'.asked = caller.asked
           /\ syncer.cmd = "all" => caller'.pc # "waiting"
           /\ syncer.cmd # "all" => UNCHANGED <<caller, durable>>
           /\ durable' # durable =>
                /\ syncer.cmd = "all" /\ ~syncer.failed
                /\ durable' = durable \cup (caller.asked \cap index)
           /\ UNCHANGED <<queue, deletes, remote, remoteIndex, removed, budget>>
BY Types DEF Replies, CallerRecords, bucket, feed

LEMMA PanicsIs ==
    ASSUME TypeOK, Panics
    PROVE  /\ syncer.pc # "idle" /\ syncer' = IdleSyncer
           /\ caller' \in CallerRecords /\ caller'.asked = caller.asked
           /\ syncer.cmd = "all" => caller'.pc # "waiting"
           /\ syncer.cmd # "all" => UNCHANGED caller
           /\ UNCHANGED <<queue, deletes, remote, remoteIndex, durable, removed>>
BY Types DEF Panics, CallerRecords, bucket, past, feed

-----------------------------------------------------------------------------
(* Type correctness.                                                       *)

\* The type invariant, put together again.
LEMMA TypesAgain ==
    ASSUME disk' \in (SUBSET Snaps) \X (SUBSET Snaps) \X (0 .. MaxPins),
           named' \subseteq Snaps, merging' \in BOOLEAN,
           desc' \in [step : [Snaps -> Nat], base : [Snaps -> Snaps \cup {None}]],
           nextId' \in 1 .. MaxSnaps + 1,
           writer' \in [Writers -> WriterRecords],
           deletes' \subseteq Files, saves' \in Nat,
           queue' \in Seq({"snapshots", "manifest", "all"}),
           syncer' \in SyncerRecords, caller' \in CallerRecords,
           bucket' \in (SUBSET Snaps) \X (SUBSET Snaps) \X (0 .. MaxPins),
           stage' \in {"up", "new", "filtered"},
           durable' \subseteq Snaps, removed' \subseteq Files,
           budget' \in [{"sync", "pin", "fault", "loss"} -> Nat]
    PROVE  TypeOK'
<1>1. /\ local' \subseteq Snaps /\ index' \subseteq Snaps /\ pins' \in 0 .. MaxPins
      /\ remote' \subseteq Snaps /\ remoteIndex' \subseteq Snaps /\ remotePins' \in 0 .. MaxPins
  BY DEF disk, bucket
<1> QED BY <1>1 DEF TypeOK, WriterRecords, SyncerRecords, CallerRecords

\* Spending never overdraws.
LEMMA SpendIs ==
    ASSUME TypeOK, NEW what \in {"sync", "pin", "fault", "loss"}, Spend(what)
    PROVE  /\ budget' \in [{"sync", "pin", "fault", "loss"} -> Nat]
           /\ budget'[what] = budget[what] - 1
           /\ \A other \in {"sync", "pin", "fault", "loss"} \ {what} :
                budget'[other] = budget[other]
BY DEF TypeOK, Spend

\* What the syncer leaves to the threads that write the store.
LEMMA SyncerSpares ==
    ASSUME SyncerStep \/ SyncerFault
    PROVE  UNCHANGED <<local, index, pins, named, desc, nextId, merging, writer, saves, stage>>
BY DEF SyncerStep, SyncerFault, Takes, Lists, Reads, Puts, Copied, ReadsIndex, PutsIndex,
       Drains, Deletes, Replies, ListsBlind, PutFails, PutIndexFails, DeleteFails, Panics,
       disk, names, feed

\* What a fault costs.
LEMMA SyncerSpends ==
    ASSUME TypeOK, SyncerStep \/ SyncerFault
    PROVE  /\ budget' \in [{"sync", "pin", "fault", "loss"} -> Nat]
           /\ \A what \in {"sync", "pin", "fault", "loss"} : budget'[what] <= budget[what]
           /\ SyncerFault => budget'["fault"] # budget["fault"]
<1>1. budget \in [{"sync", "pin", "fault", "loss"} -> Nat]
  BY DEF TypeOK
<1>2. CASE SyncerFault
  <2>1. Spend("fault")
    BY <1>2 DEF SyncerFault, ListsBlind, PutFails, PutIndexFails, DeleteFails, Panics
  <2>2. /\ budget' \in [{"sync", "pin", "fault", "loss"} -> Nat]
        /\ budget'["fault"] = budget["fault"] - 1
        /\ \A other \in {"sync", "pin", "fault", "loss"} \ {"fault"} :
             budget'[other] = budget[other]
    BY <2>1, SpendIs
  <2>3. budget["fault"] \in Nat
    BY <1>1
  <2> QED BY <1>1, <2>2, <2>3
<1>3. CASE SyncerStep /\ ~SyncerFault
  <2>1. budget' = budget
    BY <1>3 DEF SyncerStep, Takes, Lists, Reads, Puts, Copied, ReadsIndex, PutsIndex, Drains,
                Deletes, Replies
  <2>2. \A what \in {"sync", "pin", "fault", "loss"} : budget[what] \in Nat
    BY <1>1
  <2> QED BY <1>1, <1>3, <2>1, <2>2
<1> QED BY <1>2, <1>3

LEMMA SyncerKeepsTypes ==
    ASSUME TypeOK, SyncerStep \/ SyncerFault
    PROVE  TypeOK'
<1>1. syncer' \in SyncerRecords
  BY TakesIs, ListsIs, ReadsIs, PutsIs, CopiedIs, ReadsIndexIs, PutsIndexIs, DrainsIs,
     DeletesIs, RepliesIs, PanicsIs, IdleIs
  DEF SyncerStep, SyncerFault, SyncerIs
<1>2. caller' \in CallerRecords
  BY TakesIs, ListsIs, ReadsIs, PutsIs, CopiedIs, ReadsIndexIs, PutsIndexIs, DrainsIs,
     DeletesIs, RepliesIs, PanicsIs, Types
  DEF SyncerStep, SyncerFault
<1>3. queue' \in Seq({"snapshots", "manifest", "all"})
  <2>1. CASE Takes
    BY <2>1 DEF Takes, TypeOK
  <2>2. CASE ~Takes
    <3>1. queue' = queue
      BY <2>2, ListsIs, ReadsIs, PutsIs, CopiedIs, ReadsIndexIs, PutsIndexIs, DrainsIs,
         DeletesIs, RepliesIs, PanicsIs
      DEF SyncerStep, SyncerFault
    <3> QED BY <3>1 DEF TypeOK
  <2> QED BY <2>1, <2>2
<1>4. deletes' \subseteq Files /\ removed' \subseteq Files
  <2>1. deletes' \in {deletes, {}}
    BY TakesIs, ListsIs, ReadsIs, PutsIs, CopiedIs, ReadsIndexIs, PutsIndexIs, DrainsIs,
       DeletesIs, RepliesIs, PanicsIs
    DEF SyncerStep, SyncerFault
  <2>2. removed' \subseteq removed \cup syncer.keys
    BY TakesIs, ListsIs, ReadsIs, PutsIs, CopiedIs, ReadsIndexIs, PutsIndexIs, DrainsIs,
       DeletesIs, RepliesIs, PanicsIs
    DEF SyncerStep, SyncerFault
  <2> QED BY <2>1, <2>2, SyncerNow DEF TypeOK
<1>5. remote' \subseteq Snaps /\ remoteIndex' \subseteq Snaps
  <2>1. remote' \subseteq Snaps
    BY TakesIs, ListsIs, ReadsIs, PutsIs, CopiedIs, ReadsIndexIs, PutsIndexIs, DrainsIs,
       DeletesIs, RepliesIs, PanicsIs
    DEF SyncerStep, SyncerFault, TypeOK
  <2>2. remoteIndex' \in {remoteIndex, syncer.index}
    BY TakesIs, ListsIs, ReadsIs, PutsIs, CopiedIs, ReadsIndexIs, PutsIndexIs, DrainsIs,
       DeletesIs, RepliesIs, PanicsIs
    DEF SyncerStep, SyncerFault
  <2> QED BY <2>1, <2>2, SyncerNow DEF TypeOK
<1>6. remotePins' \in 0 .. MaxPins
  <2>1. CASE Puts \/ PutFails
    BY <2>1, PutsIs
  <2>2. CASE ~Puts /\ ~PutFails
    BY <2>2 DEF TypeOK, bucket, SyncerStep, SyncerFault, Takes, Lists, Reads, Copied,
         ReadsIndex, PutsIndex, Drains, Deletes, Replies, ListsBlind, PutIndexFails,
         DeleteFails, Panics
  <2> QED BY <2>1, <2>2
<1>7. durable' \subseteq durable \cup index
  BY TakesIs, ListsIs, ReadsIs, PutsIs, CopiedIs, ReadsIndexIs, PutsIndexIs, DrainsIs,
     DeletesIs, RepliesIs, PanicsIs
  DEF SyncerStep, SyncerFault
<1> QED BY <1>1, <1>2, <1>3, <1>4, <1>5, <1>6, <1>7, SyncerSpares, SyncerSpends, TypesAgain, Types
        DEF TypeOK, disk, bucket

-----------------------------------------------------------------------------
(* What each step of a writer does to its record.                          *)

WriterIs(r, pc, id, gone, left) ==
    /\ r \in WriterRecords
    /\ r.pc = pc /\ r.id = id /\ r.gone = gone /\ r.left = left

\* Writer w becomes that, and the other stays.
OnlyWriter(w, pc, id, gone, left) ==
    /\ writer' \in [Writers -> WriterRecords]
    /\ WriterIs(writer'[w], pc, id, gone, left)
    /\ \A v \in Writers : v # w => writer'[v] = writer[v]

LEMMA WritesPackIs ==
    ASSUME TypeOK, NEW w \in Writers, NEW gone \in SUBSET Snaps, nextId \in Snaps,
           WritesPack(w, gone)
    PROVE  OnlyWriter(w, "pack", nextId, gone, {})
<1> DEFINE r == [IdleWriter EXCEPT !.pc = "pack", !.id = nextId, !.gone = gone]
<1>1. WriterIs(r, "pack", nextId, gone, {})
  BY DEF IdleWriter, WriterRecords, WriterIs
<1>2. writer' = [writer EXCEPT ![w] = r]
  BY DEF WritesPack
<1> HIDE DEF r
<1> QED BY <1>1, <1>2, Types DEF OnlyWriter, WriterIs

LEMMA PublishesIs ==
    ASSUME TypeOK, NEW w \in Writers, NEW gone \in SUBSET Snaps, Publishes(w, gone)
    PROVE  OnlyWriter(w, "unlink", writer[w].id, gone, gone)
<1>1. writer' = [writer EXCEPT ![w].pc = "unlink", ![w].gone = gone, ![w].left = gone]
  BY DEF Publishes
<1> QED BY <1>1, Types DEF OnlyWriter, WriterIs, WriterRecords

LEMMA UnlinksIs ==
    ASSUME TypeOK, NEW w \in Writers, Unlinks(w)
    PROVE  OnlyWriter(w, "push", writer[w].id, writer[w].gone, writer[w].left)
<1>1. writer' = [writer EXCEPT ![w].pc = "push"]
  BY DEF Unlinks
<1> QED BY <1>1, Types DEF OnlyWriter, WriterIs, WriterRecords

LEMMA PushesIs ==
    ASSUME TypeOK, NEW w \in Writers, Pushes(w)
    PROVE  OnlyWriter(w, "unlink", writer[w].id, writer[w].gone, writer[w].left \ {NextFile(w)})
<1>1. writer' = [writer EXCEPT ![w].pc = "unlink", ![w].left = @ \ {NextFile(w)}]
  BY DEF Pushes
<1> QED BY <1>1, Types DEF OnlyWriter, WriterIs, WriterRecords

LEMMA UnlinkTimesOutIs ==
    ASSUME TypeOK, NEW w \in Writers, UnlinkTimesOut(w)
    PROVE  OnlyWriter(w, "unlink", writer[w].id, writer[w].gone, {})
<1>1. writer' = [writer EXCEPT ![w].left = {}]
  BY DEF UnlinkTimesOut
<1> QED BY <1>1, Types DEF OnlyWriter, WriterIs, WriterRecords, UnlinkTimesOut

LEMMA IdleWriterIs == WriterIs(IdleWriter, "idle", None, {}, {})
BY DEF IdleWriter, WriterIs, WriterRecords

LEMMA WriterEndsIs ==
    ASSUME TypeOK, NEW w \in Writers, WriterEnds(w)
    PROVE  OnlyWriter(w, "idle", None, {}, {}) /\ writer'[w] = IdleWriter
<1>1. writer' = [writer EXCEPT ![w] = IdleWriter]
  BY DEF WriterEnds
<1> QED BY <1>1, Types, IdleWriterIs DEF OnlyWriter, WriterIs

\* The commands that notify_save sends.
LEMMA NotifySaveTypes ==
    ASSUME TypeOK, NotifySave
    PROVE  saves' \in Nat /\ queue' \in Seq({"snapshots", "manifest", "all"})
<1>1. CASE SyncEvery = 0
  BY <1>1 DEF NotifySave, TypeOK
<1>2. CASE SyncEvery # 0
  <2>1. saves' \in Nat
    <3>1. saves \in Nat /\ SyncEvery \in Nat \ {0}
      BY <1>2, SyncAssumption DEF TypeOK
    <3>2. (saves + 1) % SyncEvery \in Nat
      BY <3>1
    <3> QED BY <1>2, <3>2 DEF NotifySave
  <2>2. <<"snapshots", "manifest">> \in Seq({"snapshots", "manifest", "all"})
    OBVIOUS
  <2>3. queue \o <<"snapshots", "manifest">> \in Seq({"snapshots", "manifest", "all"})
    BY <2>2, ConcatProperties DEF TypeOK
  <2> QED BY <1>2, <2>1, <2>3 DEF NotifySave, TypeOK
<1> QED BY <1>1, <1>2

\* A snapshot that is taken is described; the others stay as they were.
LEMMA FreshIs ==
    ASSUME TypeOK, NEW step \in Nat, NEW base \in Snaps \cup {None}, Fresh(step, base)
    PROVE  /\ nextId \in Snaps /\ nextId' = nextId + 1 /\ nextId' \in 1 .. MaxSnaps + 1
           /\ desc' \in [step : [Snaps -> Nat], base : [Snaps -> Snaps \cup {None}]]
           /\ desc'.step[nextId] = step /\ desc'.base[nextId] = base
           /\ \A i \in Snaps : i # nextId =>
                desc'.step[i] = desc.step[i] /\ desc'.base[i] = desc.base[i]
<1>1. desc' = [desc EXCEPT !.step[nextId] = step, !.base[nextId] = base]
  BY DEF Fresh
<1>2. nextId \in Snaps
  BY DEF Fresh
<1>3. nextId' = nextId + 1 /\ nextId' \in 1 .. MaxSnaps + 1
  BY <1>2, Types DEF Fresh, Snaps
<1>4. desc \in [step : [Snaps -> Nat], base : [Snaps -> Snaps \cup {None}]]
  BY DEF TypeOK
<1> QED BY <1>1, <1>2, <1>3, <1>4

\* The invariants that a restore leaves to rest.
LEMMA UpIs ==
    ASSUME SyncInv, stage = "up"
    PROVE  /\ TypeOK /\ DescInv /\ index = named /\ IsManifest(named)
           /\ named \subseteq local \cup remote /\ durable \subseteq named
           /\ (LastFull # None => LastFull \in local)
           /\ named \subseteq Taken
BY DEF SyncInv, UpInv, IsManifest

-----------------------------------------------------------------------------
(* The steps of the syncer thread keep the invariant.                      *)

\* What is known of the identifiers stays known.
LEMMA NamesStay ==
    ASSUME UNCHANGED <<desc, nextId>>
    PROVE  /\ Taken' = Taken
           /\ \A i : BaseOf(i)' = BaseOf(i) /\ IsFull(i)' = IsFull(i)
           /\ \A S : IsManifest(S)' <=> IsManifest(S)
           /\ DescInv => DescInv'
BY DEF Taken, BaseOf, IsFull, IsManifest, DescInv

LEMMA LastFullStays ==
    ASSUME UNCHANGED <<desc, named>>
    PROVE  LastFull' = LastFull
BY DEF LastFull, Newest, BaseOf

LEMMA WritersRest ==
    ASSUME SaverInv, MergerInv, UNCHANGED <<desc, nextId, named, writer>>
    PROVE  SaverInv' /\ MergerInv'
BY LastFullStays DEF SaverInv, MergerInv, BaseOf, IsFull

\* Nobody copies to the bucket while a machine is restored.
LEMMA SyncerIsUp ==
    ASSUME SyncInv, SyncerStep \/ SyncerFault
    PROVE  stage = "up"
<1>1. SUFFICES ASSUME stage # "up" PROVE FALSE
  OBVIOUS
<1>2. /\ TypeOK /\ queue = <<>>
      /\ syncer.pc = "idle" /\ syncer.hand = {} /\ syncer.keys = {}
  BY <1>1, IdleIs DEF SyncInv, DownInv, SyncerIs
<1> QED BY <1>2, TakesIs, ListsIs, ReadsIs, PutsIs, CopiedIs, ReadsIndexIs, PutsIndexIs, DrainsIs,
           DeletesIs, RepliesIs, PanicsIs
        DEF SyncerStep, SyncerFault

\* What is in hand, and what is taken off the bucket.
LEMMA SyncerHas ==
    ASSUME SyncInv
    PROVE  /\ Pins \notin Taken
           /\ syncer.hand # {} \/ syncer.todo # {} => syncer.pc = "copy"
           /\ syncer.keys # {} => syncer.pc = "deleting"
           /\ \A f \in Listed : f \in local \cup {Pins}
<1>1. Pins \notin Taken
  BY Types DEF SyncInv, Pins, None
<1> QED BY <1>1 DEF SyncInv, SyncerInv, Listed

LEMMA SyncerKeepsSyncer ==
    ASSUME SyncInv, SyncerStep \/ SyncerFault
    PROVE  SyncerInv'
<1>1. TypeOK /\ SyncerInv /\ IsManifest(index) /\ durable \subseteq index
  BY SyncerIsUp, UpIs DEF SyncInv
<1>2. UNCHANGED <<desc, nextId>> /\ (\A S : IsManifest(S)' <=> IsManifest(S))
  BY SyncerSpares, NamesStay
<1>3. CASE Replies \/ Panics
  <2>1. syncer' = IdleSyncer
    BY <1>1, <1>3, RepliesIs, PanicsIs
  <2> QED BY <2>1, IdleIs DEF SyncerInv, SyncerIs
<1>4. CASE Takes
  BY <1>1, <1>4, TakesIs DEF SyncerInv, SyncerIs
<1>5. CASE Lists \/ ListsBlind
  BY <1>1, <1>5, ListsIs DEF SyncerInv, SyncerIs
<1>6. CASE Reads
  BY <1>1, <1>6, ReadsIs DEF SyncerInv, SyncerIs
<1>7. CASE Puts \/ PutFails
  BY <1>1, <1>7, PutsIs DEF SyncerInv, SyncerIs
<1>8. CASE Copied
  BY <1>1, <1>8, CopiedIs DEF SyncerInv, SyncerIs, AfterCopy
<1>9. CASE ReadsIndex
  <2>1. durable' = durable /\ syncer'.index = index
    BY <1>1, <1>9, ReadsIndexIs DEF SyncerIs
  <2>2. IsManifest(syncer.index)' /\ durable' \subseteq syncer'.index
    BY <1>1, <1>2, <2>1 DEF IsManifest, BaseOf, IsFull, Taken
  <2> QED BY <1>1, <1>9, <2>2, ReadsIndexIs DEF SyncerInv, SyncerIs
<1>10. CASE PutsIndex \/ PutIndexFails
  BY <1>1, <1>10, PutsIndexIs DEF SyncerInv, SyncerIs
<1>11. CASE Drains
  BY <1>1, <1>11, DrainsIs DEF SyncerInv, SyncerIs
<1>12. CASE Deletes \/ DeleteFails
  BY <1>1, <1>12, DeletesIs DEF SyncerInv, SyncerIs
<1> QED BY <1>3, <1>4, <1>5, <1>6, <1>7, <1>8, <1>9, <1>10, <1>11, <1>12 DEF SyncerStep, SyncerFault

LEMMA SyncerKeepsDead ==
    ASSUME SyncInv, SyncerStep \/ SyncerFault
    PROVE  DeadInv'
<1>1. TypeOK /\ DeadInv /\ SyncerInv /\ Listed \subseteq local \cup {Pins} /\ Pins \notin Taken
  BY SyncerHas DEF SyncInv
<1>2. UNCHANGED <<local, named, nextId>> /\ Taken' = Taken
  BY SyncerSpares, NamesStay
<1>3. CASE Replies \/ Panics
  <2>1. UNCHANGED <<deletes, removed, remote>>
    BY <1>1, <1>3, RepliesIs, PanicsIs
  <2>2. syncer'.keys = {} /\ syncer'.todo = {} /\ syncer'.hand = {}
    BY <1>1, <1>3, RepliesIs, PanicsIs, IdleIs DEF SyncerIs
  <2> QED BY <1>1, <1>2, <2>1, <2>2 DEF DeadInv
<1>4. CASE Takes
  <2>1. UNCHANGED <<deletes, removed, remote>>
    BY <1>1, <1>4, TakesIs
  <2>2. syncer'.keys = {} /\ syncer'.todo = {} /\ syncer'.hand = {}
    BY <1>1, <1>4, TakesIs DEF SyncerIs
  <2> QED BY <1>1, <1>2, <2>1, <2>2 DEF DeadInv
<1>5. CASE Lists \/ ListsBlind
  <2>1. UNCHANGED <<deletes, removed, remote>>
    BY <1>1, <1>5, ListsIs
  <2>2. /\ syncer'.keys = syncer.keys /\ syncer'.hand = syncer.hand
        /\ syncer'.todo \subseteq Listed
    BY <1>1, <1>5, ListsIs DEF SyncerIs
  <2> QED BY <1>1, <1>2, <2>1, <2>2 DEF DeadInv
<1>6. CASE Reads
  <2>1. UNCHANGED <<deletes, removed, remote>>
    BY <1>1, <1>6, ReadsIs
  <2>2. /\ syncer'.keys = syncer.keys /\ syncer'.todo \subseteq syncer.todo
        /\ syncer'.hand \subseteq syncer.hand \cup syncer.todo
    BY <1>1, <1>6, ReadsIs DEF SyncerIs
  <2> QED BY <1>1, <1>2, <2>1, <2>2 DEF DeadInv
<1>7. CASE Puts \/ PutFails
  <2>1. UNCHANGED <<deletes, removed>>
    BY <1>1, <1>7, PutsIs
  <2>2. /\ syncer'.keys = syncer.keys /\ syncer'.todo \subseteq syncer.todo
        /\ syncer'.hand \subseteq syncer.hand
        /\ remote' \subseteq remote \cup syncer.hand
    BY <1>1, <1>7, PutsIs DEF SyncerIs
  <2> QED BY <1>1, <1>2, <2>1, <2>2 DEF DeadInv
<1>8. CASE Copied \/ ReadsIndex \/ PutsIndex \/ PutIndexFails
  <2>1. UNCHANGED <<deletes, removed, remote>>
    BY <1>1, <1>8, CopiedIs, ReadsIndexIs, PutsIndexIs
  <2>2. /\ syncer'.keys = syncer.keys /\ syncer'.todo = syncer.todo
        /\ syncer'.hand = syncer.hand
    BY <1>1, <1>8, CopiedIs, ReadsIndexIs, PutsIndexIs DEF SyncerIs
  <2> QED BY <1>1, <1>2, <2>1, <2>2 DEF DeadInv
<1>9. CASE Drains
  <2>1. deletes' = {} /\ UNCHANGED <<removed, remote>>
    BY <1>1, <1>9, DrainsIs
  <2>2. /\ syncer'.keys = deletes /\ syncer'.todo = syncer.todo
        /\ syncer'.hand = syncer.hand
    BY <1>1, <1>9, DrainsIs DEF SyncerIs
  <2> QED BY <1>1, <1>2, <2>1, <2>2 DEF DeadInv
<1>10. CASE Deletes \/ DeleteFails
  <2>1. PICK f \in syncer.keys :
          /\ \/ remote' = remote \ {f} /\ removed' = removed \cup {f}
             \/ UNCHANGED <<remote, removed>>
          /\ syncer'.keys = syncer.keys \ {f}
          /\ syncer'.todo = syncer.todo /\ syncer'.hand = syncer.hand
    BY <1>1, <1>10, DeletesIs DEF SyncerIs
  <2>2. deletes' = deletes /\ syncer.todo = {} /\ syncer.hand = {}
    BY <1>1, <1>10, <2>1, DeletesIs DEF SyncerInv
  <2> QED BY <1>1, <1>2, <2>1, <2>2 DEF DeadInv
<1> QED BY <1>3, <1>4, <1>5, <1>6, <1>7, <1>8, <1>9, <1>10 DEF SyncerStep, SyncerFault

LEMMA SyncerKeepsCaller ==
    ASSUME SyncInv, SyncerStep \/ SyncerFault
    PROVE  CallerInv'
<1>1. TypeOK /\ CallerInv /\ SyncerInv
  BY DEF SyncInv
<1>2. CASE Takes
  <2>1. /\ queue # <<>> /\ queue' = Tail(queue) /\ caller' = caller
        /\ syncer'.cmd = Head(queue)
    BY <1>1, <1>2, TakesIs DEF SyncerIs
  <2>2. queue \in Seq({"snapshots", "manifest", "all"})
    BY <1>1 DEF TypeOK
  <2>3. /\ Len(queue) \in Nat \ {0} /\ Head(queue) = queue[1]
        /\ Len(queue') = Len(queue) - 1
        /\ \A p \in 1 .. Len(queue') : queue'[p] = queue[p + 1]
    BY <2>1, <2>2, HeadTailProperties
  <2> HIDE <2>2
  <2>4. \A p \in 1 .. Len(queue') : p + 1 \in 1 .. Len(queue) /\ p + 1 # 1
    BY <2>3
  <2>5. \A p \in 1 .. Len(queue') : queue'[p] = "all" =>
          /\ caller.pc = "waiting" /\ Head(queue) # "all"
          /\ \A q \in 1 .. Len(queue') : queue'[q] = "all" => p = q
    BY <1>1, <2>3, <2>4 DEF CallerInv
  <2>6. Head(queue) = "all" => caller.pc = "waiting"
    BY <1>1, <2>3 DEF CallerInv
  <2> QED BY <2>1, <2>5, <2>6 DEF CallerInv
<1>3. CASE Replies \/ Panics
  <2>1. /\ queue' = queue /\ syncer'.cmd = "none"
        /\ syncer.cmd # "all" => caller' = caller
    BY <1>1, <1>3, RepliesIs, PanicsIs, IdleIs DEF SyncerIs
  <2> QED BY <1>1, <2>1 DEF CallerInv
<1>4. CASE ~Takes /\ ~Replies /\ ~Panics
  <2>1. queue' = queue /\ caller' = caller /\ syncer'.cmd = syncer.cmd
    BY <1>1, <1>4, ListsIs, ReadsIs, PutsIs, CopiedIs, ReadsIndexIs, PutsIndexIs, DrainsIs,
       DeletesIs
    DEF SyncerStep, SyncerFault, SyncerIs
  <2> QED BY <1>1, <2>1 DEF CallerInv
<1> QED BY <1>2, <1>3, <1>4

LEMMA SyncerKeepsAsked ==
    ASSUME SyncInv, SyncerStep \/ SyncerFault
    PROVE  AskedInv'
<1> DEFINE A == caller.asked \cap named
<1>1. /\ TypeOK /\ AskedInv /\ SyncerInv /\ index = named
      /\ \A f \in A : f \in local \cup remote
      /\ A \cap syncer.keys = {} /\ Pins \notin A
  BY SyncerIsUp, UpIs, SyncerHas DEF SyncInv, DeadInv
<1>2. UNCHANGED <<local, named>> /\ Taken' = Taken /\ (\A i : BaseOf(i)' = BaseOf(i))
  BY SyncerSpares, NamesStay
<1>3. caller'.asked = caller.asked
  BY <1>1, TakesIs, ListsIs, ReadsIs, PutsIs, CopiedIs, ReadsIndexIs, PutsIndexIs, DrainsIs,
     DeletesIs, RepliesIs, PanicsIs
  DEF SyncerStep, SyncerFault
<1>4. caller'.asked \subseteq Taken' /\ \A i \in caller'.asked : BaseOf(i)' \subseteq caller'.asked
  BY <1>1, <1>2, <1>3 DEF AskedInv
<1>5. SUFFICES ASSUME syncer'.cmd = "all", ~syncer'.failed
               PROVE  /\ syncer'.pc = "copy" => A \subseteq remote' \cup syncer'.todo \cup syncer'.hand
                      /\ syncer'.pc \in {"manifest", "index", "delete", "deleting"} => A \subseteq remote'
                      /\ syncer'.pc = "index" => A \subseteq syncer'.index
                      /\ syncer'.pc \in {"delete", "deleting"} => A \subseteq remoteIndex'
  BY <1>2, <1>3, <1>4 DEF AskedInv, Asked
<1>6. syncer.cmd = "all" /\ ~syncer.failed =>
        /\ syncer.pc = "copy" => A \subseteq remote \cup syncer.todo \cup syncer.hand
        /\ syncer.pc \in {"manifest", "index", "delete", "deleting"} => A \subseteq remote
        /\ syncer.pc = "index" => A \subseteq syncer.index
        /\ syncer.pc \in {"delete", "deleting"} => A \subseteq remoteIndex
  BY <1>1 DEF AskedInv, Asked
<1>7. CASE Takes \/ Replies \/ Panics
  <2>1. Head(queue) = "all" => syncer'.pc \in {"list", "idle"}
    BY <1>1, <1>7, TakesIs, RepliesIs, PanicsIs, IdleIs DEF SyncerIs
  <2>2. syncer'.pc \in {"list", "idle"}
    BY <1>1, <1>5, <1>7, <2>1, TakesIs, RepliesIs, PanicsIs, IdleIs DEF SyncerIs
  <2> QED BY <2>2
<1>8. CASE Lists \/ ListsBlind
  <2>1. syncer'.pc = "copy" /\ Listed \ Present \subseteq syncer'.todo /\ remote' = remote
    BY <1>1, <1>8, ListsIs DEF SyncerIs
  <2>2. \A f \in A : f \in Listed \ Present \/ f \in remote
    BY <1>1 DEF Listed, Present
  <2> QED BY <2>1, <2>2
<1>9. CASE Reads
  <2>1. PICK f \in syncer.todo :
          /\ syncer'.todo = syncer.todo \ {f}
          /\ syncer'.hand = IF f \in Listed THEN syncer.hand \cup {f} ELSE syncer.hand
    BY <1>1, <1>9, ReadsIs DEF SyncerIs
  <2>2. /\ remote' = remote /\ syncer.pc = "copy" /\ syncer'.pc = "copy"
        /\ syncer.cmd = "all" /\ ~syncer.failed
    BY <1>1, <1>5, <1>9, ReadsIs DEF SyncerIs
  <2>3. f \in A => f \in Listed \/ f \in remote
    BY <1>1 DEF Listed
  <2> QED BY <1>6, <2>1, <2>2, <2>3
<1>10. CASE Puts \/ PutFails
  <2>1. PICK f \in syncer.hand :
          /\ remote' = remote \cup ({f} \ {Pins})
          /\ syncer'.todo = syncer.todo /\ syncer'.hand = syncer.hand \ {f}
          /\ syncer'.pc = syncer.pc /\ syncer.cmd = "all" /\ ~syncer.failed
    BY <1>1, <1>5, <1>10, PutsIs DEF SyncerIs
  <2>2. syncer.pc = "copy"
    BY <2>1, SyncerHas
  <2> QED BY <1>1, <1>6, <2>1, <2>2
<1>11. CASE Copied
  <2>1. /\ remote' = remote /\ syncer.pc = "copy" /\ syncer.todo = {} /\ syncer.hand = {}
        /\ syncer.cmd = "all" /\ ~syncer.failed /\ syncer'.pc = "manifest"
    BY <1>1, <1>5, <1>11, CopiedIs DEF SyncerIs, AfterCopy
  <2> QED BY <1>6, <2>1
<1>12. CASE ReadsIndex
  <2>1. /\ remote' = remote /\ syncer.pc = "manifest" /\ syncer.cmd = "all" /\ ~syncer.failed
        /\ syncer'.pc = (IF index = {} THEN "delete" ELSE "index")
        /\ syncer'.index = index
    BY <1>1, <1>5, <1>12, ReadsIndexIs DEF SyncerIs
  <2> QED BY <1>1, <1>6, <2>1
<1>13. CASE PutsIndex \/ PutIndexFails
  <2>1. /\ remote' = remote /\ syncer.pc = "index" /\ syncer.cmd = "all" /\ ~syncer.failed
        /\ syncer'.pc = "delete" /\ remoteIndex' = syncer.index
    BY <1>1, <1>5, <1>13, PutsIndexIs DEF SyncerIs
  <2> QED BY <1>6, <2>1
<1>14. CASE Drains
  <2>1. /\ remote' = remote /\ syncer.pc = "delete" /\ syncer.cmd = "all" /\ ~syncer.failed
        /\ syncer'.pc = "deleting" /\ remoteIndex' = remoteIndex
    BY <1>1, <1>5, <1>14, DrainsIs DEF SyncerIs
  <2> QED BY <1>6, <2>1
<1>15. CASE Deletes \/ DeleteFails
  <2>1. PICK f \in syncer.keys : remote' = remote \ {f} \/ remote' = remote
    BY <1>1, <1>15, DeletesIs
  <2>2. /\ syncer.cmd = "all" /\ ~syncer.failed /\ remoteIndex' = remoteIndex
        /\ syncer'.pc = syncer.pc
    BY <1>1, <1>5, <1>15, DeletesIs DEF SyncerIs
  <2>3. syncer.pc = "deleting"
    BY <2>1, SyncerHas
  <2> QED BY <1>1, <1>6, <2>1, <2>2, <2>3
<1> QED BY <1>7, <1>8, <1>9, <1>10, <1>11, <1>12, <1>13, <1>14, <1>15 DEF SyncerStep, SyncerFault

LEMMA SyncerKeepsBucket ==
    ASSUME SyncInv, SyncerStep \/ SyncerFault
    PROVE  BucketInv'
<1>1. /\ TypeOK /\ BucketInv /\ AskedInv /\ SyncerInv /\ DeadInv
      /\ index = named /\ IsManifest(named) /\ durable \subseteq named
  BY SyncerIsUp, UpIs DEF SyncInv
<1>2. /\ UNCHANGED <<local, named, index>> /\ (\A i : BaseOf(i)' = BaseOf(i))
      /\ (\A S : IsManifest(S)' <=> IsManifest(S)) /\ UNCHANGED <<desc, nextId>>
  BY SyncerSpares, NamesStay
\* What is durable, spelt out.
<1>3. \A i \in durable : /\ i \in remoteIndex \cap remote
                         /\ BaseOf(i) \subseteq remoteIndex \cap remote
  BY <1>1 DEF BucketInv, Restorable, Reachable
<1>4. SUFFICES /\ IsManifest(remoteIndex)'
               /\ \A i \in durable' : /\ i \in remoteIndex' \cap remote'
                                      /\ BaseOf(i) \subseteq remoteIndex' \cap remote'
  BY <1>2 DEF BucketInv, Restorable, Reachable
<1>5. CASE PutsIndex \/ PutIndexFails
  <2>1. /\ remoteIndex' \in {remoteIndex, syncer.index} /\ UNCHANGED <<remote, durable>>
        /\ syncer.pc = "index"
    BY <1>1, <1>5, PutsIndexIs
  <2>2. IsManifest(syncer.index) /\ IsManifest(remoteIndex) /\ durable \subseteq syncer.index
    BY <1>1, <2>1 DEF SyncerInv, BucketInv
  <2>3. IsManifest(remoteIndex)'
    BY <1>2, <2>1, <2>2 DEF IsManifest, BaseOf, IsFull, Taken
  <2>4. \A i \in syncer.index : BaseOf(i) \subseteq syncer.index
    BY <2>2 DEF IsManifest
  <2> QED BY <1>3, <2>1, <2>2, <2>3, <2>4
<1>6. CASE ~(PutsIndex \/ PutIndexFails)
  <2>1. remoteIndex' = remoteIndex
    BY <1>1, <1>6, TakesIs, ListsIs, ReadsIs, PutsIs, CopiedIs, ReadsIndexIs, DrainsIs,
       DeletesIs, RepliesIs, PanicsIs
    DEF SyncerStep, SyncerFault
  <2>2. IsManifest(remoteIndex)'
    BY <1>1, <1>2, <2>1 DEF BucketInv, IsManifest, BaseOf, IsFull, Taken
  <2>3. CASE Deletes \/ DeleteFails
    <3>1. PICK f \in syncer.keys : remote' = remote \ {f} \/ remote' = remote
      BY <1>1, <2>3, DeletesIs
    <3>2. durable' = durable
      BY <1>1, <2>3, DeletesIs
    <3>3. f \notin named
      BY <1>1 DEF DeadInv
    <3>4. \A i \in durable : i \in named /\ BaseOf(i) \subseteq named
      BY <1>1 DEF IsManifest
    <3> QED BY <1>3, <2>1, <2>2, <3>1, <3>2, <3>3, <3>4
  <2>4. CASE Replies
    <3>1. remote' = remote
      BY <1>1, <2>4, RepliesIs
    <3>2. CASE durable' = durable
      BY <1>3, <2>1, <2>2, <3>1, <3>2
    <3>3. CASE durable' # durable
      <4>1. /\ durable' = durable \cup (caller.asked \cap named)
            /\ syncer.pc = "deleting" /\ syncer.cmd = "all" /\ ~syncer.failed
        BY <1>1, <2>4, <3>3, RepliesIs
      <4>2. caller.asked \cap named \subseteq remote \cap remoteIndex
        BY <1>1, <4>1 DEF AskedInv, Asked
      <4>3. \A i \in caller.asked \cap named : BaseOf(i) \subseteq caller.asked \cap named
        BY <1>1 DEF AskedInv, IsManifest
      <4> QED BY <1>3, <2>1, <2>2, <3>1, <4>1, <4>2, <4>3
    <3> QED BY <3>2, <3>3
  <2>5. CASE ~(Deletes \/ DeleteFails \/ Replies)
    <3>1. durable' = durable /\ remote \subseteq remote'
      BY <1>1, <1>6, <2>5, TakesIs, ListsIs, ReadsIs, PutsIs, CopiedIs, ReadsIndexIs, DrainsIs,
         PanicsIs
      DEF SyncerStep, SyncerFault
    <3> QED BY <1>3, <2>1, <2>2, <3>1
  <2> QED BY <2>3, <2>4, <2>5
<1> QED BY <1>5, <1>6

LEMMA SyncerKeepsBill ==
    ASSUME SyncInv, SyncerStep \/ SyncerFault
    PROVE  BillInv'
<1> DEFINE pushed == {NextFile(w) : w \in {v \in Writers : writer[v].pc = "push"}}
<1>1. /\ TypeOK /\ BillInv /\ SyncerInv /\ Listed \subseteq local \cup {Pins}
      /\ budget["fault"] <= MaxFaults /\ budget["loss"] <= MaxLosses
  BY SyncerHas DEF SyncInv, BudgetInv
<1>2. UNCHANGED <<local, stage>> /\ pushed' = pushed
  BY SyncerSpares DEF NextFile
<1>3. SUFFICES ASSUME budget'["fault"] = MaxFaults, budget'["loss"] = MaxLosses
               PROVE  BillInv'
  BY DEF BillInv
<1>4. SyncerStep /\ ~SyncerFault /\ budget["fault"] = MaxFaults /\ budget["loss"] = MaxLosses
  <2>1. /\ budget["fault"] \in Nat /\ budget["loss"] \in Nat
        /\ budget'["fault"] <= budget["fault"] /\ budget'["loss"] <= budget["loss"]
        /\ SyncerFault => budget'["fault"] # budget["fault"]
    BY <1>1, SyncerSpends DEF TypeOK
  <2>2. MaxFaults \in Nat /\ MaxLosses \in Nat
    BY SyncAssumption
  <2> QED BY <1>1, <1>3, <2>1, <2>2
<1>5. /\ stage = "up"
      /\ remote \cup (syncer.hand \ {Pins}) \subseteq local \cup deletes \cup syncer.keys \cup pushed
  BY <1>1, <1>4 DEF BillInv, Leaving
<1>6. SUFFICES remote' \cup (syncer'.hand \ {Pins})
                 \subseteq local \cup deletes' \cup syncer'.keys \cup pushed
  BY <1>2, <1>5 DEF BillInv, Leaving
<1> HIDE DEF pushed
<1>7. CASE Takes
  BY <1>1, <1>5, <1>7, TakesIs DEF SyncerIs, SyncerInv
<1>8. CASE Lists
  BY <1>1, <1>5, <1>8, ListsIs DEF SyncerIs
<1>9. CASE Reads
  BY <1>1, <1>5, <1>9, ReadsIs DEF SyncerIs
<1>10. CASE Puts
  BY <1>1, <1>5, <1>10, PutsIs DEF SyncerIs
<1>11. CASE Copied \/ ReadsIndex \/ PutsIndex
  BY <1>1, <1>5, <1>11, CopiedIs, ReadsIndexIs, PutsIndexIs DEF SyncerIs
<1>12. CASE Drains
  BY <1>1, <1>5, <1>12, DrainsIs DEF SyncerIs, SyncerInv
<1>13. CASE Deletes
  <2>1. ~DeleteFails
    BY <1>4 DEF SyncerFault
  <2>2. PICK f \in syncer.keys : remote' = remote \ {f} /\ syncer'.keys = syncer.keys \ {f}
    BY <1>1, <1>13, <2>1, DeletesIs DEF SyncerIs
  <2>3. deletes' = deletes /\ syncer'.hand = syncer.hand /\ syncer.hand = {}
    BY <1>1, <1>13, <2>2, DeletesIs, SyncerHas DEF SyncerIs
  <2> QED BY <1>5, <2>2, <2>3
<1>14. CASE Replies
  <2>1. /\ syncer.keys = {} /\ syncer'.hand = {} /\ syncer'.keys = {}
        /\ UNCHANGED <<deletes, remote>>
    BY <1>1, <1>14, RepliesIs, IdleIs DEF SyncerIs
  <2> QED BY <1>5, <2>1
<1> QED BY <1>4, <1>7, <1>8, <1>9, <1>10, <1>11, <1>12, <1>13, <1>14 DEF SyncerStep

LEMMA SyncerKeepsUp ==
    ASSUME SyncInv, SyncerStep \/ SyncerFault
    PROVE  UpInv' /\ DownInv'
<1>1. /\ TypeOK /\ DeadInv /\ stage = "up" /\ index = named /\ IsManifest(named)
      /\ named \subseteq local \cup remote /\ durable \subseteq named
      /\ (LastFull # None => LastFull \in local)
  BY SyncerIsUp, UpIs DEF SyncInv
<1>2. /\ UNCHANGED <<local, named, index, stage, desc, nextId>> /\ LastFull' = LastFull
  BY SyncerSpares, LastFullStays
<1>3. IsManifest(named)'
  BY <1>1, <1>2 DEF IsManifest, BaseOf, IsFull, Taken
<1>4. remote \cap named \subseteq remote'
  <2>1. CASE Deletes \/ DeleteFails
    <3>1. PICK f \in syncer.keys : remote' = remote \ {f} \/ remote' = remote
      BY <1>1, <2>1, DeletesIs
    <3> QED BY <1>1, <3>1 DEF DeadInv
  <2>2. CASE ~(Deletes \/ DeleteFails)
    BY <1>1, <2>2, TakesIs, ListsIs, ReadsIs, PutsIs, CopiedIs, ReadsIndexIs, PutsIndexIs, DrainsIs,
       RepliesIs, PanicsIs
    DEF SyncerStep, SyncerFault
  <2> QED BY <2>1, <2>2
<1>5. durable' \subseteq named
  BY <1>1, TakesIs, ListsIs, ReadsIs, PutsIs, CopiedIs, ReadsIndexIs, PutsIndexIs, DrainsIs,
     DeletesIs, RepliesIs, PanicsIs
  DEF SyncerStep, SyncerFault
<1>6. UpInv'
  BY <1>1, <1>2, <1>3, <1>4, <1>5 DEF UpInv
<1> QED BY <1>1, <1>2, <1>6 DEF DownInv

LEMMA SyncerKeepsWriters ==
    ASSUME SyncInv, SyncerStep \/ SyncerFault
    PROVE  WriterInv' /\ SaverInv' /\ MergerInv'
<1>1. UNCHANGED <<local, named, desc, nextId, writer>> /\ caller'.asked = caller.asked
  BY SyncerSpares, TakesIs, ListsIs, ReadsIs, PutsIs, CopiedIs, ReadsIndexIs, PutsIndexIs, DrainsIs,
     DeletesIs, RepliesIs, PanicsIs
  DEF SyncerStep, SyncerFault, SyncInv
<1>2. WriterInv'
  BY <1>1 DEF SyncInv, WriterInv, NextFile, Taken
<1> QED BY <1>1, <1>2, WritersRest DEF SyncInv

LEMMA SyncerKeepsBudget ==
    ASSUME SyncInv, SyncerStep \/ SyncerFault
    PROVE  BudgetInv'
<1>1. /\ TypeOK /\ BudgetInv /\ MaxPins \in Nat /\ MaxFaults \in Nat /\ MaxLosses \in Nat
  BY SyncAssumption DEF SyncInv
<1>2. \A what \in {"sync", "pin", "fault", "loss"} :
        /\ budget[what] \in Nat /\ budget'[what] \in Nat
        /\ budget'[what] <= budget[what]
  BY <1>1, SyncerSpends DEF TypeOK
<1> QED BY <1>1, <1>2 DEF BudgetInv

LEMMA SyncerKeeps ==
    ASSUME SyncInv, SyncerStep \/ SyncerFault
    PROVE  SyncInv'
<1>1. TypeOK' /\ DescInv'
  BY SyncerKeepsTypes, SyncerSpares, NamesStay DEF SyncInv
<1> QED BY <1>1, SyncerKeepsBudget, SyncerKeepsUp, SyncerKeepsWriters, SyncerKeepsDead,
           SyncerKeepsSyncer, SyncerKeepsCaller, SyncerKeepsAsked, SyncerKeepsBucket,
           SyncerKeepsBill
        DEF SyncInv

-----------------------------------------------------------------------------
(* The steps that clear away what was dropped.                             *)

LEMMA WriterIsUp ==
    ASSUME SyncInv, NEW w \in Writers, writer[w].pc # "idle"
    PROVE  stage = "up"
BY IdleWriterIs DEF SyncInv, DownInv, WriterIs

LEMMA NextFileStays ==
    ASSUME NEW v \in Writers, writer'[v].left = writer[v].left
    PROVE  NextFile(v)' = NextFile(v)
BY DEF NextFile

\* What a step of that kind comes to.
Clears(w, pc, gone, left) ==
    /\ pc \in {"unlink", "push", "idle"}
    /\ gone \subseteq writer[w].gone /\ left \subseteq writer[w].left /\ left \subseteq gone
    /\ pc = "idle" => writer'[w] = IdleWriter
    /\ pc = "push" => left # {} /\ left = writer[w].left /\ NextFile(w) \notin local'
    /\ OnlyWriter(w, pc, writer'[w].id, gone, left)

LEMMA ClearsIs ==
    ASSUME SyncInv, NEW w \in Writers, WriterStep(w) \/ UnlinkTimesOut(w)
    PROVE  /\ writer[w].pc \in {"unlink", "push"} /\ stage = "up"
           /\ writer[w].left \subseteq writer[w].gone
           /\ writer[w].gone \cap named = {} /\ writer[w].gone \subseteq Taken
           /\ writer[w].left # {} => NextFile(w) \in writer[w].left
           /\ \E pc, gone, left : Clears(w, pc, gone, left)
           /\ UNCHANGED <<index, pins, named, names, merging, syncer, caller, bucket, stage, past,
                          budget>>
           /\ \/ local' = local /\ deletes' = deletes /\ writer[w].pc # "push"
              \/ /\ writer[w].pc = "unlink" /\ writer'[w].pc = "push"
                 /\ local' = local \ {NextFile(w)} /\ writer[w].left # {}
                 /\ writer'[w].left = writer[w].left
                 /\ deletes' = deletes
              \/ /\ writer[w].pc = "push" /\ writer[w].left # {} /\ NextFile(w) \notin local
                 /\ local' = local
                 /\ deletes' = deletes \cup {NextFile(w)}
<1>1. TypeOK /\ WriterInv
  BY DEF SyncInv
<1>2. writer[w].pc \in {"unlink", "push"}
  BY DEF WriterStep, Unlinks, Pushes, WriterEnds, UnlinkTimesOut
<1>3. /\ writer[w].left \subseteq writer[w].gone /\ writer[w].gone \subseteq Taken
      /\ writer[w].gone \cap named = {}
      /\ writer[w].left # {} => NextFile(w) \in writer[w].left
      /\ stage = "up"
      /\ writer[w].pc = "push" => writer[w].left # {} /\ NextFile(w) \notin local
  BY <1>1, <1>2, WriterIsUp, NextFileIs DEF WriterInv
<1>4. \E pc, gone, left : Clears(w, pc, gone, left)
  <2>1. CASE Unlinks(w)
    <3>1. OnlyWriter(w, "push", writer'[w].id, writer[w].gone, writer[w].left)
      BY <1>1, <2>1, UnlinksIs DEF OnlyWriter, WriterIs
    <3>2. NextFile(w) \notin local' /\ writer[w].left # {}
      BY <2>1 DEF Unlinks
    <3>3. Clears(w, "push", writer[w].gone, writer[w].left)
      BY <1>3, <3>1, <3>2 DEF Clears
    <3> QED BY <3>3
  <2>2. CASE Pushes(w)
    <3>1. OnlyWriter(w, "unlink", writer'[w].id, writer[w].gone, writer[w].left \ {NextFile(w)})
      BY <1>1, <2>2, PushesIs DEF OnlyWriter, WriterIs
    <3>2. Clears(w, "unlink", writer[w].gone, writer[w].left \ {NextFile(w)})
      BY <1>3, <3>1 DEF Clears
    <3> QED BY <3>2
  <2>3. CASE UnlinkTimesOut(w)
    <3>1. OnlyWriter(w, "unlink", writer'[w].id, writer[w].gone, {})
      BY <1>1, <2>3, UnlinkTimesOutIs DEF OnlyWriter, WriterIs
    <3>2. Clears(w, "unlink", writer[w].gone, {})
      BY <1>3, <3>1 DEF Clears
    <3> QED BY <3>2
  <2>4. CASE WriterEnds(w)
    <3>1. OnlyWriter(w, "idle", writer'[w].id, {}, {}) /\ writer'[w] = IdleWriter
      BY <1>1, <2>4, WriterEndsIs DEF OnlyWriter, WriterIs
    <3>2. Clears(w, "idle", {}, {})
      BY <1>3, <3>1 DEF Clears
    <3> QED BY <3>2
  <2> QED BY <2>1, <2>2, <2>3, <2>4 DEF WriterStep
<1>5. UNCHANGED <<index, pins, named, names, merging, syncer, caller, bucket, stage, past, budget>>
  BY DEF WriterStep, Unlinks, Pushes, WriterEnds, UnlinkTimesOut, disk
<1>6. \/ local' = local /\ deletes' = deletes /\ writer[w].pc # "push"
      \/ /\ writer[w].pc = "unlink" /\ writer'[w].pc = "push"
         /\ local' = local \ {NextFile(w)} /\ writer[w].left # {}
         /\ writer'[w].left = writer[w].left
         /\ deletes' = deletes
      \/ /\ writer[w].pc = "push" /\ writer[w].left # {} /\ NextFile(w) \notin local
         /\ local' = local
         /\ deletes' = deletes \cup {NextFile(w)}
  <2>1. CASE Unlinks(w)
    BY <1>1, <2>1, UnlinksIs DEF Unlinks, feed, OnlyWriter, WriterIs
  <2>2. CASE Pushes(w)
    BY <1>3, <2>2 DEF Pushes, disk
  <2>3. CASE UnlinkTimesOut(w) \/ WriterEnds(w)
    BY <2>3 DEF UnlinkTimesOut, WriterEnds, disk, feed
  <2> QED BY <2>1, <2>2, <2>3 DEF WriterStep
<1> QED BY <1>2, <1>3, <1>4, <1>5, <1>6

LEMMA ClearsKeepsTypes ==
    ASSUME SyncInv, NEW w \in Writers, WriterStep(w) \/ UnlinkTimesOut(w)
    PROVE  TypeOK'
<1>1. TypeOK
  BY DEF SyncInv
<1>2. writer' \in [Writers -> WriterRecords]
  BY ClearsIs DEF Clears, OnlyWriter
<1>3. saves' \in Nat /\ queue' \in Seq({"snapshots", "manifest", "all"})
  <2>1. CASE NotifySave
    BY <1>1, <2>1, NotifySaveTypes
  <2>2. CASE UNCHANGED <<saves, queue>>
    BY <1>1, <2>2 DEF TypeOK
  <2> QED BY <2>1, <2>2 DEF WriterStep, Unlinks, Pushes, WriterEnds, UnlinkTimesOut, feed
<1>4. local' \subseteq local /\ deletes' \subseteq Files
  BY <1>1, ClearsIs, Types DEF TypeOK, Files
<1> QED BY <1>1, <1>2, <1>3, <1>4, ClearsIs, TypesAgain, Types
        DEF TypeOK, disk, bucket, names, past

LEMMA ClearsKeepsWriters ==
    ASSUME SyncInv, NEW w \in Writers, WriterStep(w) \/ UnlinkTimesOut(w)
    PROVE  WriterInv' /\ SaverInv' /\ MergerInv'
<1>1. TypeOK /\ WriterInv /\ SaverInv /\ MergerInv
  BY DEF SyncInv
<1>2. PICK pc, gone, left : Clears(w, pc, gone, left)
  BY ClearsIs
<1>3. /\ writer' \in [Writers -> WriterRecords]
      /\ writer'[w].pc = pc /\ writer'[w].gone = gone /\ writer'[w].left = left
      /\ pc \in {"unlink", "push", "idle"}
      /\ gone \subseteq writer[w].gone /\ left \subseteq gone
      /\ \A v \in Writers : v # w => writer'[v] = writer[v]
  BY <1>2 DEF Clears, OnlyWriter, WriterIs
<1>4. /\ UNCHANGED <<named, desc, nextId, caller>>
      /\ writer[w].gone \cap named = {}
      /\ writer[w].gone \subseteq Taken
      /\ local' \subseteq local /\ local \ local' \subseteq writer[w].gone
  BY ClearsIs DEF names
<1>5. Taken' = Taken /\ (\A i : BaseOf(i)' = BaseOf(i)) /\ LastFull' = LastFull
  BY <1>4, NamesStay, LastFullStays
<1>6. \A v \in Writers : writer'[v].gone \subseteq writer[v].gone
  BY <1>3
<1>7. ASSUME NEW v \in Writers
      PROVE  /\ writer'[v].gone \subseteq Taken'
             /\ writer'[v].pc = "idle" => writer'[v] = IdleWriter
             /\ writer'[v].pc = "pack" =>
                 /\ writer'[v].id \in Taken' \cap local'
                 /\ writer'[v].id \notin named' \cup caller'.asked
                 /\ \A u \in Writers : writer'[v].id \notin writer'[u].gone
                 /\ writer'[v].left = {}
             /\ writer'[v].pc \in {"unlink", "push"} =>
                 /\ writer'[v].left \subseteq writer'[v].gone
                 /\ writer'[v].gone \cap named' = {}
             /\ writer'[v].pc = "push" =>
                 /\ writer'[v].left # {}
                 /\ NextFile(v)' \notin local'
  <2>1. CASE v = w
    <3>1. pc = "push" => NextFile(w)' = NextFile(w) /\ NextFile(w) \notin local' /\ left # {}
      BY <1>2, <1>3, NextFileStays DEF Clears
    <3>2. pc = "idle" => writer'[w] = IdleWriter
      BY <1>2 DEF Clears
    <3> QED BY <1>3, <1>4, <1>5, <2>1, <3>1, <3>2
  <2>2. CASE v # w
    <3>1. writer'[v] = writer[v] /\ NextFile(v)' = NextFile(v)
      BY <1>3, <2>2, NextFileStays
    <3>2. writer[v].pc = "pack" => writer[v].id \in Taken \cap local'
      BY <1>1, <1>4 DEF WriterInv
    <3> QED BY <1>1, <1>4, <1>5, <1>6, <3>1, <3>2 DEF WriterInv
  <2> QED BY <2>1, <2>2
<1>8. "saver" \in Writers /\ "merger" \in Writers
  BY DEF Writers
<1>9. \A v \in Writers : writer'[v].pc = "pack" => writer'[v] = writer[v]
  BY <1>3
<1>10. WriterInv'
  BY <1>1, <1>7, <1>8, <1>9 DEF WriterInv
<1>11. SaverInv'
  BY <1>1, <1>4, <1>5, <1>6, <1>8, <1>9 DEF SaverInv
<1>12. MergerInv'
  BY <1>1, <1>4, <1>5, <1>8, <1>9 DEF MergerInv, IsFull
<1> QED BY <1>10, <1>11, <1>12

LEMMA ClearsKeepsRest ==
    ASSUME SyncInv, NEW w \in Writers, WriterStep(w) \/ UnlinkTimesOut(w)
    PROVE  /\ UpInv' /\ DownInv' /\ DeadInv' /\ SyncerInv' /\ AskedInv' /\ BucketInv'
           /\ BudgetInv' /\ DescInv'
<1>1. /\ TypeOK /\ UpInv /\ DeadInv /\ SyncerInv /\ AskedInv /\ BucketInv /\ BudgetInv /\ DescInv
  BY DEF SyncInv
<1>2. /\ UNCHANGED <<index, named, desc, nextId, syncer, caller, remote, remoteIndex, stage,
                     durable, removed, budget>>
      /\ writer[w].gone \cap named = {} /\ writer[w].gone \subseteq Taken
      /\ writer[w].left \subseteq writer[w].gone /\ stage = "up"
      /\ writer[w].left # {} => NextFile(w) \in writer[w].left
  BY ClearsIs DEF names, bucket, past
<1>3. /\ local' \subseteq local /\ local \cap named \subseteq local'
      /\ deletes' \subseteq deletes \cup (writer[w].gone \ local')
  BY <1>2, ClearsIs
<1>4. /\ Taken' = Taken /\ (\A i : BaseOf(i)' = BaseOf(i)) /\ LastFull' = LastFull
      /\ (\A S : IsManifest(S)' <=> IsManifest(S)) /\ DescInv'
  BY <1>1, <1>2, NamesStay, LastFullStays
<1>5. UpInv' /\ DownInv'
  <2>1. IsManifest(named)'
    BY <1>1, <1>2 DEF UpInv, IsManifest, BaseOf, IsFull, Taken
  <2>2. LastFull \in named \cup {None}
    BY <1>1, <1>2, LastFullIs DEF UpInv, IsManifest
  <2> QED BY <1>1, <1>2, <1>3, <1>4, <2>1, <2>2 DEF UpInv, DownInv
<1>6. DeadInv'
  BY <1>1, <1>2, <1>3, <1>4 DEF DeadInv
<1>7. SyncerInv'
  BY <1>1, <1>2 DEF SyncerInv, IsManifest, BaseOf, IsFull, Taken
<1>8. AskedInv'
  BY <1>1, <1>2, <1>4 DEF AskedInv, Asked
<1>9. BucketInv'
  BY <1>1, <1>2 DEF BucketInv, IsManifest, Restorable, Reachable, BaseOf, IsFull, Taken
<1> QED BY <1>1, <1>2, <1>4, <1>5, <1>6, <1>7, <1>8, <1>9 DEF BudgetInv

LEMMA NotifyKeepsCaller ==
    ASSUME TypeOK, CallerInv, UNCHANGED <<caller, syncer>>, NotifySave \/ UNCHANGED queue
    PROVE  CallerInv'
<1>1. CASE UNCHANGED queue
  BY <1>1 DEF CallerInv
<1>2. CASE queue' = queue \o <<"snapshots", "manifest">>
  <2> DEFINE Commands == {"snapshots", "manifest", "all"}
             more == <<"snapshots", "manifest">>
  <2>1. queue \in Seq(Commands) /\ more \in Seq(Commands) /\ Len(more) = 2
    BY DEF TypeOK
  <2>2. /\ Len(queue) \in Nat /\ Len(queue') = Len(queue) + 2
        /\ \A p \in 1 .. Len(queue) + 2 : queue'[p] =
             IF p <= Len(queue) THEN queue[p] ELSE more[p - Len(queue)]
    BY <1>2, <2>1, ConcatProperties
  <2>3. \A p \in 1 .. Len(queue) + 2 : p > Len(queue) => queue'[p] # "all"
    BY <2>2
  <2>4. \A p \in 1 .. Len(queue') : queue'[p] = "all" => p \in 1 .. Len(queue) /\ queue[p] = "all"
    BY <2>2, <2>3
  <2> HIDE DEF more, Commands
  <2> QED BY <2>4 DEF CallerInv
<1> QED BY <1>1, <1>2 DEF NotifySave

LEMMA ClearsKeepsBill ==
    ASSUME SyncInv, NEW w \in Writers, WriterStep(w) \/ UnlinkTimesOut(w)
    PROVE  BillInv'
<1>1. TypeOK /\ BillInv
  BY DEF SyncInv
<1>2. UNCHANGED <<syncer, remote, budget, stage>>
  BY ClearsIs DEF bucket
<1>3. PICK pc, gone, left : Clears(w, pc, gone, left)
  BY ClearsIs
<1>4. \A v \in Writers : v # w => writer'[v] = writer[v] /\ NextFile(v)' = NextFile(v)
  BY <1>3, NextFileStays DEF Clears, OnlyWriter
<1>5. ASSUME NEW f, f \in local \cup Leaving
      PROVE  f \in local' \cup Leaving'
  <2>1. CASE f \in local
    <3>1. CASE f \in local'
      BY <3>1
    <3>2. CASE f \notin local'
      <4>1. /\ writer'[w].pc = "push" /\ f = NextFile(w)
            /\ writer'[w].left = writer[w].left
        BY <2>1, <3>2, ClearsIs
      <4>2. NextFile(w)' = f
        BY <4>1, NextFileStays
      <4> QED BY <4>1, <4>2 DEF Leaving
    <3> QED BY <3>1, <3>2
  <2>2. CASE f \in deletes \cup syncer.keys
    BY <1>2, <2>2, ClearsIs DEF Leaving
  <2>3. CASE \E v \in Writers : writer[v].pc = "push" /\ f = NextFile(v)
    <3>1. PICK v \in Writers : writer[v].pc = "push" /\ f = NextFile(v)
      BY <2>3
    <3>2. CASE v = w
      BY <3>1, <3>2, ClearsIs DEF Leaving
    <3>3. CASE v # w
      BY <1>4, <3>1, <3>3 DEF Leaving
    <3> QED BY <3>2, <3>3
  <2> QED BY <1>5, <2>1, <2>2, <2>3 DEF Leaving
<1> QED BY <1>1, <1>2, <1>5 DEF BillInv

LEMMA ClearsKeeps ==
    ASSUME SyncInv, NEW w \in Writers, WriterStep(w) \/ UnlinkTimesOut(w)
    PROVE  SyncInv'
<1>1. CallerInv'
  <2>1. NotifySave \/ UNCHANGED queue
    BY DEF WriterStep, Unlinks, Pushes, WriterEnds, UnlinkTimesOut, feed
  <2> QED BY <2>1, ClearsIs, NotifyKeepsCaller DEF SyncInv
<1> QED BY <1>1, ClearsKeepsTypes, ClearsKeepsWriters, ClearsKeepsRest, ClearsKeepsBill DEF SyncInv

-----------------------------------------------------------------------------
(* The steps that publish a manifest.                                      *)

\* The newest full of any manifest.
LEMMA NewestFullIs ==
    ASSUME TypeOK, DescInv, NEW S, IsManifest(S), NEW f \in S, IsFull(f),
           \A j \in S : IsFull(j) => desc.step[j] <= desc.step[f]
    PROVE  Newest({i \in S : BaseOf(i) = {}}) = f
<1> DEFINE fulls == {i \in S : BaseOf(i) = {}}
<1>1. fulls \in SUBSET Taken /\ f \in fulls
  BY DEF IsManifest, IsFull
<1>2. /\ Newest(fulls) \in fulls
      /\ \A j \in fulls : desc.step[j] <= desc.step[Newest(fulls)]
  <2> HIDE DEF fulls
  <2> QED BY <1>1, NewestIs
<1>3. Newest(fulls) \in S /\ IsFull(Newest(fulls))
  BY <1>2 DEF IsFull
<1> HIDE DEF fulls
<1>4. desc.step[Newest(fulls)] \in Nat /\ desc.step[f] \in Nat
  BY <1>3, Types DEF IsManifest
<1>5. desc.step[Newest(fulls)] <= desc.step[f] /\ desc.step[f] <= desc.step[Newest(fulls)]
  BY <1>1, <1>2, <1>3
<1>6. Newest(fulls) = f
  BY <1>3, <1>4, <1>5 DEF IsManifest
<1> QED BY <1>6 DEF fulls

\* ... becomes the last full when that manifest is published.
LEMMA LastFullBecomes ==
    ASSUME TypeOK, DescInv, desc' = desc, IsManifest(named'), NEW f \in named', IsFull(f),
           \A j \in named' : IsFull(j) => desc.step[j] <= desc.step[f]
    PROVE  LastFull' = f
<1>1. Newest({i \in named' : BaseOf(i) = {}}) = f
  BY NewestFullIs
<1>2. LastFull' = Newest({i \in named' : BaseOf(i) = {}})
  BY DEF LastFull, Newest, BaseOf
<1> QED BY <1>1, <1>2

\* What is left to show of a manifest that is published.
LEMMA PublishesKeeps ==
    ASSUME SyncInv, NEW w \in Writers, NEW gone \in SUBSET Taken, Publishes(w, gone),
           \A v \in Writers : writer[v].pc = "pack" => writer[v].id \notin gone,
           IsManifest(named'), LastFull' \in local \cup {None},
           SaverInv', MergerInv'
    PROVE  SyncInv'
<1> DEFINE x == writer[w].id
<1>1. /\ TypeOK /\ BudgetInv /\ DescInv /\ WriterInv /\ DeadInv /\ SyncerInv /\ CallerInv
      /\ AskedInv /\ BucketInv /\ BillInv
  BY DEF SyncInv
<1>2. writer[w].pc = "pack"
  BY DEF Publishes
<1>3. /\ stage = "up" /\ named \subseteq local \cup remote /\ durable \subseteq named
  BY <1>2, WriterIsUp, UpIs
<1>4. /\ x \in Taken \cap local /\ x \notin named \cup caller.asked
      /\ \A v \in Writers : x \notin writer[v].gone
      /\ x \notin gone
  BY <1>1, <1>2 DEF WriterInv
<1>5. /\ named' = (named \ gone) \cup {x} /\ index' = named' /\ durable' = durable \ gone
      /\ UNCHANGED <<local, pins, desc, nextId, merging, deletes, saves, queue, syncer, caller,
                     remote, remoteIndex, remotePins, stage, removed, budget>>
  BY DEF Publishes, names, feed, bucket
<1>6. OnlyWriter(w, "unlink", x, gone, gone)
  BY <1>1, PublishesIs, Types
<1>7. /\ Taken' = Taken /\ (\A i : BaseOf(i)' = BaseOf(i))
      /\ (\A S : IsManifest(S)' <=> IsManifest(S)) /\ DescInv'
  BY <1>1, <1>5, NamesStay
<1> HIDE DEF x
<1>8. TypeOK'
  <2>1. named' \subseteq Snaps /\ durable' \subseteq Snaps
    BY <1>1, <1>4, <1>5, Types DEF TypeOK
  <2> QED BY <1>1, <1>5, <1>6, <2>1, Types, TypesAgain DEF TypeOK, disk, bucket, OnlyWriter
<1>9. UpInv' /\ DownInv'
  <2>1. IsManifest(named)'
    BY <1>5 DEF IsManifest, BaseOf, IsFull, Taken
  <2>2. named' \subseteq local' \cup remote' /\ durable' \subseteq named'
    BY <1>3, <1>4, <1>5
  <2> QED BY <1>3, <1>5, <2>1, <2>2 DEF UpInv, DownInv
<1>10. WriterInv'
  <2>1. /\ writer'[w].pc = "unlink" /\ writer'[w].gone = gone /\ writer'[w].left = gone
        /\ \A v \in Writers : v # w => writer'[v] = writer[v] /\ NextFile(v)' = NextFile(v)
    BY <1>6, NextFileStays DEF OnlyWriter, WriterIs
  <2>2. gone \cap named' = {}
    BY <1>4, <1>5
  <2>3. "saver" \in Writers /\ "merger" \in Writers /\ \A v \in Writers : v \in {"saver", "merger"}
    BY DEF Writers
  <2>4. \A v \in Writers : v # w /\ writer[v].pc = "pack" => writer[v].id # x
    BY <1>1, <1>2, <2>3 DEF WriterInv, x
  <2>5. ASSUME NEW v \in Writers
        PROVE  /\ writer'[v].gone \subseteq Taken'
               /\ writer'[v].pc = "idle" => writer'[v] = IdleWriter
               /\ writer'[v].pc = "pack" =>
                   /\ writer'[v].id \in Taken' \cap local'
                   /\ writer'[v].id \notin named' \cup caller'.asked
                   /\ \A u \in Writers : writer'[v].id \notin writer'[u].gone
                   /\ writer'[v].left = {}
               /\ writer'[v].pc \in {"unlink", "push"} =>
                   /\ writer'[v].left \subseteq writer'[v].gone
                   /\ writer'[v].gone \cap named' = {}
               /\ writer'[v].pc = "push" =>
                   /\ writer'[v].left # {}
                   /\ NextFile(v)' \notin local'
    <3>1. CASE v = w
      BY <1>7, <2>1, <2>2, <3>1
    <3>2. CASE v # w
      BY <1>1, <1>4, <1>5, <1>7, <2>1, <2>4, <3>2 DEF WriterInv
    <3> QED BY <3>1, <3>2
  <2> QED BY <2>1, <2>3, <2>5 DEF WriterInv
<1>11. DeadInv'
  BY <1>1, <1>4, <1>5, <1>7 DEF DeadInv
<1>12. SyncerInv'
  BY <1>1, <1>5 DEF SyncerInv, IsManifest, BaseOf, IsFull, Taken
<1>13. CallerInv'
  BY <1>1, <1>5 DEF CallerInv
<1>14. AskedInv'
  BY <1>1, <1>4, <1>5, <1>7 DEF AskedInv, Asked
<1>15. BucketInv'
  BY <1>1, <1>5 DEF BucketInv, IsManifest, Restorable, Reachable, BaseOf, IsFull, Taken
<1>16. BillInv'
  <2>1. \A v \in Writers : writer[v].pc = "push" =>
          writer'[v].pc = "push" /\ NextFile(v)' = NextFile(v)
    BY <1>2, <1>6, NextFileStays DEF OnlyWriter
  <2>2. \A f \in Leaving : f \in Leaving'
    BY <1>5, <2>1 DEF Leaving
  <2> QED BY <1>1, <1>5, <2>2 DEF BillInv
<1>17. BudgetInv'
  BY <1>1, <1>5 DEF BudgetInv
<1> QED BY <1>7, <1>8, <1>9, <1>10, <1>11, <1>12, <1>13, <1>14, <1>15, <1>16, <1>17 DEF SyncInv

LEMMA SavePublishesKeeps ==
    ASSUME SyncInv, SavePublishes
    PROVE  SyncInv'
<1> DEFINE x == writer["saver"].id
           m == writer["merger"].id
           claimed == writer["merger"].gone
<1>1. /\ TypeOK /\ DescInv /\ WriterInv /\ SaverInv /\ MergerInv /\ "saver" \in Writers
      /\ "merger" \in Writers
  BY DEF SyncInv, Writers
<1>2. writer["saver"].pc = "pack"
  BY DEF SavePublishes
<1>3. PICK gone \in SUBSET named :
        /\ \A i \in (named \ gone) \cup {x} : BaseOf(i) \cap gone = {}
        /\ Publishes("saver", gone)
  BY DEF SavePublishes
<1>4. IsManifest(named) /\ named \subseteq Taken /\ (LastFull # None => LastFull \in local)
  BY <1>1, <1>2, WriterIsUp, UpIs
<1>5. /\ x \in Taken \cap local /\ x \notin named
      /\ \A j \in named : desc.step[j] < desc.step[x]
      /\ \A b \in BaseOf(x) : b = LastFull /\ b \notin claimed
  BY <1>1, <1>2 DEF WriterInv, SaverInv
<1>6. /\ named' = (named \ gone) \cup {x} /\ UNCHANGED <<desc, nextId, local>>
      /\ OnlyWriter("saver", "unlink", x, gone, gone)
  BY <1>1, <1>3, <1>4, PublishesIs, Types DEF Publishes, names
<1>7. /\ LastFull \in named \cup {None} /\ None \notin BaseOf(x)
      /\ LastFull # None =>
           /\ IsFull(LastFull)
           /\ \A j \in named : IsFull(j) => desc.step[j] <= desc.step[LastFull]
  BY <1>1, <1>4, LastFullIs DEF BaseOf
<1>8. \A i \in Taken : desc.step[i] \in Nat
  BY <1>1, Types
<1> HIDE DEF x, m, claimed
<1>9. IsManifest(named')
  <2>1. named' \subseteq Taken
    BY <1>4, <1>5, <1>6
  <2>2. \A i \in named' : BaseOf(i) \subseteq named'
    BY <1>3, <1>4, <1>5, <1>6, <1>7 DEF IsManifest
  <2>3. \A i, j \in named' : desc.step[i] = desc.step[j] => i = j
    BY <1>4, <1>5, <1>6, <1>8 DEF IsManifest
  <2>4. ASSUME NEW i \in named', NEW j \in named', IsFull(j), desc.step[j] <= desc.step[i],
               NEW b \in BaseOf(i)
        PROVE  desc.step[j] <= desc.step[b]
    <3>1. CASE i = x
      <4>1. b = LastFull /\ LastFull # None
        BY <1>5, <1>7, <2>4, <3>1
      <4>2. j # x
        BY <2>4, <3>1 DEF IsFull
      <4> QED BY <1>6, <1>7, <2>4, <4>1, <4>2
    <3>2. CASE i # x /\ j = x
      BY <1>4, <1>5, <1>6, <1>8, <2>4, <3>2
    <3>3. CASE i # x /\ j # x
      BY <1>4, <1>6, <2>4, <3>3 DEF IsManifest
    <3> QED BY <3>1, <3>2, <3>3
  <2> QED BY <2>1, <2>2, <2>3, <2>4 DEF IsManifest
\* The last full is the new snapshot, or is still its base.
<1>10. /\ IsFull(x) => LastFull' = x
       /\ ~IsFull(x) => LastFull' = LastFull /\ LastFull # None
  <2>1. CASE IsFull(x)
    <3>1. \A j \in named' : desc.step[j] <= desc.step[x]
      BY <1>4, <1>5, <1>6, <1>8
    <3> QED BY <1>1, <1>6, <1>9, <2>1, <3>1, LastFullBecomes
  <2>2. CASE ~IsFull(x)
    <3>1. PICK b : b \in BaseOf(x)
      BY <2>2 DEF IsFull
    <3>2. b = LastFull /\ LastFull # None /\ b \in named'
      BY <1>3, <1>5, <1>6, <1>7, <3>1
    <3>3. \A j \in named' : IsFull(j) => desc.step[j] <= desc.step[b]
      BY <1>6, <1>7, <2>2, <3>2
    <3> QED BY <1>1, <1>6, <1>7, <1>9, <2>2, <3>2, <3>3, LastFullBecomes
  <2> QED BY <2>1, <2>2
<1>11. SaverInv'
  BY <1>6 DEF SaverInv, OnlyWriter, WriterIs
<1>12. MergerInv'
  <2>1. writer'["merger"] = writer["merger"] /\ writer'["saver"].pc # "pack"
    BY <1>1, <1>6 DEF OnlyWriter, WriterIs
  <2>2. SUFFICES ASSUME writer["merger"].pc = "pack"
                 PROVE  /\ IsFull(m)
                        /\ \A g \in claimed : desc.step[g] <= desc.step[m]
                        /\ LastFull' \notin claimed =>
                             LastFull' # None /\ desc.step[m] < desc.step[LastFull']
                        /\ \A i \in named' \ claimed :
                             /\ desc.step[i] # desc.step[m]
                             /\ BaseOf(i) \cap claimed = {}
                             /\ desc.step[m] <= desc.step[i] =>
                                  \A b \in BaseOf(i) : desc.step[m] <= desc.step[b]
    BY <1>6, <2>1 DEF MergerInv, BaseOf, IsFull, m, claimed
  <2>3. /\ IsFull(m) /\ m \in Taken
        /\ \A g \in claimed : desc.step[g] <= desc.step[m]
        /\ LastFull \notin claimed => LastFull # None /\ desc.step[m] < desc.step[LastFull]
        /\ \A i \in named \ claimed :
             /\ desc.step[i] # desc.step[m]
             /\ BaseOf(i) \cap claimed = {}
             /\ desc.step[m] <= desc.step[i] =>
                  \A b \in BaseOf(i) : desc.step[m] <= desc.step[b]
        /\ desc.step[m] < desc.step[x]
    BY <1>1, <1>2, <2>2 DEF WriterInv, MergerInv, m, claimed, x
  <2>4. /\ desc.step[x] # desc.step[m] /\ BaseOf(x) \cap claimed = {}
        /\ \A b \in BaseOf(x) : desc.step[m] <= desc.step[b]
    BY <1>4, <1>5, <1>7, <1>8, <2>3
  <2>5. LastFull' \notin claimed => LastFull' # None /\ desc.step[m] < desc.step[LastFull']
    BY <1>5, <1>7, <1>10, <2>3, Types, <1>1 DEF None
  <2> QED BY <1>6, <2>3, <2>4, <2>5
<1>13. LastFull' \in local \cup {None}
  BY <1>4, <1>5, <1>10
<1>14. \A v \in Writers : writer[v].pc = "pack" => writer[v].id \notin gone
  BY <1>1 DEF WriterInv
<1>15. gone \in SUBSET Taken
  BY <1>4
<1> QED BY <1>1, <1>3, <1>9, <1>11, <1>12, <1>13, <1>14, <1>15, PublishesKeeps

LEMMA MergePublishesKeeps ==
    ASSUME SyncInv, MergePublishes
    PROVE  SyncInv'
<1> DEFINE x == writer["saver"].id
           m == writer["merger"].id
           gone == writer["merger"].gone
<1>1. /\ TypeOK /\ DescInv /\ WriterInv /\ SaverInv /\ MergerInv /\ "saver" \in Writers
      /\ "merger" \in Writers
  BY DEF SyncInv, Writers
<1>2. writer["merger"].pc = "pack" /\ Publishes("merger", gone)
  BY DEF MergePublishes, Publishes
<1>3. IsManifest(named) /\ named \subseteq Taken /\ (LastFull # None => LastFull \in local)
  BY <1>1, <1>2, WriterIsUp, UpIs
<1>4. /\ m \in Taken \cap local /\ m \notin named /\ gone \subseteq Taken /\ m \notin gone
      /\ IsFull(m)
      /\ \A g \in gone : desc.step[g] <= desc.step[m]
      /\ LastFull \notin gone => LastFull # None /\ desc.step[m] < desc.step[LastFull]
      /\ \A i \in named \ gone :
           /\ desc.step[i] # desc.step[m]
           /\ BaseOf(i) \cap gone = {}
           /\ desc.step[m] <= desc.step[i] =>
                \A b \in BaseOf(i) : desc.step[m] <= desc.step[b]
      /\ writer["saver"].pc = "pack" => desc.step[m] < desc.step[x]
  BY <1>1, <1>2 DEF WriterInv, MergerInv
<1>5. /\ named' = (named \ gone) \cup {m} /\ UNCHANGED <<desc, nextId, local>>
      /\ OnlyWriter("merger", "unlink", m, gone, gone)
  BY <1>1, <1>2, <1>4, PublishesIs, Types DEF Publishes, names
<1>6. /\ LastFull \in named \cup {None}
      /\ LastFull # None =>
           /\ IsFull(LastFull)
           /\ \A j \in named : IsFull(j) => desc.step[j] <= desc.step[LastFull]
      /\ LastFull = None => \A j \in named : ~IsFull(j)
  BY <1>1, <1>3, LastFullIs
<1>7. \A i \in Taken : desc.step[i] \in Nat
  BY <1>1, Types
<1> HIDE DEF x, m, gone
<1>8. IsManifest(named')
  <2>1. named' \subseteq Taken
    BY <1>3, <1>4, <1>5
  <2>2. \A i \in named' : BaseOf(i) \subseteq named'
    BY <1>3, <1>4, <1>5 DEF IsManifest, IsFull
  <2>3. \A i, j \in named' : desc.step[i] = desc.step[j] => i = j
    BY <1>3, <1>4, <1>5 DEF IsManifest
  <2>4. ASSUME NEW i \in named', NEW j \in named', IsFull(j), desc.step[j] <= desc.step[i],
               NEW b \in BaseOf(i)
        PROVE  desc.step[j] <= desc.step[b]
    <3>1. i # m
      BY <1>4, <2>4 DEF IsFull
    <3>2. CASE j = m
      BY <1>4, <1>5, <2>4, <3>1, <3>2
    <3>3. CASE j # m
      BY <1>3, <1>5, <2>4, <3>1, <3>3 DEF IsManifest
    <3> QED BY <3>2, <3>3
  <2> QED BY <2>1, <2>2, <2>3, <2>4 DEF IsManifest
\* The last full stays, or the merge stands in for it.
<1>9. /\ LastFull \notin gone => LastFull' = LastFull
      /\ LastFull \in gone => LastFull' = m
  <2>1. CASE LastFull \notin gone
    <3>1. LastFull # None /\ LastFull \in named' /\ IsFull(LastFull)
      BY <1>4, <1>5, <1>6, <2>1
    <3>2. desc.step[m] <= desc.step[LastFull]
      BY <1>3, <1>4, <1>6, <1>7, <2>1
    <3>3. \A j \in named' : IsFull(j) => desc.step[j] <= desc.step[LastFull]
      BY <1>5, <1>6, <3>1, <3>2
    <3> QED BY <1>1, <1>5, <1>8, <2>1, <3>1, <3>3, LastFullBecomes
  <2>2. CASE LastFull \in gone
    <3>1. LastFull # None
      BY <1>1, <1>4, <2>2, Types DEF None
    <3>2. \A j \in named' : IsFull(j) => desc.step[j] <= desc.step[m]
      <4>1. \A j \in named : IsFull(j) => desc.step[j] <= desc.step[LastFull]
        BY <1>6, <3>1
      <4>2. desc.step[LastFull] <= desc.step[m]
        BY <1>4, <2>2
      <4> QED BY <1>3, <1>4, <1>5, <1>7, <2>2, <4>1, <4>2
    <3> QED BY <1>1, <1>4, <1>5, <1>8, <2>2, <3>2, LastFullBecomes
  <2> QED BY <2>1, <2>2
<1>10. SaverInv'
  <2>1. writer'["saver"] = writer["saver"] /\ writer'["merger"].gone = gone
    BY <1>1, <1>5 DEF OnlyWriter, WriterIs
  <2>2. SUFFICES ASSUME writer["saver"].pc = "pack"
                 PROVE  /\ writer["saver"].gone = {}
                        /\ \A j \in named' : desc.step[j] < desc.step[x]
                        /\ \A b \in BaseOf(x) : b = LastFull' /\ b \notin gone
    BY <1>5, <2>1 DEF SaverInv, BaseOf, x
  <2>3. /\ writer["saver"].gone = {}
        /\ \A j \in named : desc.step[j] < desc.step[x]
        /\ \A b \in BaseOf(x) : b = LastFull /\ b \notin gone
    BY <1>1, <2>2 DEF SaverInv, x, gone
  <2> QED BY <1>4, <1>5, <1>9, <2>2, <2>3
<1>11. MergerInv'
  BY <1>5 DEF MergerInv, OnlyWriter, WriterIs
<1>12. LastFull' \in local \cup {None}
  BY <1>3, <1>4, <1>9
<1>13. \A v \in Writers : writer[v].pc = "pack" => writer[v].id \notin gone
  BY <1>1 DEF WriterInv, gone
<1> QED BY <1>1, <1>2, <1>4, <1>8, <1>10, <1>11, <1>12, <1>13, PublishesKeeps

-----------------------------------------------------------------------------
(* The steps that write a snapshot.                                        *)

\* A new description leaves the old ones alone.
LEMMA FreshSpares ==
    ASSUME TypeOK, NEW step \in Nat, NEW base \in Snaps \cup {None}, Fresh(step, base)
    PROVE  /\ Taken' = Taken \cup {nextId} /\ nextId \notin Taken
           /\ \A n : n = nextId => BaseOf(n)' = IF base = None THEN {} ELSE {base}
           /\ desc'.step[nextId] = step
           /\ \A i \in Taken : /\ BaseOf(i)' = BaseOf(i) /\ IsFull(i)' = IsFull(i)
                               /\ desc'.step[i] = desc.step[i]
           /\ \A S \in SUBSET Taken : IsManifest(S) => IsManifest(S)'
<1>1. /\ nextId \in Snaps /\ nextId' = nextId + 1
      /\ desc'.step[nextId] = step /\ desc'.base[nextId] = base
      /\ \A i \in Snaps : i # nextId =>
           desc'.step[i] = desc.step[i] /\ desc'.base[i] = desc.base[i]
  BY FreshIs
<1>2. Taken' = Taken \cup {nextId} /\ nextId \notin Taken
  BY <1>1, Types DEF Taken
<1>3. \A i \in Taken : /\ BaseOf(i)' = BaseOf(i) /\ IsFull(i)' = IsFull(i)
                       /\ desc'.step[i] = desc.step[i]
  BY <1>1, <1>2, Types DEF BaseOf, IsFull
<1>4. \A S \in SUBSET Taken : IsManifest(S) => IsManifest(S)'
  BY <1>2, <1>3 DEF IsManifest
<1>5. \A n : n = nextId => BaseOf(n)' = IF base = None THEN {} ELSE {base}
  <2>1. desc'.base[nextId] = base
    BY <1>1
  <2> QED BY <2>1 DEF BaseOf
<1> QED BY <1>1, <1>2, <1>3, <1>4, <1>5

\* Newest depends on the steps of its own snapshots only.
LEMMA LastFullSpared ==
    ASSUME TypeOK, DescInv, UNCHANGED named, named \subseteq Taken, IsManifest(named),
           \A i \in Taken : BaseOf(i)' = BaseOf(i) /\ desc'.step[i] = desc.step[i]
    PROVE  LastFull' = LastFull
<1> DEFINE S == {i \in named : BaseOf(i) = {}}
           Top(T, step) == CHOOSE i \in T : \A j \in T : step[j] <= step[i]
<1>1. S' = S
  OBVIOUS
<1>2. \A i \in S : desc'.step[i] = desc.step[i]
  OBVIOUS
<1>3. /\ LastFull' = IF S' = {} THEN None ELSE Top(S', desc'.step)
      /\ LastFull = IF S = {} THEN None ELSE Top(S, desc.step)
  BY DEF LastFull, Newest
<1> HIDE DEF S
<1>4. \A i \in S : (\A j \in S : desc'.step[j] <= desc'.step[i])
                     <=> (\A j \in S : desc.step[j] <= desc.step[i])
  BY <1>2
<1>5. Top(S, desc'.step) = Top(S, desc.step)
  BY <1>4, Zenon
<1> HIDE DEF Top
<1>6. LastFull' = IF S = {} THEN None ELSE Top(S, desc'.step)
  BY <1>1, <1>3
<1> QED BY <1>3, <1>5, <1>6

\* What is left to show of a snapshot that is written.
LEMMA WritesKeeps ==
    ASSUME SyncInv, NEW w \in Writers, NEW gone \in SUBSET named,
           NEW step \in Nat, step <= 2 * nextId, NEW base \in Taken \cup {None},
           base # None => IsFull(base) /\ desc.step[base] < step,
           stage = "up", writer[w].pc = "idle",
           Fresh(step, base), WritesPack(w, gone),
           SaverInv', MergerInv'
    PROVE  SyncInv'
<1> DEFINE n == nextId
<1>1. /\ TypeOK /\ BudgetInv /\ DescInv /\ WriterInv /\ DeadInv /\ SyncerInv /\ CallerInv
      /\ AskedInv /\ BucketInv /\ BillInv /\ base \in Snaps \cup {None}
  BY Types DEF SyncInv
<1>2. /\ index = named /\ IsManifest(named) /\ named \subseteq local \cup remote
      /\ durable \subseteq named /\ (LastFull # None => LastFull \in local)
      /\ named \subseteq Taken
  BY UpIs
<1>3. /\ n \in Snaps /\ desc' \in [step : [Snaps -> Nat], base : [Snaps -> Snaps \cup {None}]]
      /\ nextId' \in 1 .. MaxSnaps + 1
  BY <1>1, FreshIs
<1>4. /\ Taken' = Taken \cup {n} /\ n \notin Taken
      /\ \A k : k = n => BaseOf(k)' = IF base = None THEN {} ELSE {base}
      /\ desc'.step[n] = step
      /\ \A i \in Taken : /\ BaseOf(i)' = BaseOf(i) /\ IsFull(i)' = IsFull(i)
                          /\ desc'.step[i] = desc.step[i]
      /\ \A S \in SUBSET Taken : IsManifest(S) => IsManifest(S)'
  BY <1>1, FreshSpares
<1>5. /\ local' = local \cup {n}
      /\ UNCHANGED <<index, pins, named, merging, deletes, saves, queue, syncer, caller,
                     remote, remoteIndex, remotePins, stage, durable, removed, budget>>
  BY DEF WritesPack, feed, bucket, past
<1>6. OnlyWriter(w, "pack", n, gone, {})
  <2>1. gone \in SUBSET Snaps
    BY <1>1, <1>2, Types
  <2> QED BY <1>1, <1>3, <2>1, WritesPackIs
<1>7. LastFull' = LastFull
  BY <1>1, <1>2, <1>4, <1>5, LastFullSpared
<1> HIDE DEF n
<1>8. TypeOK'
  <2>1. local' \subseteq Snaps
    BY <1>1, <1>3, <1>5 DEF TypeOK
  <2> QED BY <1>1, <1>3, <1>5, <1>6, <2>1, Types, TypesAgain DEF TypeOK, disk, bucket, OnlyWriter
<1>9. DescInv'
  <2>1. ASSUME NEW i \in Taken'
        PROVE  /\ desc'.step[i] <= 2 * i
               /\ \A b \in BaseOf(i)' : b < i /\ IsFull(b)' /\ desc'.step[b] < desc'.step[i]
    <3>1. CASE i = n
      <4>1. BaseOf(i)' = (IF base = None THEN {} ELSE {base}) /\ desc'.step[i] = step
        BY <1>4, <3>1
      <4>2. base # None => /\ base \in Taken /\ base < i /\ IsFull(base)'
                           /\ desc'.step[base] < step
        BY <1>1, <1>4, <3>1, Types DEF n, Taken
      <4> QED BY <3>1, <4>1, <4>2 DEF n
    <3>2. CASE i # n
      <4>1. i \in Taken
        BY <1>4, <2>1, <3>2
      <4>2. /\ desc.step[i] <= 2 * i
            /\ \A b \in BaseOf(i) : b < i /\ IsFull(b) /\ desc.step[b] < desc.step[i]
        BY <1>1, <4>1 DEF DescInv
      <4>3. BaseOf(i) \subseteq Taken
        BY <1>1, <4>1, <4>2, Types DEF Taken, BaseOf, None
      <4> QED BY <1>4, <4>1, <4>2, <4>3
    <3> QED BY <3>1, <3>2
  <2> QED BY <2>1 DEF DescInv
<1>10. UpInv' /\ DownInv'
  <2>1. IsManifest(named)'
    <3>1. \A S : S = named => IsManifest(S)'
      BY <1>2, <1>4
    <3> QED BY <1>5, <3>1 DEF IsManifest, BaseOf, IsFull, Taken
  <2> QED BY <1>2, <1>5, <1>7, <2>1 DEF UpInv, DownInv
<1>11. WriterInv'
  <2>1. /\ writer'[w].pc = "pack" /\ writer'[w].id = n /\ writer'[w].gone = gone
        /\ writer'[w].left = {}
        /\ \A v \in Writers : v # w => writer'[v] = writer[v] /\ NextFile(v)' = NextFile(v)
    BY <1>6, NextFileStays DEF OnlyWriter, WriterIs
  <2>2. "saver" \in Writers /\ "merger" \in Writers /\ \A v \in Writers : v \in {"saver", "merger"}
    BY DEF Writers
  <2>3. caller.asked \subseteq Taken /\ n \notin gone
    BY <1>1, <1>2, <1>4 DEF AskedInv
  <2>4. ASSUME NEW v \in Writers
        PROVE  /\ writer'[v].gone \subseteq Taken'
               /\ writer'[v].pc = "idle" => writer'[v] = IdleWriter
               /\ writer'[v].pc = "pack" =>
                   /\ writer'[v].id \in Taken' \cap local'
                   /\ writer'[v].id \notin named' \cup caller'.asked
                   /\ writer'[v].left = {}
               /\ writer'[v].pc \in {"unlink", "push"} =>
                   /\ writer'[v].left \subseteq writer'[v].gone
                   /\ writer'[v].gone \cap named' = {}
               /\ writer'[v].pc = "push" =>
                   /\ writer'[v].left # {}
                   /\ NextFile(v)' \notin local'
    <3>1. CASE v = w
      BY <1>2, <1>4, <1>5, <2>1, <2>3, <3>1
    <3>2. CASE v # w
      <4>1. writer[v].pc = "push" => NextFile(v) \in Taken /\ NextFile(v) \notin local
        BY <1>1, NextFileIs DEF WriterInv
      <4> QED BY <1>1, <1>4, <1>5, <2>1, <3>2, <4>1 DEF WriterInv
    <3> QED BY <3>1, <3>2
  <2>5. \A v, u \in Writers : writer'[v].pc = "pack" => writer'[v].id \notin writer'[u].gone
    <3>1. \A u \in Writers : writer'[u].gone \subseteq Taken
      BY <1>1, <1>2, <2>1 DEF WriterInv
    <3>2. \A v \in Writers : v # w /\ writer'[v].pc = "pack" => writer[v].id \notin gone
      BY <1>1, <2>1 DEF WriterInv
    <3> QED BY <1>1, <1>4, <2>1, <3>1, <3>2 DEF WriterInv
  <2>6. writer'["saver"].pc = "pack" /\ writer'["merger"].pc = "pack" =>
          writer'["saver"].id # writer'["merger"].id
    BY <1>1, <1>4, <2>1, <2>2 DEF WriterInv
  <2> QED BY <2>4, <2>5, <2>6 DEF WriterInv
<1>12. DeadInv'
  BY <1>1, <1>4, <1>5 DEF DeadInv
<1>13. SyncerInv'
  <2>1. syncer.pc = "index" => IsManifest(syncer.index)'
    <3>1. syncer.pc = "index" => IsManifest(syncer.index) /\ syncer.index \in SUBSET Taken
      BY <1>1 DEF SyncerInv, IsManifest
    <3>2. syncer.pc = "index" => \A S : S = syncer.index => IsManifest(S)'
      BY <1>4, <3>1
    <3> QED BY <1>5, <3>2 DEF IsManifest, BaseOf, IsFull, Taken
  <2> QED BY <1>1, <1>5, <2>1 DEF SyncerInv
<1>14. CallerInv'
  BY <1>1, <1>5 DEF CallerInv
<1>15. AskedInv'
  BY <1>1, <1>4, <1>5 DEF AskedInv, Asked
<1>16. BucketInv'
  <2>1. IsManifest(remoteIndex)'
    <3>1. IsManifest(remoteIndex) /\ remoteIndex \in SUBSET Taken
      BY <1>1 DEF BucketInv, IsManifest
    <3>2. \A S : S = remoteIndex => IsManifest(S)'
      BY <1>4, <3>1
    <3> QED BY <1>5, <3>2 DEF IsManifest, BaseOf, IsFull, Taken
  <2>2. \A i \in durable : i \in remoteIndex \cap remote /\ BaseOf(i) \subseteq remoteIndex \cap remote
    BY <1>1 DEF BucketInv, Restorable, Reachable
  <2>3. \A i \in durable : BaseOf(i)' = BaseOf(i)
    BY <1>2, <1>4
  <2>4. \A i \in durable' : i \in remoteIndex' \cap remote' /\ BaseOf(i)' \subseteq remoteIndex' \cap remote'
    BY <1>5, <2>2, <2>3
  <2> QED BY <2>1, <2>4 DEF BucketInv, Restorable, Reachable
<1>17. BillInv'
  <2>1. \A v \in Writers : writer[v].pc = "push" =>
          writer'[v].pc = "push" /\ NextFile(v)' = NextFile(v)
    BY <1>6, NextFileStays DEF OnlyWriter
  <2>2. \A f \in Leaving : f \in Leaving'
    BY <1>5, <2>1 DEF Leaving
  <2> QED BY <1>1, <1>5, <2>2 DEF BillInv
<1>18. BudgetInv'
  BY <1>1, <1>5 DEF BudgetInv
<1> QED BY <1>8, <1>9, <1>10, <1>11, <1>12, <1>13, <1>14, <1>15, <1>16, <1>17, <1>18 DEF SyncInv

LEMMA SaveWritesKeeps ==
    ASSUME SyncInv, SaveWrites
    PROVE  SyncInv'
<1> DEFINE n == nextId
           m == writer["merger"].id
           claimed == writer["merger"].gone
<1>1. /\ TypeOK /\ DescInv /\ WriterInv /\ MergerInv /\ "saver" \in Writers /\ "merger" \in Writers
      /\ stage = "up" /\ writer["saver"].pc = "idle"
  BY DEF SyncInv, Writers, SaveWrites
<1>2. IsManifest(named) /\ named \subseteq Taken
  BY <1>1, UpIs
<1>3. PICK base \in {None} \cup ({LastFull} \ claimed) :
        Fresh(nextId * 2, base) /\ WritesPack("saver", {})
  BY DEF SaveWrites
<1>4. /\ LastFull \in named \cup {None}
      /\ LastFull # None => IsFull(LastFull)
  BY <1>1, <1>2, LastFullIs
<1>5. \A i \in Taken : desc.step[i] \in Nat /\ desc.step[i] < 2 * n
  BY <1>1, Types DEF DescInv, Taken
<1>6. /\ base \in Taken \cup {None} /\ base \in Snaps \cup {None}
      /\ base # None => base = LastFull /\ IsFull(base) /\ desc.step[base] < 2 * n
  BY <1>1, <1>2, <1>3, <1>4, <1>5, Types
<1>7. nextId * 2 \in Nat /\ nextId * 2 = 2 * n /\ {} \in SUBSET named
  BY <1>1, Types
<1> HIDE DEF n
<1>8. /\ n \notin Taken
      /\ \A k : k = n => BaseOf(k)' = IF base = None THEN {} ELSE {base}
      /\ desc'.step[n] = 2 * n
      /\ \A i \in Taken : /\ BaseOf(i)' = BaseOf(i) /\ IsFull(i)' = IsFull(i)
                          /\ desc'.step[i] = desc.step[i]
  BY <1>1, <1>3, <1>6, <1>7, FreshSpares DEF n
<1>9. OnlyWriter("saver", "pack", n, {}, {}) /\ named' = named
  <2>1. n \in Snaps /\ {} \in SUBSET Snaps
    BY <1>1, <1>3, <1>6, <1>7, FreshIs DEF n
  <2> QED BY <1>1, <1>3, <2>1, WritesPackIs DEF WritesPack, n
<1>10. LastFull' = LastFull
  BY <1>1, <1>2, <1>8, <1>9, LastFullSpared
<1>11. /\ writer'["saver"].pc = "pack" /\ writer'["saver"].id = n /\ writer'["saver"].gone = {}
       /\ writer'["merger"] = writer["merger"]
  BY <1>1, <1>9 DEF OnlyWriter, WriterIs
<1>12. SaverInv'
  <2>1. \A j \in named' : desc'.step[j] < desc'.step[n]
    BY <1>2, <1>5, <1>8, <1>9
  <2>2. \A k : k = n => \A b \in BaseOf(k)' : b = LastFull' /\ b \notin claimed
    BY <1>3, <1>6, <1>8, <1>10
  <2> QED BY <1>11, <2>1, <2>2 DEF SaverInv, BaseOf
<1>13. MergerInv'
  <2>1. SUFFICES ASSUME writer["merger"].pc = "pack"
                 PROVE  /\ \A k : k = m => IsFull(k)'
                        /\ \A g \in claimed : desc'.step[g] <= desc'.step[m]
                        /\ LastFull' \notin claimed =>
                             LastFull' # None /\ desc'.step[m] < desc'.step[LastFull']
                        /\ \A i \in named' \ claimed :
                             /\ desc'.step[i] # desc'.step[m]
                             /\ BaseOf(i)' \cap claimed = {}
                             /\ desc'.step[m] <= desc'.step[i] =>
                                  \A b \in BaseOf(i)' : desc'.step[m] <= desc'.step[b]
                        /\ desc'.step[m] < desc'.step[n]
    BY <1>11 DEF MergerInv, BaseOf, IsFull
  <2>2. /\ IsFull(m) /\ m \in Taken /\ claimed \subseteq Taken
        /\ \A g \in claimed : desc.step[g] <= desc.step[m]
        /\ LastFull \notin claimed => LastFull # None /\ desc.step[m] < desc.step[LastFull]
        /\ \A i \in named \ claimed :
             /\ desc.step[i] # desc.step[m]
             /\ BaseOf(i) \cap claimed = {}
             /\ desc.step[m] <= desc.step[i] =>
                  \A b \in BaseOf(i) : desc.step[m] <= desc.step[b]
    BY <1>1, <2>1 DEF WriterInv, MergerInv
  <2>3. \A i \in named : BaseOf(i) \subseteq Taken
    BY <1>2 DEF IsManifest
  <2> HIDE DEF m, claimed
  <2>4. \A k : k = m => IsFull(k)'
    BY <1>8, <2>2
  <2>5. LastFull' \notin claimed => LastFull' # None /\ desc'.step[m] < desc'.step[LastFull']
    BY <1>2, <1>4, <1>8, <1>10, <2>2
  <2>6. \A i \in named' \ claimed :
          /\ desc'.step[i] # desc'.step[m]
          /\ BaseOf(i)' \cap claimed = {}
          /\ desc'.step[m] <= desc'.step[i] =>
               \A b \in BaseOf(i)' : desc'.step[m] <= desc'.step[b]
    BY <1>2, <1>8, <1>9, <2>2, <2>3
  <2> QED BY <1>5, <1>8, <2>2, <2>4, <2>5, <2>6
<1> QED BY <1>1, <1>3, <1>6, <1>7, <1>12, <1>13, WritesKeeps DEF n

LEMMA MergeWritesKeeps ==
    ASSUME SyncInv, MergeWrites
    PROVE  SyncInv'
<1> DEFINE n == nextId
           x == writer["saver"].id
           full == LastFull
           deltas == {i \in named : full \in BaseOf(i)}
           gone == {full} \cup deltas
           d == Newest(deltas)
<1>1. /\ TypeOK /\ DescInv /\ WriterInv /\ SaverInv /\ "saver" \in Writers /\ "merger" \in Writers
      /\ stage = "up" /\ writer["merger"].pc = "idle"
      /\ full # None /\ deltas # {} /\ full \notin SaverPins
      /\ Fresh(desc.step[d], None) /\ WritesPack("merger", gone)
  BY DEF SyncInv, Writers, MergeWrites
<1>2. IsManifest(named) /\ named \subseteq Taken
  BY <1>1, UpIs
<1>3. /\ full \in named /\ IsFull(full)
      /\ \A j \in named : IsFull(j) => desc.step[j] <= desc.step[full]
  BY <1>1, <1>2, LastFullIs
<1>4. d \in deltas /\ \A j \in deltas : desc.step[j] <= desc.step[d]
  <2>1. deltas \in SUBSET Taken
    BY <1>2
  <2> HIDE DEF deltas
  <2> QED BY <1>1, <2>1, NewestIs
<1>5. d \in named /\ full \in BaseOf(d) /\ d \in Taken /\ gone \subseteq named /\ gone \subseteq Taken
  BY <1>2, <1>3, <1>4
<1>6. \A i \in Taken : desc.step[i] \in Nat /\ desc.step[i] < 2 * n
  BY <1>1, Types DEF DescInv, Taken
<1>7. desc.step[full] < desc.step[d]
  BY <1>1, <1>5 DEF DescInv
<1>8. \A g \in gone : desc.step[g] <= desc.step[d]
  BY <1>2, <1>3, <1>4, <1>5, <1>6, <1>7
<1>9. ASSUME NEW i \in named \ gone
      PROVE  /\ desc.step[i] # desc.step[d]
             /\ BaseOf(i) \cap gone = {}
             /\ desc.step[d] <= desc.step[i] => BaseOf(i) = {}
  <2>1. full \notin BaseOf(i) /\ i # d
    BY <1>4, <1>9
  <2>2. \A b \in BaseOf(i) : b \in named /\ IsFull(b)
    BY <1>1, <1>2, <1>9 DEF IsManifest, DescInv
  <2>3. BaseOf(i) \cap gone = {}
    BY <2>1, <2>2 DEF IsFull
  <2>4. desc.step[i] # desc.step[d]
    BY <1>2, <1>5, <1>9, <2>1 DEF IsManifest
  <2>5. ASSUME desc.step[d] <= desc.step[i], NEW b \in BaseOf(i) PROVE FALSE
    <3>1. desc.step[full] <= desc.step[i]
      BY <1>2, <1>3, <1>5, <1>6, <1>7, <1>9, <2>5
    <3>2. desc.step[full] <= desc.step[b]
      BY <1>2, <1>3, <1>9, <2>5, <3>1 DEF IsManifest
    <3>3. desc.step[b] <= desc.step[full]
      BY <1>3, <2>2, <2>5
    <3>4. b = full
      BY <1>2, <1>3, <1>6, <2>2, <2>5, <3>2, <3>3 DEF IsManifest
    <3> QED BY <2>1, <2>5, <3>4
  <2> QED BY <2>3, <2>4, <2>5
\* A save under way has no base: the last full is not claimed while it is one.
<1>10. writer["saver"].pc = "pack" =>
         /\ writer["saver"].gone = {} /\ x \in Taken
         /\ \A j \in named : desc.step[j] < desc.step[x]
         /\ BaseOf(x) = {}
  <2>1. SUFFICES ASSUME writer["saver"].pc = "pack"
                 PROVE  /\ writer["saver"].gone = {} /\ x \in Taken
                        /\ \A j \in named : desc.step[j] < desc.step[x]
                        /\ BaseOf(x) = {}
    OBVIOUS
  <2>2. full \notin BaseOf(x)
    BY <1>1, <2>1 DEF SaverPins
  <2>3. \A b \in BaseOf(x) : b = full
    BY <1>1, <2>1 DEF SaverInv
  <2> QED BY <1>1, <2>1, <2>2, <2>3 DEF SaverInv, WriterInv
<1>11. desc.step[d] \in Nat /\ desc.step[d] <= 2 * nextId
  <2>1. desc.step[d] \in Nat /\ desc.step[d] < 2 * n /\ n \in Nat
    BY <1>1, <1>5, <1>6, Types
  <2> QED BY <2>1
<1> HIDE DEF n, x, full, deltas, gone, d
<1>12. /\ n \notin Taken
       /\ \A k : k = n => BaseOf(k)' = {} /\ IsFull(k)'
       /\ desc'.step[n] = desc.step[d]
       /\ \A i \in Taken : /\ BaseOf(i)' = BaseOf(i) /\ IsFull(i)' = IsFull(i)
                           /\ desc'.step[i] = desc.step[i]
  <2>1. /\ n \notin Taken
        /\ \A k : k = n => BaseOf(k)' = {}
        /\ desc'.step[n] = desc.step[d]
        /\ \A i \in Taken : /\ BaseOf(i)' = BaseOf(i) /\ IsFull(i)' = IsFull(i)
                            /\ desc'.step[i] = desc.step[i]
    BY <1>1, <1>11, FreshSpares DEF n
  <2>2. \A k : IsFull(k)' <=> BaseOf(k)' = {}
    BY DEF IsFull
  <2> QED BY <2>1, <2>2
<1>13. OnlyWriter("merger", "pack", n, gone, {}) /\ named' = named
  <2>1. n \in Snaps /\ gone \in SUBSET Snaps
    BY <1>1, <1>5, <1>11, FreshIs, Types DEF n
  <2> QED BY <1>1, <2>1, WritesPackIs DEF WritesPack, n
<1>14. LastFull' = full
  BY <1>1, <1>2, <1>12, <1>13, LastFullSpared DEF full
<1>15. /\ writer'["merger"].pc = "pack" /\ writer'["merger"].id = n /\ writer'["merger"].gone = gone
       /\ writer'["saver"] = writer["saver"]
  BY <1>1, <1>13 DEF OnlyWriter, WriterIs
<1>16. SaverInv'
  <2>1. writer["saver"].pc = "pack" =>
          /\ \A k : k = x => BaseOf(k)' = {}
          /\ \A j \in named : desc'.step[j] < desc'.step[x]
    BY <1>2, <1>10, <1>12
  <2>2. writer["saver"].pc = "pack" => writer["saver"].gone = {}
    BY <1>10
  <2> QED BY <1>13, <1>15, <2>1, <2>2 DEF SaverInv, BaseOf, x
<1>17. MergerInv'
  <2>1. \A g \in gone : desc'.step[g] <= desc'.step[n]
    BY <1>5, <1>8, <1>12
  <2>2. LastFull' \in gone
    BY <1>14 DEF gone
  <2>3. \A i \in named' \ gone :
          /\ desc'.step[i] # desc'.step[n]
          /\ BaseOf(i)' \cap gone = {}
          /\ desc'.step[n] <= desc'.step[i] => BaseOf(i)' = {}
    BY <1>2, <1>9, <1>12, <1>13
  <2>4. writer["saver"].pc = "pack" => desc'.step[n] < desc'.step[x]
    BY <1>2, <1>5, <1>10, <1>12
  <2>5. \A k : k = n => IsFull(k)'
    BY <1>12
  <2> QED BY <1>13, <1>15, <2>1, <2>2, <2>3, <2>4, <2>5 DEF MergerInv, IsFull, BaseOf, x
<1>18. /\ gone \in SUBSET named /\ None \in Taken \cup {None} /\ "merger" \in Writers
       /\ (None # None => IsFull(None) /\ desc.step[None] < desc.step[d])
  BY <1>1, <1>5
<1> QED BY <1>1, <1>11, <1>16, <1>17, <1>18, WritesKeeps

-----------------------------------------------------------------------------
(* The steps that touch neither a snapshot nor a manifest.                 *)

\* What holds of the store, the bucket and the threads without the callers.
LEMMA StoreRests ==
    ASSUME SyncInv,
           UNCHANGED <<local, index, named, desc, nextId, writer, deletes, syncer, remote,
                       remoteIndex, stage, durable, removed>>
    PROVE  /\ DescInv' /\ UpInv' /\ SaverInv' /\ MergerInv'
           /\ DeadInv' /\ SyncerInv' /\ BucketInv'
<1>1. /\ Taken' = Taken /\ (\A i : BaseOf(i)' = BaseOf(i)) /\ DescInv'
      /\ LastFull' = LastFull /\ SaverInv' /\ MergerInv'
  BY NamesStay, LastFullStays, WritersRest DEF SyncInv
<1>2. IsManifest(named)' <=> IsManifest(named)
  BY DEF IsManifest, BaseOf, IsFull, Taken
<1>3. IsManifest(remoteIndex)' <=> IsManifest(remoteIndex)
  BY DEF IsManifest, BaseOf, IsFull, Taken
<1>4. IsManifest(syncer.index)' <=> IsManifest(syncer.index)
  BY DEF IsManifest, BaseOf, IsFull, Taken
<1>5. UpInv'
  BY <1>1, <1>2 DEF SyncInv, UpInv
<1>6. DeadInv' /\ SyncerInv'
  BY <1>1, <1>4 DEF SyncInv, DeadInv, SyncerInv
<1>7. Restorable' = Restorable
  BY DEF Restorable, Reachable, BaseOf
<1>8. BucketInv'
  BY <1>3, <1>7 DEF SyncInv, BucketInv
<1> QED BY <1>1, <1>5, <1>6, <1>8

\* What is due to leave the bucket is what it was.
LEMMA BillRests ==
    ASSUME SyncInv,
           UNCHANGED <<local, writer, deletes, syncer, remote, stage>>,
           budget'["fault"] = budget["fault"], budget'["loss"] = budget["loss"]
    PROVE  BillInv'
BY DEF SyncInv, BillInv, Leaving, NextFile

\* pins.json is written.
LEMMA PinsKeep ==
    ASSUME SyncInv, WritesPins
    PROVE  SyncInv'
<1>1. TypeOK /\ BudgetInv /\ Spend("pin") /\ pins' = MaxPins - budget["pin"] + 1
  BY DEF SyncInv, WritesPins
<1>2. UNCHANGED <<local, index, named, desc, nextId, merging, writer, deletes, saves, queue, syncer,
                  caller, remote, remoteIndex, remotePins, stage, durable, removed>>
  BY DEF WritesPins, names, feed, bucket, past
<1>3. /\ budget' \in [{"sync", "pin", "fault", "loss"} -> Nat]
      /\ budget'["pin"] = budget["pin"] - 1
      /\ budget'["fault"] = budget["fault"] /\ budget'["loss"] = budget["loss"]
  BY <1>1, SpendIs
<1>4. budget["pin"] \in Nat /\ budget["pin"] > 0 /\ budget["pin"] <= MaxPins /\ MaxPins \in Nat
  BY <1>1, SyncAssumption DEF TypeOK, BudgetInv, Spend
<1>5. pins' \in 0 .. MaxPins
  BY <1>1, <1>4
<1>6. TypeOK'
  BY <1>1, <1>2, <1>3, <1>5 DEF TypeOK
<1>7. BudgetInv'
  BY <1>1, <1>3, <1>4 DEF BudgetInv
<1>8. WriterInv'
  BY <1>2 DEF SyncInv, WriterInv, NextFile, Taken
<1>9. DownInv'
  BY <1>2 DEF SyncInv, DownInv, Restorable, Reachable, BaseOf
<1>10. CallerInv'
  BY <1>2 DEF SyncInv, CallerInv
<1>11. AskedInv'
  BY <1>2 DEF SyncInv, AskedInv, Asked, Taken, BaseOf
<1> QED BY <1>2, <1>3, <1>6, <1>7, <1>8, <1>9, <1>10, <1>11, StoreRests, BillRests DEF SyncInv

\* A caller comes: nobody is before it, and nothing it asks for is a file
\* still unpublished.
LEMMA CallKeeps ==
    ASSUME SyncInv, CallSyncNow
    PROVE  SyncInv'
<1>1. /\ TypeOK /\ BudgetInv /\ CallerInv /\ WriterInv /\ AskedInv
      /\ Spend("sync") /\ stage = "up" /\ caller.pc = "out"
      /\ caller' = [pc |-> "waiting", asked |-> index] /\ queue' = Append(queue, "all")
  BY DEF SyncInv, CallSyncNow
<1>2. UNCHANGED <<local, index, pins, named, desc, nextId, merging, writer, deletes, saves, syncer,
                  remote, remoteIndex, remotePins, stage, durable, removed>>
  BY DEF CallSyncNow, disk, names, bucket, past
<1>3. /\ budget' \in [{"sync", "pin", "fault", "loss"} -> Nat]
      /\ budget'["pin"] = budget["pin"]
      /\ budget'["fault"] = budget["fault"] /\ budget'["loss"] = budget["loss"]
  BY <1>1, SpendIs
<1>4. index = named /\ IsManifest(named) /\ named \subseteq Taken
  BY <1>1, UpIs
<1>5. TypeOK'
  <2>1. queue' \in Seq({"snapshots", "manifest", "all"})
    BY <1>1 DEF TypeOK
  <2>2. caller' \in CallerRecords
    BY <1>1 DEF TypeOK, CallerRecords
  <2> QED BY <1>1, <1>2, <1>3, <2>1, <2>2 DEF TypeOK, CallerRecords
<1>6. BudgetInv'
  BY <1>1, <1>3 DEF BudgetInv
<1>7. caller'.asked = named /\ caller'.pc = "waiting"
  BY <1>1, <1>4
<1>8. WriterInv'
  BY <1>1, <1>2, <1>7 DEF WriterInv, NextFile, Taken
<1>9. DownInv'
  BY <1>1, <1>2 DEF DownInv
<1>10. CallerInv'
  <2>1. syncer.cmd # "all" /\ \A p \in 1 .. Len(queue) : queue[p] # "all"
    BY <1>1 DEF CallerInv
  <2>2. queue \in Seq({"snapshots", "manifest", "all"})
    BY <1>1 DEF TypeOK
  <2>3. Len(queue) \in Nat /\ Len(queue') = Len(queue) + 1
    BY <1>1, <2>2
  <2>4. \A p \in 1 .. Len(queue) : queue'[p] = queue[p]
    BY <1>1, <2>2
  <2>5. \A p \in 1 .. Len(queue') : queue'[p] = "all" => p = Len(queue) + 1
    BY <2>1, <2>3, <2>4
  <2> QED BY <1>2, <1>7, <2>1, <2>5 DEF CallerInv
<1>11. AskedInv'
  <2>1. syncer'.cmd # "all"
    BY <1>1, <1>2 DEF CallerInv
  <2>2. \A i \in named : BaseOf(i)' \subseteq named
    BY <1>2, <1>4 DEF IsManifest, BaseOf
  <2> QED BY <1>2, <1>4, <1>7, <2>1, <2>2 DEF AskedInv, Taken
<1> QED BY <1>2, <1>3, <1>5, <1>6, <1>8, <1>9, <1>10, <1>11, StoreRests, BillRests DEF SyncInv

\* It has its answer and goes.
LEMMA ReturnKeeps ==
    ASSUME SyncInv, SyncNowReturns
    PROVE  SyncInv'
<1>1. /\ TypeOK /\ CallerInv /\ WriterInv /\ caller' = NoCaller /\ caller.pc # "waiting"
  BY DEF SyncInv, SyncNowReturns
<1>2. UNCHANGED <<local, index, pins, named, desc, nextId, merging, writer, deletes, saves, queue,
                  syncer, remote, remoteIndex, remotePins, stage, durable, removed, budget>>
  BY DEF SyncNowReturns, disk, names, feed, bucket, past
<1>3. caller' \in CallerRecords /\ caller'.asked = {}
  BY <1>1 DEF NoCaller, CallerRecords
<1>4. TypeOK'
  BY <1>1, <1>2, <1>3 DEF TypeOK, CallerRecords
<1>5. BudgetInv'
  BY <1>2 DEF SyncInv, BudgetInv
<1>6. WriterInv'
  BY <1>1, <1>2, <1>3 DEF WriterInv, NextFile, Taken
<1>7. DownInv'
  BY <1>1, <1>2 DEF SyncInv, DownInv, Restorable, Reachable, BaseOf
<1>8. syncer.cmd # "all" /\ \A p \in 1 .. Len(queue) : queue[p] # "all"
  BY <1>1 DEF CallerInv
<1>9. CallerInv'
  BY <1>2, <1>8 DEF CallerInv
<1>10. AskedInv'
  BY <1>2, <1>3, <1>8 DEF AskedInv
<1> QED BY <1>2, <1>4, <1>5, <1>6, <1>7, <1>9, <1>10, StoreRests, BillRests DEF SyncInv

-----------------------------------------------------------------------------
(* The loss of a machine, and the restore of another.                      *)

\* Without writers, commands and callers there is little left to say.
LEMMA Deserted ==
    ASSUME writer' = [w \in Writers |-> IdleWriter], syncer' = IdleSyncer, caller' = NoCaller,
           queue' = <<>>
    PROVE  /\ \A w \in Writers : writer'[w] = IdleWriter
           /\ writer' \in [Writers -> WriterRecords]
           /\ syncer' \in SyncerRecords /\ caller' \in CallerRecords
           /\ queue' \in Seq({"snapshots", "manifest", "all"})
           /\ WriterInv' /\ SaverInv' /\ MergerInv' /\ SyncerInv' /\ CallerInv' /\ AskedInv'
<1>1. \A w \in Writers : writer'[w] = IdleWriter
  OBVIOUS
<1>2. writer' \in [Writers -> WriterRecords]
  BY IdleWriterIs DEF WriterIs
<1>3. SyncerIs(syncer', "idle", "none", {}, {}, {}, {}, FALSE)
  BY IdleIs
<1>4. caller' \in CallerRecords /\ caller'.pc = "out" /\ caller'.asked = {}
  BY DEF NoCaller, CallerRecords
<1>5. queue' \in Seq({"snapshots", "manifest", "all"}) /\ Len(queue') = 0
  OBVIOUS
<1>6. \A w \in Writers : /\ writer'[w].pc = "idle" /\ writer'[w].gone = {}
                         /\ writer'[w].left = {}
  BY <1>1, IdleWriterIs DEF WriterIs
<1>7. WriterInv'
  BY <1>1, <1>6 DEF WriterInv, Writers
<1>8. SaverInv' /\ MergerInv'
  BY <1>6 DEF SaverInv, MergerInv, Writers
<1>9. SyncerInv'
  BY <1>3 DEF SyncerInv, SyncerIs
<1>10. CallerInv'
  BY <1>3, <1>5 DEF CallerInv, SyncerIs
<1>11. AskedInv'
  BY <1>3, <1>4 DEF AskedInv, SyncerIs
<1> QED BY <1>1, <1>2, <1>3, <1>4, <1>5, <1>7, <1>8, <1>9, <1>10, <1>11 DEF SyncerIs

\* The machine is lost: the bucket is as it was.
LEMMA LosesKeeps ==
    ASSUME SyncInv, Loses
    PROVE  SyncInv'
<1>1. /\ TypeOK /\ BudgetInv /\ DeadInv /\ BucketInv /\ Spend("loss")
      /\ local' = {} /\ index' = {} /\ pins' = 0 /\ named' = {}
      /\ deletes' = {} /\ saves' = 0 /\ queue' = <<>>
      /\ syncer' = IdleSyncer /\ caller' = NoCaller
      /\ writer' = [w \in Writers |-> IdleWriter]
      /\ stage' = "new" /\ merging' \in BOOLEAN
  BY DEF SyncInv, Loses
<1>2. UNCHANGED <<desc, nextId, remote, remoteIndex, remotePins, durable, removed>>
  BY DEF Loses, names, bucket, past
<1>3. /\ \A w \in Writers : writer'[w] = IdleWriter
      /\ writer' \in [Writers -> WriterRecords]
      /\ syncer' \in SyncerRecords /\ caller' \in CallerRecords
      /\ queue' \in Seq({"snapshots", "manifest", "all"})
      /\ WriterInv' /\ SaverInv' /\ MergerInv' /\ SyncerInv' /\ CallerInv' /\ AskedInv'
  BY <1>1, Deserted
<1>4. /\ budget' \in [{"sync", "pin", "fault", "loss"} -> Nat]
      /\ budget'["loss"] = budget["loss"] - 1 /\ budget["loss"] > 0
      /\ budget'["pin"] = budget["pin"] /\ budget'["fault"] = budget["fault"]
  BY <1>1, SpendIs DEF Spend
<1>5. budget["loss"] \in Nat /\ budget["loss"] <= MaxLosses /\ MaxLosses \in Nat
  BY <1>1, SyncAssumption DEF TypeOK, BudgetInv
<1>6. TypeOK'
  <2>1. 0 \in 0 .. MaxPins /\ 0 \in Nat
    BY SyncAssumption
  <2>2. /\ desc' \in [step : [Snaps -> Nat], base : [Snaps -> Snaps \cup {None}]]
        /\ nextId' \in 1 .. MaxSnaps + 1 /\ durable' \subseteq Snaps /\ removed' \subseteq Files
        /\ remote' \subseteq Snaps /\ remoteIndex' \subseteq Snaps /\ remotePins' \in 0 .. MaxPins
    BY <1>1, <1>2 DEF TypeOK
  <2> QED BY <1>1, <1>3, <1>4, <2>1, <2>2 DEF TypeOK, WriterRecords, SyncerRecords, CallerRecords
<1>7. BudgetInv'
  BY <1>1, <1>4, <1>5 DEF BudgetInv
<1>8. Taken' = Taken /\ DescInv' /\ Restorable' = Restorable
  BY <1>2, NamesStay DEF SyncInv, Restorable, Reachable, BaseOf
<1>9. UpInv'
  BY <1>1 DEF UpInv
<1>10. DownInv'
  BY <1>1, <1>3 DEF DownInv
<1>11. DeadInv'
  <2>1. syncer'.keys = {} /\ syncer'.todo = {} /\ syncer'.hand = {}
    BY <1>1, IdleIs DEF SyncerIs
  <2> QED BY <1>1, <1>2, <1>8, <2>1 DEF DeadInv
<1>12. BucketInv'
  <2>1. IsManifest(remoteIndex)' <=> IsManifest(remoteIndex)
    BY <1>2 DEF IsManifest, BaseOf, IsFull, Taken
  <2> QED BY <1>1, <1>2, <1>8, <2>1 DEF BucketInv
<1>13. BillInv'
  BY <1>4, <1>5 DEF BillInv
<1> QED BY <1>3, <1>6, <1>7, <1>8, <1>9, <1>10, <1>11, <1>12, <1>13 DEF SyncInv

\* A restore: the manifest of the bucket, less what is not whole there, is a
\* manifest.
LEMMA ReachableIsManifest ==
    ASSUME TypeOK, DescInv, NEW S, IsManifest(S), NEW have
    PROVE  IsManifest(Reachable(S, have))
<1> DEFINE T == Reachable(S, have)
<1>1. T = {i \in S \cap have : BaseOf(i) \subseteq S \cap have}
  BY DEF Reachable
<1>2. S \subseteq Taken /\ T \subseteq S
  BY <1>1 DEF IsManifest
<1>3. \A i \in T : \A b \in BaseOf(i) : b \in T
  <2> SUFFICES ASSUME NEW i \in T, NEW b \in BaseOf(i) PROVE b \in T
    OBVIOUS
  <2>1. b \in S \cap have
    BY <1>1
  <2>2. IsFull(b)
    BY <1>2 DEF DescInv
  <2> QED BY <1>1, <2>1, <2>2 DEF IsFull
<1>4. \A i, j \in T : desc.step[i] = desc.step[j] => i = j
  BY <1>2 DEF IsManifest
<1>5. \A i, j \in T : IsFull(j) /\ desc.step[j] <= desc.step[i] =>
                          \A b \in BaseOf(i) : desc.step[j] <= desc.step[b]
  BY <1>2 DEF IsManifest
<1> QED BY <1>2, <1>3, <1>4, <1>5 DEF IsManifest

\* What a step of a restore leaves alone, and what holds because nobody else
\* is there.
LEMMA RestoreRests ==
    ASSUME SyncInv, stage # "up", local' \subseteq remote,
           UNCHANGED <<names, writer, feed, syncer, caller, bucket, past>>
    PROVE  /\ DescInv' /\ WriterInv' /\ SaverInv' /\ MergerInv'
           /\ DeadInv' /\ SyncerInv' /\ CallerInv' /\ AskedInv' /\ BucketInv'
           /\ (\A w \in Writers : writer'[w] = IdleWriter)
           /\ syncer' = IdleSyncer /\ caller' = NoCaller /\ queue' = <<>> /\ deletes' = {}
           /\ budget' = budget \/ Spend("fault") => BillInv' /\ BudgetInv'
<1>1. /\ TypeOK /\ DeadInv /\ BucketInv /\ BillInv /\ BudgetInv
      /\ \A w \in Writers : writer[w] = IdleWriter
      /\ syncer = IdleSyncer /\ caller = NoCaller /\ queue = <<>> /\ deletes = {}
  BY DEF SyncInv, DownInv
<1>2. UNCHANGED <<desc, nextId, writer, deletes, saves, queue, syncer, caller, remote, remoteIndex,
                  remotePins, durable, removed>>
  BY DEF names, feed, bucket, past
<1>3. writer' = [w \in Writers |-> IdleWriter]
  <2>1. writer = [w \in Writers |-> writer[w]]
    BY <1>1, Types
  <2> QED BY <1>1, <1>2, <2>1
<1>4. /\ \A w \in Writers : writer'[w] = IdleWriter
      /\ WriterInv' /\ SaverInv' /\ MergerInv' /\ SyncerInv' /\ CallerInv' /\ AskedInv'
  BY <1>1, <1>2, <1>3, Deserted
<1>5. Taken' = Taken /\ DescInv' /\ Restorable' = Restorable
  BY <1>2, NamesStay DEF SyncInv, Restorable, Reachable, BaseOf
<1>6. DeadInv'
  <2>1. syncer.keys = {} /\ syncer.todo = {} /\ syncer.hand = {}
    BY <1>1, IdleIs DEF SyncerIs
  <2> QED BY <1>1, <1>2, <1>5, <2>1 DEF DeadInv
<1>7. BucketInv'
  <2>1. IsManifest(remoteIndex)' <=> IsManifest(remoteIndex)
    BY <1>2 DEF IsManifest, BaseOf, IsFull, Taken
  <2> QED BY <1>1, <1>2, <1>5, <2>1 DEF BucketInv
<1>8. ASSUME budget' = budget \/ Spend("fault") PROVE BillInv' /\ BudgetInv'
  <2>1. ~(budget["fault"] = MaxFaults /\ budget["loss"] = MaxLosses)
    BY <1>1 DEF BillInv
  <2>2. CASE budget' = budget
    BY <1>1, <2>1, <2>2 DEF BillInv, BudgetInv
  <2>3. CASE Spend("fault")
    <3>1. /\ budget'["fault"] = budget["fault"] - 1 /\ budget'["pin"] = budget["pin"]
          /\ budget'["loss"] = budget["loss"]
      BY <1>1, <2>3, SpendIs
    <3>2. budget["fault"] \in Nat /\ MaxFaults \in Nat
      BY <1>1, SyncAssumption DEF TypeOK
    <3> QED BY <1>1, <3>1, <3>2 DEF BillInv, BudgetInv
  <2> QED BY <1>8, <2>2, <2>3
<1> QED BY <1>1, <1>2, <1>4, <1>5, <1>6, <1>7, <1>8

\* Types through a restore.
LEMMA RestoreTypes ==
    ASSUME TypeOK, local' \subseteq Snaps, index' \subseteq Snaps, named' \subseteq Snaps,
           pins' \in 0 .. MaxPins, stage' \in {"up", "new", "filtered"},
           budget' = budget \/ Spend("fault"),
           UNCHANGED <<names, merging, writer, feed, syncer, caller, bucket, past>>
    PROVE  TypeOK'
<1>1. budget' \in [{"sync", "pin", "fault", "loss"} -> Nat]
  BY SpendIs DEF TypeOK
<1> QED BY <1>1 DEF TypeOK, names, feed, bucket, past

\* The manifest comes down: without one, the machine is up with nothing.
LEMMA RestoresIndexKeeps ==
    ASSUME SyncInv, RestoresIndex
    PROVE  SyncInv'
<1>1. /\ TypeOK /\ DescInv /\ BucketInv /\ stage = "new" /\ local \subseteq remote /\ named = {}
      /\ index' = Reachable(remoteIndex, local \cup remote)
      /\ stage' = IF remoteIndex = {} THEN "up" ELSE "filtered"
  BY DEF SyncInv, DownInv, RestoresIndex
<1>2. UNCHANGED <<local, pins, named, names, merging, writer, feed, syncer, caller, bucket, past,
                  budget>>
  BY DEF RestoresIndex
<1>3. local \cup remote = remote
  BY <1>1
<1>4. index' = Restorable
  BY <1>1, <1>3 DEF Restorable
<1>5. Restorable \subseteq remoteIndex /\ (remoteIndex = {} => Restorable = {})
  BY DEF Restorable, Reachable
<1>6. Restorable' = Restorable
  BY <1>2 DEF Restorable, Reachable, BaseOf, names, bucket
<1>7. TypeOK'
  BY <1>1, <1>2, <1>4, <1>5, RestoreTypes DEF TypeOK
<1>8. UpInv'
  <2> SUFFICES ASSUME stage' = "up" PROVE UpInv'
    BY DEF UpInv
  <2>1. remoteIndex = {} /\ index' = {} /\ named' = {} /\ durable' = {}
    BY <1>1, <1>2, <1>4, <1>5 DEF BucketInv, past
  <2>2. LastFull' = None
    BY <2>1 DEF LastFull, Newest
  <2>3. IsManifest(named)'
    BY <2>1 DEF IsManifest
  <2> QED BY <2>1, <2>2, <2>3 DEF UpInv
<1>9. /\ DescInv' /\ WriterInv' /\ SaverInv' /\ MergerInv'
      /\ DeadInv' /\ SyncerInv' /\ CallerInv' /\ AskedInv' /\ BucketInv' /\ BillInv' /\ BudgetInv'
      /\ \A w \in Writers : writer'[w] = IdleWriter
      /\ syncer' = IdleSyncer /\ caller' = NoCaller /\ queue' = <<>> /\ deletes' = {}
  BY <1>1, <1>2, RestoreRests
<1>10. DownInv'
  BY <1>1, <1>2, <1>4, <1>6, <1>9 DEF DownInv, bucket
<1> QED BY <1>7, <1>8, <1>9, <1>10 DEF SyncInv

\* What a resume loads includes the last full of a manifest: it is the newest
\* snapshot or its base.
LEMMA LastFullComesDown ==
    ASSUME TypeOK, DescInv, stage = "filtered", index = Restorable, IsManifest(index),
           named' = index, UNCHANGED desc, LastFull' # None
    PROVE  LastFull' \in Wanted
<1> DEFINE F == {i \in index : BaseOf(i) = {}}
           L == Newest(F)
           n == Newest(index)
<1>1. LastFull' = L
  BY DEF LastFull, Newest, BaseOf
<1>2. index \subseteq Taken /\ index \subseteq remote
  BY DEF IsManifest, Restorable, Reachable
<1>3. F \in SUBSET Taken /\ F # {}
  <2>1. F = {} => L = None
    BY DEF Newest
  <2> QED BY <1>1, <1>2, <2>1
<1>4. L \in F /\ \A j \in F : desc.step[j] <= desc.step[L]
  <2> HIDE DEF F
  <2> QED BY <1>3, NewestIs
<1>5. L \in index /\ IsFull(L) /\ L \in remote
  BY <1>2, <1>4 DEF IsFull
<1>6. CASE merging
  BY <1>1, <1>5, <1>6 DEF Wanted
<1>7. CASE ~merging
  <2>1. n \in index /\ \A j \in index : desc.step[j] <= desc.step[n]
    <3>1. index \in SUBSET Taken /\ index # {}
      BY <1>2, <1>5
    <3> QED BY <3>1, NewestIs
  <2>2. n # None
    BY <1>2, <2>1, Types DEF None
  <2>3. Wanted = ({n} \cup UNION {BaseOf(i) : i \in {n}}) \cap remote
    BY <1>7, <2>2 DEF Wanted
  <2>4. \A i \in index : desc.step[i] \in Nat
    BY <1>2, Types
  <2>5. CASE IsFull(n)
    <3>1. n \in F
      BY <2>1, <2>5 DEF IsFull
    <3>2. desc.step[n] <= desc.step[L] /\ desc.step[L] <= desc.step[n]
      BY <1>4, <1>5, <2>1, <3>1
    <3>3. desc.step[n] = desc.step[L]
      BY <1>5, <2>1, <2>4, <3>2
    <3>4. n = L
      BY <1>5, <2>1, <3>3 DEF IsManifest
    <3> QED BY <1>1, <1>5, <2>3, <3>4
  <2>6. CASE ~IsFull(n)
    <3>1. PICK b : b \in BaseOf(n)
      BY <2>6 DEF IsFull
    <3>2. b \in index /\ IsFull(b)
      BY <1>2, <2>1, <3>1 DEF IsManifest, DescInv
    <3>3. b \in F
      BY <3>2 DEF IsFull
    <3>4. desc.step[L] <= desc.step[b]
      BY <1>5, <2>1, <3>1 DEF IsManifest
    <3>5. desc.step[b] = desc.step[L]
      BY <1>4, <1>5, <2>4, <3>2, <3>3, <3>4
    <3>6. b = L
      BY <1>5, <3>2, <3>5 DEF IsManifest
    <3> QED BY <1>1, <1>5, <2>3, <3>1, <3>6
  <2> QED BY <2>5, <2>6
<1> QED BY <1>6, <1>7

\* The files come down, and training goes on.
LEMMA RestoresFilesKeeps ==
    ASSUME SyncInv, RestoresFiles
    PROVE  SyncInv'
<1>1. /\ TypeOK /\ DescInv /\ BucketInv /\ stage = "filtered" /\ local \subseteq remote
      /\ index = Restorable /\ local' = local \cup Wanted
      /\ pins' = remotePins /\ named' = index /\ stage' = "up"
  BY DEF SyncInv, DownInv, RestoresFiles
<1>2. UNCHANGED <<index, names, merging, writer, feed, syncer, caller, bucket, past, budget>>
  BY DEF RestoresFiles
<1>3. Wanted \subseteq remote /\ local' \subseteq remote
  BY <1>1 DEF Wanted
<1>4. IsManifest(index)
  BY <1>1, ReachableIsManifest DEF BucketInv, Restorable
<1>5. TypeOK'
  BY <1>1, <1>2, <1>3, RestoreTypes DEF TypeOK
<1>6. UpInv'
  <2>1. UNCHANGED <<desc, nextId, index, remote, durable>>
    BY <1>2 DEF names, bucket, past
  <2>2. IsManifest(named)'
    BY <1>1, <1>4, <2>1 DEF IsManifest, BaseOf, IsFull, Taken
  <2>3. index \subseteq remote /\ durable \subseteq index
    BY <1>1 DEF BucketInv, Restorable, Reachable
  <2>4. LastFull' # None => LastFull' \in local'
    BY <1>1, <1>4, <2>1, LastFullComesDown
  <2> QED BY <1>1, <2>1, <2>2, <2>3, <2>4 DEF UpInv
<1>7. /\ DescInv' /\ WriterInv' /\ SaverInv' /\ MergerInv'
      /\ DeadInv' /\ SyncerInv' /\ CallerInv' /\ AskedInv' /\ BucketInv' /\ BillInv' /\ BudgetInv'
  BY <1>1, <1>2, <1>3, RestoreRests
<1>8. DownInv'
  BY <1>1 DEF DownInv
<1> QED BY <1>5, <1>6, <1>7, <1>8 DEF SyncInv

\* A restore fails: what came down is the bucket's.
LEMMA RestoreFailsKeeps ==
    ASSUME SyncInv, RestoreFails
    PROVE  SyncInv'
<1>1. /\ TypeOK /\ stage # "up" /\ local \subseteq remote /\ named = {}
      /\ Spend("fault") /\ stage' = "new"
  BY DEF SyncInv, DownInv, RestoreFails
<1>2. UNCHANGED <<pins, named, names, merging, writer, feed, syncer, caller, bucket, past>>
  BY DEF RestoreFails
<1>3. local' \subseteq remote /\ index' \subseteq Snaps
  <2>1. Wanted \subseteq remote
    BY DEF Wanted
  <2>2. remoteIndex \subseteq Snaps /\ index \subseteq Snaps
    BY <1>1 DEF TypeOK
  <2> QED BY <1>1, <2>1, <2>2 DEF RestoreFails
<1>4. TypeOK'
  BY <1>1, <1>2, <1>3, RestoreTypes DEF TypeOK
<1>5. /\ DescInv' /\ WriterInv' /\ SaverInv' /\ MergerInv'
      /\ DeadInv' /\ SyncerInv' /\ CallerInv' /\ AskedInv' /\ BucketInv' /\ BillInv' /\ BudgetInv'
      /\ \A w \in Writers : writer'[w] = IdleWriter
      /\ syncer' = IdleSyncer /\ caller' = NoCaller /\ queue' = <<>> /\ deletes' = {}
  BY <1>1, <1>2, <1>3, RestoreRests
<1>6. UpInv'
  BY <1>1 DEF UpInv
<1>7. DownInv'
  BY <1>1, <1>2, <1>3, <1>5 DEF DownInv, bucket
<1> QED BY <1>4, <1>5, <1>6, <1>7 DEF SyncInv

-----------------------------------------------------------------------------
(* The theorems.                                                           *)

LEMMA InitIs ==
    ASSUME Init
    PROVE  SyncInv
<1>1. /\ local = {} /\ index = {} /\ pins = 0 /\ named = {} /\ nextId = 1
      /\ desc = [step |-> [i \in Snaps |-> 0], base |-> [i \in Snaps |-> None]]
      /\ merging \in BOOLEAN /\ writer = [w \in Writers |-> IdleWriter]
      /\ deletes = {} /\ saves = 0 /\ queue = <<>> /\ syncer = IdleSyncer /\ caller = NoCaller
      /\ remote = {} /\ remoteIndex = {} /\ remotePins = 0
      /\ stage = "up" /\ durable = {} /\ removed = {}
      /\ budget = [sync |-> MaxSyncs, pin |-> MaxPins, fault |-> MaxFaults, loss |-> MaxLosses]
  BY DEF Init
<1>2. /\ MaxSnaps \in Nat /\ MaxSyncs \in Nat /\ MaxPins \in Nat /\ MaxFaults \in Nat
      /\ MaxLosses \in Nat
  BY SyncAssumption
<1>3. /\ \A w \in Writers : writer[w] = IdleWriter /\ writer[w].pc = "idle"
      /\ writer \in [Writers -> WriterRecords]
      /\ \A w \in Writers : writer[w].gone = {} /\ writer[w].left = {}
  BY <1>1, IdleWriterIs DEF WriterIs
<1>4. SyncerIs(syncer, "idle", "none", {}, {}, {}, {}, FALSE)
  BY <1>1, IdleIs
<1>5. caller \in CallerRecords /\ caller.pc = "out" /\ caller.asked = {}
  BY <1>1 DEF NoCaller, CallerRecords
<1>6. TypeOK
  <2>1. desc \in [step : [Snaps -> Nat], base : [Snaps -> Snaps \cup {None}]]
    BY <1>1
  <2>2. nextId \in 1 .. MaxSnaps + 1 /\ 0 \in 0 .. MaxPins
    BY <1>1, <1>2
  <2>3. budget \in [{"sync", "pin", "fault", "loss"} -> Nat]
    BY <1>1, <1>2
  <2>4. queue \in Seq({"snapshots", "manifest", "all"})
    BY <1>1
  <2> QED BY <1>1, <1>3, <1>4, <1>5, <2>1, <2>2, <2>3, <2>4
          DEF TypeOK, WriterRecords, SyncerIs, SyncerRecords, CallerRecords
<1>7. BudgetInv
  BY <1>1, <1>2 DEF BudgetInv
<1>8. Taken = {}
  BY <1>1 DEF Taken
<1>9. \A S : S = {} => IsManifest(S)
  BY DEF IsManifest
<1>10. DescInv /\ DeadInv /\ BucketInv
  BY <1>1, <1>4, <1>8, <1>9 DEF DescInv, DeadInv, BucketInv, SyncerIs
<1>11. LastFull = None
  BY <1>1 DEF LastFull, Newest
<1>12. UpInv /\ DownInv
  BY <1>1, <1>9, <1>11 DEF UpInv, DownInv
<1>13. WriterInv
  BY <1>3 DEF WriterInv, Writers
<1>14. SaverInv /\ MergerInv
  BY <1>3 DEF SaverInv, MergerInv, Writers
<1>15. SyncerInv
  BY <1>1, <1>4 DEF SyncerInv, SyncerIs
<1>16. CallerInv
  BY <1>1, <1>4 DEF CallerInv, SyncerIs
<1>17. AskedInv
  BY <1>4, <1>5 DEF AskedInv, SyncerIs
<1>18. BillInv
  BY <1>1, <1>4 DEF BillInv, SyncerIs
<1> QED BY <1>6, <1>7, <1>10, <1>12, <1>13, <1>14, <1>15, <1>16, <1>17, <1>18 DEF SyncInv

LEMMA StutterKeeps ==
    ASSUME SyncInv, UNCHANGED vars
    PROVE  SyncInv'
<1>1. UNCHANGED <<local, index, pins, named, desc, nextId, merging, writer, deletes, saves, queue,
                  syncer, caller, remote, remoteIndex, remotePins, stage, durable, removed, budget>>
  BY DEF vars, disk, names, feed, bucket, past
<1>2. TypeOK' /\ BudgetInv'
  BY <1>1 DEF SyncInv, TypeOK, BudgetInv
<1>3. WriterInv'
  BY <1>1 DEF SyncInv, WriterInv, NextFile, Taken
<1>4. DownInv' /\ CallerInv' /\ AskedInv'
  BY <1>1 DEF SyncInv, DownInv, CallerInv, AskedInv, Asked, Taken, BaseOf, Restorable, Reachable
<1> QED BY <1>1, <1>2, <1>3, <1>4, StoreRests, BillRests DEF SyncInv

\* The save pipeline, the merger, the syncer thread, the callers of sync_now,
\* the loss of a machine and restore_from_remote keep the invariant, for any
\* number of snapshots, calls, faults and losses.
THEOREM SyncInvariant == Spec => []SyncInv
<1>1. Init => SyncInv
  BY InitIs
<1>2. SyncInv /\ [Next]_vars => SyncInv'
  <2> SUFFICES ASSUME SyncInv, [Next]_vars PROVE SyncInv'
    OBVIOUS
  <2>1. CASE StoreStep
    BY <2>1, SaveWritesKeeps, MergeWritesKeeps, SavePublishesKeeps, MergePublishesKeeps,
       ClearsKeeps, PinsKeep DEF StoreStep
  <2>2. CASE CallSyncNow \/ SyncNowReturns
    BY <2>2, CallKeeps, ReturnKeeps
  <2>3. CASE SyncerStep \/ SyncerFault
    BY <2>3, SyncerKeeps
  <2>4. CASE Loses
    BY <2>4, LosesKeeps
  <2>5. CASE RestoreStep \/ RestoreFails
    BY <2>5, RestoresIndexKeeps, RestoresFilesKeeps, RestoreFailsKeeps DEF RestoreStep
  <2>6. CASE UNCHANGED vars
    BY <2>6, StutterKeeps
  <2> QED BY <2>1, <2>2, <2>3, <2>4, <2>5, <2>6 DEF Next
<1> QED BY <1>1, <1>2, PTL DEF Spec

\* sync_all and restore_from_remote: what a sync_now that said Ok covered can
\* be restored from then on, until the store drops it itself.
THEOREM DurableStays == Spec => []SyncedIsDurable
<1>1. SyncInv => SyncedIsDurable
  BY DEF SyncInv, BucketInv, SyncedIsDurable
<1> QED BY <1>1, SyncInvariant, PTL

\* restore_from_remote and the store after it: what is listed is on the disk or
\* in the bucket, with its base.
THEOREM ListedStaysReachable == Spec => []ListedIsReachable
<1>1. SyncInv => ListedIsReachable
  BY UpIs DEF ListedIsReachable, IsManifest
<1> QED BY <1>1, SyncInvariant, PTL

\* restore_from_remote brings the base of the next save down, and no step of
\* the writers takes it away.
THEOREM BaseStaysLocal == Spec => []BaseIsLocal
<1>1. SyncInv => BaseIsLocal
  BY UpIs DEF BaseIsLocal
<1> QED BY <1>1, SyncInvariant, PTL

\* queue_delete and apply_deletes: without faults or losses, the bucket holds
\* what the disk does once everything is drained.
THEOREM BillIsBounded == Spec => []BucketIsBounded
<1>1. SyncInv => BucketIsBounded
  <2> SUFFICES ASSUME SyncInv, Quiet PROVE remote \subseteq local
    BY DEF BucketIsBounded
  <2>1. remote \subseteq local \cup Leaving
    BY DEF SyncInv, BillInv, Quiet
  <2>2. Leaving = {}
    <3>1. syncer.keys = {} /\ deletes = {}
      BY DEF SyncInv, SyncerInv, Quiet
    <3>2. {v \in Writers : writer[v].pc = "push"} = {}
      BY DEF Quiet
    <3> QED BY <3>1, <3>2 DEF Leaving
  <2> QED BY <2>1, <2>2
<1> QED BY <1>1, SyncInvariant, PTL

\* No step but a put adds to the bucket.
LEMMA BucketGrows ==
    ASSUME SyncInv, Next, NEW i \in remote' \ remote
    PROVE  i \in syncer.hand
<1>1. TypeOK
  BY DEF SyncInv
<1>2. CASE SyncerStep \/ SyncerFault
  <2>1. Puts \/ PutFails \/ Deletes \/ DeleteFails \/ UNCHANGED remote
    BY <1>1, <1>2, TakesIs, ListsIs, ReadsIs, CopiedIs, ReadsIndexIs, PutsIndexIs, DrainsIs,
       RepliesIs, PanicsIs
    DEF SyncerStep, SyncerFault
  <2>2. CASE Puts \/ PutFails
    BY <1>1, <2>2, PutsIs
  <2>3. CASE Deletes \/ DeleteFails
    BY <1>1, <2>3, DeletesIs
  <2> QED BY <2>1, <2>2, <2>3
<1>3. CASE StoreStep
  <2>1. \A w \in Writers : WriterStep(w) \/ UnlinkTimesOut(w) => UNCHANGED remote
    BY DEF WriterStep, Unlinks, Pushes, WriterEnds, UnlinkTimesOut, bucket
  <2>2. WritesPins => UNCHANGED remote
    BY DEF WritesPins, bucket
  <2>3. SaveWrites => UNCHANGED remote
    BY DEF SaveWrites, WritesPack, bucket
  <2>4. MergeWrites => UNCHANGED remote
    BY DEF MergeWrites, WritesPack, bucket
  <2>5. SavePublishes => UNCHANGED remote
    BY DEF SavePublishes, Publishes, bucket
  <2>6. MergePublishes => UNCHANGED remote
    BY DEF MergePublishes, Publishes, bucket
  <2> QED BY <1>3, <2>1, <2>2, <2>3, <2>4, <2>5, <2>6 DEF StoreStep
<1>4. CASE CallSyncNow \/ SyncNowReturns \/ Loses \/ RestoreStep \/ RestoreFails
  BY <1>4 DEF CallSyncNow, SyncNowReturns, Loses, RestoreStep, RestoresIndex, RestoresFiles,
              RestoreFails, bucket
<1> QED BY <1>2, <1>3, <1>4 DEF Next

\* apply_deletes against the copies of a walk: a file taken off the bucket is
\* never uploaded again.
THEOREM DeletedForGood == Spec => DeletedStaysDeleted
<1>1. SyncInv /\ [Next]_vars => [(remote' \ remote) \cap removed = {}]_vars
  <2> SUFFICES ASSUME SyncInv, Next PROVE (remote' \ remote) \cap removed = {}
    OBVIOUS
  <2> QED BY BucketGrows DEF SyncInv, DeadInv
<1> QED BY <1>1, SyncInvariant, PTL DEF Spec, DeletedStaysDeleted
=============================================================================
