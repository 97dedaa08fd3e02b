-------------------------- MODULE AsyncSaverProofs --------------------------
(***************************************************************************)
(* What holds of AsyncSaver for any number of callers and of saves: its    *)
(* invariant, that one flag stands for one job, that a call which returns  *)
(* Ok leaves nothing unsettled behind, and that the saver implements       *)
(* SaveService, fairness apart.                                            *)
(***************************************************************************)
EXTENDS AsyncSaverInv, TLAPS

-----------------------------------------------------------------------------
(* What is in flight, by where the slot is.                                *)

\* Nobody holds the slot: nothing is in flight.
LEMMA InFlightFree == HeldByNobody => InFlight = {}
  BY DEF HeldByNobody, Sending, InFlight

\* A caller between the claim and the send holds it.
LEMMA InFlightSender ==
    ASSUME HeldBySender, NEW c \in Callers, call[c].pc = "send"
    PROVE  InFlight = {call[c].job}
  <1>1. Sending = {c}
    BY DEF HeldBySender, Sending
  <1>2. \A d \in Callers : call[d].pc = "send" <=> d = c
    BY <1>1 DEF Sending
  <1>3. {call[d].job : d \in {d \in Callers : call[d].pc = "send"}} = {call[c].job}
    BY <1>2
  <1>4. {channel[k] : k \in 1 .. Len(channel)} = {}
    BY DEF HeldBySender
  <1>5. worker.pc \notin {"running", "done"}
    BY DEF HeldBySender
  <1> QED BY <1>3, <1>4, <1>5 DEF InFlight

\* The job is in the channel.
LEMMA InFlightChannel == HeldByChannel => InFlight = {channel[1]}
  BY DEF HeldByChannel, Sending, InFlight

\* The thread has it.
LEMMA InFlightWorker == HeldByWorker => InFlight = {worker.job}
  BY DEF HeldByWorker, Sending, InFlight

\* Under the invariant the flag says whether something is in flight.
LEMMA FlagAndFlight ==
    ASSUME SlotInv
    PROVE  /\ busy <=> InFlight # {}
           /\ \A j, k \in InFlight : j = k
  <1>1. CASE ~busy
    BY <1>1, InFlightFree DEF SlotInv
  <1>2. CASE busy /\ HeldBySender
    <2>1. PICK c \in Callers : Sending = {c} /\ call[c].pc = "send"
      BY <1>2 DEF HeldBySender, Sending
    <2> QED BY <1>2, <2>1, InFlightSender
  <1>3. CASE busy /\ HeldByChannel
    BY <1>3, InFlightChannel
  <1>4. CASE busy /\ HeldByWorker
    BY <1>4, InFlightWorker
  <1> QED BY <1>1, <1>2, <1>3, <1>4 DEF SlotInv

\* A step that leaves the thread, the channel and the senders alone leaves
\* what is in flight alone.
LEMMA InFlightKept ==
    ASSUME UNCHANGED <<channel, worker>>,
           Sending' = Sending,
           \A c \in Sending : call'[c].job = call[c].job
    PROVE  InFlight' = InFlight
  <1>1. {call'[c].job : c \in Sending'} = {call[c].job : c \in Sending}
    OBVIOUS
  <1> QED BY <1>1 DEF InFlight, Sending

\* A caller that moves, neither from the claim nor into it.
LEMMA MoveKeepsInFlight ==
    ASSUME TypeOK, NEW c \in Callers, NEW pc, MovesTo(c, pc),
           UNCHANGED <<channel, worker>>, call[c].pc # "send", pc # "send"
    PROVE  Sending' = Sending /\ InFlight' = InFlight
  <1>1. \A d \in Callers : call'[d].pc = (IF d = c THEN pc ELSE call[d].pc)
    BY DEF TypeOK, Calls, MovesTo
  <1>2. \A d \in Callers : call'[d].job = call[d].job
    BY DEF TypeOK, Calls, MovesTo
  <1>3. Sending' = Sending
    BY <1>1 DEF Sending
  <1> QED BY <1>2, <1>3, InFlightKept DEF Sending

-----------------------------------------------------------------------------
(* Type correctness.                                                       *)

\* Every identifier in use was handed out, so it is one.
LEMMA UsedAreJobs ==
    ASSUME SaverAssumption, TypeOK, FreshInv
    PROVE  /\ Used \subseteq Jobs
           /\ \A c \in Callers :
                call[c].pc \in {"submit", "send"} => call[c].job \in Jobs
  BY DEF SaverAssumption, TypeOK, FreshInv, Jobs

\* The job the thread has, and the one at the head of the channel.
LEMMA WorkerJobUsed ==
    ASSUME TypeOK
    PROVE  /\ worker.pc \in {"running", "done"} => worker.job \in InFlight
           /\ channel # <<>> => Head(channel) \in InFlight
  BY DEF TypeOK, InFlight

\* A caller that moves stays a caller.
LEMMA MoveTyped ==
    ASSUME TypeOK, NEW c \in Callers,
           NEW pc \in {"submit", "send", "merge", "sync", "ok", "failed"},
           MovesTo(c, pc)
    PROVE  call' \in [Callers -> Calls]
  BY DEF TypeOK, Calls, MovesTo

LEMMA TypeStep ==
    ASSUME SaverAssumption, SaverInv, [Next]_vars
    PROVE  TypeOK'
  <1> USE DEF TypeOK
  <1>0. TypeOK
    BY DEF SaverInv
  <1>1. /\ Used \subseteq Jobs
        /\ \A c \in Callers : call[c].pc \in {"submit", "send"} => call[c].job \in Jobs
    BY UsedAreJobs DEF SaverInv
  <1>2. InFlight \subseteq Jobs /\ Unreported \subseteq Jobs
    BY <1>1 DEF Used
  <1>3. ASSUME NEW c \in Callers, CallSave(c)
        PROVE  TypeOK'
    <2>1. nextJob \in Jobs /\ nextJob' = nextJob + 1
      BY <1>3 DEF CallSave
    <2>2. nextJob' \in 1 .. MaxJobs + 1
      BY <2>1, <1>0 DEF SaverAssumption, Jobs
    <2>3. PICK kind \in {"save", "final"} : Starts(c, kind, "submit", nextJob)
      BY <1>3 DEF CallSave
    <2> QED BY <1>0, <1>2, <2>1, <2>2, <2>3 DEF Starts, Calls
  <1>4. ASSUME NEW c \in Callers, CallFlush(c) \/ CallWait(c)
        PROVE  TypeOK'
    BY <1>0, <1>2, <1>4 DEF CallFlush, CallWait, Starts, Calls
  <1>5. ASSUME NEW c \in Callers, CallStep(c)
        PROVE  TypeOK'
    <2>1. CASE SubmitReports(c)
      BY <1>0, <2>1, MoveTyped DEF SubmitReports
    <2>2. CASE SubmitClaims(c)
      BY <1>0, <2>2, MoveTyped DEF SubmitClaims
    <2>3. CASE SubmitSends(c)
      BY <1>0, <1>1, <2>3, MoveTyped DEF SubmitSends
    <2>4. CASE FlushReturns(c)
      BY <1>0, <1>2, <2>4, MoveTyped DEF FlushReturns
    <2>5. CASE WaitReturns(c)
      BY <1>0, <2>5, MoveTyped DEF WaitReturns
    <2>6. CASE FinalMerges(c)
      BY <1>0, <2>6, MoveTyped DEF FinalMerges
    <2>7. CASE FinalSyncs(c)
      BY <1>0, <2>7, MoveTyped DEF FinalSyncs
    <2>8. CASE Leaves(c)
      BY <1>0, <2>8 DEF Leaves, NoCall, Calls
    <2> QED BY <1>5, <2>1, <2>2, <2>3, <2>4, <2>5, <2>6, <2>7, <2>8 DEF CallStep
  <1>6. CASE WorkerStep
    <2>1. CASE WorkerTakes
      BY <1>0, <2>1 DEF WorkerTakes
    <2>2. CASE WorkerSaves
      <3>1. worker.job \in Jobs
        BY <1>0, <1>2, <2>2, WorkerJobUsed DEF WorkerSaves
      <3> QED BY <1>0, <2>2, <3>1 DEF WorkerSaves
    <2>3. CASE WorkerFails
      BY <1>0, <2>3 DEF WorkerFails
    <2>4. CASE WorkerSettles
      BY <1>0, <2>4 DEF WorkerSettles, IdleWorker
    <2>5. CASE WorkerExits
      BY <1>0, <2>5 DEF WorkerExits, IdleWorker
    <2> QED BY <1>6, <2>1, <2>2, <2>3, <2>4, <2>5 DEF WorkerStep
  <1>7. CASE Drop \/ ClosesChannel \/ Joins \/ ThreadDies
    BY <1>0, <1>7 DEF Drop, ClosesChannel, Joins, ThreadDies
  <1>8. CASE UNCHANGED vars
    BY <1>0, <1>8 DEF vars
  <1> QED BY <1>3, <1>4, <1>5, <1>6, <1>7, <1>8 DEF Next

-----------------------------------------------------------------------------
(* Where the slot goes.                                                    *)

\* Only the end of a call, and the start of one, changes who may act.
LEMMA StageStep ==
    ASSUME TypeOK, StageInv, Next
    PROVE  StageInv'
  <1> USE DEF TypeOK, StageInv
  <1>1. ASSUME NEW c \in Callers, CallSave(c) \/ CallFlush(c) \/ CallWait(c)
        PROVE  StageInv'
    BY <1>1 DEF CallSave, CallFlush, CallWait, Starts
  <1>2. ASSUME NEW c \in Callers, CallStep(c)
        PROVE  StageInv'
    <2>1. call[c].pc # "out" /\ UNCHANGED <<worker, stage>>
      BY <1>2 DEF CallStep, SubmitReports, SubmitClaims, SubmitSends, FlushReturns,
                  WaitReturns, FinalMerges, FinalSyncs, Leaves
    <2> QED BY <2>1
  <1>3. CASE WorkerStep
    <2>1. CASE WorkerExits
      BY <2>1 DEF WorkerExits, IdleWorker
    <2>2. CASE ~WorkerExits
      <3>1. UNCHANGED <<call, stage>>
        BY <1>3, <2>2 DEF WorkerStep, WorkerTakes, WorkerSaves, WorkerFails,
                          WorkerSettles
      <3>2. CASE WorkerTakes \/ WorkerSettles
        BY <3>1, <3>2 DEF WorkerTakes, WorkerSettles, IdleWorker
      <3>3. CASE WorkerSaves \/ WorkerFails
        BY <3>1, <3>3 DEF WorkerSaves, WorkerFails
      <3> QED BY <1>3, <2>2, <3>2, <3>3 DEF WorkerStep
    <2> QED BY <2>1, <2>2
  <1>4. CASE Drop \/ ClosesChannel \/ Joins \/ ThreadDies
    BY <1>4 DEF Drop, ClosesChannel, Joins, ThreadDies
  <1> QED BY <1>1, <1>2, <1>3, <1>4 DEF Next

\* A caller that moves, neither from the claim nor into it, while the slot
\* stays where it is.
LEMMA QuietMove ==
    ASSUME TypeOK, SlotInv, NEW c \in Callers, NEW pc, MovesTo(c, pc),
           UNCHANGED <<busy, channel, worker>>, call[c].pc # "send", pc # "send"
    PROVE  SlotInv' /\ InFlight' = InFlight
  <1>1. Sending' = Sending /\ InFlight' = InFlight
    BY MoveKeepsInFlight
  <1> QED BY <1>1 DEF SlotInv, HeldBySender, HeldByChannel, HeldByWorker, HeldByNobody

\* The steps of a caller that neither take the slot nor hand it over.
LEMMA QuietStep ==
    ASSUME TypeOK, SlotInv, NEW c \in Callers,
           \/ CallSave(c) \/ CallFlush(c) \/ CallWait(c)
           \/ SubmitReports(c) \/ FlushReturns(c) \/ WaitReturns(c)
           \/ FinalMerges(c) \/ FinalSyncs(c) \/ Leaves(c)
    PROVE  SlotInv' /\ InFlight' = InFlight
  <1>1. CASE CallSave(c) \/ CallFlush(c) \/ CallWait(c) \/ Leaves(c)
    <2>1. UNCHANGED <<busy, channel, worker>>
      BY <1>1 DEF CallSave, CallFlush, CallWait, Leaves, Starts
    <2>2. /\ call[c].pc # "send" /\ call'[c].pc # "send"
          /\ \A d \in Callers : d # c => call'[d] = call[d]
      BY <1>1 DEF TypeOK, CallSave, CallFlush, CallWait, Leaves, Starts, NoCall
    <2>3. Sending' = Sending
      BY <2>2 DEF Sending
    <2>4. InFlight' = InFlight
      BY <2>1, <2>2, <2>3, InFlightKept DEF Sending
    <2> QED BY <2>1, <2>3, <2>4
            DEF SlotInv, HeldBySender, HeldByChannel, HeldByWorker, HeldByNobody
  <1>2. CASE SubmitReports(c)
    BY <1>2, QuietMove DEF SubmitReports
  <1>3. CASE FlushReturns(c)
    BY <1>3, QuietMove DEF FlushReturns
  <1>4. CASE WaitReturns(c)
    BY <1>4, QuietMove DEF WaitReturns
  <1>5. CASE FinalMerges(c)
    BY <1>5, QuietMove DEF FinalMerges
  <1>6. CASE FinalSyncs(c)
    BY <1>6, QuietMove DEF FinalSyncs
  <1> QED BY <1>1, <1>2, <1>3, <1>4, <1>5, <1>6

\* submit takes the free slot.
LEMMA ClaimStep ==
    ASSUME TypeOK, SlotInv, StageInv, NEW c \in Callers, SubmitClaims(c)
    PROVE  /\ SlotInv'
           /\ InFlight = {} /\ InFlight' = {call[c].job}
  <1>1. HeldByNobody /\ InFlight = {}
    BY InFlightFree DEF SubmitClaims, SlotInv
  <1>2. worker.pc = "idle"
    BY <1>1 DEF HeldByNobody, StageInv, SubmitClaims
  <1>3. /\ \A d \in Callers : call'[d].pc = "send" <=> d = c
        /\ call'[c].job = call[c].job
    BY <1>1 DEF TypeOK, Calls, SubmitClaims, MovesTo, HeldByNobody, Sending
  <1>4. Sending' = {c}
    BY <1>3 DEF Sending
  <1>5. busy' /\ UNCHANGED <<channel, worker>>
    BY DEF SubmitClaims
  <1>6. SlotInv'
    BY <1>1, <1>2, <1>4, <1>5 DEF SlotInv, HeldBySender, HeldByNobody
  <1>7. {call'[d].job : d \in {d \in Callers : call'[d].pc = "send"}} = {call[c].job}
    BY <1>3
  <1>8. {channel'[k] : k \in 1 .. Len(channel')} = {} /\ worker'.pc = "idle"
    BY <1>1, <1>2, <1>5 DEF HeldByNobody
  <1> QED BY <1>1, <1>6, <1>7, <1>8 DEF InFlight

\* The job goes from the caller into the channel.
LEMMA SendStep ==
    ASSUME TypeOK, SlotInv, NEW c \in Callers, SubmitSends(c),
           call[c].job \in Jobs
    PROVE  SlotInv' /\ InFlight' = InFlight
  <1>1. busy /\ HeldBySender
    BY DEF SubmitSends, SlotInv, HeldByNobody, HeldByChannel, HeldByWorker, Sending
  <1>2. InFlight = {call[c].job}
    BY <1>1, InFlightSender DEF SubmitSends
  <1>3. Sending = {c}
    BY <1>1 DEF HeldBySender, Sending, SubmitSends
  <1>4. \A d \in Callers : call'[d].pc # "send"
    BY <1>3 DEF TypeOK, Calls, SubmitSends, MovesTo, Sending
  <1>5. /\ Len(channel') = 1 /\ channel'[1] = call[c].job
        /\ worker' = worker /\ worker.pc = "idle" /\ busy' = busy
    BY <1>1 DEF SubmitSends, HeldBySender
  <1>6. SlotInv'
    BY <1>1, <1>4, <1>5 DEF SlotInv, HeldByChannel, Sending
  <1>7. {channel'[k] : k \in 1 .. Len(channel')} = {call[c].job}
    BY <1>5
  <1> QED BY <1>2, <1>4, <1>5, <1>6, <1>7 DEF InFlight

\* The thread takes the job, works on it, and gives the slot back.
LEMMA WorkerSlot ==
    ASSUME TypeOK, SlotInv, StageInv, WorkerStep
    PROVE  /\ SlotInv'
           /\ IF WorkerSettles
              THEN InFlight = {worker.job} /\ InFlight' = {}
              ELSE InFlight' = InFlight
  <1>1. UNCHANGED call /\ Sending' = Sending
    BY DEF WorkerStep, WorkerTakes, WorkerSaves, WorkerFails, WorkerSettles, WorkerExits,
           Sending
  <1>2. CASE WorkerTakes
    <2>1. busy /\ HeldByChannel
      BY <1>2 DEF WorkerTakes, SlotInv, HeldByNobody, HeldBySender, HeldByWorker
    <2>2. InFlight = {channel[1]} /\ Head(channel) = channel[1]
      BY <1>2, <2>1, InFlightChannel DEF HeldByChannel, WorkerTakes
    <2>3. channel' = <<>> /\ worker'.pc = "running" /\ worker'.job = channel[1]
      BY <1>2, <2>1, <2>2 DEF HeldByChannel, WorkerTakes, TypeOK
    <2>4. SlotInv'
      BY <1>1, <1>2, <2>1, <2>3 DEF SlotInv, HeldByChannel, HeldByWorker, WorkerTakes
    <2>5. InFlight' = {channel[1]}
      BY <1>1, <2>1, <2>3 DEF InFlight, HeldByChannel, Sending
    <2> QED BY <1>2, <2>2, <2>4, <2>5 DEF WorkerTakes, WorkerSettles
  <1>3. CASE WorkerSaves \/ WorkerFails
    <2>1. busy /\ HeldByWorker
      BY <1>3 DEF WorkerSaves, WorkerFails, SlotInv, HeldByNobody, HeldBySender,
                  HeldByChannel
    <2>2. /\ worker'.pc = "done" /\ worker'.job = worker.job
          /\ worker.pc = "running" /\ UNCHANGED <<busy, channel>>
      BY <1>3 DEF TypeOK, WorkerSaves, WorkerFails
    <2>3. SlotInv'
      BY <1>1, <2>1, <2>2 DEF SlotInv, HeldByWorker
    <2>4. InFlight' = {worker.job}
      BY <1>1, <2>1, <2>2 DEF InFlight, HeldByWorker, Sending
    <2> QED BY <2>1, <2>2, <2>3, <2>4, InFlightWorker DEF WorkerSettles
  <1>4. CASE WorkerSettles
    <2>1. busy /\ HeldByWorker
      BY <1>4 DEF WorkerSettles, SlotInv, HeldByNobody, HeldBySender, HeldByChannel
    <2>2. ~busy' /\ worker'.pc = "idle" /\ channel' = <<>>
      BY <1>4, <2>1 DEF WorkerSettles, HeldByWorker, IdleWorker
    <2>3. SlotInv'
      BY <1>1, <2>1, <2>2 DEF SlotInv, HeldByWorker, HeldByNobody
    <2>4. InFlight' = {}
      BY <1>1, <2>1, <2>2 DEF InFlight, HeldByWorker, Sending
    <2> QED BY <1>4, <2>1, <2>3, <2>4, InFlightWorker
  <1>5. CASE WorkerExits
    <2>1. HeldByNobody /\ ~busy
      BY <1>5 DEF WorkerExits, StageInv, SlotInv, HeldBySender, HeldByChannel,
                  HeldByWorker, Sending
    <2>2. /\ worker'.pc = "gone" /\ UNCHANGED <<busy, channel>>
          /\ ~WorkerSettles
      BY <1>5 DEF WorkerExits, WorkerSettles, IdleWorker
    <2>3. SlotInv' /\ InFlight' = {}
      BY <1>1, <2>1, <2>2 DEF SlotInv, HeldByNobody, InFlight, Sending
    <2> QED BY <2>1, <2>2, <2>3, InFlightFree
  <1> QED BY <1>2, <1>3, <1>4, <1>5 DEF WorkerStep

-----------------------------------------------------------------------------
(* Identifiers and outcomes.                                               *)

\* What a step does to the identifiers in use: submit's claim adds the job it
\* was called with, everything else moves identifiers around.
LEMMA UsedStep ==
    ASSUME SaverAssumption, SaverInv, Next
    PROVE  /\ \/ \E c \in Callers : SubmitClaims(c) /\ Used' = Used \cup {call[c].job}
              \/ Used' = Used
           /\ SlotInv'
           /\ ErrorInv'
           /\ OutcomeInv'
  <1> USE DEF ErrorInv, OutcomeInv
  <1>0. /\ TypeOK /\ SlotInv /\ StageInv /\ ErrorInv /\ OutcomeInv
        /\ busy <=> InFlight # {}
        /\ \A c \in Callers : call[c].pc \in {"submit", "send"} => call[c].job \in Jobs
        /\ \A c \in Callers : call[c].pc = "submit" => call[c].job \notin Used
    BY FlagAndFlight, UsedAreJobs DEF SaverInv, FreshInv
  <1>1. ASSUME NEW c \in Callers, CallSave(c) \/ CallFlush(c) \/ CallWait(c) \/ Leaves(c)
                                   \/ WaitReturns(c) \/ FinalMerges(c) \/ FinalSyncs(c)
        PROVE  UNCHANGED <<busy, error, worker, saved, told, InFlight>> /\ SlotInv'
    <2>1. SlotInv' /\ InFlight' = InFlight
      BY <1>0, <1>1, QuietStep
    <2> QED BY <1>1, <2>1 DEF CallSave, CallFlush, CallWait, Leaves, WaitReturns,
                              FinalMerges, FinalSyncs, Starts
  <1>2. ASSUME NEW c \in Callers, SubmitReports(c) \/ FlushReturns(c)
        PROVE  /\ UNCHANGED <<busy, worker, saved, InFlight>> /\ SlotInv'
               /\ error' = None /\ told' = told \cup Unreported /\ ~busy
    <2>1. SlotInv' /\ InFlight' = InFlight
      BY <1>0, <1>2, QuietStep
    <2> QED BY <1>2, <2>1 DEF SubmitReports, FlushReturns, Unreported
  <1>3. ASSUME NEW c \in Callers, SubmitClaims(c)
        PROVE  /\ UNCHANGED <<error, worker, saved, told>> /\ SlotInv'
               /\ InFlight = {} /\ InFlight' = {call[c].job}
               /\ error = None /\ ~busy /\ worker.pc # "done"
               /\ call[c].job \notin Used
    <2>1. SlotInv' /\ InFlight = {} /\ InFlight' = {call[c].job}
      BY <1>0, <1>3, ClaimStep
    <2>2. worker.pc # "done"
      BY <1>0, <1>3 DEF SubmitClaims, SlotInv, HeldByNobody
    <2> QED BY <1>0, <1>3, <2>1, <2>2 DEF SubmitClaims
  <1>4. ASSUME NEW c \in Callers, SubmitSends(c)
        PROVE  UNCHANGED <<busy, error, worker, saved, told, InFlight>> /\ SlotInv'
    <2>1. call[c].job \in Jobs
      BY <1>0, <1>4 DEF SubmitSends
    <2>2. SlotInv' /\ InFlight' = InFlight
      BY <1>0, <1>4, <2>1, SendStep
    <2> QED BY <1>4, <2>2 DEF SubmitSends
  <1>5. CASE WorkerStep
    <2>1. SlotInv' /\ (IF WorkerSettles
                       THEN InFlight = {worker.job} /\ InFlight' = {}
                       ELSE InFlight' = InFlight)
      BY <1>0, <1>5, WorkerSlot
    <2>2. CASE WorkerTakes
      <3>1. /\ UNCHANGED <<busy, error, saved, told, InFlight>>
            /\ worker.pc = "idle" /\ worker'.pc = "running"
        BY <2>1, <2>2 DEF WorkerTakes, WorkerSettles
      <3> QED BY <1>0, <2>1, <3>1 DEF Used, Unreported
    <2>3. CASE WorkerSaves
      <3>1. /\ UNCHANGED <<busy, error, told, InFlight>>
            /\ saved' = saved \cup {worker.job}
            /\ worker'.pc = "done" /\ worker'.ok
        BY <1>0, <2>1, <2>3 DEF TypeOK, WorkerSaves, WorkerSettles
      <3>2. worker.job \in InFlight /\ \A j \in InFlight : j = worker.job
        BY <1>0, <2>3, WorkerJobUsed, FlagAndFlight DEF WorkerSaves
      <3> QED BY <1>0, <2>1, <3>1, <3>2 DEF Used, Unreported
    <2>4. CASE WorkerFails
      <3>1. /\ UNCHANGED <<busy, error, saved, told, InFlight>>
            /\ worker.pc = "running" /\ worker'.pc = "done" /\ ~worker'.ok
        BY <1>0, <2>1, <2>4 DEF TypeOK, WorkerFails, WorkerSettles
      <3> QED BY <1>0, <2>1, <3>1 DEF Used, Unreported
    <2>5. CASE WorkerSettles
      <3>1. /\ UNCHANGED <<saved, told>> /\ ~busy'
            /\ InFlight = {worker.job} /\ InFlight' = {}
            /\ error' = IF worker.ok THEN error ELSE worker.job
        BY <2>1, <2>5 DEF WorkerSettles
      <3>2. error = None /\ worker.job \in Jobs /\ (worker.ok <=> worker.job \in saved)
        <4>1. InFlight \subseteq Jobs
          BY UsedAreJobs DEF SaverInv, Used
        <4> QED BY <1>0, <2>5, <3>1, <4>1 DEF WorkerSettles
      <3>3. worker.job # None
        BY <3>2 DEF Jobs, None
      <3>4. Used' = Used
        BY <3>1, <3>2, <3>3 DEF Used, Unreported
      <3> QED BY <2>1, <3>1, <3>4
    <2>6. CASE WorkerExits
      <3>1. /\ UNCHANGED <<busy, error, saved, told, InFlight>>
            /\ worker.pc = "idle" /\ worker'.pc = "gone"
        BY <2>1, <2>6 DEF WorkerExits, WorkerSettles, IdleWorker
      <3> QED BY <1>0, <2>1, <3>1 DEF Used, Unreported
    <2> QED BY <1>5, <2>2, <2>3, <2>4, <2>5, <2>6 DEF WorkerStep
  <1>6. CASE Drop \/ ClosesChannel \/ Joins \/ ThreadDies
    <2>1. /\ UNCHANGED <<busy, error, channel, worker, call, saved, told>>
      BY <1>6 DEF Drop, ClosesChannel, Joins, ThreadDies
    <2>2. UNCHANGED <<InFlight, SlotInv>>
      BY <2>1 DEF InFlight, SlotInv, HeldBySender, HeldByChannel, HeldByWorker,
                  HeldByNobody, Sending
    <2> QED BY <1>0, <2>1, <2>2 DEF Used, Unreported
  <1>7. ASSUME NEW c \in Callers,
               CallSave(c) \/ CallFlush(c) \/ CallWait(c) \/ CallStep(c)
        PROVE  /\ (SubmitClaims(c) /\ Used' = Used \cup {call[c].job}) \/ Used' = Used
               /\ SlotInv' /\ ErrorInv' /\ OutcomeInv'
    <2>1. CASE SubmitClaims(c)
      BY <1>0, <1>3, <2>1 DEF Used, Unreported
    <2>2. CASE SubmitReports(c) \/ FlushReturns(c)
      BY <1>0, <1>2, <2>2 DEF Used, Unreported
    <2>3. CASE ~(SubmitClaims(c) \/ SubmitReports(c) \/ FlushReturns(c))
      <3>1. UNCHANGED <<busy, error, worker, saved, told, InFlight>> /\ SlotInv'
        BY <1>1, <1>4, <1>7, <2>3 DEF CallStep
      <3> QED BY <1>0, <3>1 DEF Used, Unreported
    <2> QED BY <2>1, <2>2, <2>3
  <1> QED BY <1>5, <1>6, <1>7 DEF Next

\* An identifier is handed out once, and used by one save.
LEMMA FreshStep ==
    ASSUME SaverAssumption, SaverInv, Next
    PROVE  FreshInv'
  <1>0. TypeOK /\ FreshInv /\ nextJob \in Nat
    BY DEF SaverInv, TypeOK, SaverAssumption
  <1>1. \/ \E c \in Callers : SubmitClaims(c) /\ Used' = Used \cup {call[c].job}
        \/ Used' = Used
    BY UsedStep
  <1>2. ASSUME NEW c \in Callers, CallSave(c)
        PROVE  FreshInv'
    <2>1. /\ nextJob' = nextJob + 1 /\ call'[c].pc = "submit" /\ call'[c].job = nextJob
          /\ \A d \in Callers : d # c => call'[d] = call[d]
      BY <1>0, <1>2 DEF TypeOK, CallSave, Starts
    <2>2. Used' = Used
      <3>1. \A d \in Callers : ~SubmitClaims(d)
        BY <1>2 DEF CallSave, Starts, SubmitClaims, MovesTo, TypeOK, SaverInv, Jobs
      <3> QED BY <1>1, <3>1
    <2>3. 1 .. nextJob - 1 \subseteq 1 .. nextJob' - 1 /\ nextJob \in 1 .. nextJob' - 1
          /\ nextJob \notin 1 .. nextJob - 1
      BY <1>0, <2>1, nextJob >= 1 DEF TypeOK
    <2>4. \A d \in Callers : d # c => (call'[d].pc \in {"submit", "send"} =>
                                          call'[d].job # nextJob)
      BY <1>0, <2>1, <2>3 DEF FreshInv
    <2>5. nextJob \notin Used
      BY <1>0, <2>3 DEF FreshInv
    <2>6. \A d \in Callers : d # c => (call'[d].pc \in {"submit", "send"} =>
                                          call'[d].job \in 1 .. nextJob - 1)
      BY <1>0, <2>1 DEF FreshInv
    <2>7. \A d \in Callers : call'[d].pc = "submit" => call'[d].job \notin Used
      BY <1>0, <2>1, <2>5 DEF FreshInv
    <2>8. \A d, f \in Callers :
            (call'[d].pc = "submit" /\ call'[f].pc = "submit" /\ d # f)
                => call'[d].job # call'[f].job
      BY <1>0, <2>1, <2>4 DEF FreshInv
    <2>9. Used \subseteq 1 .. nextJob' - 1
      BY <1>0, <2>3 DEF FreshInv
    <2> QED BY <2>1, <2>2, <2>3, <2>6, <2>7, <2>8, <2>9 DEF FreshInv
  <1>3. CASE nextJob' = nextJob /\ \A c \in Callers :
                call'[c].pc \in {"submit", "send"} =>
                    /\ call'[c].job = call[c].job
                    /\ call'[c].pc = "submit" => call[c].pc = "submit"
                    /\ call[c].pc \in {"submit", "send"}
    <2>1. CASE Used' = Used
      BY <1>0, <1>3, <2>1 DEF FreshInv
    <2>2. ASSUME NEW c \in Callers, SubmitClaims(c), Used' = Used \cup {call[c].job}
          PROVE  FreshInv'
      <3>1. call[c].pc = "submit" /\ call'[c].pc # "submit"
        BY <1>0, <2>2 DEF TypeOK, Calls, SubmitClaims, MovesTo
      <3> QED BY <1>0, <1>3, <2>2, <3>1 DEF FreshInv
    <2> QED BY <1>1, <2>1, <2>2
  <1>4. ASSUME NEW c \in Callers, CallFlush(c) \/ CallWait(c) \/ CallStep(c)
        PROVE  FreshInv'
    <2>1. nextJob' = nextJob
      BY <1>4 DEF CallFlush, CallWait, CallStep, SubmitReports, SubmitClaims, SubmitSends,
                  FlushReturns, WaitReturns, FinalMerges, FinalSyncs, Leaves
    <2>2. CASE CallFlush(c) \/ CallWait(c) \/ Leaves(c)
      <3>1. /\ call'[c].pc \notin {"submit", "send"}
            /\ \A d \in Callers : d # c => call'[d] = call[d]
        BY <1>0, <2>2 DEF TypeOK, CallFlush, CallWait, Leaves, Starts, NoCall
      <3> QED BY <1>3, <2>1, <3>1
    <2>3. CASE CallStep(c) /\ ~Leaves(c)
      <3>1. PICK pc : MovesTo(c, pc) /\ pc # "submit"
                      /\ (pc = "send" => call[c].pc = "submit")
        BY <2>3 DEF CallStep, SubmitReports, SubmitClaims, SubmitSends,
                    FlushReturns, WaitReturns, FinalMerges, FinalSyncs
      <3>2. /\ call'[c].pc = pc /\ call'[c].job = call[c].job
            /\ \A d \in Callers : d # c => call'[d] = call[d]
        BY <1>0, <3>1 DEF TypeOK, Calls, MovesTo
      <3> QED BY <1>3, <2>1, <3>1, <3>2
    <2> QED BY <1>4, <2>2, <2>3
  <1>5. CASE WorkerStep \/ Drop \/ ClosesChannel \/ Joins \/ ThreadDies
    <2>1. UNCHANGED <<nextJob, call>>
      BY <1>5 DEF WorkerStep, WorkerTakes, WorkerSaves, WorkerFails, WorkerSettles,
                  WorkerExits, Drop, ClosesChannel, Joins, ThreadDies
    <2> QED BY <1>3, <2>1
  <1> QED BY <1>2, <1>4, <1>5 DEF Next

-----------------------------------------------------------------------------
(* What a call owes.                                                       *)

\* saved and told never lose a save, and what is in use stays in use.
LEMMA Grows ==
    ASSUME SaverAssumption, SaverInv, Next
    PROVE  /\ saved \subseteq saved' /\ told \subseteq told'
           /\ Used \subseteq Used'
           /\ saved \cup told \cup Unreported \subseteq saved' \cup told' \cup Unreported'
  <1>1. Used \subseteq Used'
    BY UsedStep
  <1>2. CASE \E c \in Callers : CallSave(c) \/ CallFlush(c) \/ CallWait(c)
    BY <1>1, <1>2 DEF CallSave, CallFlush, CallWait, Starts, Unreported
  <1>3. CASE \E c \in Callers : CallStep(c)
    <2>1. PICK c \in Callers : CallStep(c)
      BY <1>3
    <2>2. CASE SubmitReports(c) \/ FlushReturns(c)
      BY <1>1, <2>2 DEF SubmitReports, FlushReturns, Unreported
    <2>3. CASE ~(SubmitReports(c) \/ FlushReturns(c))
      <3>1. UNCHANGED <<saved, told, error>>
        BY <2>1, <2>3 DEF CallStep, SubmitClaims, SubmitSends, WaitReturns,
                          FinalMerges, FinalSyncs, Leaves
      <3> QED BY <1>1, <3>1 DEF Unreported
    <2> QED BY <2>2, <2>3
  <1>4. CASE WorkerStep
    <2>1. CASE WorkerSettles
      <3>1. busy /\ error = None
        BY <2>1 DEF SaverInv, SlotInv, ErrorInv, WorkerSettles, HeldByNobody
      <3> QED BY <1>1, <2>1, <3>1 DEF WorkerSettles, Unreported
    <2>2. CASE ~WorkerSettles
      BY <1>1, <1>4, <2>2 DEF WorkerStep, WorkerTakes, WorkerSaves, WorkerFails,
                              WorkerExits, Unreported
    <2> QED BY <2>1, <2>2
  <1>5. CASE Drop \/ ClosesChannel \/ Joins \/ ThreadDies
    BY <1>1, <1>5 DEF Drop, ClosesChannel, Joins, ThreadDies, Unreported
  <1> QED BY <1>2, <1>3, <1>4, <1>5 DEF Next

\* When the slot is free and no error is left, everything in use is settled.
LEMMA SettledWhenFree ==
    ASSUME SlotInv, ~busy
    PROVE  Used = saved \cup told \cup Unreported
  BY InFlightFree DEF SlotInv, Used

\* The three invariants about calls, together: they hold of a caller that does
\* not move because nothing is ever forgotten, and of the one that moves
\* because of what its action waited for.
LEMMA CallInvStep ==
    ASSUME SaverAssumption, SaverInv, Next
    PROVE  KindInv' /\ OwedInv' /\ OkMeansSettled'
  <1> DEFINE Good(c) ==
               /\ call[c].pc \in {"submit", "send", "merge", "sync"} => call[c].kind # "wait"
               /\ call[c].pc \in {"flush", "wait"} => call[c].kind = call[c].pc
               /\ call[c].owed \subseteq Used
               /\ call[c].pc \in {"send", "merge", "sync"} => call[c].owed \subseteq saved \cup told
               /\ call[c].pc = "ok" =>
                    call[c].owed \subseteq
                      saved \cup told \cup (IF call[c].kind = "wait" THEN Unreported ELSE {})
  <1>0. /\ TypeOK /\ SlotInv /\ StageInv
        /\ \A c \in Callers : Good(c)
    BY DEF SaverInv, KindInv, OwedInv, OkMeansSettled
  <1>1. /\ saved \subseteq saved' /\ told \subseteq told' /\ Used \subseteq Used'
        /\ saved \cup told \cup Unreported \subseteq saved' \cup told' \cup Unreported'
    BY Grows
  <1>2. ASSUME NEW c \in Callers, call'[c] = call[c]
        PROVE  Good(c)'
    BY <1>0, <1>1, <1>2
  <1>3. ASSUME NEW c \in Callers, CallSave(c) \/ CallFlush(c) \/ CallWait(c)
        PROVE  Good(c)'
    <2>1. PICK kind, pc, job : Starts(c, kind, pc, job)
                /\ \/ pc = "submit" /\ kind \in {"save", "final"}
                   \/ pc = "flush" /\ kind = "flush"
                   \/ pc = "wait" /\ kind = "wait"
      BY <1>3 DEF CallSave, CallFlush, CallWait
    <2>2. /\ call'[c].pc = pc /\ call'[c].kind = kind
          /\ call'[c].owed = InFlight \cup Unreported
      BY <1>0, <2>1 DEF TypeOK, Starts
    <2> QED BY <1>1, <2>1, <2>2 DEF Used
  <1>4. ASSUME NEW c \in Callers, CallStep(c)
        PROVE  Good(c)'
    <2>1. CASE Leaves(c)
      BY <1>0, <2>1 DEF TypeOK, Leaves, NoCall
    <2>2. CASE SubmitReports(c)
      <3>1. call'[c].pc = "failed" /\ call'[c].owed = call[c].owed
        BY <1>0, <2>2 DEF TypeOK, Calls, SubmitReports, MovesTo
      <3> QED BY <1>0, <1>1, <3>1
    <2>3. CASE SubmitClaims(c)
      <3>1. /\ call'[c].pc = "send" /\ call[c].pc = "submit"
            /\ call'[c].owed = call[c].owed /\ call'[c].kind = call[c].kind
        BY <1>0, <2>3 DEF TypeOK, Calls, SubmitClaims, MovesTo
      <3>2. Used = saved \cup told
        BY <1>0, <2>3, SettledWhenFree DEF SubmitClaims, Unreported
      <3> QED BY <1>0, <1>1, <3>1, <3>2
    <2>4. CASE SubmitSends(c)
      <3>1. /\ call'[c].pc \in {"merge", "ok"} /\ call[c].pc = "send"
            /\ call'[c].owed = call[c].owed /\ call'[c].kind = call[c].kind
        BY <1>0, <2>4 DEF TypeOK, Calls, SubmitSends, MovesTo
      <3> QED BY <1>0, <1>1, <3>1
    <2>5. CASE FlushReturns(c)
      <3>1. /\ call'[c].pc \in {"failed", "ok"} /\ call[c].pc = "flush"
            /\ call'[c].owed = call[c].owed /\ call'[c].kind = call[c].kind
        BY <1>0, <2>5 DEF TypeOK, Calls, FlushReturns, MovesTo
      <3>2. Used = saved \cup told \cup Unreported
        BY <1>0, <2>5, SettledWhenFree DEF FlushReturns
      <3>3. told' = told \cup Unreported
        BY <2>5 DEF FlushReturns
      <3> QED BY <1>0, <1>1, <3>1, <3>2, <3>3
    <2>6. CASE WaitReturns(c) \/ FinalMerges(c) \/ FinalSyncs(c)
      <3>1. /\ call'[c].owed = call[c].owed /\ call'[c].kind = call[c].kind
            /\ \/ call[c].pc = "wait" /\ call'[c].pc = "ok"
               \/ call[c].pc \in {"merge", "sync"} /\ call'[c].pc \in {"sync", "ok", "failed"}
        BY <1>0, <2>6 DEF TypeOK, Calls, WaitReturns, FinalMerges, FinalSyncs, MovesTo
      <3>2. Used = saved \cup told \cup Unreported
        BY <1>0, <2>6, SettledWhenFree DEF WaitReturns, FinalMerges, FinalSyncs
      <3> QED BY <1>0, <1>1, <3>1, <3>2
    <2> QED BY <1>4, <2>1, <2>2, <2>3, <2>4, <2>5, <2>6 DEF CallStep
  <1>5. ASSUME NEW c \in Callers, NEW d \in Callers, d # c,
               CallSave(d) \/ CallFlush(d) \/ CallWait(d) \/ CallStep(d)
        PROVE  call'[c] = call[c]
    <2>1. CASE CallSave(d) \/ CallFlush(d) \/ CallWait(d) \/ Leaves(d)
      BY <1>0, <1>5, <2>1 DEF TypeOK, CallSave, CallFlush, CallWait, Leaves, Starts
    <2>2. CASE CallStep(d) /\ ~Leaves(d)
      <3>1. \E pc : MovesTo(d, pc)
        BY <2>2 DEF CallStep, SubmitReports, SubmitClaims, SubmitSends, FlushReturns,
                    WaitReturns, FinalMerges, FinalSyncs
      <3> QED BY <1>0, <1>5, <3>1 DEF TypeOK, MovesTo
    <2> QED BY <1>5, <2>1, <2>2
  <1>6. ASSUME NEW c \in Callers
        PROVE  Good(c)'
    <2>1. CASE \E d \in Callers : CallSave(d) \/ CallFlush(d) \/ CallWait(d) \/ CallStep(d)
      BY <1>2, <1>3, <1>4, <1>5, <2>1
    <2>2. CASE WorkerStep \/ Drop \/ ClosesChannel \/ Joins \/ ThreadDies
      <3>1. UNCHANGED call
        BY <2>2 DEF WorkerStep, WorkerTakes, WorkerSaves, WorkerFails, WorkerSettles,
                    WorkerExits, Drop, ClosesChannel, Joins, ThreadDies
      <3> QED BY <1>2, <3>1
    <2> QED BY <2>1, <2>2 DEF Next
  <1> QED BY <1>6 DEF KindInv, OwedInv, OkMeansSettled

-----------------------------------------------------------------------------
(* The invariant, and what follows from it.                                *)

\* Nothing is in flight at first.
LEMMA InitInv == SaverAssumption /\ Init => SaverInv
  <1> SUFFICES ASSUME SaverAssumption, Init PROVE SaverInv
    OBVIOUS
  <1>1. TypeOK
    <2>1. nextJob \in 1 .. MaxJobs + 1
      BY DEF SaverAssumption, Init
    <2>2. NoCall \in Calls
      BY DEF NoCall, Calls
    <2>3. call \in [Callers -> Calls]
      BY <2>2 DEF Init
    <2>4. worker \in [pc : {"idle", "running", "done", "gone"},
                      job : Jobs \cup {None}, ok : BOOLEAN]
      BY DEF Init, IdleWorker
    <2>5. <<>> \in Seq(Jobs)
      OBVIOUS
    <2>6. channel \in Seq(Jobs)
      BY <2>5 DEF Init
    <2> QED BY <2>1, <2>3, <2>4, <2>6 DEF Init, TypeOK
  <1>2. HeldByNobody /\ InFlight = {} /\ Unreported = {}
    BY InFlightFree DEF Init, HeldByNobody, Sending, NoCall, IdleWorker, Unreported
  <1>3. SlotInv /\ StageInv /\ ErrorInv /\ OutcomeInv
    BY <1>2 DEF Init, SlotInv, StageInv, ErrorInv, OutcomeInv, IdleWorker
  <1>4. FreshInv /\ KindInv /\ OwedInv /\ OkMeansSettled
    BY <1>2 DEF Init, FreshInv, KindInv, OwedInv, OkMeansSettled, Used, NoCall
  <1> QED BY <1>1, <1>3, <1>4 DEF SaverInv

LEMMA StutterInv == SaverInv /\ UNCHANGED vars => SaverInv'
  BY DEF vars, SaverInv, TypeOK, SlotInv, StageInv, ErrorInv, OutcomeInv, FreshInv, KindInv,
         OwedInv, OkMeansSettled, Used, Unreported, InFlight, HeldBySender, HeldByChannel,
         HeldByWorker, HeldByNobody, Sending

\* SaverInv is inductive, for any callers and any number of saves.
THEOREM SaverInvariant == Spec => []SaverInv
  <1>1. Init => SaverInv
    BY InitInv, SaverAssumption
  <1>2. ASSUME SaverInv, [Next]_vars
        PROVE  SaverInv'
    <2>1. CASE Next
      <3>1. TypeOK'
        BY <1>2, TypeStep, SaverAssumption
      <3>2. StageInv'
        BY <1>2, <2>1, StageStep DEF SaverInv
      <3>3. SlotInv' /\ ErrorInv' /\ OutcomeInv'
        BY <1>2, <2>1, UsedStep, SaverAssumption
      <3>4. FreshInv'
        BY <1>2, <2>1, FreshStep, SaverAssumption
      <3>5. KindInv' /\ OwedInv' /\ OkMeansSettled'
        BY <1>2, <2>1, CallInvStep, SaverAssumption
      <3> QED BY <3>1, <3>2, <3>3, <3>4, <3>5 DEF SaverInv
    <2>2. CASE UNCHANGED vars
      BY <1>2, <2>2, StutterInv
    <2> QED BY <1>2, <2>1, <2>2
  <1> QED BY <1>1, <1>2, PTL DEF Spec

\* AsyncSaver's one flag stands for one job: the bound of submit's comment.
THEOREM OneInFlight == Spec => []BusyIsOneInFlight
  <1>1. SaverInv => BusyIsOneInFlight
    BY FlagAndFlight DEF SaverInv, BusyIsOneInFlight
  <1> QED BY <1>1, SaverInvariant, PTL

\* flush, load and save never return Ok over a save that is not settled, or
\* over a failure nobody was told.
THEOREM OkIsSettled == Spec => []OkMeansSettled
  <1>1. SaverInv => OkMeansSettled
    BY DEF SaverInv
  <1> QED BY <1>1, SaverInvariant, PTL

-----------------------------------------------------------------------------
(* The refinement.                                                         *)

\* Every step of the saver is a step of the service, or none.
LEMMA ServiceStep ==
    ASSUME SaverInv, Next
    PROVE  Service!Next \/ UNCHANGED <<InFlight, saved \ InFlight, Unreported, told>>
  <1>0. /\ TypeOK /\ SlotInv /\ StageInv /\ ErrorInv /\ OutcomeInv /\ FreshInv
        /\ Used \subseteq Jobs
        /\ \A c \in Callers : call[c].pc \in {"submit", "send"} => call[c].job \in Jobs
    BY UsedAreJobs, SaverAssumption DEF SaverInv
  <1>1. ASSUME NEW c \in Callers, SubmitClaims(c)
        PROVE  Service!Accept(call[c].job)
    <2>1. InFlight = {} /\ InFlight' = {call[c].job}
      BY <1>0, <1>1, ClaimStep
    <2>2. /\ UNCHANGED <<error, saved, told>> /\ error = None
          /\ call[c].pc = "submit"
      BY <1>1 DEF SubmitClaims
    <2>3. call[c].job \notin saved \cup told
      BY <1>0, <2>2 DEF FreshInv, Used
    <2> QED BY <2>1, <2>2, <2>3 DEF Service!Accept, Unreported
  <1>2. ASSUME NEW c \in Callers, SubmitReports(c) \/ FlushReturns(c)
        PROVE  Service!Report \/ UNCHANGED <<InFlight, saved \ InFlight, Unreported, told>>
    <2>1. InFlight' = InFlight
      BY <1>0, <1>2, QuietStep
    <2>2. error' = None /\ told' = told \cup Unreported /\ saved' = saved
      BY <1>2 DEF SubmitReports, FlushReturns, Unreported
    <2>3. Unreported' = {}
      BY <2>2 DEF Unreported
    <2> QED BY <2>1, <2>2, <2>3 DEF Service!Report
  <1>3. ASSUME NEW c \in Callers,
               CallSave(c) \/ CallFlush(c) \/ CallWait(c) \/ CallStep(c),
               ~(SubmitClaims(c) \/ SubmitReports(c) \/ FlushReturns(c))
        PROVE  UNCHANGED <<InFlight, saved \ InFlight, Unreported, told>>
    <2>1. CASE SubmitSends(c)
      <3>1. call[c].job \in Jobs
        BY <1>0, <2>1 DEF SubmitSends
      <3>2. InFlight' = InFlight
        BY <1>0, <2>1, <3>1, SendStep
      <3> QED BY <2>1, <3>2 DEF SubmitSends, Unreported
    <2>2. CASE ~SubmitSends(c)
      <3>1. InFlight' = InFlight
        BY <1>0, <1>3, <2>2, QuietStep DEF CallStep
      <3>2. UNCHANGED <<error, saved, told>>
        BY <1>3, <2>2 DEF CallSave, CallFlush, CallWait, CallStep, Starts, WaitReturns,
                          FinalMerges, FinalSyncs, Leaves
      <3> QED BY <3>1, <3>2 DEF Unreported
    <2> QED BY <2>1, <2>2
  <1>4. CASE WorkerSettles
    <2>1. InFlight = {worker.job} /\ InFlight' = {}
      BY <1>0, <1>4, WorkerSlot DEF WorkerStep
    <2>2. error = None /\ worker.job \in Jobs /\ (worker.job \in saved <=> worker.ok)
      <3>1. busy
        BY <1>0, <1>4 DEF SlotInv, HeldByNobody, WorkerSettles
      <3> QED BY <1>0, <1>4, <2>1, <3>1 DEF ErrorInv, OutcomeInv, Used, WorkerSettles
    <2>3. worker.job # None
      BY <2>2 DEF Jobs, None
    <2>4. /\ UNCHANGED <<saved, told>>
          /\ error' = IF worker.ok THEN error ELSE worker.job
      BY <1>4 DEF WorkerSettles
    <2>5. CASE worker.ok
      <3>1. Unreported' = Unreported
        BY <2>4, <2>5 DEF Unreported
      <3>2. Service!Complete(worker.job)
        BY <2>1, <2>2, <2>4, <2>5, <3>1 DEF Service!Complete
      <3> QED BY <2>2, <3>2 DEF Service!Next, Service!Settle
    <2>6. CASE ~worker.ok
      <3>1. Unreported = {} /\ Unreported' = {worker.job}
        BY <2>2, <2>3, <2>4, <2>6 DEF Unreported
      <3>2. Service!Fail(worker.job)
        BY <2>1, <2>2, <2>4, <2>6, <3>1 DEF Service!Fail
      <3> QED BY <2>2, <3>2 DEF Service!Next, Service!Settle
    <2> QED BY <2>5, <2>6
  <1>5. CASE WorkerStep /\ ~WorkerSettles
    <2>1. InFlight' = InFlight
      BY <1>0, <1>5, WorkerSlot
    <2>2. UNCHANGED <<error, told>>
      BY <1>5 DEF WorkerStep, WorkerTakes, WorkerSaves, WorkerFails, WorkerExits
    <2>3. saved' \ InFlight = saved \ InFlight
      <3>1. CASE WorkerSaves
        BY <1>0, <3>1, WorkerJobUsed DEF WorkerSaves
      <3>2. CASE ~WorkerSaves
        BY <1>5, <3>2 DEF WorkerStep, WorkerTakes, WorkerFails, WorkerExits
      <3> QED BY <3>1, <3>2
    <2> QED BY <2>1, <2>2, <2>3 DEF Unreported
  <1>6. CASE Drop \/ ClosesChannel \/ Joins \/ ThreadDies
    <2>1. UNCHANGED <<error, channel, worker, call, saved, told>>
      BY <1>6 DEF Drop, ClosesChannel, Joins, ThreadDies
    <2> QED BY <2>1 DEF InFlight, Unreported
  <1>7. ASSUME NEW c \in Callers,
               CallSave(c) \/ CallFlush(c) \/ CallWait(c) \/ CallStep(c)
        PROVE  Service!Next \/ UNCHANGED <<InFlight, saved \ InFlight, Unreported, told>>
    <2>1. CASE SubmitClaims(c)
      BY <1>0, <1>1, <2>1 DEF Service!Next, SubmitClaims
    <2>2. CASE SubmitReports(c) \/ FlushReturns(c)
      BY <1>2, <2>2 DEF Service!Next
    <2> QED BY <1>3, <1>7, <2>1, <2>2
  <1> QED BY <1>4, <1>5, <1>6, <1>7 DEF Next

\* Fairness apart, AsyncSaver does what SaveService promises; SaverService.cfg
\* checks the settling as well.
THEOREM ImplementsServiceSafely == Spec => Service!SafeSpec
  <1>1. Init => Service!Init
    BY InFlightFree DEF Init, Service!Init, Unreported, HeldByNobody, Sending, NoCall,
                        IdleWorker
  <1>2. SaverInv /\ [Next]_vars => [Service!Next]_(Service!vars)
    <2> SUFFICES ASSUME SaverInv, [Next]_vars
                 PROVE  [Service!Next]_(Service!vars)
      OBVIOUS
    <2>1. CASE Next
      BY <2>1, ServiceStep DEF Service!vars
    <2>2. CASE UNCHANGED vars
      BY <2>2 DEF vars, InFlight, Unreported, Service!vars
    <2> QED BY <2>1, <2>2
  <1> QED BY <1>1, <1>2, SaverInvariant, PTL DEF Spec, Service!SafeSpec
=============================================================================
