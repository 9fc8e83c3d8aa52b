---------------------- MODULE InboundWatermarkProofs ----------------------
(***************************************************************************)
(* The watermark for every value of the constants: whatever store write    *)
(* fails and wherever the process dies, the store names what may be lost;  *)
(* a session that closes has resolved all it took; and reactor, dispatcher *)
(* and store together keep the promise of InboundDelivery.                 *)
(***************************************************************************)
EXTENDS InboundWatermark, SequenceTheorems, TLAPS

-----------------------------------------------------------------------------
(* The invariant                                                            *)

\* The reactor has a dispatcher, from the spawn to the close-time reset.
Serving == {"opening", "ready", "handing", "acting", "closing", "drain", "left", "reset"}
Starting == {"down", "naming", "seed"}

\* What the dispatcher still has before it.
InHand == {queue[i] : i \in DOMAIN queue} \union (IF disp.st = "app" THEN {disp.n} ELSE {})

\* What a crash now would leave to the next start to name.
AtStake == Pending \union Stranded(disk.target)

\* No slot of the queue is given away twice.
SlotInv ==
    At("handing") => Len(queue) < AppQueueMax /\ reactor.target <= MaxSeq

\* The dispatcher works in order, and its mark stays below what it has not done.
Ordered ==
    /\ \A i, j \in DOMAIN queue : i < j => queue[i] < queue[j]
    /\ \A i \in DOMAIN queue : disp.written < queue[i] /\ disp.n < queue[i]
    /\ disp.st = "app" => disp.written < disp.n
    /\ disp.completed = disp.written
    /\ disp.st # "none" => disp.written >= 1

\* Nothing the dispatcher knows of has reached `bound'.
Behind(bound) ==
    /\ disp.n < bound /\ disp.written < bound /\ disp.seen < bound
    /\ reactor.published < bound
    /\ \A i \in DOMAIN queue : queue[i] < bound

DispatcherInv ==
    /\ Ordered
    /\ reactor.pc \in {"naming", "seed", "logon"} => disp = NoDispatcher /\ queue = <<>>
    /\ reactor.pc \in Serving \union {"counters"} => disp.st # "none"
    /\ reactor.pc \in Serving => Behind(reactor.target)
    /\ reactor.pc \in {"down", "counters"} => \A n \in AtStake : Behind(n)

\* Where the expectation stands, in memory and in the store.
TargetInv ==
    /\ reactor.pc \notin Starting => taken \subseteq 1 .. reactor.target - 1
    /\ policy = "CloseSession" \/ (reactor.pc \in Starting /\ ~owed) =>
         taken \subseteq 1 .. disk.target - 1
    /\ reactor.pc \in Serving \union {"logon"} /\ ~owed => disk.target = reactor.persisted
    /\ At("counters") /\ ~owed => disk.target \in {reactor.persisted, reactor.target}
    /\ At("handing") /\ policy = "CloseSession" => reactor.target < disk.target
    /\ reactor.doubt # 0 =>
         /\ reactor.doubt = reactor.target
         /\ \/ At("handing")
            \/ /\ policy = "CloseSession"
               /\ reactor.pc \in {"closing", "drain", "left", "reset", "counters"}
    /\ At("opening") => 1 <= reactor.published
    /\ At("left") => reactor.last = reactor.target - 1

\* Where the messages not accounted for are.
PendingInv ==
    /\ reactor.pc \in {"naming", "seed", "logon", "opening", "left", "reset", "counters"} =>
         Pending = {}
    /\ At("down") /\ policy = "Continue" => Pending = {}
    /\ reactor.pc \in Serving => Pending \subseteq InHand

\* What the store's watermark says of them.
MarkInv ==
    policy = "CloseSession" =>
        /\ \A n \in AtStake : 1 <= disk.watermark /\ disk.watermark < n
        /\ reactor.pc \in {"ready", "handing", "acting"} =>
             1 <= disk.watermark /\ disk.watermark < reactor.target

\* A process that runs under Continue gives its word only while it lives.
Sworn == policy = "Continue" => policy \notin CrashPolicies

Accounted == DispatcherInv /\ TargetInv /\ PendingInv /\ MarkInv

LossInv == Sworn => Accounted

-----------------------------------------------------------------------------
(* The shape of the state                                                   *)

ShapeInv == TypeOK /\ SlotInv

Reactors == [pc : Pcs, target : Targets, published : Marks,
             persisted : 0 .. (MaxSeq + 1), doubt : Marks, last : Marks]
Dispatchers == [st : {"none", "idle", "app", "writing", "failed", "done"}, n : Marks,
                seen : Marks, drain : BOOLEAN, written : Marks, completed : Marks]
Disks == [target : Targets, watermark : Marks]

LEMMA Bounds ==
    /\ MaxSeq \in Nat \ {0} /\ AppQueueMax \in Nat \ {0}
    /\ 1 \in Targets /\ 0 \in Marks /\ Down \in Reactors /\ NoDispatcher \in Dispatchers
    /\ \A t \in Targets : t - 1 \in Marks /\ (t <= MaxSeq => t + 1 \in Targets /\ t \in Marks)
    /\ Targets \subseteq 0 .. (MaxSeq + 1) /\ Numbers \subseteq Marks
BY MaxSeqAssumption, AppQueueMaxAssumption
DEF Targets, Marks, Down, NoDispatcher, Reactors, Dispatchers, Pcs, Numbers

LEMMA ShapeInitially == Init => ShapeInv
<1> SUFFICES ASSUME Init PROVE ShapeInv
  OBVIOUS
<1>1. reactor \in Reactors /\ disp \in Dispatchers /\ disk \in Disks
  BY Bounds DEF Init, Disks
<1>2. queue \in Seq(Numbers) /\ Len(queue) <= AppQueueMax
  BY Bounds DEF Init
<1> QED BY <1>1, <1>2 DEF Init, ShapeInv, TypeOK, SlotInv, Reactors, Dispatchers, Disks, At, Down

LEMMA SpanIsNumbers ==
    ASSUME NEW watermark \in Marks, NEW target \in Targets
    PROVE  /\ LossSpan(watermark, target) \subseteq Numbers
           /\ \A n : n \in LossSpan(watermark, target) <=>
                       n \in Nat /\ 1 <= watermark /\ watermark < n /\ n < target
BY Bounds DEF LossSpan, Marks, Targets, Numbers

LEMMA AccountType ==
    ASSUME NEW d \in Dispatchers, NEW mark \in Marks
    PROVE  Account(d, mark) \in Dispatchers
BY DEF Account, Dispatchers

\* A write that may or may not land leaves a store of the same shape.
LEMMA WriteTypes ==
    ASSUME disk \in Disks, NEW outcome, NEW target \in Targets, NEW mark \in Marks
    PROVE  /\ [disk EXCEPT !.target = Landed(outcome, target, @)] \in Disks
           /\ [disk EXCEPT !.watermark = Landed(outcome, mark, @)] \in Disks
<1>1. Landed(outcome, target, disk.target) \in Targets
  BY DEF Landed, Disks
<1>2. Landed(outcome, mark, disk.watermark) \in Marks
  BY DEF Landed, Disks
<1> QED BY <1>1, <1>2 DEF Disks

LEMMA SpawnTypes ==
    ASSUME NEW r \in Reactors, NEW mark \in Marks
    PROVE  /\ Spawned(r) \in Reactors /\ Spawned(r).pc = "opening"
           /\ SpawnedDispatcher(mark) \in Dispatchers
BY Bounds DEF Spawned, SpawnedDispatcher, Reactors, Dispatchers, NoDispatcher, Pcs

\* A reset clears the store, or has failed and left it.
LEMMA ResetTypes ==
    ASSUME ShapeInv, NEW outcome \in Outcomes, ResetStore(outcome)
    PROVE  /\ disk' \in Disks /\ owed' \in BOOLEAN
           /\ taken' \subseteq Numbers /\ finished' \subseteq taken' /\ reported' \subseteq Numbers
<1>1. disk \in Disks /\ owed \in BOOLEAN
  BY DEF ShapeInv, TypeOK, Disks
<1>2. [target |-> 1, watermark |-> 0] \in Disks
  BY Bounds DEF Disks
<1> QED BY <1>1, <1>2, FlagsAssumption DEF ShapeInv, TypeOK, ResetStore, history

LEMMA ShapeStart ==
    ASSUME ShapeInv, Start
    PROVE  ShapeInv'
<1> USE Bounds DEF ShapeInv, TypeOK, SlotInv, At
<1>0. /\ reactor \in Reactors /\ disp \in Dispatchers /\ disk \in Disks /\ owed \in BOOLEAN
      /\ reactor.target \in Targets /\ disk.target \in Targets /\ disk.watermark \in Marks
      /\ reactor.published \in Marks /\ reactor.last \in Marks
  BY DEF Reactors, Dispatchers, Disks
<1>o. ASSUME NEW outcome, Owing(outcome) PROVE owed' \in BOOLEAN
  BY <1>0, <1>o DEF Owing
<1>s. \A s : s \in Seq(Numbers) => Len(s) \in Nat
  BY LenProperties
<1>1. CASE StartReport
  <2>1. reactor' \in Reactors /\ reactor'.pc \in {"seed", "naming"}
    BY <1>0, <1>1 DEF StartReport, Reactors, Pcs, Down
  <2>2. reported' \subseteq Numbers
    BY <1>0, <1>1, SpanIsNumbers DEF StartReport
  <2>3. queue' \in Seq(Numbers) /\ Len(queue') <= AppQueueMax
    BY <1>1 DEF StartReport
  <2> QED BY <1>0, <1>1, <2>1, <2>2, <2>3 DEF StartReport, Reactors, Dispatchers, Disks
<1>2. CASE StartNamed
  <2>1. reactor' \in Reactors /\ reactor'.pc # "handing" /\ owed' \in BOOLEAN
    BY <1>0, <1>2 DEF StartNamed, Reactors, Pcs, Down, Owing
  <2>2. disk' \in Disks
    <3>1. PICK outcome : disk' = [disk EXCEPT !.watermark = Landed(outcome, reactor.last, @)]
      BY <1>2 DEF StartNamed
    <3> QED BY <1>0, <3>1, WriteTypes
  <2> QED BY <1>0, <1>2, <2>1, <2>2 DEF StartNamed, Reactors, Dispatchers, Disks, history
<1>3. CASE SeedFromStore
  <2>1. reactor' \in Reactors /\ reactor'.pc # "handing"
    BY <1>0, <1>3 DEF SeedFromStore, Reactors, Pcs, Down, Targets
  <2> QED BY <1>0, <1>3, <2>1 DEF SeedFromStore, Reactors, Dispatchers, Disks, history
<1>4. CASE SeedReset
  <2>1. reactor' \in Reactors /\ reactor'.pc # "handing"
    BY ONLY <1>0, <1>4, Bounds DEF SeedReset, Reactors, Pcs, Down
  <2>2. /\ disk' \in Disks /\ owed' \in BOOLEAN
        /\ taken' \subseteq Numbers /\ finished' \subseteq taken' /\ reported' \subseteq Numbers
    BY <1>4, ResetTypes DEF SeedReset
  <2> QED BY <1>0, <1>4, <2>1, <2>2 DEF SeedReset, Reactors, Dispatchers, Disks
<1>5. CASE LogonInSequence
  <2>1. PICK outcome \in Outcomes :
          /\ disk' = [disk EXCEPT !.target = Landed(outcome, reactor.target + 1, @)]
          /\ Owing(outcome)
          /\ \/ reactor' = Down /\ UNCHANGED disp
             \/ /\ reactor' = Spawned([reactor EXCEPT !.target = reactor.target + 1,
                                                      !.persisted = reactor.target + 1])
                /\ disp' = SpawnedDispatcher(reactor.target)
    <3>1. (reactor.target + 1) - 1 = reactor.target
      BY <1>0 DEF Targets
    <3> QED BY <1>5, <3>1 DEF LogonInSequence
  <2>2. reactor.target + 1 \in Targets /\ reactor.target \in Marks
    BY <1>0, <1>5 DEF LogonInSequence
  <2>3. disk' \in Disks /\ owed' \in BOOLEAN
    <3>1. disk' \in Disks
      BY <1>0, <2>1, <2>2, WriteTypes
    <3> QED BY <3>1, <1>o, <2>1
  <2>4. [reactor EXCEPT !.target = reactor.target + 1, !.persisted = reactor.target + 1] \in Reactors
    BY <1>0, <2>2 DEF Reactors
  <2>5. reactor' \in Reactors /\ reactor'.pc # "handing" /\ disp' \in Dispatchers
    BY <1>0, <2>1, <2>2, <2>4, SpawnTypes DEF Down
  <2> QED BY <1>5, <2>3, <2>5 DEF LogonInSequence, Reactors, Dispatchers, Disks, history
<1>6. CASE LogonGapped
  <2>1. reactor' \in Reactors /\ reactor'.pc # "handing" /\ disp' \in Dispatchers
    BY <1>0, <1>6, SpawnTypes DEF LogonGapped
  <2> QED BY <1>0, <1>6, <2>1 DEF LogonGapped, Reactors, Dispatchers, Disks, history
<1>7. CASE OpeningWatermark
  <2>1. reactor' \in Reactors /\ reactor'.pc # "handing"
    BY ONLY <1>0, <1>7, Bounds DEF OpeningWatermark, Reactors, Pcs
  <2>2. disk' \in Disks /\ owed' \in BOOLEAN
    <3>1. \/ UNCHANGED <<disk, owed>>
          \/ \E outcome : /\ disk' = [disk EXCEPT !.watermark = Landed(outcome, reactor.published, @)]
                          /\ Owing(outcome)
      BY <1>7 DEF OpeningWatermark
    <3>2. ASSUME NEW outcome, Owing(outcome),
                 disk' = [disk EXCEPT !.watermark = Landed(outcome, reactor.published, @)]
          PROVE  disk' \in Disks /\ owed' \in BOOLEAN
      <4>1. disk' \in Disks
        BY <1>0, <3>2, WriteTypes
      <4> QED BY <4>1, <1>o, <3>2
    <3> QED BY <1>0, <3>1, <3>2
  <2> QED BY <1>0, <1>7, <2>1, <2>2 DEF OpeningWatermark, Reactors, Dispatchers, Disks, history
<1> QED BY <1>1, <1>2, <1>3, <1>4, <1>5, <1>6, <1>7 DEF Start

LEMMA ShapeLive ==
    ASSUME ShapeInv, Live
    PROVE  ShapeInv'
<1> USE Bounds DEF ShapeInv, TypeOK, SlotInv, At
<1>0. /\ reactor \in Reactors /\ disp \in Dispatchers /\ disk \in Disks /\ owed \in BOOLEAN
      /\ reactor.target \in Targets /\ disk.target \in Targets /\ disk.watermark \in Marks
  BY DEF Reactors, Dispatchers, Disks
<1>o. ASSUME NEW outcome, Owing(outcome) PROVE owed' \in BOOLEAN
  BY <1>0, <1>o DEF Owing
<1>1. CASE PersistApp
  <2>1. reactor.target + 1 \in Targets /\ reactor.target \in Marks /\ reactor.target <= MaxSeq
    BY <1>0, <1>1 DEF PersistApp
  <2>2. disk' \in Disks /\ owed' \in BOOLEAN
    <3>1. PICK outcome : disk' = [disk EXCEPT !.target = Landed(outcome, reactor.target + 1, @)] /\ Owing(outcome)
      BY <1>1 DEF PersistApp
    <3>2. disk' \in Disks
      BY <1>0, <2>1, <3>1, WriteTypes
    <3>3. owed' \in BOOLEAN
      BY <1>o, <3>1
    <3> QED BY <3>2, <3>3
  <2>3. reactor' \in Reactors /\ reactor'.target = reactor.target
    BY ONLY <1>0, <1>1, <2>1, Bounds DEF PersistApp, Reactors, Pcs
  <2> QED BY <1>0, <1>1, <2>1, <2>2, <2>3 DEF PersistApp, Reactors, Dispatchers, Disks, history
<1>2. CASE HandOver
  <2>1. /\ reactor.target + 1 \in Targets /\ reactor.target \in Numbers
        /\ Len(queue) < AppQueueMax
    BY <1>0, <1>2 DEF HandOver, Targets, Numbers
  <2>2. reactor' \in Reactors /\ reactor'.pc # "handing"
    BY <1>0, <1>2, <2>1 DEF HandOver, Reactors, Pcs
  <2>3. queue' \in Seq(Numbers) /\ Len(queue') <= AppQueueMax
    <3>1. queue' \in Seq(Numbers) /\ Len(queue') = Len(queue) + 1 /\ Len(queue) \in Nat
      BY <1>2, <2>1, AppendProperties, LenProperties DEF HandOver
    <3> QED BY <2>1, <3>1
  <2>4. taken' \subseteq Numbers /\ finished \subseteq taken'
    BY <1>2, <2>1 DEF HandOver
  <2> QED BY <1>0, <1>2, <2>2, <2>3, <2>4 DEF HandOver, Reactors, Dispatchers, Disks
<1>3. ASSUME NEW to \in 2 .. (MaxSeq + 1), AcceptOther(to)
      PROVE  ShapeInv'
  <2>1. to \in Targets
    BY DEF Targets
  <2>2. disk' \in Disks /\ owed' \in BOOLEAN
    <3>1. PICK outcome : disk' = [disk EXCEPT !.target = Landed(outcome, to, @)] /\ Owing(outcome)
      BY <1>3 DEF AcceptOther
    <3>2. disk' \in Disks
      BY <1>0, <2>1, <3>1, WriteTypes
    <3>3. owed' \in BOOLEAN
      BY <1>o, <3>1
    <3> QED BY <3>2, <3>3
  <2>3. reactor' \in Reactors /\ reactor'.pc # "handing"
    <3>1. \/ reactor' = [reactor EXCEPT !.pc = "closing", !.persisted = to]
          \/ reactor' = [reactor EXCEPT !.pc = "acting", !.persisted = to, !.target = to]
      BY <1>3 DEF AcceptOther
    <3>2. to \in 0 .. MaxSeq + 1
      BY <2>1
    <3> QED BY ONLY <1>0, <2>1, <3>1, <3>2, Bounds DEF Reactors, Pcs
  <2> QED BY <1>0, <1>3, <2>2, <2>3 DEF AcceptOther, Reactors, Dispatchers, Disks, history
<1>4. CASE QueueFull \/ EndPass \/ StoreFailed \/ EndSession
  <2>1. reactor' \in Reactors /\ reactor'.pc # "handing"
    BY ONLY <1>0, <1>4, Bounds DEF QueueFull, EndPass, StoreFailed, EndSession, Reactors, Pcs
  <2>2. UNCHANGED <<policy, disk, owed, disp, queue, history>>
    BY <1>4 DEF QueueFull, EndPass, StoreFailed, EndSession
  <2> QED BY <1>0, <2>1, <2>2 DEF Reactors, Dispatchers, Disks, history
<1> QED BY <1>1, <1>2, <1>3, <1>4 DEF Live

LEMMA ShapeDispatch ==
    ASSUME ShapeInv, Dispatch
    PROVE  ShapeInv'
<1> USE Bounds DEF ShapeInv, TypeOK, SlotInv, At
<1>0. /\ reactor \in Reactors /\ disp \in Dispatchers /\ disk \in Disks /\ owed \in BOOLEAN
      /\ reactor.published \in Marks /\ disp.n \in Marks /\ disp.seen \in Marks
      /\ disp.written \in Marks
      /\ queue \in Seq(Numbers) /\ Len(queue) \in Nat
  BY LenProperties DEF Reactors, Dispatchers, Disks
<1>1. CASE DispatchNext
  <2>1. /\ Head(queue) \in Numbers /\ queue' \in Seq(Numbers)
        /\ Len(queue') = Len(queue) - 1
    BY <1>0, <1>1, HeadTailProperties DEF DispatchNext
  <2>2. disp' \in Dispatchers
    BY <1>0, <1>1, <2>1 DEF DispatchNext, Dispatchers
  <2> QED BY <1>0, <1>1, <2>1, <2>2 DEF DispatchNext, Reactors, Dispatchers, Disks, history
<1>2. CASE FromAppReturns
  <2>1. [disp EXCEPT !.n = 0] \in Dispatchers
    BY <1>0 DEF Dispatchers
  <2>2. disp' \in Dispatchers
    BY <1>0, <1>2, <2>1, AccountType DEF FromAppReturns
  <2> QED BY <1>0, <1>2, <2>2 DEF FromAppReturns, Reactors, Dispatchers, Disks
<1>3. CASE WatermarkWritten
  <2>1. PICK outcome : /\ disk' = [disk EXCEPT !.watermark = Landed(outcome, disp.written, @)]
                       /\ Owing(outcome)
                       /\ disp' = [disp EXCEPT !.st = IF Fatal(outcome) THEN "failed" ELSE "idle"]
    BY <1>3 DEF WatermarkWritten
  <2>2. disk' \in Disks /\ owed' \in BOOLEAN
    <3>1. disk' \in Disks
      BY <1>0, <2>1, WriteTypes
    <3>2. owed' \in BOOLEAN
      BY <1>0, <2>1 DEF Owing
    <3> QED BY <3>1, <3>2
  <2>3. disp' \in Dispatchers
    BY <1>0, <2>1 DEF Dispatchers
  <2> QED BY <1>0, <1>3, <2>2, <2>3 DEF WatermarkWritten, Reactors, Dispatchers, Disks, history
<1>4. CASE SeeMark \/ AccountMark \/ AccountLast
  <2>1. CASE SeeMark
    BY <1>0, <2>1 DEF SeeMark, Reactors, Dispatchers, Disks, history
  <2>2. CASE AccountMark
    <3>1. [disp EXCEPT !.drain = FALSE] \in Dispatchers
      BY <1>0 DEF Dispatchers
    <3>2. disp' \in Dispatchers
      BY <1>0, <2>2, <3>1, AccountType DEF AccountMark
    <3> QED BY <1>0, <2>2, <3>2 DEF AccountMark, Reactors, Dispatchers, Disks, history
  <2>3. CASE AccountLast
    <3> DEFINE d == Account(disp, reactor.published)
    <3>1. d \in Dispatchers
      BY <1>0, AccountType
    <3>2. disp' = d \/ disp' = [d EXCEPT !.st = "done"]
      BY <2>3 DEF AccountLast
    <3> HIDE DEF d
    <3>3. disp' \in Dispatchers
      BY <3>1, <3>2 DEF Dispatchers
    <3> QED BY <1>0, <2>3, <3>3 DEF AccountLast, Reactors, Dispatchers, Disks, history
  <2> QED BY <1>4, <2>1, <2>2, <2>3
<1> QED BY <1>1, <1>2, <1>3, <1>4 DEF Dispatch

LEMMA ShapeClose ==
    ASSUME ShapeInv, CloseSteps \/ Crash
    PROVE  ShapeInv'
<1> USE Bounds DEF ShapeInv, TypeOK, SlotInv, At
<1>0. /\ reactor \in Reactors /\ disp \in Dispatchers /\ disk \in Disks /\ owed \in BOOLEAN
      /\ reactor.target \in Targets /\ reactor.last \in Marks /\ reactor.doubt \in Marks
      /\ disk.target \in Targets /\ disp.completed \in Marks
  BY DEF Reactors, Dispatchers, Disks
<1>o. ASSUME NEW outcome, Owing(outcome) PROVE owed' \in BOOLEAN
  BY <1>0, <1>o DEF Owing
<1>s. ASSUME NEW target \in Targets PROVE Stranded(target) \subseteq Numbers
  BY <1>0 DEF Stranded, Targets, Numbers, Marks
<1>1. CASE CloseQueue \/ NoCloseReset
  <2>1. reactor' \in Reactors /\ reactor'.pc # "handing"
    BY ONLY <1>0, <1>1, Bounds DEF CloseQueue, NoCloseReset, Reactors, Pcs
  <2> QED BY <1>0, <1>1, <2>1 DEF CloseQueue, NoCloseReset, Reactors, Dispatchers, Disks, history
<1>2. CASE LeaveDispatcher
  <2>1. reactor' \in Reactors /\ reactor'.pc # "handing"
    BY <1>0, <1>2 DEF LeaveDispatcher, Reactors, Pcs
  <2>2. reported' \subseteq Numbers
    BY <1>0, <1>2, SpanIsNumbers DEF LeaveDispatcher
  <2> QED BY <1>0, <1>2, <2>1, <2>2 DEF LeaveDispatcher, Reactors, Dispatchers, Disks
<1>3. CASE UnfinishedNamed
  <2>1. reactor' \in Reactors /\ reactor'.pc # "handing"
    BY <1>0, <1>3 DEF UnfinishedNamed, Reactors, Pcs
  <2>2. disk' \in Disks /\ owed' \in BOOLEAN
    <3>1. PICK outcome : disk' = [disk EXCEPT !.watermark = Landed(outcome, reactor.last, @)] /\ Owing(outcome)
      BY <1>3 DEF UnfinishedNamed
    <3>2. disk' \in Disks
      BY <1>0, <2>1, <3>1, WriteTypes
    <3>3. owed' \in BOOLEAN
      BY <1>o, <3>1
    <3> QED BY <3>2, <3>3
  <2> QED BY <1>0, <1>3, <2>1, <2>2 DEF UnfinishedNamed, Reactors, Dispatchers, Disks, history
<1>4. CASE CloseReset
  <2>1. reactor' \in Reactors /\ reactor'.pc # "handing"
    BY ONLY <1>0, <1>4, Bounds DEF CloseReset, Reactors, Pcs
  <2>2. /\ disk' \in Disks /\ owed' \in BOOLEAN
        /\ taken' \subseteq Numbers /\ finished' \subseteq taken' /\ reported' \subseteq Numbers
    BY <1>4, ResetTypes DEF CloseReset
  <2> QED BY <1>0, <1>4, <2>1, <2>2 DEF CloseReset, Reactors, Dispatchers, Disks
<1>5. CASE CloseCounters
  <2>1. PICK outcome \in Outcomes, written \in {disk.target, reactor.target} :
          /\ disk' = [disk EXCEPT !.target = written] /\ Owing(outcome)
          /\ taken' = taken \union Stranded(written)
    BY <1>5 DEF CloseCounters, Landed
  <2>2. disk' \in Disks /\ owed' \in BOOLEAN
    BY <1>0, <1>o, <2>1 DEF Disks
  <2>3. taken' \subseteq Numbers /\ finished \subseteq taken'
    BY <1>0, <1>s, <2>1
  <2> QED BY <1>0, <1>5, <2>2, <2>3 DEF CloseCounters, Reactors, Dispatchers, Disks, Down
<1>6. CASE Crash
  <2>1. taken' \subseteq Numbers /\ finished \subseteq taken'
    BY <1>0, <1>s, <1>6 DEF Crash
  <2>2. queue' \in Seq(Numbers) /\ Len(queue') <= AppQueueMax
    BY <1>6 DEF Crash
  <2> QED BY <1>0, <1>6, <2>1, <2>2, FlagsAssumption DEF Crash, Reactors, Dispatchers, Disks, Down
<1> QED BY <1>1, <1>2, <1>3, <1>4, <1>5, <1>6 DEF CloseSteps

LEMMA ShapeStep ==
    ASSUME ShapeInv, [Next]_vars
    PROVE  ShapeInv'
<1>1. CASE UNCHANGED vars
  BY <1>1 DEF vars, ShapeInv, TypeOK, SlotInv, At
<1> QED BY <1>1, ShapeStart, ShapeLive, ShapeDispatch, ShapeClose DEF Next

LEMMA ShapeHolds == Spec => []ShapeInv
BY ShapeInitially, ShapeStep, PTL DEF Spec

\* The reactor never holds more than one slot of the application queue, and no
\* counter of reactor, dispatcher or store leaves its range.
THEOREM WatermarkTypeOK == Spec => []TypeOK
<1>1. ShapeInv => TypeOK
  BY DEF ShapeInv
<1> QED BY <1>1, ShapeHolds, PTL

-----------------------------------------------------------------------------
(* Small steps of the argument                                              *)

LEMMA Values ==
    ASSUME ShapeInv
    PROVE  /\ policy \in {"CloseSession", "Continue"}
           /\ reactor.target \in Nat \ {0} /\ reactor.target <= MaxSeq + 1
           /\ reactor.published \in Nat /\ reactor.doubt \in Nat /\ reactor.last \in Nat
           /\ reactor.persisted \in Nat
           /\ disk.target \in Nat \ {0} /\ disk.watermark \in Nat
           /\ disp.n \in Nat /\ disp.seen \in Nat /\ disp.written \in Nat /\ disp.completed \in Nat
           /\ queue \in Seq(Numbers) /\ Len(queue) \in Nat /\ DOMAIN queue = 1 .. Len(queue)
           /\ \A i \in DOMAIN queue : queue[i] \in Nat \ {0}
           /\ taken \subseteq Nat \ {0} /\ Pending \subseteq Nat \ {0}
<1>1. queue \in Seq(Numbers) /\ Numbers \subseteq Nat \ {0} /\ taken \subseteq Numbers
  BY DEF ShapeInv, TypeOK, Numbers
<1>2. Len(queue) \in Nat /\ DOMAIN queue = 1 .. Len(queue)
  BY <1>1, LenProperties
<1>3. \A i \in DOMAIN queue : queue[i] \in Numbers
  BY <1>1, <1>2, ElementOfSeq
<1>4. policy \in {"CloseSession", "Continue"}
  BY PoliciesAssumption DEF ShapeInv, TypeOK
<1>5. /\ reactor.target \in Nat \ {0} /\ reactor.target <= MaxSeq + 1
      /\ reactor.published \in Nat /\ reactor.doubt \in Nat /\ reactor.last \in Nat
      /\ reactor.persisted \in Nat
      /\ disk.target \in Nat \ {0} /\ disk.watermark \in Nat
      /\ disp.n \in Nat /\ disp.seen \in Nat /\ disp.written \in Nat /\ disp.completed \in Nat
  <2>1. /\ \A t \in Targets : t \in Nat \ {0} /\ t <= MaxSeq + 1
        /\ \A k \in Marks : k \in Nat
        /\ \A k \in 0 .. MaxSeq + 1 : k \in Nat
    BY ONLY Bounds DEF Marks, Targets
  <2>2. /\ reactor.target \in Targets /\ reactor.published \in Marks /\ reactor.doubt \in Marks
        /\ reactor.last \in Marks /\ reactor.persisted \in 0 .. MaxSeq + 1
        /\ disk.target \in Targets /\ disk.watermark \in Marks
        /\ disp.n \in Marks /\ disp.seen \in Marks /\ disp.written \in Marks /\ disp.completed \in Marks
    BY DEF ShapeInv, TypeOK
  <2> QED BY ONLY <2>1, <2>2
<1> QED BY <1>1, <1>2, <1>3, <1>4, <1>5 DEF Pending

\* What a write of the target leaves, and of the watermark.
LEMMA TargetWrite ==
    ASSUME ShapeInv, NEW outcome, NEW to, Owing(outcome),
           disk' = [disk EXCEPT !.target = Landed(outcome, to, @)]
    PROVE  /\ disk'.target \in {to, disk.target} /\ disk'.watermark = disk.watermark
           /\ ~owed' => ~owed /\ disk'.target = to
           /\ ~Fatal(outcome) /\ policy = "CloseSession" => disk'.target = to
<1>1. /\ disk'.target = Landed(outcome, to, disk.target)
      /\ disk'.watermark = disk.watermark
  BY DEF ShapeInv, TypeOK
<1>2. ~owed' => ~owed /\ outcome = "ok"
  BY DEF Owing
<1>3. ~Fatal(outcome) /\ policy = "CloseSession" => outcome = "ok"
  BY DEF Fatal
<1> QED BY <1>1, <1>2, <1>3 DEF Landed

LEMMA MarkWrite ==
    ASSUME ShapeInv, NEW outcome, NEW mark, Owing(outcome),
           disk' = [disk EXCEPT !.watermark = Landed(outcome, mark, @)]
    PROVE  /\ disk'.watermark \in {mark, disk.watermark} /\ disk'.target = disk.target
           /\ ~owed' => ~owed
           /\ ~Fatal(outcome) /\ policy = "CloseSession" => disk'.watermark = mark
<1>1. /\ disk'.watermark = Landed(outcome, mark, disk.watermark)
      /\ disk'.target = disk.target
  BY DEF ShapeInv, TypeOK
<1>2. ~owed' => ~owed
  BY DEF Owing
<1>3. ~Fatal(outcome) /\ policy = "CloseSession" => outcome = "ok"
  BY DEF Fatal
<1> QED BY <1>1, <1>2, <1>3 DEF Landed

\* Only the number whose write is in doubt can be stranded.
LEMMA StrandedIsDoubt ==
    ASSUME NEW target
    PROVE  \A n : n \in Stranded(target) => n = reactor.doubt /\ n \in 1 .. target - 1
BY DEF Stranded

LEMMA NothingStranded ==
    ASSUME reactor'.doubt = 0, disk'.target \in Nat
    PROVE  AtStake' = Pending'
BY DEF AtStake, Stranded

\* Nothing is queued, and nobody is there to take it.
LEMMA NobodyOrdered ==
    ASSUME disp' = NoDispatcher, queue' = <<>>
    PROVE  Ordered'
BY DEF Ordered, NoDispatcher

LEMMA OrderedStays ==
    ASSUME Ordered, UNCHANGED <<disp, queue>>
    PROVE  Ordered'
BY DEF Ordered

LEMMA InHandStays ==
    ASSUME UNCHANGED <<disp, queue>>
    PROVE  InHand' = InHand
BY DEF InHand

LEMMA PendingStays ==
    ASSUME UNCHANGED history
    PROVE  Pending' = Pending /\ taken' = taken
BY DEF Pending, history

-----------------------------------------------------------------------------
(* The start of a session                                                   *)

LEMMA StartAccounts ==
    ASSUME ShapeInv, ShapeInv', Sworn, Accounted, OpensAtOne = FALSE, Start
    PROVE  Accounted'
<1> USE DEF At
<1>0. /\ policy \in {"CloseSession", "Continue"}
      /\ reactor.target \in Nat \ {0} /\ disk.target \in Nat \ {0} /\ disk.watermark \in Nat
      /\ reactor.published \in Nat
  BY Values
<1>t. disk'.target \in Nat
  BY Bounds DEF ShapeInv, TypeOK, Targets
<1>a. DispatcherInv /\ TargetInv /\ PendingInv /\ MarkInv /\ Ordered
  BY DEF Accounted, DispatcherInv
<1>1. CASE StartReport
  <2>1. Pending' = {}
    <3> SUFFICES ASSUME NEW n \in Pending' PROVE FALSE
      OBVIOUS
    <3>1. n \in Pending /\ n \in taken /\ n \in AtStake /\ n \notin LossSpan(disk.watermark, disk.target)
      BY <1>1 DEF StartReport, Pending, AtStake
    <3>2. policy = "CloseSession"
      BY <1>0, <1>1, <1>a, <3>1 DEF StartReport, PendingInv
    <3>3. n \in 1 .. disk.target - 1 /\ 1 <= disk.watermark /\ disk.watermark < n
      BY <1>a, <3>1, <3>2 DEF TargetInv, MarkInv
    <3> QED BY <1>0, <3>1, <3>3 DEF LossSpan
  <2>2. /\ reactor'.pc \in {"naming", "seed"} /\ reactor'.doubt = 0
        /\ disp' = NoDispatcher /\ queue' = <<>>
        /\ UNCHANGED <<policy, disk, owed, taken>>
    BY <1>1 DEF StartReport, Down
  <2>3. AtStake' = {}
    BY <1>t, <2>1, <2>2, NothingStranded
  <2>4. DispatcherInv'
    BY <2>2, NobodyOrdered DEF DispatcherInv, Serving
  <2>5. TargetInv'
    BY <1>1, <1>a, <2>2 DEF StartReport, TargetInv, Starting, Serving
  <2>6. PendingInv' /\ MarkInv'
    BY <2>1, <2>2, <2>3 DEF PendingInv, MarkInv, Serving
  <2> QED BY <2>4, <2>5, <2>6 DEF Accounted
<1>2. CASE StartNamed
  <2>0. Pending = {} /\ disp = NoDispatcher /\ queue = <<>> /\ reactor.doubt = 0
    BY <1>2, <1>a DEF StartNamed, PendingInv, DispatcherInv, TargetInv
  <2>1. PICK outcome : /\ disk' = [disk EXCEPT !.watermark = Landed(outcome, reactor.last, @)]
                       /\ Owing(outcome)
    BY <1>2 DEF StartNamed
  <2>2. disk'.target = disk.target /\ (~owed' => ~owed)
    BY <2>1, MarkWrite
  <2>3. /\ reactor'.pc \in {"down", "seed"} /\ reactor'.doubt = 0
        /\ UNCHANGED <<policy, disp, queue, history>> /\ At("naming")
    BY <1>2, <2>0 DEF StartNamed, Down, ShapeInv, TypeOK
  <2>4. Pending' = {} /\ taken' = taken /\ AtStake' = {}
    BY <1>t, <2>0, <2>3, PendingStays, NothingStranded
  <2>5. DispatcherInv'
    BY <2>0, <2>3, <2>4, NobodyOrdered DEF DispatcherInv, Serving
  <2>6. TargetInv'
    BY <1>a, <2>2, <2>3, <2>4 DEF TargetInv, Starting, Serving
  <2>7. PendingInv' /\ MarkInv'
    BY <2>3, <2>4 DEF PendingInv, MarkInv, Serving
  <2> QED BY <2>5, <2>6, <2>7 DEF Accounted
<1>3. CASE SeedFromStore
  <2>0. Pending = {} /\ disp = NoDispatcher /\ queue = <<>>
    BY <1>3, <1>a DEF SeedFromStore, PendingInv, DispatcherInv
  <2>1. /\ reactor'.pc = "logon" /\ reactor'.doubt = 0 /\ reactor'.target = disk.target
        /\ reactor'.persisted = disk.target
        /\ UNCHANGED <<policy, disk, owed, disp, queue, history>> /\ ~owed /\ At("seed")
    BY <1>3 DEF SeedFromStore, Down
  <2>2. Pending' = {} /\ taken' = taken /\ AtStake' = {}
    BY <1>t, <2>0, <2>1, PendingStays, NothingStranded
  <2>3. DispatcherInv'
    BY <2>0, <2>1, NobodyOrdered DEF DispatcherInv, Serving
  <2>4. taken \subseteq 1 .. disk.target - 1
    BY <1>a, <2>1 DEF TargetInv, Starting
  <2>5. TargetInv'
    BY <2>1, <2>2, <2>4 DEF TargetInv, Starting, Serving
  <2>6. PendingInv' /\ MarkInv'
    BY <2>1, <2>2 DEF PendingInv, MarkInv, Serving
  <2> QED BY <2>3, <2>5, <2>6 DEF Accounted
<1>4. CASE SeedReset
  <2>0. Pending = {} /\ disp = NoDispatcher /\ queue = <<>> /\ reactor.doubt = 0
    BY <1>4, <1>a DEF SeedReset, PendingInv, DispatcherInv, TargetInv
  <2>1. PICK outcome \in Outcomes :
          /\ ResetStore(outcome)
          /\ reactor' = IF outcome = "ok" THEN [Down EXCEPT !.pc = "logon", !.persisted = 1]
                        ELSE Down
    BY <1>4 DEF SeedReset
  <2>2. UNCHANGED <<policy, disp, queue>> /\ At("seed")
    BY <1>4 DEF SeedReset
  <2>3. \/ outcome = "lost" /\ UNCHANGED <<disk, history>> /\ owed'
        \/ outcome # "lost" /\ disk' = [target |-> 1, watermark |-> 0] /\ taken' = {} /\ Pending' = {}
    BY <2>1 DEF ResetStore, Pending
  <2>4. Pending' = {}
    BY <2>0, <2>3, PendingStays
  <2>5. /\ reactor'.doubt = 0 /\ reactor'.pc \in {"down", "logon"}
        /\ reactor'.pc = "logon" => outcome = "ok" /\ reactor'.target = 1 /\ reactor'.persisted = 1
    BY <2>1 DEF Down
  <2>6. AtStake' = {}
    BY <1>t, <2>4, <2>5, NothingStranded
  <2>7. DispatcherInv'
    BY <2>0, <2>2, <2>5, <2>6, NobodyOrdered DEF DispatcherInv, Serving
  <2>8. TargetInv'
    <3>1. taken' = {} \/ (outcome = "lost" /\ taken' = taken /\ disk' = disk /\ owed')
      BY <2>3, PendingStays
    <3>2. outcome # "lost" => disk'.target = 1
      BY <2>3
    <3> QED BY <1>a, <2>2, <2>5, <3>1, <3>2 DEF TargetInv, Starting, Serving
  <2>9. PendingInv' /\ MarkInv'
    BY <2>4, <2>5, <2>6 DEF PendingInv, MarkInv, Serving
  <2> QED BY <2>7, <2>8, <2>9 DEF Accounted
<1>5. ASSUME NEW mark \in Nat, disp' = SpawnedDispatcher(mark), queue = <<>>, queue' = queue,
             reactor'.target = mark + 1, reactor'.published = mark, mark >= 1,
             reactor'.pc = "opening", AtStake' = {}
      PROVE  DispatcherInv'
  <2>1. /\ disp'.st = "idle" /\ disp'.n = 0 /\ disp'.seen = mark /\ disp'.written = mark
        /\ disp'.completed = mark
    BY <1>5 DEF SpawnedDispatcher, NoDispatcher
  <2> QED BY <1>5, <2>1 DEF DispatcherInv, Ordered, Behind, Serving
<1>6. CASE LogonInSequence
  <2>0. Pending = {} /\ disp = NoDispatcher /\ queue = <<>> /\ reactor.doubt = 0
    BY <1>6, <1>a DEF LogonInSequence, PendingInv, DispatcherInv, TargetInv
  <2> DEFINE next == reactor.target + 1
             spawned == Spawned([reactor EXCEPT !.target = next, !.persisted = next])
  <2>1. PICK outcome :
          /\ disk' = [disk EXCEPT !.target = Landed(outcome, next, @)]
          /\ Owing(outcome)
          /\ IF Fatal(outcome) THEN reactor' = Down /\ UNCHANGED disp
             ELSE reactor' = spawned /\ disp' = SpawnedDispatcher(next - 1)
    BY <1>6 DEF LogonInSequence
  <2>2. /\ spawned.pc = "opening" /\ spawned.target = next /\ spawned.published = next - 1
        /\ spawned.persisted = next /\ spawned.doubt = reactor.doubt
    BY DEF Spawned, ShapeInv, TypeOK
  <2>3. UNCHANGED <<policy, queue, history>> /\ At("logon")
    BY <1>6 DEF LogonInSequence
  <2>4. /\ disk'.target \in {next, disk.target} /\ (~owed' => disk'.target = next /\ ~owed)
    BY <2>1, TargetWrite
  <2> HIDE DEF spawned
  <2>5. reactor'.doubt = 0
    BY <2>0, <2>1, <2>2 DEF Down
  <2>6. Pending' = {} /\ taken' = taken /\ AtStake' = {}
    BY <1>t, <2>0, <2>3, <2>5, PendingStays, NothingStranded
  <2>7. /\ taken \subseteq 1 .. reactor.target - 1
        /\ policy = "CloseSession" => taken \subseteq 1 .. disk.target - 1
    BY <1>a, <2>3 DEF TargetInv, Starting
  <2>8. CASE reactor' = Down /\ UNCHANGED disp
    <3>1. DispatcherInv'
      BY <2>0, <2>3, <2>6, <2>8, NobodyOrdered DEF DispatcherInv, Serving, Down
    <3>2. TargetInv'
      <4>1. ~owed' => disk'.target = next
        BY <2>4
      <4>2. taken' \subseteq 1 .. next - 1 /\ (policy' = "CloseSession" => taken' \subseteq 1 .. disk'.target - 1)
        BY <1>0, <2>3, <2>4, <2>6, <2>7
      <4> QED BY <2>8, <4>1, <4>2 DEF TargetInv, Starting, Serving, Down
    <3>3. PendingInv' /\ MarkInv'
      BY <2>6, <2>8 DEF PendingInv, MarkInv, Serving, Down
    <3> QED BY <3>1, <3>2, <3>3 DEF Accounted
  <2>9. CASE reactor' = spawned /\ disp' = SpawnedDispatcher(next - 1)
    <3>1. next - 1 = reactor.target
      BY <1>0
    <3>2. DispatcherInv'
      BY <1>0, <1>5, <2>0, <2>2, <2>3, <2>6, <2>9, <3>1
    <3>3. TargetInv'
      <4>1. taken' \subseteq 1 .. next - 1 /\ (policy' = "CloseSession" => taken' \subseteq 1 .. disk'.target - 1)
        BY <1>0, <2>3, <2>4, <2>6, <2>7
      <4> QED BY <1>0, <2>2, <2>4, <2>5, <2>9, <4>1 DEF TargetInv, Starting, Serving
    <3>4. PendingInv' /\ MarkInv'
      BY <2>2, <2>6, <2>9 DEF PendingInv, MarkInv, Serving
    <3> QED BY <3>2, <3>3, <3>4 DEF Accounted
  <2> QED BY <2>1, <2>8, <2>9
<1>7. CASE LogonGapped
  <2>0. Pending = {} /\ disp = NoDispatcher /\ queue = <<>> /\ reactor.doubt = 0
    BY <1>7, <1>a DEF LogonGapped, PendingInv, DispatcherInv, TargetInv
  <2>1. /\ reactor'.pc = "opening" /\ reactor'.target = reactor.target
        /\ reactor'.published = reactor.target - 1 /\ reactor'.persisted = reactor.persisted
        /\ reactor'.doubt = 0
        /\ disp' = SpawnedDispatcher(reactor.target - 1)
        /\ UNCHANGED <<policy, disk, owed, queue, history>> /\ At("logon")
    BY <1>7, <2>0 DEF LogonGapped, Spawned, ShapeInv, TypeOK
  <2>2. reactor.target > 1
    BY <1>7 DEF LogonGapped
  <2>3. Pending' = {} /\ taken' = taken /\ AtStake' = {}
    BY <1>t, <2>0, <2>1, PendingStays, NothingStranded
  <2>4. DispatcherInv'
    <3>1. reactor.target - 1 \in Nat /\ reactor.target - 1 >= 1
      BY <1>0, <2>2
    <3>2. (reactor.target - 1) + 1 = reactor.target
      BY <1>0
    <3> QED BY <1>5, <2>0, <2>1, <2>3, <3>1, <3>2
  <2>5. TargetInv'
    BY <1>0, <1>a, <2>1, <2>2, <2>3 DEF TargetInv, Starting, Serving
  <2>6. PendingInv' /\ MarkInv'
    BY <2>1, <2>3 DEF PendingInv, MarkInv, Serving
  <2> QED BY <2>4, <2>5, <2>6 DEF Accounted
<1>8. CASE OpeningWatermark
  <2>0. Pending = {} /\ reactor.doubt = 0 /\ 1 <= reactor.published
    BY <1>8, <1>a DEF OpeningWatermark, PendingInv, TargetInv
  <2>1. PICK outcome :
          /\ disk' = [disk EXCEPT !.watermark = Landed(outcome, reactor.published, @)]
          /\ Owing(outcome)
          /\ reactor' = [reactor EXCEPT !.pc = IF Fatal(outcome) THEN "closing" ELSE "ready"]
    BY <1>0, <1>8, <2>0 DEF OpeningWatermark
  <2>2. /\ reactor'.pc = IF Fatal(outcome) THEN "closing" ELSE "ready"
        /\ reactor'.target = reactor.target /\ reactor'.published = reactor.published
        /\ reactor'.persisted = reactor.persisted /\ reactor'.doubt = 0
    BY <2>0, <2>1 DEF ShapeInv, TypeOK
  <2>3. UNCHANGED <<policy, disp, queue, history>> /\ At("opening")
    BY <1>8 DEF OpeningWatermark
  <2>4. /\ disk'.target = disk.target /\ (~owed' => ~owed)
        /\ ~Fatal(outcome) /\ policy = "CloseSession" => disk'.watermark = reactor.published
    BY <2>1, MarkWrite
  <2>5. Pending' = {} /\ taken' = taken /\ AtStake' = {}
    BY <1>t, <2>0, <2>2, <2>3, PendingStays, NothingStranded
  <2>6. Behind(reactor.target) /\ disp.st # "none"
    BY <1>a, <2>3 DEF DispatcherInv, Serving
  <2>7. DispatcherInv'
    BY <1>a, <2>2, <2>3, <2>6, OrderedStays DEF DispatcherInv, Behind, Serving
  <2>8. TargetInv'
    BY <1>a, <2>2, <2>3, <2>4, <2>5 DEF TargetInv, Starting, Serving
  <2>9. PendingInv' /\ MarkInv'
    BY <1>0, <2>0, <2>2, <2>3, <2>4, <2>5, <2>6 DEF PendingInv, MarkInv, Serving, Behind
  <2> QED BY <2>7, <2>8, <2>9 DEF Accounted
<1> QED BY <1>1, <1>2, <1>3, <1>4, <1>6, <1>7, <1>8 DEF Start

-----------------------------------------------------------------------------
(* The live session                                                         *)

LEMMA LiveAccounts ==
    ASSUME ShapeInv, ShapeInv', Sworn, Accounted, Live
    PROVE  Accounted'
<1> USE DEF At
<1>0. /\ policy \in {"CloseSession", "Continue"}
      /\ reactor.target \in Nat \ {0} /\ disk.target \in Nat \ {0} /\ disk.watermark \in Nat
      /\ reactor.published \in Nat /\ reactor.doubt \in Nat
      /\ disp.n \in Nat /\ disp.seen \in Nat /\ disp.written \in Nat
      /\ queue \in Seq(Numbers) /\ Len(queue) \in Nat /\ DOMAIN queue = 1 .. Len(queue)
      /\ \A i \in DOMAIN queue : queue[i] \in Nat
      /\ Pending \subseteq Nat \ {0}
  BY Values
<1>t. disk'.target \in Nat
  BY Bounds DEF ShapeInv, TypeOK, Targets
<1>a. DispatcherInv /\ TargetInv /\ PendingInv /\ MarkInv /\ Ordered
  BY DEF Accounted, DispatcherInv
<1>1. CASE PersistApp
  <2> DEFINE n == reactor.target
  <2>0. /\ reactor.pc \in {"ready", "acting"} /\ Pending \subseteq InHand
        /\ taken \subseteq 1 .. n - 1
        /\ policy = "CloseSession" => taken \subseteq 1 .. disk.target - 1
        /\ Behind(n) /\ disp.st # "none"
    BY <1>1, <1>a DEF PersistApp, InPass, PendingInv, TargetInv, DispatcherInv, Serving, Starting
  <2>1. PICK outcome :
          /\ disk' = [disk EXCEPT !.target = Landed(outcome, n + 1, @)] /\ Owing(outcome)
          /\ reactor' = [reactor EXCEPT !.pc = IF Fatal(outcome) THEN "closing" ELSE "handing",
                                        !.persisted = n + 1, !.doubt = n]
    BY <1>1 DEF PersistApp
  <2>2. /\ reactor'.pc = IF Fatal(outcome) THEN "closing" ELSE "handing"
        /\ reactor'.target = n /\ reactor'.published = reactor.published
        /\ reactor'.persisted = n + 1 /\ reactor'.doubt = n
    BY <2>1 DEF ShapeInv, TypeOK
  <2>3. UNCHANGED <<policy, disp, queue, history>>
    BY <1>1 DEF PersistApp
  <2>4. /\ disk'.target \in {n + 1, disk.target} /\ disk'.watermark = disk.watermark
        /\ ~owed' => ~owed /\ disk'.target = n + 1
        /\ ~Fatal(outcome) /\ policy = "CloseSession" => disk'.target = n + 1
    BY <2>1, TargetWrite
  <2>5. Pending' = Pending /\ taken' = taken /\ InHand' = InHand
    BY <2>3, PendingStays, InHandStays
  <2>6. AtStake' \subseteq Pending \union {n}
    BY <2>2, <2>5 DEF AtStake, Stranded
  <2> HIDE DEF n
  <2>7. DispatcherInv'
    BY <1>a, <2>0, <2>2, <2>3, OrderedStays DEF DispatcherInv, Behind, Serving
  <2>8. TargetInv'
    <3>1. policy' = "CloseSession" => taken' \subseteq 1 .. disk'.target - 1
      BY <1>0, <2>0, <2>3, <2>4, <2>5 DEF n
    <3>2. Fatal(outcome) => policy' = "CloseSession"
      BY <2>3 DEF Fatal
    <3> QED BY <1>0, <2>0, <2>2, <2>3, <2>4, <2>5, <3>1, <3>2 DEF TargetInv, Starting, Serving, n
  <2>9. PendingInv'
    BY <2>0, <2>2, <2>5 DEF PendingInv, Serving
  <2>10. MarkInv'
    <3> SUFFICES ASSUME policy = "CloseSession" PROVE MarkInv'
      BY <2>3 DEF MarkInv
    <3>1. 1 <= disk.watermark /\ disk.watermark < n
      BY <1>a, <2>0 DEF MarkInv, n
    <3>2. \A k \in Pending : 1 <= disk.watermark /\ disk.watermark < k
      BY <1>a DEF MarkInv, AtStake
    <3> QED BY <2>2, <2>4, <2>6, <3>1, <3>2 DEF MarkInv
  <2> QED BY <2>7, <2>8, <2>9, <2>10 DEF Accounted
<1>2. CASE HandOver
  <2> DEFINE n == reactor.target
  <2>0. /\ Pending \subseteq InHand /\ taken \subseteq 1 .. n - 1
        /\ policy = "CloseSession" => taken \subseteq 1 .. disk.target - 1 /\ n < disk.target
        /\ Behind(n) /\ disp.st # "none" /\ At("handing")
        /\ ~owed => disk.target = reactor.persisted
    BY <1>2, <1>a DEF HandOver, PendingInv, TargetInv, DispatcherInv, Serving, Starting
  <2>1. /\ reactor'.pc = "acting" /\ reactor'.target = n + 1 /\ reactor'.doubt = 0
        /\ reactor'.published = reactor.published /\ reactor'.persisted = reactor.persisted
    BY <1>2 DEF HandOver, ShapeInv, TypeOK
  <2>2. queue' = Append(queue, n) /\ taken' = taken \union {n}
        /\ UNCHANGED <<policy, disk, owed, disp, finished, reported>>
    BY <1>2 DEF HandOver
  <2> DEFINE length == Len(queue)
  <2>3. /\ length \in Nat /\ DOMAIN queue = 1 .. length /\ DOMAIN queue' = 1 .. length + 1
        /\ \A i \in DOMAIN queue' : queue'[i] = IF i = length + 1 THEN n ELSE queue[i]
    BY <1>0, <2>2
  <2> HIDE DEF n, length
  <2>4. n \in InHand' /\ InHand \subseteq InHand'
    <3>1. length + 1 \in DOMAIN queue' /\ queue'[length + 1] = n
      BY <2>3
    <3>2. \A i \in DOMAIN queue : i \in DOMAIN queue' /\ queue'[i] = queue[i]
      BY <2>3
    <3> QED BY <2>2, <3>1, <3>2 DEF InHand
  <2>5. Pending' \subseteq Pending \union {n} /\ AtStake' = Pending'
    BY <1>t, <2>1, <2>2, NothingStranded DEF Pending
  <2>6. \A i \in DOMAIN queue : queue[i] < n /\ i < length + 1 /\ i # length + 1
    BY <1>0, <2>0, <2>3 DEF Behind, n
  <2>7. Ordered'
    <3>1. \A i, j \in DOMAIN queue' : i < j => queue'[i] < queue'[j]
      <4> SUFFICES ASSUME NEW i \in 1 .. length + 1, NEW j \in 1 .. length + 1, i < j
                   PROVE  queue'[i] < queue'[j]
        BY <2>3
      <4>1. i \in DOMAIN queue /\ queue'[i] = queue[i]
        BY <2>3
      <4>2. CASE j = length + 1
        BY <2>3, <2>6, <4>1, <4>2
      <4>3. CASE j # length + 1
        <5>1. j \in DOMAIN queue /\ queue'[j] = queue[j]
          BY <2>3, <4>3
        <5> QED BY <1>a, <4>1, <5>1 DEF Ordered
      <4> QED BY <4>2, <4>3
    <3>2. \A i \in DOMAIN queue' : disp.written < queue'[i] /\ disp.n < queue'[i]
      <4> SUFFICES ASSUME NEW i \in 1 .. length + 1
                   PROVE  disp.written < queue'[i] /\ disp.n < queue'[i]
        BY <2>3
      <4>1. CASE i = length + 1
        BY <2>0, <2>3, <4>1 DEF Behind
      <4>2. CASE i # length + 1
        <5>1. i \in DOMAIN queue /\ queue'[i] = queue[i]
          BY <2>3, <4>2
        <5> QED BY <1>a, <5>1 DEF Ordered
      <4> QED BY <4>1, <4>2
    <3> QED BY <1>a, <2>2, <3>1, <3>2 DEF Ordered
  <2>8. DispatcherInv'
    <3>1. n \in Nat
      BY <1>0 DEF n
    <3>2. \A i \in DOMAIN queue' : queue'[i] < n + 1
      BY <1>0, <2>3, <2>6, <3>1
    <3>3. /\ disp'.n < n + 1 /\ disp'.written < n + 1 /\ disp'.seen < n + 1
          /\ reactor'.published < n + 1 /\ disp'.st # "none"
      <4>1. /\ disp.n < n /\ disp.written < n /\ disp.seen < n /\ reactor.published < n
            /\ disp' = disp /\ disp.st # "none"
        BY <2>0, <2>2 DEF Behind
      <4>2. disp.n \in Nat /\ disp.written \in Nat /\ disp.seen \in Nat /\ reactor.published \in Nat
        BY <1>0
      <4> QED BY <2>1, <3>1, <4>1, <4>2
    <3>4. Behind(reactor.target)'
      BY <2>1, <3>2, <3>3 DEF Behind
    <3> QED BY <2>1, <2>7, <3>3, <3>4 DEF DispatcherInv, Serving
  <2>9. TargetInv'
    <3>1. n \in Nat \ {0} /\ disk.target \in Nat
      BY <1>0 DEF n
    <3>2. taken' \subseteq 1 .. reactor'.target - 1
      BY <2>0, <2>1, <2>2, <3>1
    <3>3. policy' = "CloseSession" => taken' \subseteq 1 .. disk'.target - 1
      BY <2>0, <2>2, <3>1
    <3> QED BY <2>0, <2>1, <2>2, <3>2, <3>3 DEF TargetInv, Starting, Serving
  <2>10. PendingInv'
    BY <2>0, <2>1, <2>4, <2>5 DEF PendingInv, Serving
  <2>11. MarkInv'
    <3> SUFFICES ASSUME policy = "CloseSession" PROVE MarkInv'
      BY <2>2 DEF MarkInv
    <3>1. 1 <= disk.watermark /\ disk.watermark < n
      BY <1>a, <2>0 DEF MarkInv, n
    <3>2. \A k \in Pending : 1 <= disk.watermark /\ disk.watermark < k
      BY <1>a DEF MarkInv, AtStake
    <3>3. n \in Nat
      BY <1>0 DEF n
    <3> QED BY <1>0, <2>1, <2>2, <2>5, <3>1, <3>2, <3>3 DEF MarkInv
  <2> QED BY <2>8, <2>9, <2>10, <2>11 DEF Accounted
<1>3. ASSUME NEW to \in 2 .. (MaxSeq + 1), AcceptOther(to)
      PROVE  Accounted'
  <2> DEFINE n == reactor.target
  <2>0. /\ reactor.pc \in {"ready", "acting"} /\ Pending \subseteq InHand
        /\ taken \subseteq 1 .. n - 1 /\ reactor.doubt = 0
        /\ policy = "CloseSession" => taken \subseteq 1 .. disk.target - 1
        /\ Behind(n) /\ disp.st # "none" /\ n < to /\ to \in Nat
    <3>1. reactor.pc \in {"ready", "acting"} /\ n < to /\ to \in Nat
      BY <1>0, <1>3 DEF AcceptOther, InPass
    <3> QED BY <3>1, <1>a DEF PendingInv, TargetInv, DispatcherInv, Serving, Starting
  <2>1. PICK outcome :
          /\ disk' = [disk EXCEPT !.target = Landed(outcome, to, @)] /\ Owing(outcome)
          /\ reactor' = IF Fatal(outcome)
                        THEN [reactor EXCEPT !.pc = "closing", !.persisted = to]
                        ELSE [reactor EXCEPT !.pc = "acting", !.persisted = to, !.target = to]
    BY <1>3 DEF AcceptOther
  <2>2. /\ reactor'.pc \in {"closing", "acting"} /\ reactor'.target \in {n, to}
        /\ reactor'.published = reactor.published
        /\ reactor'.persisted = to /\ reactor'.doubt = 0
    BY <2>0, <2>1 DEF ShapeInv, TypeOK
  <2>3. UNCHANGED <<policy, disp, queue, history>>
    BY <1>3 DEF AcceptOther
  <2>4. /\ disk'.target \in {to, disk.target} /\ disk'.watermark = disk.watermark
        /\ ~owed' => ~owed /\ disk'.target = to
    BY <2>1, TargetWrite
  <2>5. Pending' = Pending /\ taken' = taken /\ InHand' = InHand /\ AtStake' = Pending
    BY <1>t, <2>2, <2>3, PendingStays, InHandStays, NothingStranded
  <2> HIDE DEF n
  <2>6. n \in Nat
    BY <1>0 DEF n
  <2>7. DispatcherInv'
    <3>1. Ordered'
      BY <1>a, <2>3, OrderedStays DEF DispatcherInv
    <3>2. Behind(to)
      <4>1. \A i \in DOMAIN queue : queue[i] < to
        BY <1>0, <2>0, <2>6 DEF Behind
      <4> QED BY <1>0, <2>0, <2>6, <4>1 DEF Behind
    <3>3. Behind(reactor.target)'
      BY <2>0, <2>2, <2>3, <3>2 DEF Behind
    <3> QED BY <2>0, <2>2, <2>3, <3>1, <3>3 DEF DispatcherInv, Serving
  <2>8. TargetInv'
    <3>1. policy' = "CloseSession" => taken' \subseteq 1 .. disk'.target - 1
      BY <1>0, <2>0, <2>3, <2>4, <2>5, <2>6
    <3>2. taken' \subseteq 1 .. reactor'.target - 1
      BY <2>0, <2>2, <2>5, <2>6
    <3> QED BY <2>2, <2>3, <2>4, <3>1, <3>2 DEF TargetInv, Starting, Serving
  <2>9. PendingInv'
    BY <2>0, <2>2, <2>5 DEF PendingInv, Serving
  <2>10. MarkInv'
    <3> SUFFICES ASSUME policy = "CloseSession" PROVE MarkInv'
      BY <2>3 DEF MarkInv
    <3>1. 1 <= disk.watermark /\ disk.watermark < n
      BY <1>a, <2>0 DEF MarkInv, n
    <3>2. \A k \in Pending : 1 <= disk.watermark /\ disk.watermark < k
      BY <1>a DEF MarkInv, AtStake
    <3>3. disk.watermark < reactor'.target
      BY <1>0, <2>0, <2>2, <2>6, <3>1
    <3> QED BY <2>4, <2>5, <3>1, <3>2, <3>3 DEF MarkInv
  <2> QED BY <2>7, <2>8, <2>9, <2>10 DEF Accounted
<1>4. CASE QueueFull \/ EndPass \/ StoreFailed \/ EndSession
  <2>0. /\ reactor.pc \in {"ready", "acting"} /\ Pending \subseteq InHand /\ reactor.doubt = 0
        /\ Behind(reactor.target) /\ disp.st # "none"
    BY <1>4, <1>a DEF QueueFull, EndPass, StoreFailed, EndSession, InPass, PendingInv, TargetInv,
                      DispatcherInv, Serving
  <2>1. /\ reactor'.pc \in {"closing", "ready"} /\ reactor'.target = reactor.target
        /\ reactor'.persisted = reactor.persisted /\ reactor'.doubt = 0
        /\ reactor'.published \in {reactor.published, reactor.target - 1}
    BY <1>4, <2>0 DEF QueueFull, EndPass, StoreFailed, EndSession, ShapeInv, TypeOK
  <2>2. UNCHANGED <<policy, disk, owed, disp, queue, history>>
    BY <1>4 DEF QueueFull, EndPass, StoreFailed, EndSession
  <2>3. Pending' = Pending /\ taken' = taken /\ InHand' = InHand /\ AtStake' = Pending
    BY <1>t, <2>1, <2>2, PendingStays, InHandStays, NothingStranded
  <2>4. DispatcherInv'
    BY <1>0, <1>a, <2>0, <2>1, <2>2, OrderedStays DEF DispatcherInv, Behind, Serving
  <2>5. TargetInv'
    BY <1>a, <2>0, <2>1, <2>2, <2>3 DEF TargetInv, Starting, Serving
  <2>6. PendingInv'
    BY <2>0, <2>1, <2>3 DEF PendingInv, Serving
  <2>7. MarkInv'
    BY <1>a, <2>0, <2>1, <2>2, <2>3 DEF MarkInv, AtStake
  <2> QED BY <2>4, <2>5, <2>6, <2>7 DEF Accounted
<1> QED BY <1>1, <1>2, <1>3, <1>4 DEF Live

-----------------------------------------------------------------------------
(* The dispatcher                                                           *)

\* A dispatcher that lives, with what it may not reach, wherever the reactor is.
LEMMA DispatcherLives ==
    ASSUME ShapeInv, DispatcherInv, disp.st # "none"
    PROVE  /\ reactor.pc \in Serving \union {"counters", "down"}
           /\ reactor.pc \in {"ready", "handing", "acting"} => reactor.pc \in Serving
BY DEF DispatcherInv, NoDispatcher, ShapeInv, TypeOK, Pcs, Serving

\* What a step of the dispatcher keeps: it reads the reactor, and reaches
\* nothing that it has not been handed.
LEMMA DispatcherMoves ==
    ASSUME ShapeInv, Accounted, disp.st # "none", disp'.st # "none",
           UNCHANGED <<policy, reactor, taken, reported>>,
           disk'.target = disk.target, ~owed' => ~owed,
           Ordered', Pending' \subseteq Pending,
           reactor.pc \in Serving => Pending' \subseteq InHand',
           \A bound \in Nat : Behind(bound) => Behind(bound)',
           policy = "CloseSession" /\ disk'.watermark # disk.watermark =>
             /\ 1 <= disk'.watermark
             /\ \A n \in AtStake : disk'.watermark < n
             /\ reactor.pc \in Serving => disk'.watermark < reactor.target
    PROVE  Accounted'
<1> USE DEF At
<1>0. /\ reactor.pc \in Serving \union {"counters", "down"}
      /\ reactor.pc \in {"ready", "handing", "acting"} => reactor.pc \in Serving
  BY DispatcherLives DEF Accounted
<1>a. DispatcherInv /\ TargetInv /\ PendingInv /\ MarkInv
  BY DEF Accounted
<1>1. AtStake' \subseteq AtStake
  BY DEF AtStake, Stranded
<1>2. AtStake \subseteq Nat /\ reactor.target \in Nat
  BY Values DEF AtStake, Stranded
<1>3. DispatcherInv'
  <2>1. reactor.pc \in Serving => Behind(reactor.target)'
    <3> DEFINE bound == reactor.target
    <3>1. bound \in Nat /\ reactor'.target = bound
      BY <1>2
    <3>2. reactor.pc \in Serving => Behind(bound)
      BY <1>a DEF DispatcherInv
    <3> HIDE DEF bound
    <3> QED BY <3>1, <3>2 DEF Behind
  <2>2. reactor.pc \in {"down", "counters"} => \A n \in AtStake' : Behind(n)'
    <3> SUFFICES ASSUME reactor.pc \in {"down", "counters"}, NEW n \in AtStake'
                 PROVE  Behind(n)'
      OBVIOUS
    <3>1. n \in AtStake /\ n \in Nat
      BY <1>1, <1>2
    <3>2. Behind(n)
      BY <1>a, <3>1 DEF DispatcherInv
    <3> QED BY <3>1, <3>2
  <2>3. reactor'.pc = reactor.pc /\ reactor'.target = reactor.target
    OBVIOUS
  <2>4. reactor.pc \notin {"naming", "seed", "logon"}
    BY <1>0 DEF Serving
  <2> QED BY <2>1, <2>2, <2>3, <2>4 DEF DispatcherInv
<1>4. TargetInv'
  BY <1>a DEF TargetInv
<1>5. PendingInv'
  BY <1>a DEF PendingInv
<1>6. MarkInv'
  BY <1>0, <1>1, <1>a DEF MarkInv
<1> QED BY <1>3, <1>4, <1>5, <1>6 DEF Accounted

\* Accounting for a mark above the last: it becomes the mark.
LEMMA AccountsFor ==
    ASSUME NEW d \in Dispatchers, NEW mark \in Nat
    PROVE  LET e == Account(d, mark)
           IN  /\ e.n = d.n /\ e.seen = d.seen /\ e.drain = d.drain
               /\ e.st \in {"idle", "writing"}
               /\ mark > d.written => e.st = "writing" /\ e.written = mark /\ e.completed = mark
               /\ mark <= d.written =>
                    e.st = "idle" /\ e.written = d.written /\ e.completed = d.completed
BY Bounds DEF Account, Dispatchers, Marks

LEMMA DispatchAccounts ==
    ASSUME ShapeInv, ShapeInv', Sworn, Accounted, Dispatch
    PROVE  Accounted'
<1> USE DEF At
<1>0. /\ reactor.target \in Nat \ {0} /\ reactor.published \in Nat /\ reactor.doubt \in Nat
      /\ disp.n \in Nat /\ disp.seen \in Nat /\ disp.written \in Nat
      /\ queue \in Seq(Numbers) /\ Len(queue) \in Nat /\ DOMAIN queue = 1 .. Len(queue)
      /\ \A i \in DOMAIN queue : queue[i] \in Nat
      /\ Pending \subseteq Nat \ {0}
  BY Values
<1>a. DispatcherInv /\ TargetInv /\ PendingInv /\ MarkInv /\ Ordered
  BY DEF Accounted, DispatcherInv
<1>d. disp \in Dispatchers
  BY DEF ShapeInv, TypeOK, Dispatchers
<1>p. reactor.pc \in Serving => Pending \subseteq InHand
  BY <1>a DEF PendingInv
<1>1. CASE DispatchNext
  <2> DEFINE length == Len(queue)
             n == Head(queue)
  <2>1. /\ disp.st = "idle" /\ queue' = Tail(queue)
        /\ UNCHANGED <<policy, disk, owed, reactor, history>>
        /\ disp' = [disp EXCEPT !.st = "app", !.n = n]
    BY <1>1 DEF DispatchNext
  <2>2. /\ length \in Nat /\ length >= 1 /\ DOMAIN queue = 1 .. length
        /\ n = queue[1] /\ DOMAIN queue' = 1 .. length - 1
        /\ \A i \in DOMAIN queue' : queue'[i] = queue[i + 1]
    BY <1>0, <1>1, HeadTailProperties, LenProperties DEF DispatchNext
  <2>3. /\ disp'.st = "app" /\ disp'.n = n /\ disp'.seen = disp.seen
        /\ disp'.written = disp.written /\ disp'.completed = disp.completed
    BY <2>1 DEF ShapeInv, TypeOK
  <2> HIDE DEF length, n
  <2>4. 1 \in DOMAIN queue /\ \A i \in DOMAIN queue' : i \in Nat /\ i + 1 \in DOMAIN queue /\ 1 < i + 1
    BY <2>2
  <2>5. Ordered'
    <3>1. \A i, j \in DOMAIN queue' : i < j => queue'[i] < queue'[j]
      <4> SUFFICES ASSUME NEW i \in DOMAIN queue', NEW j \in DOMAIN queue', i < j
                   PROVE  queue'[i] < queue'[j]
        OBVIOUS
      <4>1. i + 1 < j + 1
        BY <2>4
      <4> QED BY <1>a, <2>2, <2>4, <4>1 DEF Ordered
    <3>2. \A i \in DOMAIN queue' : disp.written < queue'[i] /\ n < queue'[i]
      BY <1>a, <2>2, <2>4 DEF Ordered
    <3>3. disp.written < n
      BY <1>a, <2>2, <2>4 DEF Ordered
    <3> QED BY <1>a, <2>1, <2>3, <3>1, <3>2, <3>3 DEF Ordered
  <2>6. Pending' = Pending
    BY <2>1, PendingStays
  <2>7. InHand \subseteq InHand'
    <3> SUFFICES ASSUME NEW k \in InHand PROVE k \in InHand'
      OBVIOUS
    <3>1. PICK i \in DOMAIN queue : k = queue[i]
      BY <2>1 DEF InHand
    <3>2. CASE i = 1
      BY <2>2, <2>3, <3>1, <3>2 DEF InHand
    <3>3. CASE i # 1
      <4>1. i - 1 \in DOMAIN queue' /\ (i - 1) + 1 = i
        BY <2>2, <3>1, <3>3
      <4>2. queue'[i - 1] = queue[i]
        BY <2>2, <4>1
      <4> QED BY <3>1, <4>1, <4>2 DEF InHand
    <3> QED BY <3>2, <3>3
  <2>8. \A bound \in Nat : Behind(bound) => Behind(bound)'
    <3> SUFFICES ASSUME NEW bound \in Nat, Behind(bound) PROVE Behind(bound)'
      OBVIOUS
    <3>1. \A i \in DOMAIN queue' : queue'[i] < bound
      BY <2>2, <2>4 DEF Behind
    <3>2. n < bound
      BY <2>2, <2>4 DEF Behind
    <3> QED BY <2>1, <2>3, <3>1, <3>2 DEF Behind
  <2>9. UNCHANGED <<taken, reported>>
    BY <2>1 DEF history
  <2> QED BY <1>p, <2>1, <2>3, <2>5, <2>6, <2>7, <2>8, <2>9, DispatcherMoves
<1>2. CASE FromAppReturns
  <2> DEFINE d == [disp EXCEPT !.n = 0]
             n == disp.n
  <2>1. /\ disp.st = "app" /\ finished' = finished \union ({n} \intersect taken)
        /\ disp' = Account(d, n)
        /\ UNCHANGED <<policy, disk, owed, reactor, queue, taken, reported>>
    BY <1>2 DEF FromAppReturns
  <2>2. /\ d \in Dispatchers /\ d.n = 0 /\ d.seen = disp.seen /\ d.written = disp.written
        /\ d.completed = disp.completed
    BY <1>d, Bounds DEF Dispatchers
  <2>3. n \in Nat /\ disp.written < n
    BY <1>0, <1>a, <2>1 DEF Ordered
  <2> HIDE DEF d
  <2>4. /\ disp'.st = "writing" /\ disp'.n = 0 /\ disp'.seen = disp.seen
        /\ disp'.written = n /\ disp'.completed = n
    BY <2>1, <2>2, <2>3, AccountsFor
  <2>5. Ordered'
    BY <1>0, <1>a, <2>1, <2>3, <2>4 DEF Ordered
  <2>6. Pending' \subseteq Pending \ {n}
    BY <2>1 DEF Pending
  <2>7. InHand \ {n} \subseteq InHand'
    BY <2>1 DEF InHand
  <2>8. \A bound \in Nat : Behind(bound) => Behind(bound)'
    BY <2>1, <2>3, <2>4 DEF Behind
  <2> QED BY <1>p, <2>1, <2>4, <2>5, <2>6, <2>7, <2>8, DispatcherMoves
<1>3. CASE WatermarkWritten
  <2>1. PICK outcome : /\ disk' = [disk EXCEPT !.watermark = Landed(outcome, disp.written, @)]
                       /\ Owing(outcome)
                       /\ disp' = [disp EXCEPT !.st = IF Fatal(outcome) THEN "failed" ELSE "idle"]
    BY <1>3 DEF WatermarkWritten
  <2>2. disp.st = "writing" /\ UNCHANGED <<policy, reactor, queue, history>>
    BY <1>3 DEF WatermarkWritten
  <2>3. /\ disk'.watermark \in {disp.written, disk.watermark} /\ disk'.target = disk.target
        /\ ~owed' => ~owed
    BY <2>1, MarkWrite
  <2>4. /\ disp'.st \in {"failed", "idle"} /\ disp'.n = disp.n /\ disp'.seen = disp.seen
        /\ disp'.written = disp.written /\ disp'.completed = disp.completed
    BY <2>1 DEF ShapeInv, TypeOK
  <2>5. Ordered'
    BY <1>a, <2>2, <2>4 DEF Ordered
  <2>6. Pending' = Pending /\ InHand' = InHand
    BY <2>2, <2>4, PendingStays DEF InHand
  <2>7. \A bound \in Nat : Behind(bound) => Behind(bound)'
    BY <2>2, <2>4 DEF Behind
  <2>8. 1 <= disp.written /\ (reactor.pc \in Serving => disp.written < reactor.target)
    BY <1>a, <2>2 DEF Ordered, DispatcherInv, Behind
  <2>9. \A n \in AtStake : disp.written < n
    <3> SUFFICES ASSUME NEW n \in AtStake PROVE disp.written < n
      OBVIOUS
    <3>1. CASE reactor.pc \in {"down", "counters"}
      BY <1>a, <3>1 DEF DispatcherInv, Behind
    <3>2. CASE reactor.pc \in Serving
      <4>1. CASE n \in Pending
        <5>1. PICK i \in DOMAIN queue : n = queue[i]
          BY <1>p, <2>2, <3>2, <4>1 DEF InHand
        <5> QED BY <1>a, <5>1 DEF Ordered
      <4>2. CASE n \in Stranded(disk.target)
        <5>1. n = reactor.doubt /\ n # 0
          BY <1>0, <4>2, StrandedIsDoubt DEF Stranded
        <5>2. n = reactor.target
          BY <1>a, <5>1 DEF TargetInv
        <5> QED BY <2>8, <3>2, <5>2
      <4> QED BY <4>1, <4>2 DEF AtStake
    <3> QED BY <1>a, <2>2, <3>1, <3>2, DispatcherLives
  <2>10. UNCHANGED <<taken, reported>>
    BY <2>2 DEF history
  <2> QED BY <1>p, <2>2, <2>3, <2>4, <2>5, <2>6, <2>7, <2>8, <2>9, <2>10, DispatcherMoves
<1>4. CASE SeeMark
  <2>1. /\ disp.st = "idle" /\ UNCHANGED <<policy, disk, owed, reactor, queue, history>>
        /\ disp' = [disp EXCEPT !.seen = reactor.published, !.drain = TRUE]
    BY <1>4 DEF SeeMark
  <2>2. /\ disp'.st = "idle" /\ disp'.n = disp.n /\ disp'.seen = reactor.published
        /\ disp'.written = disp.written /\ disp'.completed = disp.completed
    BY <2>1 DEF ShapeInv, TypeOK
  <2>3. Ordered'
    BY <1>a, <2>1, <2>2 DEF Ordered
  <2>4. Pending' = Pending /\ InHand' = InHand
    BY <2>1, <2>2, PendingStays DEF InHand
  <2>5. \A bound \in Nat : Behind(bound) => Behind(bound)'
    BY <2>1, <2>2 DEF Behind
  <2>6. UNCHANGED <<taken, reported>>
    BY <2>1 DEF history
  <2> QED BY <1>p, <2>1, <2>2, <2>3, <2>4, <2>5, <2>6, DispatcherMoves
\* The queue is empty: no mark seen can pass a message not handed over yet.
<1>5. ASSUME disp.st = "idle", queue = <<>>, queue' = queue,
             UNCHANGED <<policy, disk, owed, reactor, history>>,
             NEW d \in Dispatchers, NEW mark \in {disp.seen, reactor.published},
             d.n = disp.n, d.seen = disp.seen, d.written = disp.written,
             d.completed = disp.completed,
             disp' = Account(d, mark) \/ disp' = [Account(d, mark) EXCEPT !.st = "done"]
      PROVE  Accounted'
  <2>1. mark \in Nat
    BY <1>0, <1>5
  <2> DEFINE e == Account(d, mark)
  <2>2. e \in Dispatchers
    BY <1>5, AccountType, Bounds, <1>d DEF ShapeInv, TypeOK, Dispatchers
  <2>3. /\ e.n = disp.n /\ e.seen = disp.seen /\ e.st \in {"idle", "writing"}
        /\ e.written \in {mark, disp.written} /\ e.written >= disp.written
        /\ e.completed = e.written
    <3>1. disp.completed = disp.written
      BY <1>a DEF Ordered
    <3> QED BY <1>0, <1>5, <2>1, <3>1, AccountsFor
  <2> HIDE DEF e
  <2>4. /\ disp'.n = disp.n /\ disp'.seen = disp.seen /\ disp'.st \in {"idle", "writing", "done"}
        /\ disp'.written \in {mark, disp.written} /\ disp'.written >= disp.written
        /\ disp'.completed = disp'.written
    <3>1. disp' = e \/ disp' = [e EXCEPT !.st = "done"]
      BY <1>5 DEF e
    <3> QED BY <2>2, <2>3, <3>1 DEF Dispatchers
  <2>5. Ordered'
    <3>1. DOMAIN queue' = {}
      BY <1>5
    <3>2. disp.written >= 1
      BY <1>5, <1>a DEF Ordered
    <3>3. disp'.written >= 1
      BY <1>0, <2>1, <2>4, <3>2
    <3> QED BY <2>4, <3>1, <3>3 DEF Ordered
  <2>6. Pending' = Pending /\ InHand' = InHand
    BY <1>5, <2>4, PendingStays DEF InHand
  <2>7. \A bound \in Nat : Behind(bound) => Behind(bound)'
    BY <1>5, <2>4 DEF Behind
  <2>8. UNCHANGED <<taken, reported>> /\ disp'.st # "none"
    BY <1>5, <2>4 DEF history
  <2> QED BY <1>p, <1>5, <2>5, <2>6, <2>7, <2>8, DispatcherMoves
<1>6. CASE AccountMark
  <2> DEFINE d == [disp EXCEPT !.drain = FALSE]
  <2>1. /\ d \in Dispatchers /\ d.n = disp.n /\ d.seen = disp.seen /\ d.written = disp.written
        /\ d.completed = disp.completed
    BY <1>d DEF Dispatchers
  <2> HIDE DEF d
  <2> QED BY <1>5, <1>6, <2>1 DEF AccountMark, d
<1>7. CASE AccountLast
  BY <1>5, <1>7, <1>d DEF AccountLast
<1> QED BY <1>1, <1>2, <1>3, <1>4, <1>6, <1>7 DEF Dispatch

-----------------------------------------------------------------------------
(* The close, and a crash                                                   *)

LEMMA CloseAccounts ==
    ASSUME ShapeInv, ShapeInv', Sworn, Accounted, CloseSteps
    PROVE  Accounted'
<1> USE DEF At
<1>0. /\ policy \in {"CloseSession", "Continue"}
      /\ reactor.target \in Nat \ {0} /\ disk.target \in Nat \ {0} /\ disk.watermark \in Nat
      /\ reactor.published \in Nat /\ reactor.doubt \in Nat
      /\ disp.written \in Nat
      /\ \A i \in DOMAIN queue : queue[i] \in Nat
      /\ Pending \subseteq Nat \ {0}
  BY Values
<1>t. disk'.target \in Nat
  BY Bounds DEF ShapeInv, TypeOK, Targets
<1>a. DispatcherInv /\ TargetInv /\ PendingInv /\ MarkInv /\ Ordered
  BY DEF Accounted, DispatcherInv
<1>1. CASE CloseQueue
  <2>1. /\ reactor'.pc = "drain" /\ reactor'.target = reactor.target
        /\ reactor'.persisted = reactor.persisted /\ reactor'.doubt = reactor.doubt
        /\ reactor'.published = reactor.target - 1
        /\ UNCHANGED <<policy, disk, owed, disp, queue, history>> /\ At("closing")
    BY <1>1 DEF CloseQueue, ShapeInv, TypeOK
  <2>2. Pending' = Pending /\ taken' = taken /\ InHand' = InHand /\ AtStake' = AtStake
    BY <2>1, PendingStays, InHandStays DEF AtStake, Stranded
  <2>3. DispatcherInv'
    BY <1>0, <1>a, <2>1, OrderedStays DEF DispatcherInv, Behind, Serving
  <2>4. TargetInv'
    BY <1>a, <2>1, <2>2 DEF TargetInv, Starting, Serving
  <2>5. PendingInv' /\ MarkInv'
    BY <1>a, <2>1, <2>2 DEF PendingInv, MarkInv, Serving
  <2> QED BY <2>3, <2>4, <2>5 DEF Accounted
<1>2. CASE LeaveDispatcher
  <2> DEFINE span == LossSpan(disp.completed, reactor.target)
  <2>1. /\ reported' = reported \union span
        /\ reactor' = [reactor EXCEPT !.pc = IF span = {} THEN "reset" ELSE "left",
                                      !.last = reactor.target - 1]
        /\ UNCHANGED <<policy, disk, owed, disp, queue, taken, finished>> /\ At("drain")
    BY <1>2 DEF LeaveDispatcher
  <2> HIDE DEF span
  <2>2. /\ reactor'.pc \in {"reset", "left"} /\ reactor'.target = reactor.target
        /\ reactor'.persisted = reactor.persisted /\ reactor'.doubt = reactor.doubt
        /\ reactor'.published = reactor.published /\ reactor'.last = reactor.target - 1
    BY <2>1 DEF ShapeInv, TypeOK
  <2>3. /\ Behind(reactor.target) /\ disp.st # "none" /\ Pending \subseteq InHand
        /\ disp.completed = disp.written /\ 1 <= disp.written
    BY <1>a, <2>1 DEF DispatcherInv, PendingInv, Ordered, Serving
  <2>4. Pending \subseteq span
    <3> SUFFICES ASSUME NEW n \in Pending PROVE n \in span
      OBVIOUS
    <3>1. disp.written < n /\ n < reactor.target
      BY <1>a, <2>3 DEF InHand, Ordered, Behind
    <3> QED BY <1>0, <2>3, <3>1 DEF LossSpan, span
  <2>5. Pending' = {} /\ AtStake' \subseteq AtStake
    BY <2>1, <2>2, <2>4 DEF Pending, AtStake, Stranded
  <2>6. DispatcherInv'
    BY <1>a, <2>1, <2>2, <2>3, OrderedStays DEF DispatcherInv, Behind, Serving
  <2>7. TargetInv'
    BY <1>a, <2>1, <2>2 DEF TargetInv, Starting, Serving
  <2>8. PendingInv' /\ MarkInv'
    BY <1>a, <2>1, <2>2, <2>5 DEF PendingInv, MarkInv, Serving
  <2> QED BY <2>6, <2>7, <2>8 DEF Accounted
<1>3. CASE UnfinishedNamed
  <2>1. PICK outcome : /\ disk' = [disk EXCEPT !.watermark = Landed(outcome, reactor.last, @)]
                       /\ Owing(outcome)
    BY <1>3 DEF UnfinishedNamed
  <2>2. /\ reactor'.pc = "reset" /\ reactor'.target = reactor.target
        /\ reactor'.persisted = reactor.persisted /\ reactor'.doubt = reactor.doubt
        /\ reactor'.published = reactor.published
        /\ UNCHANGED <<policy, disp, queue, history>> /\ At("left")
    BY <1>3 DEF UnfinishedNamed, ShapeInv, TypeOK
  <2>3. /\ disk'.watermark \in {reactor.last, disk.watermark} /\ disk'.target = disk.target
        /\ ~owed' => ~owed
    BY <2>1, MarkWrite
  <2>4. Pending' = {} /\ taken' = taken /\ AtStake' = AtStake /\ Pending = {}
    BY <1>a, <2>2, <2>3, PendingStays DEF PendingInv, AtStake, Stranded
  <2>5. Behind(reactor.target) /\ disp.st # "none" /\ 1 <= disp.written
    BY <1>a, <2>2 DEF DispatcherInv, Ordered, Serving
  <2>6. DispatcherInv'
    BY <1>a, <2>2, <2>5, OrderedStays DEF DispatcherInv, Behind, Serving
  <2>7. TargetInv'
    BY <1>a, <2>2, <2>3, <2>4 DEF TargetInv, Starting, Serving
  <2>8. MarkInv'
    <3>1. reactor.last = reactor.target - 1 /\ 1 <= reactor.last
      BY <1>0, <1>a, <2>2, <2>5 DEF TargetInv, Behind
    <3>2. \A n \in AtStake : n = reactor.target
      BY <1>a, <2>4 DEF AtStake, Stranded, TargetInv
    <3>3. \A n \in AtStake : reactor.last < n
      BY <1>0, <3>1, <3>2
    <3> QED BY <1>a, <2>2, <2>3, <2>4, <3>1, <3>3 DEF MarkInv
  <2>9. PendingInv'
    BY <2>2, <2>4 DEF PendingInv, Serving
  <2> QED BY <2>6, <2>7, <2>8, <2>9 DEF Accounted
\* At the close-time reset, only a number in doubt is at stake.
<1>4. ASSUME At("reset")
      PROVE  /\ Pending = {} /\ Behind(reactor.target) /\ disp.st # "none"
             /\ \A n \in AtStake : n = reactor.target /\ Behind(n)
  <2>1. Pending = {} /\ Behind(reactor.target) /\ disp.st # "none"
    BY <1>4, <1>a DEF PendingInv, DispatcherInv, Serving
  <2>2. \A n \in AtStake : n = reactor.target
    BY <1>a, <2>1, <1>0 DEF AtStake, Stranded, TargetInv
  <2>3. \A n \in AtStake : Behind(n)
    <3> DEFINE target == reactor.target
    <3>1. Behind(target) /\ \A n \in AtStake : n = target
      BY <2>1, <2>2
    <3> HIDE DEF target
    <3> QED BY <3>1
  <2> QED BY <2>1, <2>2, <2>3
<1>5. CASE NoCloseReset
  <2>1. /\ reactor'.pc = "counters" /\ reactor'.target = reactor.target
        /\ reactor'.persisted = reactor.persisted /\ reactor'.doubt = reactor.doubt
        /\ reactor'.published = reactor.published
        /\ UNCHANGED <<policy, disk, owed, disp, queue, history>> /\ At("reset")
    BY <1>5 DEF NoCloseReset, ShapeInv, TypeOK
  <2>2. Pending' = {} /\ taken' = taken /\ AtStake' = AtStake
    BY <1>4, <2>1, PendingStays DEF AtStake, Stranded
  <2>3. \A n \in AtStake' : Behind(n)'
    BY <1>4, <2>1, <2>2 DEF Behind
  <2>4. DispatcherInv'
    BY <1>4, <1>a, <2>1, <2>3, OrderedStays DEF DispatcherInv, Serving
  <2>5. TargetInv'
    BY <1>a, <2>1, <2>2 DEF TargetInv, Starting, Serving
  <2>6. PendingInv' /\ MarkInv'
    BY <1>a, <2>1, <2>2 DEF PendingInv, MarkInv, Serving
  <2> QED BY <2>4, <2>5, <2>6 DEF Accounted
<1>6. CASE CloseReset
  <2>1. PICK outcome \in Outcomes :
          /\ ResetStore(outcome)
          /\ reactor' = IF outcome = "ok"
                        THEN [reactor EXCEPT !.pc = "counters", !.target = 1, !.doubt = 0]
                        ELSE [reactor EXCEPT !.pc = "counters", !.persisted = reactor.target]
    BY <1>6 DEF CloseReset
  <2>2. UNCHANGED <<policy, disp, queue>> /\ At("reset")
    BY <1>6 DEF CloseReset
  <2>3. \/ outcome = "lost" /\ UNCHANGED <<disk, history>> /\ owed'
        \/ /\ outcome # "lost" /\ disk' = [target |-> 1, watermark |-> 0]
           /\ taken' = {} /\ Pending' = {} /\ (outcome # "ok" => owed')
    BY <2>1 DEF ResetStore, Pending
  <2>4. /\ reactor'.pc = "counters" /\ reactor'.published = reactor.published
        /\ outcome = "ok" => reactor'.target = 1 /\ reactor'.doubt = 0
        /\ outcome # "ok" => /\ reactor'.target = reactor.target
                             /\ reactor'.doubt = reactor.doubt
    BY <2>1 DEF ShapeInv, TypeOK
  <2>5. Pending' = {} /\ (taken' = {} \/ (outcome = "lost" /\ taken' = taken))
    BY <1>4, <2>2, <2>3, PendingStays
  <2>6. AtStake' = {} \/ (outcome = "lost" /\ AtStake' = AtStake /\ disk' = disk)
    <3>1. CASE outcome = "lost"
      BY <1>4, <2>2, <2>3, <2>4, <2>5, <3>1 DEF AtStake, Stranded
    <3>2. CASE outcome # "lost"
      <4>1. disk'.target = 1
        BY <2>3, <3>2
      <4>2. 1 .. disk'.target - 1 = {}
        BY <4>1
      <4> QED BY <2>5, <4>2 DEF AtStake, Stranded
    <3> QED BY <3>1, <3>2
  <2>7. \A n \in AtStake' : Behind(n)'
    BY <1>4, <2>2, <2>4, <2>6 DEF Behind
  <2>8. DispatcherInv'
    BY <1>4, <1>a, <2>2, <2>4, <2>7, OrderedStays DEF DispatcherInv, Serving
  <2>9. TargetInv'
    <3>1. taken' \subseteq 1 .. reactor'.target - 1
      BY <1>a, <2>2, <2>4, <2>5 DEF TargetInv, Starting
    <3>2. policy' = "CloseSession" => taken' \subseteq 1 .. disk'.target - 1
      BY <1>a, <2>2, <2>3, <2>5 DEF TargetInv
    <3>3. ~owed' => outcome = "ok" /\ disk'.target = 1 /\ reactor'.target = 1
      BY <2>3, <2>4
    <3>4. reactor'.doubt # 0 => reactor'.doubt = reactor'.target /\ policy' = "CloseSession"
      BY <1>a, <2>2, <2>4 DEF TargetInv
    <3> QED BY <2>4, <3>1, <3>2, <3>3, <3>4 DEF TargetInv, Starting, Serving
  <2>10. PendingInv' /\ MarkInv'
    BY <1>a, <2>2, <2>4, <2>5, <2>6 DEF PendingInv, MarkInv, Serving
  <2> QED BY <2>8, <2>9, <2>10 DEF Accounted
<1>7. CASE CloseCounters
  <2>1. PICK outcome : LET written == IF reactor.persisted = reactor.target THEN disk.target
                                      ELSE Landed(outcome, reactor.target, disk.target)
                       IN  /\ disk' = [disk EXCEPT !.target = written] /\ Owing(outcome)
                           /\ taken' = taken \union Stranded(written)
    BY <1>7 DEF CloseCounters
  <2> DEFINE written == IF reactor.persisted = reactor.target THEN disk.target
                        ELSE Landed(outcome, reactor.target, disk.target)
  <2>2. /\ disk'.target = written /\ disk'.watermark = disk.watermark
        /\ taken' = taken \union Stranded(written)
    BY <2>1 DEF ShapeInv, TypeOK
  <2>3. /\ reactor' = Down /\ UNCHANGED <<policy, disp, queue, finished, reported>>
        /\ At("counters")
    BY <1>7 DEF CloseCounters
  <2>4. written \in {disk.target, reactor.target}
    BY DEF Landed
  <2>5. ~owed' => written = reactor.target
    <3> SUFFICES ASSUME ~owed' PROVE written = reactor.target
      OBVIOUS
    <3>1. ~owed /\ outcome = "ok"
      BY <2>1 DEF Owing
    <3>2. disk.target \in {reactor.persisted, reactor.target}
      BY <1>a, <2>3, <3>1 DEF TargetInv
    <3> QED BY <3>1, <3>2 DEF Landed
  <2> HIDE DEF written
  <2>6. /\ Pending = {} /\ taken \subseteq 1 .. reactor.target - 1
        /\ policy = "CloseSession" => taken \subseteq 1 .. disk.target - 1
        /\ reactor.doubt # 0 => reactor.doubt = reactor.target /\ policy = "CloseSession"
    BY <1>a, <2>3 DEF PendingInv, TargetInv, Starting
  <2>7. Stranded(written) \subseteq Stranded(disk.target) /\ Stranded(written) \subseteq 1 .. written - 1
    BY <1>0, <2>4, <2>6 DEF Stranded
  <2>8. policy = "Continue" => Stranded(written) = {}
    <3>1. policy = "Continue" => reactor.doubt = 0
      BY <2>6
    <3> QED BY <1>0, <2>4, <3>1 DEF Stranded
  <2>9. Pending' \subseteq Stranded(written) /\ AtStake' = Pending' /\ reactor'.doubt = 0
    BY <1>t, <2>2, <2>3, <2>6, NothingStranded DEF Pending, Down
  <2>10. AtStake' \subseteq AtStake
    BY <2>7, <2>9 DEF AtStake
  <2>11. DispatcherInv'
    <3>1. \A n \in AtStake' : Behind(n)'
      <4> SUFFICES ASSUME NEW n \in AtStake' PROVE Behind(n)'
        OBVIOUS
      <4>1. Behind(n) /\ 0 < n
        BY <1>0, <1>a, <2>3, <2>7, <2>9, <2>10 DEF DispatcherInv, Stranded
      <4> QED BY <2>3, <4>1 DEF Behind, Down
    <3> QED BY <1>a, <2>3, <3>1, OrderedStays DEF DispatcherInv, Serving, Down
  <2>12. TargetInv'
    <3>1. policy = "CloseSession" \/ ~owed' => taken' \subseteq 1 .. disk'.target - 1
      BY <1>0, <2>2, <2>4, <2>5, <2>6, <2>7
    <3> QED BY <2>3, <2>9, <3>1 DEF TargetInv, Starting, Serving, Down
  <2>13. PendingInv'
    BY <2>3, <2>8, <2>9 DEF PendingInv, Serving, Down
  <2>14. MarkInv'
    BY <1>a, <2>2, <2>3, <2>10 DEF MarkInv, Down
  <2> QED BY <2>11, <2>12, <2>13, <2>14 DEF Accounted
<1> QED BY <1>1, <1>2, <1>3, <1>5, <1>6, <1>7 DEF CloseSteps

LEMMA CrashAccounts ==
    ASSUME ShapeInv, ShapeInv', Sworn, Accounted, Crash
    PROVE  Accounted'
<1> USE DEF At
<1>a. DispatcherInv /\ TargetInv /\ PendingInv /\ MarkInv
  BY DEF Accounted
<1>1. /\ reactor' = Down /\ disp' = NoDispatcher /\ queue' = <<>>
      /\ taken' = taken \union Stranded(disk.target)
      /\ UNCHANGED <<policy, disk, finished, reported>> /\ policy \in CrashPolicies
  BY DEF Crash
<1>2. policy = "CloseSession"
  BY <1>1, Values DEF Sworn
<1>3. disk'.target \in Nat
  BY Bounds DEF ShapeInv, TypeOK, Targets
<1>4. AtStake' = Pending' /\ Pending' \subseteq AtStake
  BY <1>1, <1>3, NothingStranded DEF Pending, AtStake, Down
<1>5. \A n \in AtStake' : n \in Nat /\ 0 < n
  <2>1. Pending' \subseteq Numbers
    BY DEF ShapeInv, TypeOK, Pending
  <2> QED BY <1>4, <2>1 DEF Numbers
<1>6. DispatcherInv'
  <2>1. \A n \in AtStake' : Behind(n)'
    BY <1>1, <1>5 DEF Behind, Down, NoDispatcher
  <2> QED BY <1>1, <2>1, NobodyOrdered DEF DispatcherInv, Serving, Down
<1>7. TargetInv'
  <2>1. taken' \subseteq 1 .. disk'.target - 1
    BY <1>1, <1>2, <1>a DEF TargetInv, Stranded
  <2> QED BY <1>1, <2>1 DEF TargetInv, Starting, Serving, Down
<1>8. PendingInv' /\ MarkInv'
  BY <1>1, <1>2, <1>4, <1>a DEF PendingInv, MarkInv, Serving, Down
<1> QED BY <1>6, <1>7, <1>8 DEF Accounted

-----------------------------------------------------------------------------
(* The theorems                                                             *)

LEMMA LossInitially ==
    ASSUME Init
    PROVE  ShapeInv /\ LossInv
<1>1. ShapeInv
  BY ShapeInitially
<1>2. /\ reactor = Down /\ disp = NoDispatcher /\ queue = <<>> /\ taken = {}
      /\ Pending = {} /\ AtStake = {}
  BY DEF Init, Pending, AtStake, Stranded, Down
<1>3. DispatcherInv
  BY <1>2 DEF DispatcherInv, Ordered, NoDispatcher, Serving, Down
<1>4. TargetInv /\ PendingInv /\ MarkInv
  BY <1>2 DEF TargetInv, PendingInv, MarkInv, Serving, Starting, Down, At
<1> QED BY <1>1, <1>3, <1>4 DEF LossInv, Accounted

LEMMA LossStep ==
    ASSUME OpensAtOne = FALSE, ShapeInv, LossInv, [Next]_vars
    PROVE  LossInv'
<1>1. ShapeInv'
  BY ShapeStep
<1>2. policy' = policy
  <2>1. CASE Start
    BY <2>1 DEF Start, StartReport, StartNamed, SeedFromStore, SeedReset, LogonInSequence,
                LogonGapped, OpeningWatermark
  <2>2. CASE Live
    BY <2>2 DEF Live, PersistApp, QueueFull, HandOver, EndPass, StoreFailed, EndSession, AcceptOther
  <2>3. CASE Dispatch
    BY <2>3 DEF Dispatch, DispatchNext, FromAppReturns, WatermarkWritten, SeeMark, AccountMark,
                AccountLast
  <2>4. CASE CloseSteps \/ Crash
    BY <2>4 DEF CloseSteps, CloseQueue, LeaveDispatcher, UnfinishedNamed, CloseReset,
                NoCloseReset, CloseCounters, Crash
  <2> QED BY <2>1, <2>2, <2>3, <2>4 DEF Next, vars
<1>3. ASSUME Sworn, Accounted PROVE Accounted'
  <2>1. CASE UNCHANGED vars
    BY <1>3, <2>1 DEF vars, Accounted, DispatcherInv, TargetInv, PendingInv, MarkInv, Ordered,
                      Behind, InHand, AtStake, Stranded, Pending, At
  <2> QED BY <1>1, <1>3, <2>1, StartAccounts, LiveAccounts, DispatchAccounts, CloseAccounts,
             CrashAccounts DEF Next
<1> QED BY <1>2, <1>3 DEF LossInv, Sworn

LEMMA LossInvHolds ==
    ASSUME OpensAtOne = FALSE
    PROVE  Spec => [](ShapeInv /\ LossInv)
<1>1. Init => ShapeInv /\ LossInv
  BY LossInitially
<1>2. (ShapeInv /\ LossInv) /\ [Next]_vars => (ShapeInv /\ LossInv)'
  BY LossStep, ShapeStep
<1> QED BY <1>1, <1>2, PTL DEF Spec

\* Under CloseSession the store always names what a crash would lose: the
\* target is persisted before a message is acted on, the watermark only after
\* from_app has returned (deliver_app, account, report_inbound_loss).  It needs
\* streams that do not open on a gapped Logon: the other case is the finding.
THEOREM LossAlwaysNamed ==
    ASSUME OpensAtOne = FALSE
    PROVE  Spec => []LossIsNamed
<1>1. ShapeInv /\ LossInv => LossIsNamed
  <2> SUFFICES ASSUME ShapeInv, LossInv, policy = "CloseSession", NEW n \in Pending
               PROVE  n \in LossSpan(disk.watermark, disk.target)
    BY DEF LossIsNamed
  <2>1. TargetInv /\ MarkInv
    BY DEF LossInv, Sworn, Accounted
  <2>2. 1 <= disk.watermark /\ disk.watermark < n /\ n \in 1 .. disk.target - 1
    BY <2>1 DEF TargetInv, MarkInv, AtStake, Pending
  <2> QED BY <2>2, Values DEF LossSpan
<1> QED BY <1>1, LossInvHolds, PTL

\* A session that closes has finished or reported everything it took, from
\* what the dispatcher says in memory, whatever the store made of it
\* (report_unfinished); Continue swears to nothing after a crash.
THEOREM ClosesResolved ==
    ASSUME OpensAtOne = FALSE, "Continue" \notin CrashPolicies
    PROVE  Spec => []ResolvedAtClose
<1>1. LossInv => ResolvedAtClose
  BY DEF LossInv, Sworn, Accounted, PendingInv, ResolvedAtClose, At
<1> QED BY <1>1, LossInvHolds, PTL

-----------------------------------------------------------------------------
(* The promise kept                                                         *)

\* A number stranded by a crash or a close is taken then, if it was not before.
LEMMA StrandedTaken ==
    ASSUME ShapeInv, NEW target \in Nat, taken' = taken \union Stranded(target),
           UNCHANGED <<finished, reported>>
    PROVE  [Delivery!Next]_(Delivery!vars)
<1>1. CASE Stranded(target) \subseteq taken
  BY <1>1 DEF Delivery!vars
<1>2. CASE ~(Stranded(target) \subseteq taken)
  <2>1. /\ Stranded(target) = {reactor.doubt} /\ reactor.doubt \notin taken
        /\ reactor.doubt \in 1 .. target - 1 /\ reactor.doubt \in Marks
    BY <1>2 DEF Stranded, ShapeInv, TypeOK
  <2>2. reactor.doubt \in Numbers
    BY <2>1, Bounds DEF Marks, Numbers
  <2>3. Delivery!Take(reactor.doubt)
    BY <2>1 DEF Delivery!Take
  <2> QED BY <2>2, <2>3 DEF Delivery!Next
<1> QED BY <1>1, <1>2

\* A reset that clears the store renews the stream.
LEMMA ResetRenews ==
    ASSUME Pending = {}, NEW outcome, ResetStore(outcome)
    PROVE  [Delivery!Next]_(Delivery!vars)
BY DEF Pending, ResetStore, history, Delivery!Next, Delivery!Renew, Delivery!Resolved, Delivery!vars

LEMMA StepDelivers ==
    ASSUME ShapeInv, Accounted, [Next]_vars
    PROVE  [Delivery!Next]_(Delivery!vars)
<1>a. TargetInv /\ PendingInv
  BY DEF Accounted
<1>d. UNCHANGED history => [Delivery!Next]_(Delivery!vars)
  BY DEF history, Delivery!vars
<1>1. CASE StartReport
  <2>1. disk.watermark \in Marks /\ disk.target \in Targets
    BY DEF ShapeInv, TypeOK
  <2>2. LossSpan(disk.watermark, disk.target) \in SUBSET Numbers
    BY <2>1, SpanIsNumbers
  <2>3. Delivery!Report(LossSpan(disk.watermark, disk.target))
    BY <1>1 DEF StartReport, Delivery!Report
  <2> QED BY <2>2, <2>3 DEF Delivery!Next
<1>2. CASE LeaveDispatcher
  <2>1. disp.completed \in Marks /\ reactor.target \in Targets
    BY DEF ShapeInv, TypeOK
  <2>2. LossSpan(disp.completed, reactor.target) \in SUBSET Numbers
    BY <2>1, SpanIsNumbers
  <2>3. Delivery!Report(LossSpan(disp.completed, reactor.target))
    BY <1>2 DEF LeaveDispatcher, Delivery!Report
  <2> QED BY <2>2, <2>3 DEF Delivery!Next
<1>3. CASE SeedReset
  <2>1. Pending = {}
    BY <1>3, <1>a DEF SeedReset, PendingInv, At
  <2> QED BY <1>3, <2>1, ResetRenews DEF SeedReset
<1>4. CASE CloseReset
  <2>1. Pending = {}
    BY <1>4, <1>a DEF CloseReset, PendingInv, At
  <2> QED BY <1>4, <2>1, ResetRenews DEF CloseReset
<1>5. CASE HandOver
  <2>1. reactor.target \in Targets /\ reactor.target <= MaxSeq /\ reactor.pc = "handing"
    BY <1>5 DEF HandOver, ShapeInv, TypeOK, SlotInv, At
  <2>2. reactor.target \in Numbers /\ reactor.target \notin 1 .. reactor.target - 1
    BY <2>1 DEF Targets, Numbers
  <2>3. reactor.target \notin taken
    BY <1>a, <2>1, <2>2 DEF TargetInv, Starting
  <2>4. Delivery!Take(reactor.target)
    BY <1>5, <2>3 DEF HandOver, Delivery!Take
  <2> QED BY <2>2, <2>4 DEF Delivery!Next
<1>6. CASE FromAppReturns
  <2>1. CASE disp.n \in taken \ finished
    <3>1. Delivery!Finish(disp.n)
      BY <1>6, <2>1 DEF FromAppReturns, Delivery!Finish
    <3>2. disp.n \in Numbers
      BY <2>1 DEF ShapeInv, TypeOK
    <3> QED BY <3>1, <3>2 DEF Delivery!Next
  <2>2. CASE disp.n \notin taken \ finished
    BY <1>6, <2>2 DEF FromAppReturns, Delivery!vars
  <2> QED BY <2>1, <2>2
<1>7. CASE CloseCounters
  <2>1. PICK written : taken' = taken \union Stranded(written)
                       /\ written \in {disk.target, reactor.target}
    BY <1>7 DEF CloseCounters, Landed
  <2>2. written \in Nat
    BY <2>1, Bounds DEF ShapeInv, TypeOK, Targets
  <2> QED BY <1>7, <2>1, <2>2, StrandedTaken DEF CloseCounters
<1>8. CASE Crash
  <2>1. disk.target \in Nat
    BY Bounds DEF ShapeInv, TypeOK, Targets
  <2> QED BY <1>8, <2>1, StrandedTaken DEF Crash
<1>9. CASE StartNamed \/ SeedFromStore \/ LogonInSequence \/ LogonGapped \/ OpeningWatermark
  BY <1>9, <1>d DEF StartNamed, SeedFromStore, LogonInSequence, LogonGapped, OpeningWatermark
<1>10. CASE PersistApp \/ QueueFull \/ EndPass \/ StoreFailed \/ EndSession
            \/ \E to \in 2 .. (MaxSeq + 1) : AcceptOther(to)
  BY <1>10, <1>d DEF PersistApp, QueueFull, EndPass, StoreFailed, EndSession, AcceptOther
<1>11. CASE DispatchNext \/ WatermarkWritten \/ SeeMark \/ AccountMark \/ AccountLast
  BY <1>11, <1>d DEF DispatchNext, WatermarkWritten, SeeMark, AccountMark, AccountLast, history
<1>12. CASE CloseQueue \/ UnfinishedNamed \/ NoCloseReset
  BY <1>12, <1>d DEF CloseQueue, UnfinishedNamed, NoCloseReset
<1>13. CASE UNCHANGED vars
  BY <1>13 DEF vars, Delivery!vars
<1> QED BY <1>1, <1>2, <1>3, <1>4, <1>5, <1>6, <1>7, <1>8, <1>9, <1>10, <1>11, <1>12, <1>13
        DEF Next, Start, Live, Dispatch, CloseSteps

\* Reactor, dispatcher, failing store and crash together do what ADR-0030
\* promises the application: a number is taken once, and the record of a
\* stream is erased (seed_session's and the close-time reset) only when all it
\* took was finished by from_app or named by on_inbound_lost.
THEOREM DeliveryKept ==
    ASSUME OpensAtOne = FALSE, "Continue" \notin CrashPolicies
    PROVE  Spec => DeliverySpec
<1>1. Init => Delivery!Init
  BY DEF Init, Delivery!Init
<1>2. (ShapeInv /\ LossInv) /\ [Next]_vars => [Delivery!Next]_(Delivery!vars)
  <2>1. LossInv => Accounted
    BY DEF LossInv, Sworn
  <2> QED BY <2>1, StepDelivers
<1> QED BY <1>1, <1>2, LossInvHolds, PTL DEF Spec, DeliverySpec, Delivery!Spec
=============================================================================
