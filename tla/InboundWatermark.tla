------------------------- MODULE InboundWatermark -------------------------
(***************************************************************************)
(* How an accepted inbound message survives the reactor, the application   *)
(* dispatcher, a failing store and a crash (ADR-0005, ADR-0030).           *)
(*                                                                         *)
(* The reactor persists the next target number before it hands a message   *)
(* over; the dispatcher, a task of its own, runs from_app and persists the *)
(* watermark; at a start and at a close the span between the two is         *)
(* reported to the application.  A crash may come between any two steps.    *)
(*                                                                         *)
(* Which frames are in sequence is GapRecovery's business: here the next   *)
(* number is an application message, or a run of numbers that reach no      *)
(* from_app (administrative, refused, skipped by a fill).                  *)
(***************************************************************************)
EXTENDS Naturals, Sequences, FiniteSets

CONSTANTS
    MaxSeq,        \* the largest MsgSeqNum a stream reaches
    AppQueueMax,   \* app_queue_capacity
    WritesFail,    \* TRUE: any store mutation may fail
    Policies,      \* the StoreFailurePolicy values the engine may be configured with
    CrashPolicies, \* the policies under which the process may die at any step
    OpensAtOne     \* TRUE: a stream may open on a gapped Logon, target 1

ASSUME MaxSeqAssumption == MaxSeq \in Nat \ {0}
ASSUME AppQueueMaxAssumption == AppQueueMax \in Nat \ {0}
ASSUME PoliciesAssumption == 
    Policies \subseteq {"CloseSession", "Continue"} /\ CrashPolicies \subseteq Policies
ASSUME FlagsAssumption == {WritesFail, OpensAtOne} \subseteq BOOLEAN

VARIABLES
    policy,    \* the configured StoreFailurePolicy
    disk,      \* the store: next target number and watermark
    owed,      \* a reset is owed, in memory or by the store's marker
    reactor,   \* the session task, its start and its close included
    disp,      \* the application dispatcher
    queue,     \* the application queue between them
    taken, finished, reported   \* what became of the stream's messages

vars == <<policy, disk, owed, reactor, disp, queue, taken, finished, reported>>
history == <<taken, finished, reported>>

Numbers == 1 .. MaxSeq

\* `target' and `published' are the in-memory expectation and the last mark
\* sent; `persisted' the target PersistedCounters believes written; `doubt' an
\* application number whose target write was issued and not yet followed by
\* its hand-over (0: none); `last' the end of a reported span.
Down == [pc |-> "down", target |-> 1, published |-> 0, persisted |-> 0,
         doubt |-> 0, last |-> 0]

\* `st' is what the dispatcher does, `n' the message in from_app, `seen' the
\* last mark read from the watch channel, `drain' whether it is emptying the
\* queue before it accounts for `seen', `written' and `completed' its marks.
NoDispatcher == [st |-> "none", n |-> 0, seen |-> 0, drain |-> FALSE,
                 written |-> 0, completed |-> 0]

\* Mutant: the span starts one too late.
LossSpanShort(watermark, target) ==
    IF watermark = 0 THEN {} ELSE (watermark + 2) .. (target - 1)

\* logon.rs, inbound_loss_span: no watermark (0) names nothing.
LossSpan(watermark, target) ==
    IF watermark = 0 THEN {} ELSE (watermark + 1) .. (target - 1)

\* The outcomes of a store mutation, and what it leaves of `old' and `new'.
\* A failed write may have landed: the store cannot say (ADR-0029).
Outcomes == IF WritesFail THEN {"ok", "landed", "lost"} ELSE {"ok"}
Landed(outcome, new, old) == IF outcome = "lost" THEN old ELSE new
Fatal(outcome) == outcome # "ok" /\ policy = "CloseSession"

\* SessionStore::mutate: a failed mutation owes a reset, under both policies.
Owing(outcome) == owed' = (owed \/ outcome # "ok")

Init ==
    /\ policy \in Policies
    /\ disk = [target |-> 1, watermark |-> 0] /\ owed = FALSE
    /\ reactor = Down
    /\ disp = NoDispatcher
    /\ queue = <<>>
    /\ taken = {} /\ finished = {} /\ reported = {}

At(pc) == reactor.pc = pc

\* A store reset: the next stream starts at 1, with no watermark.  It is owed
\* before it is made and settled, with every older debt, once it is; clearing
\* the durable marker may fail, and then it is owed again.
ResetStore(outcome) ==
    /\ IF outcome = "lost"
       THEN UNCHANGED <<disk, history>>
       ELSE /\ disk' = [target |-> 1, watermark |-> 0]
            /\ taken' = {} /\ finished' = {} /\ reported' = {}
    /\ owed' \in IF outcome = "ok" THEN {FALSE, WritesFail} ELSE {TRUE}

(* --------------------------------------------------- start of a session *)

\* StoreAttachment::report_inbound_loss, first half: the callback.
StartReport ==
    /\ At("down")
    /\ LET span == LossSpan(disk.watermark, disk.target)
       IN  /\ reported' = reported \union span
           /\ reactor' = [Down EXCEPT !.pc = IF span = {} THEN "seed" ELSE "naming",
                                      !.last = disk.target - 1]
    /\ disp' = NoDispatcher
    /\ queue' = <<>>
    /\ UNCHANGED <<policy, disk, owed, taken, finished>>

\* Second half: the watermark moves up to the span's end.
StartNamed ==
    /\ At("naming")
    /\ \E outcome \in Outcomes :
          /\ disk' = [disk EXCEPT !.watermark = Landed(outcome, reactor.last, @)] /\ Owing(outcome)
          /\ reactor' = IF Fatal(outcome) THEN Down ELSE [reactor EXCEPT !.pc = "seed"]
    /\ UNCHANGED <<policy, disp, queue, history>>

\* seed_session: from the store, or after a reset (configured, owed, declared
\* by the counterparty); a reset that fails refuses the session.
SeedFromStore ==
    /\ At("seed") /\ ~owed
    /\ reactor' = [Down EXCEPT !.pc = "logon", !.target = disk.target,
                               !.persisted = disk.target]
    /\ UNCHANGED <<policy, disk, owed, disp, queue, history>>
SeedReset ==
    /\ At("seed")
    /\ \E outcome \in Outcomes :
          /\ ResetStore(outcome)
          /\ reactor' = IF outcome = "ok" THEN [Down EXCEPT !.pc = "logon", !.persisted = 1]
                        ELSE Down
    /\ UNCHANGED <<policy, disp, queue>>

\* spawn_session: the opening mark is one below the next target number.
Spawned(r) == [r EXCEPT !.pc = "opening", !.published = r.target - 1]
SpawnedDispatcher(mark) ==
    [NoDispatcher EXCEPT !.st = "idle", !.seen = mark, !.written = mark, !.completed = mark]

\* The Logon in sequence: its number is persisted before the session is Active.
LogonInSequence ==
    /\ At("logon")
    /\ reactor.target <= MaxSeq
    /\ LET next == reactor.target + 1
       IN  \E outcome \in Outcomes :
             /\ disk' = [disk EXCEPT !.target = Landed(outcome, next, @)] /\ Owing(outcome)
             /\ IF Fatal(outcome)
                THEN reactor' = Down /\ UNCHANGED disp
                ELSE /\ reactor' = Spawned([reactor EXCEPT !.target = next, !.persisted = next])
                     /\ disp' = SpawnedDispatcher(next - 1)
    /\ UNCHANGED <<policy, queue, history>>

\* The Logon beyond a gap: nothing is consumed.
LogonGapped ==
    /\ At("logon")
    /\ OpensAtOne \/ reactor.target > 1
    /\ reactor' = Spawned(reactor)
    /\ disp' = SpawnedDispatcher(reactor.target - 1)
    /\ UNCHANGED <<policy, disk, owed, queue, history>>

\* Reactor::persist_opening_watermark; an opening mark of 0 is not written.
OpeningWatermark ==
    /\ At("opening")
    /\ IF reactor.published = 0
       THEN reactor' = [reactor EXCEPT !.pc = "ready"] /\ UNCHANGED <<disk, owed>>
       ELSE \E outcome \in Outcomes :
              /\ disk' = [disk EXCEPT !.watermark = Landed(outcome, reactor.published, @)] /\ Owing(outcome)
              /\ reactor' = [reactor EXCEPT !.pc = IF Fatal(outcome) THEN "closing" ELSE "ready"]
    /\ UNCHANGED <<policy, disp, queue, history>>

(* ------------------------------------------------------- the live session *)

\* A pass of the reactor loop may consume several numbers (the gap queue).
InPass == reactor.pc \in {"ready", "acting"}

\* Mutant: no slot is reserved before the write.
PersistAppUnslotted ==
    /\ InPass /\ reactor.target <= MaxSeq
    /\ LET n == reactor.target
       IN  \E outcome \in Outcomes :
             /\ disk' = [disk EXCEPT !.target = Landed(outcome, n + 1, @)] /\ Owing(outcome)
             /\ reactor' = [reactor EXCEPT !.pc = IF Fatal(outcome) THEN "closing" ELSE "handing",
                                           !.persisted = n + 1, !.doubt = n]
    /\ UNCHANGED <<policy, disp, queue, history>>

\* Reactor::deliver_app: a slot first, then the target write.  A full queue,
\* or a dispatcher that is gone, closes the session with the number unspent.
PersistApp ==
    /\ InPass /\ reactor.target <= MaxSeq
    /\ Len(queue) < AppQueueMax
    /\ LET n == reactor.target
       IN  \E outcome \in Outcomes :
             /\ disk' = [disk EXCEPT !.target = Landed(outcome, n + 1, @)] /\ Owing(outcome)
             /\ reactor' = [reactor EXCEPT !.pc = IF Fatal(outcome) THEN "closing" ELSE "handing",
                                           !.persisted = n + 1, !.doubt = n]
    /\ UNCHANGED <<policy, disp, queue, history>>
QueueFull ==
    /\ InPass /\ reactor.target <= MaxSeq
    /\ disp.st = "failed" \/ Len(queue) = AppQueueMax
    /\ reactor' = [reactor EXCEPT !.pc = "closing"]
    /\ UNCHANGED <<policy, disk, owed, disp, queue, history>>

\* The frame goes to the dispatcher and the expectation moves.
HandOver ==
    /\ At("handing")
    /\ queue' = Append(queue, reactor.target)
    /\ taken' = taken \union {reactor.target}
    /\ reactor' = [reactor EXCEPT !.pc = "acting", !.target = @ + 1, !.doubt = 0]
    /\ UNCHANGED <<policy, disk, owed, disp, finished, reported>>

\* Numbers that reach no from_app: persisted, then acted on.
AcceptOther(to) ==
    /\ InPass
    /\ to \in (reactor.target + 1) .. (MaxSeq + 1)
    /\ \E outcome \in Outcomes :
          /\ disk' = [disk EXCEPT !.target = Landed(outcome, to, @)] /\ Owing(outcome)
          /\ reactor' = IF Fatal(outcome)
                        THEN [reactor EXCEPT !.pc = "closing", !.persisted = to]
                        ELSE [reactor EXCEPT !.pc = "acting", !.persisted = to, !.target = to]
    /\ UNCHANGED <<policy, disp, queue, history>>

\* Reactor::publish_accounted at the end of every pass.
EndPass ==
    /\ At("acting")
    /\ reactor' = [reactor EXCEPT !.pc = "ready", !.published = reactor.target - 1]
    /\ UNCHANGED <<policy, disk, owed, disp, queue, history>>

\* Mutant: the event is looked at only when nothing is queued.
StoreFailedWhenIdle ==
    /\ At("ready") /\ disp.st = "failed" /\ queue = <<>>
    /\ reactor' = [reactor EXCEPT !.pc = "closing"]
    /\ UNCHANGED <<policy, disk, owed, disp, queue, history>>

\* The dispatcher's StoreFailed event, one branch of the reactor's select!.
StoreFailed ==
    /\ At("ready") /\ disp.st = "failed"
    /\ reactor' = [reactor EXCEPT !.pc = "closing"]
    /\ UNCHANGED <<policy, disk, owed, disp, queue, history>>

\* The session ends for any other reason: between passes, or inside one.
EndSession ==
    /\ InPass
    /\ reactor' = [reactor EXCEPT !.pc = "closing"]
    /\ UNCHANGED <<policy, disk, owed, disp, queue, history>>

(* ---------------------------------------------------------- the dispatcher *)

\* AppDispatcher::account: publish in memory, then write, unless not above.
Account(d, mark) ==
    IF mark <= d.written THEN [d EXCEPT !.st = "idle"]
    ELSE [d EXCEPT !.st = "writing", !.written = mark, !.completed = mark]

\* The queue is closed once the reactor has dropped its sender.
QueueClosed == reactor.pc \in {"drain", "left", "reset", "counters"}

\* Mutant: a message is published as accounted for before from_app has run.
DispatchNextAccounted ==
    /\ disp.st = "idle" /\ queue # <<>>
    /\ disp' = [disp EXCEPT !.st = "app", !.n = Head(queue), !.completed = Head(queue)]
    /\ queue' = Tail(queue)
    /\ UNCHANGED <<policy, disk, owed, reactor, history>>

DispatchNext ==
    /\ disp.st = "idle" /\ queue # <<>>
    /\ disp' = [disp EXCEPT !.st = "app", !.n = Head(queue)]
    /\ queue' = Tail(queue)
    /\ UNCHANGED <<policy, disk, owed, reactor, history>>

FromAppReturns ==
    /\ disp.st = "app"
    /\ finished' = finished \union ({disp.n} \intersect taken)
    /\ disp' = Account([disp EXCEPT !.n = 0], disp.n)
    /\ UNCHANGED <<policy, disk, owed, reactor, queue, taken, reported>>

WatermarkWritten ==
    /\ disp.st = "writing"
    /\ \E outcome \in Outcomes :
          /\ disk' = [disk EXCEPT !.watermark = Landed(outcome, disp.written, @)] /\ Owing(outcome)
          /\ disp' = [disp EXCEPT !.st = IF Fatal(outcome) THEN "failed" ELSE "idle"]
    /\ UNCHANGED <<policy, reactor, queue, history>>

\* A new mark: the queue is emptied before the mark is accounted for.
SeeMark ==
    /\ disp.st = "idle" /\ ~disp.drain
    /\ reactor.pc # "down" /\ disp.seen # reactor.published
    /\ disp' = [disp EXCEPT !.seen = reactor.published, !.drain = TRUE]
    /\ UNCHANGED <<policy, disk, owed, reactor, queue, history>>
\* Mutant: a mark is accounted for with messages still queued.
AccountMarkUndrained ==
    /\ disp.st = "idle" /\ disp.drain
    /\ disp' = Account([disp EXCEPT !.drain = FALSE], disp.seen)
    /\ UNCHANGED <<policy, disk, owed, reactor, queue, history>>

AccountMark ==
    /\ disp.st = "idle" /\ disp.drain /\ queue = <<>>
    /\ disp' = Account([disp EXCEPT !.drain = FALSE], disp.seen)
    /\ UNCHANGED <<policy, disk, owed, reactor, queue, history>>

\* The queue is closed and empty: the last mark published is accounted for.
AccountLast ==
    /\ disp.st = "idle" /\ ~disp.drain
    /\ queue = <<>> /\ QueueClosed
    /\ LET d == Account(disp, reactor.published)
       IN  disp' = IF d.st = "idle" THEN [d EXCEPT !.st = "done"] ELSE d
    /\ UNCHANGED <<policy, disk, owed, reactor, queue, history>>

(* ---------------------------------------------------- close of a session *)

\* publish_accounted, then the queue's sender is dropped.
CloseQueue ==
    /\ At("closing")
    /\ reactor' = [reactor EXCEPT !.pc = "drain", !.published = reactor.target - 1]
    /\ UNCHANGED <<policy, disk, owed, disp, queue, history>>

\* The dispatcher finished or failed, or APP_DRAIN_TIMEOUT ran out and it is
\* aborted; the span it did not account for is reported.  An aborted task may
\* still be inside a poll, and finish what it does there; it is gone before the
\* next start, because from_app is documented not to block.
LeaveDispatcher ==
    /\ At("drain")
    /\ LET span == LossSpan(disp.completed, reactor.target)
       IN  /\ reported' = reported \union span
           /\ reactor' = [reactor EXCEPT !.pc = IF span = {} THEN "reset" ELSE "left",
                                         !.last = reactor.target - 1]
    /\ UNCHANGED <<policy, disk, owed, disp, queue, taken, finished>>

\* Reactor::report_unfinished: the reported span is recorded; a failure is logged.
UnfinishedNamed ==
    /\ At("left")
    /\ \E outcome \in Outcomes :
          /\ disk' = [disk EXCEPT !.watermark = Landed(outcome, reactor.last, @)]
          /\ Owing(outcome)
    /\ reactor' = [reactor EXCEPT !.pc = "reset"]
    /\ UNCHANGED <<policy, disp, queue, history>>

\* The close-time reset of reset_on_logout and reset_on_disconnect; one that
\* fails writes no counters.
CloseReset ==
    /\ At("reset")
    /\ \E outcome \in Outcomes :
          /\ ResetStore(outcome)
          /\ reactor' = IF outcome = "ok"
                        THEN [reactor EXCEPT !.pc = "counters", !.target = 1, !.doubt = 0]
                        ELSE [reactor EXCEPT !.pc = "counters", !.persisted = reactor.target]
    /\ UNCHANGED <<policy, disp, queue>>
NoCloseReset ==
    /\ At("reset")
    /\ reactor' = [reactor EXCEPT !.pc = "counters"]
    /\ UNCHANGED <<policy, disk, owed, disp, queue, history>>

\* A message whose target write landed and that was never handed over is
\* consumed all the same once the process is gone.
Stranded(target) == {reactor.doubt} \intersect (1 .. (target - 1))

\* Reactor::persist_counters: the target is written if it differs from what
\* PersistedCounters recorded, which takes back one that was not acted on.
CloseCounters ==
    /\ At("counters")
    /\ \E outcome \in Outcomes :
         LET written == IF reactor.persisted = reactor.target THEN disk.target
                        ELSE Landed(outcome, reactor.target, disk.target)
         IN  /\ disk' = [disk EXCEPT !.target = written] /\ Owing(outcome)
             /\ taken' = taken \union Stranded(written)
    /\ reactor' = Down
    /\ UNCHANGED <<policy, disp, queue, finished, reported>>

\* The process dies; the store and the counterparty remember, nothing else: a
\* reset owed for a store that also refused its marker is forgotten.
Crash ==
    /\ policy \in CrashPolicies /\ reactor.pc # "down"
    /\ owed' \in {owed, owed /\ ~WritesFail}
    /\ taken' = taken \union Stranded(disk.target)
    /\ reactor' = Down
    /\ disp' = NoDispatcher
    /\ queue' = <<>>
    /\ UNCHANGED <<policy, disk, finished, reported>>

Start == StartReport \/ StartNamed \/ SeedFromStore \/ SeedReset
         \/ LogonInSequence \/ LogonGapped \/ OpeningWatermark
Live == PersistApp \/ QueueFull \/ HandOver \/ EndPass \/ StoreFailed \/ EndSession
        \/ \E to \in 2 .. (MaxSeq + 1) : AcceptOther(to)
Dispatch == DispatchNext \/ FromAppReturns \/ WatermarkWritten \/ SeeMark
            \/ AccountMark \/ AccountLast
CloseSteps == CloseQueue \/ LeaveDispatcher \/ UnfinishedNamed
              \/ CloseReset \/ NoCloseReset \/ CloseCounters

Next == Start \/ Live \/ Dispatch \/ CloseSteps \/ Crash

Spec == Init /\ [][Next]_vars

(* Tasks are scheduled: the reactor leaves a handler it entered, the close  *)
(* path runs to its end, the dispatcher is polled while it has work (the    *)
(* drain timeout bounds the wait for it), from_app returns, and a process   *)
(* that died is started again.  The select! picks at random among its ready *)
(* branches, so a StoreFailed event waiting there is taken: strong.         *)
FairSpec == /\ Spec
            /\ WF_vars(StartReport) /\ WF_vars(HandOver) /\ WF_vars(EndPass)
            /\ WF_vars(CloseQueue) /\ WF_vars(LeaveDispatcher)
            /\ WF_vars(Dispatch) /\ SF_vars(StoreFailed)

(* ------------------------------------------------------------ properties *)

Pcs == {"down", "naming", "seed", "logon", "opening", "ready", "handing", "acting",
        "closing", "drain", "left", "reset", "counters"}
Marks == 0 .. MaxSeq
Targets == 1 .. (MaxSeq + 1)

\* The shape of the state.
TypeOK ==
    /\ policy \in Policies
    /\ disk \in [target : Targets, watermark : Marks] /\ owed \in BOOLEAN
    /\ reactor \in [pc : Pcs, target : Targets, published : Marks,
                    persisted : 0 .. (MaxSeq + 1), doubt : Marks, last : Marks]
    /\ disp \in [st : {"none", "idle", "app", "writing", "failed", "done"}, n : Marks,
                 seen : Marks, drain : BOOLEAN, written : Marks, completed : Marks]
    /\ queue \in Seq(Numbers)
    /\ Len(queue) <= AppQueueMax
    /\ taken \subseteq Numbers /\ finished \subseteq taken /\ reported \subseteq Numbers

\* Messages accepted, not finished by from_app, not named in a report.
Pending == taken \ (finished \union reported)

\* Whenever the process may die, the store names every message that would be
\* lost by it: the next start reports it.  Under CloseSession this holds
\* through failed writes too; Continue gives it up for writes that failed.
LossIsNamed ==
    policy = "CloseSession" => \A n \in Pending : n \in LossSpan(disk.watermark, disk.target)

\* A session that closes without a crash leaves nothing unresolved behind,
\* under either policy: before the close-time reset, which erases the numbers,
\* every message was finished or reported from memory.
ResolvedAtClose == At("reset") => Pending = {}

\* Accepted messages are finished or reported in the end.
AcceptedResolved ==
    \A n \in Numbers : n \in taken ~> n \notin Pending

\* The promise of ADR-0030 as a specification of its own.
Delivery == INSTANCE InboundDelivery WITH Numbers <- Numbers
DeliverySpec == Delivery!Spec
=============================================================================
