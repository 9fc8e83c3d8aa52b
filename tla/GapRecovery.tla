--------------------------- MODULE GapRecovery ---------------------------
(***************************************************************************)
(* The inbound half of one IronFix session: what the reactor does with     *)
(* each frame the counterparty sends, judged by its MsgSeqNum (34).  A gap *)
(* is requested, retried and given up on; frames above it are kept under   *)
(* GapPolicy::Queue and released in order; a gapped Logon is held when     *)
(* both sides declared NextExpectedMsgSeqNum (789); SequenceReset, Logout  *)
(* and this session's own resend cut across all of it.                     *)
(*                                                                         *)
(* The counterparty is arbitrary: any frame may arrive at any time.        *)
(*                                                                         *)
(* `core' is the SessionCore of ironfix-session with the target counter of *)
(* its SequenceManager.  Sub-operations are operators from core to core,   *)
(* composed as the handlers of reactor.rs compose the calls.  One handler  *)
(* is one step, except that the release loop which ends every handler      *)
(* takes one step per number (pc = "release", nothing else runs until it   *)
(* is over), as the code persists and acts on one number at a time.        *)
(***************************************************************************)
EXTENDS Naturals, FiniteSets

CONSTANTS
    MaxSeq,        \* the largest MsgSeqNum: the code's u64::MAX
    QueueMax,      \* GapPolicy::Queue max_messages; 0 behaves as Discard
    ResendLimit,   \* SessionConfig::resend_attempt_limit
    HoldMax,       \* MAX_HELD_SENDS, the bound on sends held behind a resend
    CallbackDrops  \* TRUE: a to_admin callback may leave a frame unframeable

ASSUME MaxSeqAssumption == MaxSeq \in Nat /\ MaxSeq > 1
ASSUME QueueMaxAssumption == QueueMax \in Nat
ASSUME ResendLimitAssumption == ResendLimit \in Nat \ {0}
ASSUME HoldMaxAssumption == HoldMax \in Nat \ {0}
ASSUME CallbackDropsAssumption == CallbackDrops \in BOOLEAN

VARIABLES
    core,   \* the session's inbound state, one record
    pc      \* "open", "idle" or "release": what the reactor is doing

vars == <<core, pc>>

SeqNums == 1 .. MaxSeq

(* ---------------------------------------------------------------- data *)

Phases == {"Active", "LogoutQueued", "LogoutPending", "Closed"}

\* What became of a number: handed to the application; acted on without
\* reaching it (an administrative or refused message, a held Logon); or
\* passed over because the counterparty said so (NewSeqNo).
Fates == {"none", "app", "acted", "skipped"}

\* A gap-queue slot: nothing, an application frame, an administrative number
\* already acted on (GapEntry::Processed), or a GapFill with its NewSeqNo.
GapEntries == [kind : {"none", "app", "processed", "fill"}, new : 0 .. MaxSeq]
NoEntry == [kind |-> "none", new |-> 0]

\* ResendState.  The clock is abstract: a tick may find it run out at any time.
ResendStates == [armed : BOOLEAN, expected : 0 .. MaxSeq, highWater : 0 .. MaxSeq,
                 attempts : Nat, charge : BOOLEAN]
NoResend == [armed |-> FALSE, expected |-> 0, highWater |-> 0,
             attempts |-> 0, charge |-> FALSE]

\* A frame: `new' is NewSeqNo (36) of a SequenceReset, 0 when it is missing
\* or unreadable, and for a ResendRequest 1 if its range is answerable.
FrameKinds == {"app", "heartbeat", "test", "resendReq", "logout", "malformed",
               "fill", "reset", "badFlag"}
Numbered == {"fill", "reset"}
Frames == {f \in [kind : FrameKinds, seq : SeqNums, dup : BOOLEAN, new : 0 .. MaxSeq] :
              \/ f.kind \in Numbered
              \/ f.kind = "resendReq" /\ f.new \in {0, 1}
              \/ f.new = 0}

AdminKinds == {"heartbeat", "test", "resendReq", "logout"}

\* What became of a frame handed to `send': written, or dropped because a
\* to_admin callback left it unframeable.
SentOutcomes == IF CallbackDrops THEN {"Yes", "Dropped"} ELSE {"Yes"}

Larger(a, b) == IF a > b THEN a ELSE b
Smaller(a, b) == IF a < b THEN a ELSE b

Queued(c) == {n \in SeqNums : c.queue[n].kind # "none"}

(* --------------------------------------------- recovery: ResendState *)

\* ResendState::first (attempts = 1) and ResendState::implied (attempts = 0).
Armed(expected, highWater, attempts) ==
    [armed |-> TRUE, expected |-> expected, highWater |-> highWater,
     attempts |-> attempts, charge |-> FALSE]

MergedHighWater(r, highWater) ==
    IF r.armed THEN Larger(r.highWater, highWater) ELSE highWater

\* Mutant of NoteProgress: the expectation recovery asks from is not moved.
NoteProgressStale(c) ==
    IF ~c.resend.armed THEN c
    ELSE IF c.target > c.resend.highWater THEN [c EXCEPT !.resend = NoResend]
    ELSE [c EXCEPT !.resend.attempts = Smaller(@, 1)]

\* SessionCore::note_inbound_progress, once the expectation has moved.
NoteProgress(c) ==
    IF ~c.resend.armed THEN c
    ELSE IF c.target > c.resend.highWater THEN [c EXCEPT !.resend = NoResend]
    ELSE [c EXCEPT !.resend.expected = c.target,
                   !.resend.attempts = Smaller(@, 1)]

\* Mutant of RequestWritten: the Logon stays held although it was asked for.
RequestWrittenHolding(c) == [c EXCEPT !.asked = @ + 1]

\* A ResendRequest reached the write buffer; a held Logon is left to its answer.
RequestWritten(c) == [c EXCEPT !.asked = @ + 1, !.heldLogon = 0]

\* A send that waits behind this session's own resend.
Hold(c) == [c EXCEPT !.heldSends = @ + 1]
HoldRequest(c) == IF c.heldRequest THEN c ELSE [Hold(c) EXCEPT !.heldRequest = TRUE]

\* Any reply of a handler: held behind a resend, otherwise written.
Reply(c) == IF c.replaying THEN Hold(c) ELSE c

\* Mutant of RequestResend: an outstanding request is not extended.
RequestResendUnraised(c, highWater, sent) ==
    IF c.resend.armed /\ c.resend.expected = c.target THEN c
    ELSE IF c.replaying
         THEN HoldRequest([c EXCEPT !.resend = [Armed(c.target, highWater, 0)
                                                  EXCEPT !.charge = TRUE]])
    ELSE IF sent = "Dropped" THEN c
    ELSE RequestWritten([c EXCEPT !.resend = Armed(c.target, highWater, 1)])

\* Reactor::request_resend for a gap reaching highWater.
RequestResend(c, highWater, sent) ==
    LET r == c.resend
        raised == IF r.armed THEN [c EXCEPT !.resend.highWater = Larger(@, highWater)] ELSE c
        merged == MergedHighWater(r, highWater)
    IN  IF r.armed /\ r.expected = c.target THEN raised
        ELSE IF c.replaying
             THEN HoldRequest([c EXCEPT !.resend = [Armed(c.target, merged, 0)
                                                      EXCEPT !.charge = TRUE]])
        ELSE IF sent = "Dropped" THEN raised
        ELSE RequestWritten([c EXCEPT !.resend = Armed(c.target, merged, 1)])

\* SessionCore::arm_uncharged.
ArmUncharged(c, highWater) ==
    IF c.resend.armed
    THEN [c EXCEPT !.resend.expected = c.target,
                   !.resend.highWater = Larger(@, highWater)]
    ELSE [c EXCEPT !.resend = Armed(c.target, highWater, 0)]

\* Reactor::rerequest_spanned_gap for a duplicate fill up to `new'.
RerequestSpanned(c, new, sent) ==
    LET noted == [c EXCEPT !.spanned = c.target]
        high == Larger(new - 1, c.target)
    IN  IF c.replaying THEN HoldRequest(ArmUncharged(noted, high))
        ELSE IF sent = "Dropped" THEN noted
        ELSE RequestWritten(ArmUncharged(noted, high))

(* ----------------------------------------------- the target counter *)

\* Persist, increment, note progress: the number `n' of an in-sequence
\* message is taken.  The caller has checked that the counter can move.
Consume(c, n, fate) ==
    NoteProgress([c EXCEPT !.target = @ + 1, !.fate[n] = fate, !.asked = 0])

\* set_target_seq: the numbers below `new' are not expected any more.
JumpTo(c, new) ==
    [c EXCEPT !.target = new,
              !.asked = IF new > c.target THEN 0 ELSE @,
              !.fate = [n \in SeqNums |-> IF c.target <= n /\ n < new
                                          THEN "skipped" ELSE c.fate[n]]]

(* ------------------------------------------------------ the gap queue *)

ClearQueue(c) == [c EXCEPT !.queue = [n \in SeqNums |-> NoEntry]]

\* SessionCore::queue_gapped.  `fits' is whether the frame's bytes fit in
\* max_bytes, which an already-processed number (0 bytes) always does.
QueueGapped(c, n, entry, fits) ==
    IF \/ c.phase # "Active" \/ c.owed
       \/ c.queue[n] # NoEntry
       \/ Cardinality(Queued(c)) >= QueueMax
       \/ ~fits
    THEN c
    ELSE [c EXCEPT !.queue[n] = entry]

\* GapAdmission::Duplicate: a copy of a number already held.
IsHeldCopy(c, n) == c.phase = "Active" /\ ~c.owed /\ c.queue[n] # NoEntry

\* GapQueue::take_ready: what the expectation passed is dropped, and the
\* entry at the expectation is taken out.
TakeReady(c) == [c EXCEPT !.queue = [n \in SeqNums |-> IF n <= c.target THEN NoEntry
                                                      ELSE c.queue[n]]]

(* ------------------------------------------- handlers of one message *)

Close(c) == [c EXCEPT !.phase = "Closed"]
Exhausted(c) == Close(c)
\* Mutant of CanAdvance: the counter wraps instead of ending the session.
CanAdvanceUnchecked(c) == c.target <= MaxSeq
CanAdvance(c) == c.target < MaxSeq

\* Reactor::on_app_in_sequence: handed to the application, or refused by the
\* application-version check or the dictionary and answered with a Reject.
AppTaken(c, n, ok) ==
    IF ~CanAdvance(c) THEN Exhausted(c)
    ELSE IF ok THEN Consume(c, n, "app")
    ELSE Reply(Consume(c, n, "acted"))

\* An in-sequence GapFill in Reactor::on_sequence_reset.
FillTaken(c, n, new, ok) ==
    IF ~CanAdvance(c) THEN Exhausted(c)
    ELSE IF ok /\ new > n
         THEN NoteProgress(JumpTo(c, new))
    ELSE Reply(Consume(c, n, "acted"))

\* Mutant of ResetTaken: NewSeqNo may go back.
ResetTakenBackwards(c, new, ok) ==
    IF ~ok \/ new = 0 THEN Reply(c)
    ELSE LET moved == ClearQueue(JumpTo(c, new))
         IN  IF new > c.target THEN NoteProgress(moved) ELSE moved

\* A SequenceReset-Reset: MsgSeqNum is ignored, NewSeqNo may not go back.
ResetTaken(c, new, ok) ==
    IF ~ok \/ new < c.target THEN Reply(c)
    ELSE LET moved == ClearQueue(JumpTo(c, new))
         IN  IF new > c.target THEN NoteProgress(moved) ELSE moved

\* Reactor::on_logout.  The reply that ends an Active session closes it
\* whether or not it could be written.
OnLogout(c) ==
    IF c.phase = "Active" /\ c.replaying THEN [c EXCEPT !.owed = TRUE]
    ELSE Close(c)

\* Reactor::dispatch_admin, `ok' being the verdict of from_admin.
DispatchAdmin(c, f, ok) ==
    CASE ~ok -> Reply(c)
      [] ok /\ f.kind = "heartbeat" -> c
      [] ok /\ f.kind = "test" -> Reply(c)
      [] ok /\ f.kind = "resendReq" ->
            IF f.new = 1 THEN [c EXCEPT !.replaying = TRUE] ELSE Reply(c)
      [] ok /\ f.kind = "logout" -> OnLogout(ClearQueue(c))

\* Mutant of BeginLogout: the gap queue outlives the Logout.
BeginLogoutKeepingQueue(c, sent) ==
    IF sent = "Dropped" THEN c
    ELSE [c EXCEPT !.phase = "LogoutQueued", !.resend = NoResend, !.heldLogon = 0]

\* Reactor::begin_logout: a Logout that was not written leaves the session
\* Active; one that was ends recovery and empties the queue.
BeginLogout(c, sent) ==
    IF sent = "Dropped" THEN c
    ELSE ClearQueue([c EXCEPT !.phase = "LogoutQueued", !.resend = NoResend,
                              !.heldLogon = 0])

(* --------------------------------------------------------------- steps *)

Init ==
    /\ core = [target |-> 1, resend |-> NoResend, heldLogon |-> 0, spanned |-> 0,
               queue |-> [n \in SeqNums |-> NoEntry],
               phase |-> "Active", owed |-> FALSE, replaying |-> FALSE,
               heldSends |-> 0, heldRequest |-> FALSE,
               asked |-> 0, fate |-> [n \in SeqNums |-> "none"]]
    /\ pc = "open"

\* Reactor::open: the gap found in the counterparty's Logon numbered
\* logonSeq is requested, or its Logon held; the range its 789 says it
\* missed is resent.
OpenPlain(replay) ==
    /\ core' = [core EXCEPT !.replaying = replay]
OpenGap(logonSeq, replay) ==
    \E sent \in SentOutcomes :
        core' = [RequestResend(core, logonSeq, sent) EXCEPT !.replaying = replay]
OpenHeldLogon(logonSeq, replay) ==
    core' = [core EXCEPT !.resend = Armed(core.target, logonSeq, 0),
                         !.heldLogon = logonSeq,
                         !.replaying = replay]
Open ==
    /\ pc = "open"
    /\ pc' = "idle"
    /\ \E replay \in BOOLEAN :
          \/ OpenPlain(replay)
          \/ \E logonSeq \in SeqNums :
                /\ logonSeq > core.target
                /\ OpenGap(logonSeq, replay) \/ OpenHeldLogon(logonSeq, replay)

\* The reactor reads a frame unless the hold is full; every handler of a
\* frame ends in release_ready.
Reading ==
    /\ pc = "idle"
    /\ core.phase # "Closed"
    /\ core.heldSends < HoldMax
    /\ pc' = "release"

InSequence(f) == f.seq = core.target
Gapped(f) == f.seq > core.target
Duplicate(f) == f.seq < core.target /\ f.dup
TooLow(f) == f.seq < core.target /\ ~f.dup

ReceiveApp(f) ==
    /\ Reading /\ f.kind = "app" /\ InSequence(f)
    /\ \E ok \in BOOLEAN : core' = AppTaken(core, f.seq, ok)

ReceiveAdmin(f) ==
    /\ Reading /\ f.kind \in AdminKinds /\ InSequence(f)
    /\ \E ok \in BOOLEAN :
          core' = IF CanAdvance(core)
                  THEN DispatchAdmin(Consume(core, f.seq, "acted"), f, ok)
                  ELSE Exhausted(core)

\* Reactor::on_malformed, in sequence: the number is consumed, a Reject sent.
ReceiveMalformed(f) ==
    /\ Reading /\ f.kind = "malformed" /\ InSequence(f)
    /\ core' = AppTaken(core, f.seq, FALSE)

ReceiveFill(f) ==
    /\ Reading /\ f.kind = "fill" /\ InSequence(f)
    /\ \E ok \in BOOLEAN : core' = FillTaken(core, f.seq, f.new, ok)

ReceiveReset(f) ==
    /\ Reading /\ f.kind = "reset"
    /\ \E ok \in BOOLEAN : core' = ResetTaken(core, f.new, ok)

\* GapFillFlag (123) that is neither Y nor N.
ReceiveBadFlag(f) ==
    /\ Reading /\ f.kind = "badFlag"
    /\ core' = Reply(core)

\* Mutant of SpansMissing: every copy of the fill asks again.
SpansMissingEachTime(f) == f.kind = "fill" /\ f.new > core.target /\ core.phase = "Active"

\* A possible duplicate below the expectation is dropped, except that a fill
\* reaching past the expectation is asked for again, once per expectation.
SpansMissing(f) == /\ f.kind = "fill" /\ f.new > core.target
                   /\ core.phase = "Active" /\ core.spanned # core.target
ReceiveDuplicate(f) ==
    /\ Reading /\ f.kind \notin {"reset", "badFlag"} /\ Duplicate(f)
    /\ IF SpansMissing(f)
       THEN \E sent \in SentOutcomes : core' = RerequestSpanned(core, f.new, sent)
       ELSE UNCHANGED core

\* Too low and no possible duplicate: Logout and close.
ReceiveTooLow(f) ==
    /\ Reading /\ f.kind \notin {"reset", "badFlag"} /\ TooLow(f)
    /\ core' = Close(core)

\* A frame beyond a gap: the gap is requested, then the frame is kept (an
\* application message, a fill), dropped (an undecodable body), acted on now
\* with its number kept (administrative), or acted on now (a Logout).
ReceiveGapped(f) ==
    /\ Reading /\ f.kind \notin {"reset", "badFlag"} /\ Gapped(f)
    /\ \E sent \in SentOutcomes, ok, fits \in BOOLEAN :
         LET asked == RequestResend(core, f.seq, sent)
         IN  \/ /\ f.kind = "app"
                /\ core' = QueueGapped(asked, f.seq, [kind |-> "app", new |-> 0], fits)
             \/ /\ f.kind = "fill"
                /\ core' = QueueGapped(asked, f.seq, [kind |-> "fill", new |-> f.new], fits)
             \/ /\ f.kind = "malformed"
                /\ core' = asked
             \/ /\ f.kind = "logout"
                /\ core' = DispatchAdmin(asked, f, ok)
             \/ /\ f.kind \in AdminKinds \ {"logout"}
                /\ core' = IF IsHeldCopy(asked, f.seq) THEN asked
                           ELSE DispatchAdmin(
                                  QueueGapped(asked, f.seq,
                                              [kind |-> "processed", new |-> 0], TRUE),
                                  f, ok)

Receive == \E f \in Frames :
    \/ ReceiveApp(f) \/ ReceiveAdmin(f) \/ ReceiveMalformed(f) \/ ReceiveFill(f)
    \/ ReceiveReset(f) \/ ReceiveBadFlag(f) \/ ReceiveDuplicate(f) \/ ReceiveTooLow(f)
    \/ ReceiveGapped(f)

(* Reactor::release_ready: the held Logon first, then the gap queue, one   *)
(* number at a time.                                                       *)
Releasing == pc = "release" /\ core.phase # "Closed"
LogonDue == core.heldLogon # 0 /\ core.heldLogon <= core.target
ReleasePaused == core.replaying /\ core.heldSends >= HoldMax
EntryDue == core.queue[core.target] # NoEntry

\* Mutant of ReleaseHeldLogon: a Logon a fill has passed is consumed again.
ReleaseHeldLogonTwice ==
    /\ Releasing /\ LogonDue
    /\ LET c == [core EXCEPT !.heldLogon = 0]
       IN  core' = IF CanAdvance(c) THEN Consume(c, core.heldLogon, "acted")
                   ELSE Exhausted(c)
    /\ UNCHANGED pc

\* Reactor::release_held_logon: dropped if a fill passed it, else consumed.
ReleaseHeldLogon ==
    /\ Releasing /\ LogonDue
    /\ LET c == [core EXCEPT !.heldLogon = 0]
       IN  core' = IF core.heldLogon < core.target THEN c
                   ELSE IF CanAdvance(c) THEN Consume(c, core.heldLogon, "acted")
                   ELSE Exhausted(c)
    /\ UNCHANGED pc

ReleaseEntry ==
    /\ Releasing /\ ~LogonDue /\ ~ReleasePaused /\ EntryDue
    /\ LET n == core.target
           entry == core.queue[n]
           c == TakeReady(core)
       IN  \E ok \in BOOLEAN :
             \/ entry.kind = "app" /\ core' = AppTaken(c, n, ok)
             \/ entry.kind = "fill" /\ core' = FillTaken(c, n, entry.new, ok)
             \/ /\ entry.kind = "processed"
                /\ core' = IF CanAdvance(c) THEN Consume(c, n, "acted") ELSE Exhausted(c)
    /\ UNCHANGED pc

ReleaseDone ==
    /\ Releasing /\ ~LogonDue /\ (ReleasePaused \/ ~EntryDue)
    /\ core' = IF ReleasePaused THEN core ELSE TakeReady(core)
    /\ pc' = "idle"

(* The resend this session owes ends (Reactor::finish_resends): what was   *)
(* held behind it is written, the held ResendRequest rebuilt from the      *)
(* expectation of that moment; an owed Logout is then answered.            *)
HeldWritten(c, sent) ==
    LET freed == [c EXCEPT !.replaying = FALSE, !.heldSends = 0, !.heldRequest = FALSE]
    IN  IF ~c.heldRequest \/ ~c.resend.armed THEN freed
        ELSE LET uncharged == [freed EXCEPT !.resend.charge = FALSE]
             IN  IF sent = "Dropped" THEN uncharged
                 ELSE RequestWritten(
                        IF c.resend.charge
                        THEN [uncharged EXCEPT !.resend.attempts = @ + 1]
                        ELSE uncharged)

FinishResends ==
    /\ pc = "idle" /\ core.phase # "Closed" /\ core.replaying
    /\ \E sent \in SentOutcomes :
          core' = IF core.owed THEN Close(HeldWritten(core, sent)) ELSE HeldWritten(core, sent)
    /\ pc' = "release"

\* The owed Logout's deadline ran out first: replies without the rest.
CutResend ==
    /\ pc = "idle" /\ core.phase = "Active" /\ core.owed
    /\ core' = Close(core)
    /\ UNCHANGED pc

\* Reactor::on_resend_stalled: the gap made no progress for resend_timeout.
Stalled == /\ pc = "idle" /\ core.phase # "Closed"
           /\ ~core.replaying /\ core.resend.armed
RetryStalled ==
    /\ Stalled /\ core.resend.attempts < ResendLimit
    /\ \E sent \in SentOutcomes :
          core' = IF sent = "Dropped" THEN core
                  ELSE RequestWritten([core EXCEPT !.resend.attempts = @ + 1,
                                                   !.resend.charge = FALSE])
    /\ UNCHANGED pc
\* Mutant of AbandonStalled: off by one against the limit of RetryStalled.
AbandonStalledLate ==
    /\ Stalled /\ core.resend.attempts > ResendLimit
    /\ core.phase = "Active"
    /\ \E sent \in SentOutcomes : core' = BeginLogout(core, sent)
    /\ UNCHANGED pc
AbandonStalled ==
    /\ Stalled /\ core.resend.attempts >= ResendLimit
    /\ core.phase = "Active"
    /\ \E sent \in SentOutcomes : core' = BeginLogout(core, sent)
    /\ UNCHANGED pc

\* A Logout the consumer asks for (or every Connection dropped): commands are
\* not taken while a resend is under way, and only the first one counts.
LocalLogout ==
    /\ pc = "idle" /\ core.phase = "Active" /\ ~core.replaying
    /\ \E sent \in SentOutcomes : core' = BeginLogout(core, sent)
    /\ UNCHANGED pc

\* The stream accepted the whole Logout: its deadline runs from here.
LogoutWritten ==
    /\ pc = "idle" /\ core.phase = "LogoutQueued"
    /\ core' = [core EXCEPT !.phase = "LogoutPending"]
    /\ UNCHANGED pc

\* A Logout nobody answers (the logout timeout), or one the stream never takes
\* (the write timeout).
LogoutTimeout ==
    /\ pc = "idle" /\ core.phase \in {"LogoutQueued", "LogoutPending"}
    /\ core' = Close(core)
    /\ UNCHANGED pc

\* Anything else that ends the session, between handlers or inside one: the
\* transport, the heartbeat deadline, a failed store write, a full
\* application queue, an identity or SendingTime mismatch, garbled frames.
Abort ==
    /\ core.phase # "Closed"
    /\ core' = Close(core)
    /\ UNCHANGED pc

Release == ReleaseHeldLogon \/ ReleaseEntry \/ ReleaseDone
Tick == RetryStalled \/ AbandonStalled \/ CutResend \/ LogoutTimeout

Next == Open \/ Receive \/ Release \/ FinishResends \/ Tick
        \/ LocalLogout \/ LogoutWritten \/ Abort

Spec == Init /\ [][Next]_vars

(* The release loop runs to its end inside one handler.  The periodic tick *)
(* is one branch of the reactor's select!, which picks at random among the *)
(* branches that are ready (it is not biased), and a tick that came due     *)
(* stays ready until it is taken: strong fairness.                          *)
Fairness == WF_vars(Open) /\ WF_vars(Release) /\ SF_vars(LogoutTimeout)

FairSpec == Spec /\ Fairness

(* ---------------------------------------------------------- properties *)

CoreType ==
    [target : SeqNums, resend : ResendStates, heldLogon : 0 .. MaxSeq,
     spanned : 0 .. MaxSeq, queue : [SeqNums -> GapEntries],
     phase : Phases, owed : BOOLEAN, replaying : BOOLEAN,
     heldSends : Nat, heldRequest : BOOLEAN, asked : Nat,
     fate : [SeqNums -> Fates]]

\* The shape of the state; the target counter never passes u64::MAX.
TypeOK == core \in CoreType /\ pc \in {"open", "idle", "release"}

\* Every number below the expectation was accounted for, and no number at or
\* above it was: whatever path consumed it (in sequence, released from the
\* gap queue, a fill, a Reset, the held Logon), the counter and what was done
\* with the messages agree.
AccountedOnce == \A n \in SeqNums : core.fate[n] = "none" <=> n >= core.target

\* Outstanding recovery always names the first number still missing and a
\* top that is still missing too, so a retry never asks for what was
\* already consumed and recovery never outlives its gap.
RecoveryTracksTarget ==
    core.resend.armed => /\ core.resend.expected = core.target
                         /\ core.target <= core.resend.highWater

\* A message kept above a gap is covered by an outstanding recovery that
\* reaches it, so it is released or asked for again, never stranded.
\* (Where a callback may drop the ResendRequest, the next gapped frame asks.)
QueueCovered ==
    ~CallbackDrops =>
        \A n \in Queued(core) :
            n > core.target \/ pc = "idle" =>
                core.phase = "Closed" \/ ReleasePaused
                \/ (core.resend.armed /\ n <= core.resend.highWater)

\* A session on its way out releases nothing more: from its own Logout, or
\* from the counterparty's, the gap queue is empty.
LeavingHoldsNothing ==
    core.phase \in {"LogoutQueued", "LogoutPending"} \/ core.owed => Queued(core) = {}

\* While a Logon is held no ResendRequest of this session can have asked
\* for it: recovery is armed up to it and nothing is charged, so its number
\* is not consumed here and filled by an answer too.
HeldLogonUnrequested ==
    core.heldLogon > core.target /\ core.phase # "Closed" =>
        /\ core.resend.armed
        /\ core.heldLogon <= core.resend.highWater
        /\ core.resend.attempts = 0

\* For one expectation an Active session writes at most resend_attempt_limit
\* ResendRequests, plus two uncharged ones: the one a spanning fill causes at
\* this expectation, and one a spanning fill caused at an earlier one that
\* was held behind a resend and is rebuilt from the expectation of that moment.
RequestsBounded == core.phase = "Active" => core.asked <= ResendLimit + 2

\* A number's fate is final: no message reaches the application twice, none is
\* delivered after its number was passed over, whatever is replayed.
FateFinal ==
    [][\A n \in SeqNums : core.fate[n] # "none" => core'.fate[n] = core.fate[n]]_vars

\* The expectation never moves back.
TargetMonotonic == [][core'.target >= core.target]_vars

\* What a stalled gap needs of the consumer.  A tick whose ResendRequest or
\* Logout a callback drops changes nothing and the next tick tries again,
\* without bound: so this says of the tick's own fairness that the callback
\* does not drop every one of them.  Without callbacks it is the tick's alone.
CallbackRelents == SF_vars(RetryStalled) /\ SF_vars(AbandonStalled)

\* A gap does not stay open for ever: it is filled, or the session gives up
\* and logs out, whatever traffic the counterparty sends meanwhile.  The code
\* promises this only where the callback lets a ResendRequest or Logout pass
\* sooner or later, and where the counterparty does not keep this session
\* resending for ever, since a tick does not chase a gap during a resend.
GapResolves ==
    CallbackRelents /\ <>[](~core.replaying) =>
        [](core.resend.armed => <>(~core.resend.armed \/ core.phase = "Closed"))
=============================================================================
