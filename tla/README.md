# IronFix in TLA+

A verification of the session engine of IronFix (FIX tag=value and FIXP over
TCP, in Rust). TLC checks the modules on small instances; TLAPS proves the
theorems of the `*Proofs` modules for every value of the constants.

## The system

IronFix is a workspace of fourteen crates. The ones with behaviour over time:

| part | crate and files | state | operations | hard because |
|---|---|---|---|---|
| session core | `ironfix-session`: `session_core.rs`, `sans_io.rs`, `gap_queue.rs`, `replay.rs`, `logout.rs`, `heartbeat.rs`, `throttle.rs`, `logon.rs`, `sequence.rs` | phase, counters, outstanding resend request, gap queue, held sends, replays, probe, throttle | pure decisions the reactor calls | every decision reads state that several handlers move |
| reactor | `ironfix-engine/src/reactor.rs` | the session core, the writer, the replay, the store's recorded counters | one `select!` over socket, commands, tick, application events | order of branches, store calls awaited inside handlers, failing writes |
| application dispatcher | `reactor.rs` (`AppDispatcher`) | queue, watermark | `from_app`, watermark writes | runs beside the reactor |
| logon handshakes | `initiator.rs`, `acceptor.rs`, `next_expected.rs`, `registry.rs`, `persistence.rs` | seeded counters, owed resets, registry slots | logon exchange, 141 and 789, provisional slots | crashes and refusals between a reset and its declaration |
| stores | `ironfix-store` | journal, slots, index | append, flush, compact, reset, open | torn writes, failed flushes, renames |
| FIXP | `ironfix-fixp`, `ironfix-engine/src/fixp` | session state machine, ranges, timers | negotiate, establish, sequence, retransmit, terminate | two roles, three flow kinds, timers |
| framing | `ironfix-transport`, `ironfix-sofh` | read buffer, skip window | find, reject or resynchronise frames | bounded buffers |
| FAST | `ironfix-fast` | per-field dictionary | presence map, operators | encoder and decoder must agree |

Around them: tag=value codec, dictionaries, code generation, TLS, configuration
and examples, which have no behaviour of this kind and are listed in
`PROJECT.json` as not modelled, each with its reason.

The counterparty talks to the **reactor** through the codec. The reactor asks
the **session core** what a frame means, moves the target counter, persists it,
and hands application messages to the **dispatcher** over a bounded queue; the
dispatcher runs `from_app` and persists a watermark. Outbound, the reactor
files a frame in the **store** before it feeds it to the socket. At a start the
**handshake** reads the store, reports what the last session may have lost,
decides whether to reset, and spawns reactor and dispatcher.

What makes each part correct:

* recovery: a gap is asked for, once per attempt, until it is filled or the
  session gives up; no number is acted on twice or forgotten;
* delivery: an accepted message reaches `from_app` or is named to the
  application, through crashes and failed writes;
* outbound: no number is used for two different messages the peer saw; what is
  on the wire can be resent or is gap-filled;
* handshake: both sides agree on the stream they continue; a reset that was
  started is declared, whatever crashes in between;
* stores: what a call said was filed survives; a torn tail is cut, never read.

## Modules

### GapRecovery

The inbound half of one session against an arbitrary counterparty
(`reactor.rs`, `session_core.rs`, `sans_io.rs`, `gap_queue.rs`). `core` is the
`SessionCore` with its target counter; `pc` says whether the reactor is
opening, waiting, or inside the release loop. The handlers of `on_frozen_frame`
are `ReceiveApp`, `ReceiveAdmin`, `ReceiveMalformed`, `ReceiveFill`,
`ReceiveReset`, `ReceiveBadFlag`, `ReceiveDuplicate`, `ReceiveGapped` and
`ReceiveTooLow`; `ReleaseEntry`, `ReleaseHeldLogon` and `ReleaseDone` are the
loop of `release_ready`; `Tick`, `LocalLogout`, `LogoutWritten`, `HeldWritten`,
`FinishResends` and `CutResend` are the rest of the reactor as far as it
touches the expectation. A handler's calls are operators from core to core,
composed as the code composes them. The contents of a frame are its kind, its
number, PossDup and NewSeqNo; the store is left out (`InboundWatermark`
has it); the outbound resend is a flag and the number of sends held behind it.

Properties: `AccountedOnce` (the counter and the fate of each number agree),
`RecoveryTracksTarget` (an outstanding request names the first missing number),
`QueueCovered` (a frame kept in the gap queue has an outstanding request
under it), `LeavingHoldsNothing`, `HeldLogonUnrequested`, `RequestsBounded`,
the action property `FateFinal`, and under fairness `GapResolves`
(`TargetMonotonic` is proved). The code repeats a ResendRequest or a Logout the
callback dropped on every tick and counts nothing, so a callback that drops them
for ever keeps the gap open for ever: `CallbackRelents` is the hypothesis of
`GapResolves` that it does not.

### InboundDelivery and InboundWatermark

`InboundDelivery` states the promise of ADR-0030 with nothing of the engine in
it: taken at most once, finished or reported, erased only when resolved.
`InboundWatermark` is the engine that keeps it: the reactor (start, opening
watermark, target write, hand-over, end of pass, close), the dispatcher
(`run_app_dispatcher`), the store and its failures, and a crash between any two
steps. `disk` is the store's target number and watermark, `owed` the
owed-reset record, `reactor` and `disp` the two tasks with their program
counters, `queue` the channel between them. A failed write may have landed:
both outcomes are explored. `DeliverySpec` is the refinement (`taken`,
`finished` and `reported` are history variables of the same names).
`LossIsNamed` is the invariant behind it: what is unresolved lies in the span
the next start computes from the disk.

The duration for which a reset stays owed while it is being declared to the
counterparty is not in this module: a reset that succeeded is settled with it.
### FixpFlow

One Recoverable flow of a FIXP session, provider to consumer, with both roles
of the code at its ends: `ConsumerIsClient` says which end establishes. `side`
holds the two `Session`s joined with their role and binding state (`phase`),
`chan` what is under way to each side, `up` whether a side still has the
transport. A handler of `Session` is an operator from session to `Result`: the
session after it, the messages it queued, whether the binding stays, the number
of a delivered message, the numbers reported abandoned. `Carry` applies a
result. A transport may fail under either side at any time and takes what was
unread with it; sessions survive and are established again on the next one. A
message does not carry its number, as on the wire: `handed[n]` lists the
numbers under which the sender's message `n` was delivered.

The provider serves a request in batches of any size, refuses it, ends it
early (`EndsEarly`), or, as another implementation might, cuts a batch short
(`CutsBatches`). This code never sends FinishedSending, so `FinishSending` is
external (`Finishes`).

Left out: negotiation (it ends before the flow starts and a failure closes the
session), NotApplied of an Idempotent flow, Unsequenced and None flows, credentials,
keep-alive intervals (their expiry is `TerminateOnError`), numbers past `u64`.

### ReplayPromise and ResendReplay

`ReplayPromise` states what answering resend requests promises, with nothing of
pages, steps or stores in it: each range owed is answered in order and without a
hole, never past its end, and no new number is written meanwhile.
`ResendReplay` is the engine that keeps it (`replay.rs`, the resend half of
`session_core.rs` and `reactor.rs`). `replays` is the queue of resends, each
with its `ResendReplay` cursors, the page in hand and the message whose gap fill
was fed last (`pending`); `store` says what is filed under each number; `held`
counts what waits behind the resends. `ResendStep` is one call of
`advance_resend` (`SendPending`, `SendNext`, `ReadPage`, `Complete`); the
reactor may make up to 64 of them before it reads again, which is a run of the
model. `WriteHeld` and `Finish` are the turns of the loop in `finish_resends`.
The counterparty always has a frame ready, so a step waits until `Reading`
says the reactor does not read: this is the worst case for the resend.

`peer` is a counterparty that takes frames in order and ignores the rest;
`asked` says that it asked for all it lacked. The messages themselves are their
numbers. A session without a store is one whose every read fails. A stalled
stream and the write timeout are `Close`. A gap fill a `to_admin` callback drops
is not modelled. A gap fill that starts below what the counterparty expects and
spans it (two overlapping requests, or requests merged past the limit) is
ignored by a counterparty that drops duplicates, which must then ask again:
`asked` is cleared there, so `NeverStranded` claims nothing until it does. A
ResendRequest written between this session's Logon and the resend of the Logon
exchange is left to the same asking again. `held` is a count: a frame past a gap may
add this session's own ResendRequest (`HoldTwo`), although the code holds only
one such request at a time, so the model holds at least what the code can.

### OutboundStream

The outbound half of a session (`persistence.rs`, the writer of `reactor.rs`,
the reset half of `initiator.rs` and `acceptor.rs`). `disk` is the store (next
number, what is filed, the owed-reset marker), `debt` the `OwedReset` record with
its two generations (`owed`, and `later` for what was owed after the ticket in
hand was taken), `eng` the session with its program counter from `mark` (the
marker is written) over the handshake, the live session and the close to `down`.
`buffer` and `wire` are the frames before and after the stream took them. `fate`
is what each tracked send has been told; `book` and `doubt` are history: what each
number of the stream was spent on, and whether a write failed since the last
reset. `Start` is the next session on the same store, in the same process or
after `Crash`; a store call that fails may have done any part of its work.

The counterparty (`peer`) reads frames in order, refuses or accepts a Logon,
declares resets of its own and asks for resends; its answers arrive in order.
The exchange of Logouts is one step, and what it may find unanswered is
`Disconnect`. A crash is explored under `CloseSession`: `Continue` accepts that
one loses what the store does not have. `reset_to` is atomic (`FileJournal`
has its inside). An acceptor's acknowledgement that declares a reset is paid
when it has been written, as in the code; `NumbersNeverReused` excepts what
follows from it.

A refusal is a frame of its own kind (`Refuse`). The initiator refuses an
acknowledgement; an acceptor refuses a Logon it has seeded a session for, or one
it has not (`SeedRefusal`, `refuse_authenticated`). The latter is numbered from
the store as it stands and never declares a reset, as ADR-0017 wants, so that no
refused Logon clears the journal. Between a `reset_to` and the Logon that
declares it, or when the refused Logon itself declares one, its number may
therefore be one the counterparty has passed in the stream it still keeps:
`RefusedOwing` names that frame, and `NumbersNeverReused` excepts it. What is
filed under the number is exact all the same (`ReplayFaithful`), and the reset
is still declared by the next Logon (`ResetRemembered`). A Reject in front of the
Logout is taken with it as one frame. The handshake's writes of the inbound half
fail in `AckReceived` and `HandshakeWriteFails`; an acceptor whose
acknowledgement could not be written is `HandshakeLost` before it settles.

Properties: `NumbersNeverReused`, `ReplayFaithful`, `ResetRemembered`, `DebtKept`,
`OutcomeHonest` and, under fairness, `OutcomeArrives`.

### StorePromise and FileJournal

`StorePromise` is the store as its caller may rely on it, with nothing of files
in it: a call takes effect whole or not at all, a process that dies leaves what
the calls before left, with the one in progress done or not, and a power loss
takes back no more than the flush policy allows: nothing acknowledged under
`EveryWrite`, the last `n - 1` writes under `EveryN(n)`, each part of the store (a
counter, a frame) on its own, as the documentation of the policy warns.
`late` counts the acknowledged writes no flush has covered.

`FileJournal` is the journal that keeps it (`file.rs`, `file/format.rs`). `disk`
is the file as the operating system has it (`slots`, `recs`) and what of it is
durable (`may`, `firm`, `wrote`, `dropped`, `behind`); `mem` is the `Journal`
struct with a program counter for the call in progress. A call is several steps:
its write (`FileOutbound`, `SetCounters`, `MarkSlot`, with the put-back of a failed one),
its flush (`AfterWrite`, `MarkFlush`, `Sync`, with the cut and the slot put
back when it fails), for a refresh `UndoRename`, `Undo`, `Load`, `Reflush`, and
for a reset or a compaction the rename and `AfterRename`. The process or the
machine may die between any two (`Crash`, `PowerLoss`); `Open` is recovery. A
power loss keeps, drops or tears each write no flush has covered, and keeps
dropping what a failed flush dropped whatever a later one reports.
`Settles` says that what one process left the operating system to write is on
the disk when another opens the journal; finding 4 is what happens if not.

`View` is what an open would find; the refinement maps `kept` to it, so a state
in which an open would refuse the journal breaks `KeepsPromise`.
The promise does not tell `Ok` from `Err`: `acked` is what the model says the
caller was told, and `ServesAcked` ties the open journal to it.

Offsets are counts of records, so a boundary inside a record is not told apart
from its start, and the size rule for torn tails is a count. A failed write
leaves the worst it may (torn). Errors before a rename change nothing and are
not actions. Closing is `Sync` and then `Crash`. The application watermark lives in the
slots beside the target and moves like it. Left out: `Never`, repair and salvage
with their restamp, `store` (a frame filed without the counter), damage of the
medium, the lock file and permissions, the writer thread and cancelled calls,
the threshold of automatic compaction (`Compact` may happen after any call), a
first open that fails.

## Runs
| run | configuration | properties | result | what it shows |
|---|---|---|---|---|
| `gap_recovery` | `GapRecovery.cfg` | `TypeOK`, `AccountedOnce`, `RecoveryTracksTarget`, `QueueCovered`, `LeavingHoldsNothing`, `HeldLogonUnrequested`, `RequestsBounded`, `FateFinal` | holds | The inbound half of a session against an arbitrary counterparty: four sequence numbers, a gap queue of two, two attempts, a hold of two; the safety of gap recovery. |
| `gap_resolves` | `GapRecoveryLive.cfg` | `GapResolves` | holds | The same session when a to_admin callback may drop any ResendRequest or Logout on its way out: under the fairness of the reactor's select! a gap is filled or the session gives up, whatever the counterparty keeps sending, if the callback does not drop for ever what the tick sends. |
| `inbound_watermark` | `InboundWatermark.cfg` | `TypeOK`, `LossIsNamed`, `ResolvedAtClose`, `DeliverySpec`, `AcceptedResolved` | holds | Reactor, dispatcher and a failing store under both failure policies, with crashes under CloseSession: no accepted message is lost without a report, the whole refines the at-most-once promise, and under the fairness of the tasks every accepted message is finished or reported. |
| `gapped_first_logon` | `InboundWatermarkGapped.cfg` | `LossIsNamed` | violated | A stream opened by a gapped Logon has no opening watermark: a crash loses messages that no report names. |
| `fixp_flow` | `FixpFlow.cfg` | `ExactlyOnce`, `NothingForgotten`, `OneRequestInService`, `NeverAccused`, `AnswerIsEarned`, `AbandonedIsFinal`, `Recovers` | holds | A Recoverable flow over three transports, a provider that may cut batches short and that finalizes, the default stall policy: messages arrive once and under their own number, none is forgotten, neither end provokes the other, FinishedReceiving is earned, and while both ends stay established every gap is recovered or abandoned. |
| `fixp_overflow` | `FixpFlowOverflow.cfg` | `TypeOK`, `ExactlyOnce`, `NothingForgotten` | holds | One gap allowed, one received run remembered, ReRequestAfterBatch against a provider that ends retransmissions early: refused gaps are held, widened and refused again over six transports, and still nothing is lost or delivered twice. |
| `fixp_first_ack` | `FixpFlowFirstAck.cfg` | `AckRevealsLoss` | violated | Messages lost with the transport that also lost the first EstablishmentAck are never missed: the second Ack is taken for the start of the numbering. |
| `fixp_come_back` | `FixpFlowComeBack.cfg` | `FinishIsAnswered` | violated | A FinishedReceiving lost with the transport is never sent again, whatever the counterparty repeats. |
| `resend_replay` | `ResendReplay.cfg` | `TypeOK`, `NeverStranded`, `KeepsPromise`, `FillsHideNothing`, `CatchesUp`, `LogoutAnswered` | holds | Resend requests answered a page and a frame at a time against a counterparty that never stops sending, with holes, vetoes, failing reads, messages that outgrow the limit, merged requests and a Logout waiting behind them: the answers are complete, in order and undisturbed, hide nothing the store holds, and end. |
| `outbound_stream` | `OutboundStream.cfg` | `TypeOK`, `NumbersNeverReused`, `ReplayFaithful`, `ResetRemembered`, `DebtKept`, `OutcomeHonest`, `OutcomeArrives` | holds | Both roles and both failure policies, two tracked messages, store calls that fail with any part of their work done, lost connections, refusals by either side, resets declared by either side or made at a close, and a crash at any step: numbers are not reused but in the two frames of an acceptor the property names, the store replays what was sent, owed resets survive, and every sender is told the truth. |
| `file_journal` | `FileJournal.cfg` | `TypeOK`, `ServesAcked`, `KeepsPromise` | holds | The file store journal under EveryWrite and EveryN(2): three calls, two system calls that fail anywhere in them, in their undo or in a refresh, and a death of the process or of the machine at any step, each write since the last flush kept, dropped or torn: it serves what was acknowledged and implements the abstract store. |
| `journal_reopened` | `FileJournalReopen.cfg` | `FiledSurvives` | violated | A journal reopened after the process died between a rename and its directory flush: the rename is not flushed again, and a power loss takes back the frames acknowledged since. |

Bounds. `MaxSeq` plays the part of `u64::MAX`: four numbers are enough for a
gap of two with a frame queued above it and one beyond, and exhaustion is
reached. `QueueMax`, `HoldMax` and `AppQueueMax` of one and two reach both the full and the
partly filled queue; `ResendLimit` 2 has a first attempt, a retry and an
abandonment. `CHECK_DEADLOCK FALSE` in the `GapRecovery` and `FixpFlow` runs: a closed
session, or the last transport of the bound, stops. `gap_resolves` is one number
shorter, since liveness costs most: it still has a gap with a frame above it.
`InboundWatermark` explores crashes under `CloseSession` only (`CrashPolicies`):
`Continue` accepts that a crash after a failed write loses messages.

Fairness. `GapRecovery!FairSpec`: the release loop runs to its end inside one
handler (weak), and a logout timeout that is due is taken in the end (strong:
the tick is one branch of a `select!` that picks at random among the ready
ones, and a tick that came due stays ready). What the tick does for a stalled
gap passes through the `to_admin` callback, and the code puts no bound on how
often a callback may drop the retried ResendRequest or the Logout: the session
tries again at each tick and stays Active. With a callback that drops them for
ever a gap stays open for ever, so `GapResolves` does not promise otherwise: it
has the hypothesis `CallbackRelents` (strong fairness of `RetryStalled` and
`AbandonStalled`, steps that a dropped send does not take), which joins the
running tick to a callback that lets one such message pass sooner or later.
Nothing is assumed of the counterparty, except, in a second hypothesis, that it
does not keep this session resending for ever, since a tick does not chase a
gap meanwhile.
`InboundWatermark!FairSpec`: tasks are scheduled, `from_app` returns, and a
process that died is started again; `StoreFailed` is strongly fair for the same
reason as the tick.
`FixpFlow!FairSpec`: a driver reads its transport and serves the request it was
asked (weak), and its timer fires (`Stall`); `FinishSpec` adds a counterparty
that repeats its FinishedSending. The transport is not assumed to last: the
properties ask only for what happens when it does.

Bounds of `FixpFlow`: two messages over three transports have a gap lost in a
transport, one half recovered in the next and settled in the third; the
overflow run has five messages and six transports with one pending gap, which
reaches the widened overflow gap, its remembered run and the refusal of a
second run, with two gaps open at once. Request timestamps are taken modulo
three: a request ends before its successor's successor is sent.
`fixp_flow` finalizes only towards a client (`ConsumerIsClient`): a server that
has accepted a finalization refuses the binding of one that comes back.
`OneRequestInService` and `NeverAccused` are claims about the default policy:
`ReRequestAfterBatch` is documented to ask again on a provider's early end.

`ResendReplay!FairSpec`: the ready branches of the reactor's `select!` are taken
(a resend step, or a frame that brings it nearer), the held-message loop runs to
its end inside one handler, and time passes (`LogoutDeadline`, `TickCut`). The
counterparty is not assumed to stop sending or asking.

Bounds of `ResendReplay`: numbers 1 and 2 are used before the session (2 is its
Logon), 3 by it and 4 by a Logout; a page holds one entry, so each range of two
crosses a page boundary and a full last page occurs; a queue of two reaches the
merge; a hold of one and one read per step reach both limits at once. The hold
passes its limit by one: reading stops once it is full, and a frame past a gap
leaves two messages in it, this session's own ResendRequest and its answer.

`OutboundStream!FairSpec`: the reactor sends what is queued (`Send`); a stream
that takes no byte for the write timeout fails (`Accept` or `WriteFails`); the
close drains (`Drain`), and a Logout is answered or times out (`LogoutDone` or
`Disconnect`). The counterparty is not assumed to read, and a crash is never
required. The process that crashed need not be started again: a dropped receipt
resolves.

Bounds of `OutboundStream`: two messages are the fewest that can go under one
number or fill a buffer with two frames; three numbers hold a Logon, a message
and the second one, or two Logons and a message; two faults let a write and the
marker that should record it both fail; one crash, followed by a start, reaches
every half-done reset. Three numbers also reach the end of the sequence space.

Bounds of `FileJournal`: three calls are two writes and the reset, compaction
or marker between or after them; two faults are a write or a flush and its undo,
or a call and the refresh after it; with two crashes not every call can be
followed by both, which one crash of each kind already shows: an open flushes,
so it is the last state of one life that matters. `EveryN(2)` differs from
`EveryWrite` in having one write unflushed. Two numbers are the fewest with a
record in front of another; two frames under one number tell the last filed
from the first.


## Where the code and its documentation disagree

1. `LossIsNamed` (run `gapped_first_logon`): a stream opened by a Logon beyond
   a gap has opening mark 0, which `persist_opening_watermark` does not write;
   a crash after the first target write leaves "no watermark", which reads as
   nothing lost. The other `InboundWatermark` run excludes this opening
   (`OpensAtOne = FALSE`) and shows that it is the only way.
2. `AckRevealsLoss` (run `fixp_first_ack`): messages lost with the transport
   that also lost the first EstablishmentAck open no gap on the next one.
3. `FinishIsAnswered` (run `fixp_come_back`): a FinishedReceiving lost with
   the transport is not repeated after re-establishment.

4. `FiledSurvives` (run `journal_reopened`): `open_journal` does not flush the
   directory of a journal that exists, so a store opened after its process died
   between a rename and the directory flush acknowledges writes that a power
   loss takes back with the journal the rename replaced.

Five observations no run is spent on:

* A comment on the spanning re-request (`reactor.rs:4558`, and ADR-0021:522)
  says a session whose Logout is out has stopped asking; `request_resend` does
  not look at the phase, so a gapped frame read then writes a ResendRequest and
  arms recovery again.
* The comment on `Journal::flush` knows that after a failed flush "a later
  flush can report success without bringing" the data back, and the journal is
  cut for it. When the cut fails too and the process dies, the next open reads
  the record from the page cache, flushes, and builds on it. With
  `Settles = FALSE` and two faults `KeepsPromise` fails on this; the run assumes
  `Settles`.
* Under `Never` a store that is reopened or refreshed takes the slot it read
  for the durable one although nothing flushed it (`Journal::new`, `reload`),
  so the next counter write may go over the checkpoint that is durable, which
  ADR-0022:243-255 excludes. `Never` promises nothing against a power loss.
* Under `Never` a failed `sync` after a reopen cuts the journal back to the
  boundary of the slot, below records an earlier process had flushed with a
  `sync` that succeeded; the comment (`file.rs:1003`) says only writes since the
  last flush are cut.
* Under `EveryN` the flush that ends an undo is not counted. `undo_on_disk` flushes a
  journal that still holds acknowledged writes no flush had covered, but `reload`
  leaves `durable_end` where the flush before it was (`min`, `file.rs:1302`). When the
  reload's own flush then fails, `flush` cuts those records, although its comment
  (`file.rs:1003`) and ADR-0006 say that a failure cuts back to where the last
  successful flush left the journal. The counter slots are put back as the undo left them, so with
  `EveryN(3)` a counter written since survives the records beside it. With
  `Policies = {2}` and `MaxFaults = 3` this refutes `ServesAcked`: two frames filed, the write of the second
  torn and not put back, a refresh whose undo succeeds and whose last flush fails,
  another refresh. The `file_journal` run has two faults, so it covers
  `EveryN` only up to that; under `EveryWrite` nothing acknowledged is ever unflushed,
  and the theorems hold for any number of faults.


## Proofs

`GapRecoveryProofs` proves, for every `MaxSeq`, `QueueMax`, `ResendLimit`,
`HoldMax` and either value of `CallbackDrops` (the five named assumptions of
`GapRecovery`): the type invariant (`TypeCorrect`), `AccountedAlways`,
`RecoveryTracks`, and from them the action properties `FateIsFinal` and
`TargetNeverBack`. The inductive invariant is `Sound`, the conjunction of the
type, the accounting and the recovery facts: none of them is inductive alone,
because the number a request names is only below the target's successors if the
fates agree with the counter. Each sub-operation has a lemma saying what it
preserves (`Sound`), what it may move (`Advance`) and what it leaves alone
(`Keeps`); a handler's proof chains the lemmas of its calls, and `SoundAlways`
has one step per action.

Its second half builds on those lemmas, for the same constants, and with it every
safety property of the `gap_recovery` run is proved.

- `LeavesEmptyHanded`, `HeldLogonNeverAsked` and `KeptIsCovered`: the queue and
  the held Logon. `IndInv` says of a core that it is `Calm` (on its way out it
  keeps nothing, a Logon held above the expectation is covered and unasked for,
  a number kept above it is one recovery reaches) and of the reactor that it is
  `Rested` (between two handlers a number that is due is kept only because the
  hold is full). `QueueCovered` needs all of it: the release loop may stop with
  a number due, and a Logout's second write relies on the queue being empty
  already.
- `RequestsAreBounded`: `RequestsBounded` only says what was written, so
  `Budget` also counts the uncharged request still held behind a resend against
  the attempts, the spanning fill seen at this expectation and one carried over.
  It needs that a request is held only while this session resends, and that an
  uncharged one was never retried.

`InboundWatermarkProofs` proves the safety of `InboundWatermark` for every stream
length, queue capacity and failure: its type invariant (`WatermarkTypeOK`), that
the store always names what a crash would lose (`LossAlwaysNamed`), that a close
leaves nothing unresolved (`ClosesResolved`) and that the whole implements
`InboundDelivery` (`DeliveryKept`). None of these is inductive: each depends on
where reactor, dispatcher and store stand to one another. `Accounted` says it in
four parts. `DispatcherInv`: the queue is in order, the dispatcher's marks lie
below all it has not done and above nothing the reactor has reached.
`TargetInv`: where the stored target stands to the one in memory, with the one
number that may be written and not handed over (`doubt`). `PendingInv`: every
message not accounted for is queued or in `from_app` while a session serves, and
there is none around a start. `MarkInv`: the stored watermark lies below every
message at stake. TLC checked the invariant before the proof. The proof has a
lemma per group of actions (`StartAccounts`, `LiveAccounts`, `DispatchAccounts`,
`CloseAccounts`, `CrashAccounts`).

Two hypotheses are stated in the theorems. `OpensAtOne = FALSE`: with a stream
that opens on a gapped Logon `LossIsNamed` is false, which is the finding of the
run `gapped_first_logon`. `"Continue" \notin CrashPolicies`, of `ClosesResolved`
and `DeliveryKept`: under `Continue` a write that failed is not made good, so
after a crash the engine promises nothing about it; `LossAlwaysNamed` holds with
or without. `AcceptedResolved` is liveness and stays with TLC.


`ResendReplayProofs` proves all of `ResendReplay`'s safety: its type invariant
(`ResendTypeOK`), that a counterparty that asked is caught up
(`ResendsCatchUp`), that gap fills hide nothing (`FillsAreHonest`) and that the
session implements `ReplayPromise` (`ResendsKeepPromise`), for every store,
page limit and bound. `ResendInv` is the inductive invariant TLC checked first:
`Sound` says of one resend that every message still to be replayed is in the
page in hand, in a page not read yet or behind a read that failed (`PageReads`
proves what `get_page` returns, for a full page and for a short one);
`QueueInv` adds that only the first resend has started, which is what lets
`queue_replay` widen the last one; `PeerInv` that some resend queued reaches
the end for a counterparty that asked. A step is classified once (`StepMoves`:
quiet, a new number, an end, a request, or progress of the first resend), and
the four theorems reason about the classes. `NeverStranded` needs the
counterparty to ignore a fill it does not expect; `CatchesUp` and
`LogoutAnswered` are liveness and stay with TLC.


`OutboundSafetyProofs` proves every safety property of `OutboundStream`. First `DebtIsKept`: a failed store write stays owed until
a reset made after it, and a live session's record never says less than the
marker in its store, for every number of messages, sequence numbers, faults and
crashes, both roles, both failure policies and either reset at a close.
`DebtKept` alone is not inductive. `DebtInv` adds what carries it over the steps
that look like they lose it: a ticket pays only what was owed when it was taken
(`debt.later` keeps the rest), a process that died left the marker, and a reset
is owed from before it is made. `SyncMarkerOwes`, `FileOutboundOwes` and
`FailedMutationOwes` say what the store calls may do to the record; `QuietStep`
disposes of the actions that leave it alone.

Then the other four safety invariants and the type invariant, over the same
constants (`OutboundTypeOK`,
`NumbersNotReused`, `ReplayIsFaithful`, `ResetIsRemembered`, `OutcomeIsHonest`).
They need one another, so one invariant carries them, `OutInv`, which TLC checked
first on both roles. Its parts are what a reader of the engine has to keep in
mind at once:

* `ReceiptInv`: a tracked message is queued, in the buffer, on the line or
  settled, and in one place only; what has not been filed is nowhere.
* `InOrder`: numbers rise along the line and on into the buffer, and a frame that
  declares a reset stands first.
* `StageInv`: at each stage of the handshake and of the close, whether the
  marker is durable, who has heard of the reset and what may be in flight. It
  holds most of the reasoning behind ADR-0029: a reset is asked for only with
  its marker in the store, and while a reset went unread the marker stands.
* `NumberInv`: the counterparty expects at most what reaches it next, and at
  most what this session numbers next, or the one restarted from the store
  would; where the latter fails the marker is there, or under `Continue` the
  record in memory (`Owing`), and the one frame that may go out meanwhile is the
  acceptor's refusal (`Refused`, which `NumbersNeverReused` excepts).
* `CounterInv`: when the counter in the store is the one in memory, and in which
  stages a failed write can still be unresolved under `CloseSession`.
* `ReplayInv`: which part of the store a resend may trust, and what it holds.
* `Room` bounds the numbers still to be spent, which keeps `TypeOK` inductive.

The line is reasoned about through operators on sequences (`InOrder`, `Below`,
`From`, `Distinct`) with a lemma for each thing that happens to it: a frame is
fed, taken or read, the buffer dropped. `Next` has 30 actions; each has a lemma
(`SendLogonKeeps`, `WriteAtKeeps`, `CloseResetKeeps`, ...), and steps that fail alike
share one (`DiesKeeps`). `OutcomeArrives` needs the fairness of the writer and
stays with TLC.


`FixpFlowProofs` proves the safety of the FIXP flow for every bound on gaps, runs,
batches, messages, transports and line length, either end the client and either
way of choosing a batch: `FlowTypeHolds`, `DeliveredOnce`, `NoneForgotten`,
`AnswerEarned`, `AbandonedStays`. Numbers travel with no application message, so
what the consumer counts is right only if what is on the line is what it thinks.
`FlowInv`, checked by TLC first, says so:

* `LineOK`: the messages on the way to the consumer, followed by what the
  provider may send without a new header (`Ready`), are numbered in the context
  the consumer is in (`Context`: live, inside a batch, or awaiting a header), and
  no batch is longer than its header says. A send extends the line at one end, a
  receive takes its head and moves the context (`SendBehind`, `ReadFirst`).
* `NextOK`: neither what the consumer expects nor what a header on the line
  announces is beyond what the provider sends next.
* `LetGo`, `HandshakeOK`: nothing outlives a transport but the session; at most one
  Establish is under way, and none to a bound provider. Without this a late
  answer would restart a numbering that is in use.
* `Session`: the consumer's own books. `GapsOK` and `RunsOK` order the gaps and the
  runs received inside the overflow gap; `RequestOK` ties the request to the
  start of the first gap and the batch to the rest of the request; `FinishOK` ends
  the flow where it stands; `BooksOK` says that a number passed is delivered,
  abandoned or missing, and that of the missing ones exactly those in a run or
  in the delivered part of the request were delivered all the same.

`NothingForgotten` and `ExactlyOnce` need each other through `BooksOK`: a number is
in a gap and delivered at once while a batch is read or the gap table is full,
and a loss at that moment must keep one half and ask for the other. Each handler
of the session has a lemma that it keeps `Session` (`Settles`, `RequestKeeps`, ...), each
action one that it keeps `FlowInv`, and `FlowInvNext` joins them.
`Recovers` is liveness and stays with TLC.

`FixpServiceProofs` proves `ServesOneAtATime`, `OneRequestInService` for every stall
policy but `ReRequestAfterBatch`. That policy is documented to ask again behind a
batch the provider may not have meant as its last, so the property is not claimed
of it. `FlowInv` says nothing of the line to the provider; `ServiceInv` adds how a
request, its service and what is said of it hang together:

* `OneAsked`: one request at most is on the way, and none while one is served.
* `Answered`: once anything is said of a request it is no longer on the way; a
  refusal, and a batch that is not written whole, are the last thing said.
* `UnderWay`, `InService`: a request that has not arrived is as it was sent and
  untouched by the consumer; one being served is the consumer's, announced as
  far as the last batch on the line.
* `CutShort`: a consumer whose batch was interrupted has heard the last of it, so
  the stall that asks again (`again` of `OnStall`) overlaps nothing.
* `Chained`: the batches on the line follow each other inside the request, and
  only what no batch announced is refused.
* `Idle`: a consumer without a request meets a provider without one, and nothing
  more to read of it. It is what lets `request_missing` ask.

Each step settles this through one of four lemmas on who moved (the consumer read
or spoke, the provider read or spoke) and one on what a line keeps; `ServiceNext`
joins them.

`FixpAccordProofs` proves `NoEndIsAccused`: `NeverAccused` for every constant but two
kinds, and small instances of either break it. Under `ReRequestAfterBatch` a stalled consumer may
ask while the provider still serves, and is told "request in progress"; a consumer
that is the server and has answered `FinishedSending` is finalized, and refuses the
Establish of a client that comes back (the finding of `FixpFlowComeBack`). The
theorem therefore assumes the other policies, and `ConsumerIsClient \/ ~Finishes`.
Beside `FlowInv` and `ServiceInv`, `AccordInv` is what every place where a session
accuses its peer finds true:

* `NumbersInv`. `InStep`: the announced numbers rise along the line, each at least
  as high as the messages before it, and from what the consumer expects, so no
  `Sequence`, Ack or Establish goes back. `Concludes`: whoever says or heard that
  the flow ended has its last number from the provider, so no message passes it
  and no second end differs from the first.
* `ResumesInv`: behind a batch the line goes on with a header, which is what a
  consumer that has read one waits for; `FlowInv` alone says which number a message would
  have, not that a header comes.
* `GreetInv`: the phases of the two roles against the handshake messages between
  them. An unanswered Establish has no second behind it, a reject and an Ack never
  meet, and a session message reaches a client only behind the Ack that binds it.

It is stated of the client and the server, and the rest of the invariant of the
consumer and the provider; each action therefore has a lemma for either end, and
`AccordNext` joins them.


`FileJournalProofs` proves all that `FileJournal` states, under two hypotheses that
its theorems name: `Policies = {1}` (EveryWrite) and `Settles`. Every other constant
is free: any number of calls, of system calls that fail and of deaths of the
process or the machine, any sequence numbers, targets and frames. It proves
`JournalTypeOK`, `JournalServesAcked`, `JournalFiledSurvives` (the very property the
`journal_reopened` run refutes without `Settles`) and `JournalKeepsPromise`, the
refinement: the initial journal is a promised store, and every step is one of
`StorePromise` or a stutter.

What carries the proof is that a slot and a length say it all. `Standing` says that an
open journal rests on one durable slot (`Base`), which no write touches, and on the
`durableEnd` records a flush covered (`Grounded`): they are the same in memory, on the
disk and in every image a power loss may leave, they are older than whatever is
written next, and at most one slot or one record is out beyond them (`Single`). From
this `ImagesRead` shows what recovery finds in any image: what was flushed (`Held`), or
that with the one write out. `ByStage` then says what is out at each step of a call:
nothing (`Settled`), the record appended, the slot rewritten, or what is pending and
will be undone (`Undoable`). `Survives` says that whatever may come back was promised,
`Tells` and `Marker` tie the journal in memory to what callers were told, and
`Becomes` to what the call under way will tell. `IInv` is their conjunction, and TLC
checked it before the proof was begun.

Recovery is a scan of a sequence for its first damaged record, by `CHOOSE`, so nothing
needs an induction on data: `GoodIs`, `NewestIs` and `ReadsAre` show what the choices are
on a disk of that shape; `ToldAppend`, `ToldSlot` and `LiveRecordsAre` what an append, a slot
write and a compaction make of what a journal says. One lemma per action
(`FileOutboundKeeps`, ..., `OpenKeeps`) shows that it keeps `IInv` and is a step of the
promise, and `NextKeeps` joins them.

The proof changed the model in three places. `StorePromise` was too strong for
`EveryN(n)` with `n > 2`: a refresh that fails half way may leave a mixture of the
unflushed writes before the call has failed, so `Keeps` allows it wherever a step may
leave something new. A refused scan is a predicate (`Opens`) rather than a value of
`Scan`. `Compact` takes its records through the index by definitions of its own.

Not proved: the journal under `EveryN`. There a failed undo can leave half of the
unflushed writes, so that more than one write is out, and with three faults
`ServesAcked` is false (the last observation under the findings).


Only model-checked: `OneRequestInService` and `NeverAccused` where the hypotheses of
their theorems do not hold, as far as they are claimed there; the journal under
`EveryN`; and everything under fairness (liveness and ENABLED are outside the prover's reach).

## Plan
In this order; what exists is marked.

1. `GapRecovery` and its proofs (done).
2. `InboundDelivery`, `InboundWatermark` and their proofs (done).
3. `ResendReplay`, `ReplayPromise` and their proofs (done).
4. `FixpFlow` (done) and the proofs of all its safety properties (done). Left:
   negotiation, the Idempotent flow, the engine driver.
5. `OutboundStream` and the proofs of all its safety invariants (done). Left: the
   send throttle.
6. `StorePromise` and `FileJournal` (done), with the proofs of everything they state
   under `EveryWrite` (done). Left: `Never`, the writer thread.

## Not modelled

* The registry of provisional sessions (`registry.rs`): which Logon claims,
  shares or evicts a session between lookup and acceptance. It is the one
  concurrent part of the engine without a module.
* The send throttle and the TestRequest probe: timers over one counter each,
  with no interleaving but the reactor's.
* Framing (`ironfix-transport`, `ironfix-sofh`) and the tag=value codec: their
  properties are over byte strings, which small instances do not reach.
* FAST: a codec the session engine does not use.
* Dictionaries, code generation, TLS, configuration and examples: no behaviour
  over time.
* A dispatcher task that outlives its session because `from_app` blocks its
  thread, which its documentation forbids.

