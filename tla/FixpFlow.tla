----------------------------- MODULE FixpFlow -----------------------------
(***************************************************************************)
(* One Recoverable flow of a FIXP session (ironfix-fixp): a provider sends  *)
(* numbered application messages to a consumer, which numbers them          *)
(* implicitly, detects gaps, asks for retransmissions and survives the loss *)
(* of the transport.  Both ends are the code's own state machine; either    *)
(* may be the client.  The reverse flow carries session messages only.      *)
(*                                                                         *)
(* The session is negotiated.  A transport is a pair of FIFO channels, lost *)
(* with what is in them; the session is established again on the next one.  *)
(* An application message is the number its sender gave it, which is not    *)
(* on the wire: the consumer has to arrive at the same number.              *)
(***************************************************************************)
EXTENDS Naturals, FiniteSets, Sequences, SequencesExt

CONSTANTS
    ConsumerIsClient,  \* which end negotiates and establishes
    MaxRetransmitCount, MaxPendingGaps, MaxGapLen,   \* FixpConfig of both ends
    MaxRuns,           \* MAX_OVERFLOW_RECEIVED_RUNS
    Policy,            \* RetransmitStallPolicy of the consumer
    CutsBatches,       \* the provider is another implementation: it cuts a
                       \* batch short with a Sequence and stops serving
    EndsEarly,         \* its application calls end_retransmission
    Finishes,          \* it may send FinishedSending, which this code never does
    MaxSeq,            \* bound: messages the provider sends
    MaxTransports,     \* bound: transports opened
    MaxChannel         \* bound: what a sender leaves unread before it sends more

Policies == {"Terminate", "EventOnly", "ReRequestAfterContextSwitch", "ReRequestAfterBatch"}

ASSUME FlagsAssumption == {ConsumerIsClient, CutsBatches, EndsEarly, Finishes} \subseteq BOOLEAN
ASSUME ConfigAssumption ==
    /\ {MaxRetransmitCount, MaxPendingGaps, MaxGapLen} \subseteq Nat \ {0}
    /\ MaxRuns \in Nat /\ Policy \in Policies
ASSUME BoundsAssumption == {MaxSeq, MaxTransports, MaxChannel} \subseteq Nat

VARIABLES
    side,        \* the two Sessions with their role and binding state
    chan,        \* what is under way to each side
    up,          \* whether a side holds the transport
    transports,  \* how many transports were opened
    handed,      \* history: the numbers each message was delivered under
    abandoned,   \* history: numbers named by RetransmitRejected
    origin,      \* history: where the consumer's numbering started (0: not yet)
    blame        \* history: the last violation a side found in its peer

vars == <<side, chan, up, transports, handed, abandoned, origin, blame>>
history == <<handed, abandoned, origin, blame>>

Sides == {"consumer", "provider"}
Other(x) == IF x = "consumer" THEN "provider" ELSE "consumer"
Client == IF ConsumerIsClient THEN "consumer" ELSE "provider"
Server == Other(Client)
Numbers == 1 .. MaxSeq
consumer == side.consumer
provider == side.provider

\* Request timestamps strictly increase; at most two requests are ever
\* answered on one transport at a time, so three values tell them apart.
Stamps == 0 .. 2

NoRequest == [stamp |-> 0, from |-> 0, count |-> 0, delivered |-> 0,
              interrupted |-> FALSE, complete |-> FALSE, reported |-> FALSE]
NoReplay == [next |-> 0, left |-> 0]
NotFinished == [end |-> 0, answered |-> FALSE]
NoService == [stamp |-> 0, from |-> 0, count |-> 0, sent |-> 0]

\* `phase' joins the role's state and the BindState of a bound session.
NewConsumer ==
    [phase |-> "negotiated", next |-> 1, start |-> TRUE, missing |-> <<>>,
     runs |-> <<>>, request |-> NoRequest, replay |-> NoReplay,
     resume |-> FALSE, finished |-> NotFinished, finalized |-> FALSE,
     stamp |-> 0, announced |-> 0]

NewProvider ==
    [phase |-> "negotiated", next |-> 1, implicit |-> FALSE,
     serving |-> NoService, ended |-> FALSE, answered |-> FALSE, announced |-> 0]

Init ==
    /\ side = [consumer |-> NewConsumer, provider |-> NewProvider]
    /\ chan = [x \in Sides |-> <<>>]
    /\ up = [x \in Sides |-> FALSE]
    /\ transports = 0
    /\ handed = [n \in Numbers |-> <<>>]
    /\ abandoned = {} /\ origin = 0 /\ blame = "none"

Bound(x) == side[x].phase \in {"established", "terminating", "closing"}
Established(x) == side[x].phase = "established"

(* ------------------------------------------------------------- messages *)

SequenceMsg(next) == [kind |-> "Sequence", next |-> next]
Application(n) == [kind |-> "Application", n |-> n]
TerminateMsg(code) == [kind |-> "Terminate", code |-> code]
RequestMsg(stamp, from, count) ==
    [kind |-> "RetransmitRequest", stamp |-> stamp, from |-> from, count |-> count]
Retransmission(stamp, next, count) ==
    [kind |-> "Retransmission", stamp |-> stamp, next |-> next, count |-> count]
RejectMsg(stamp) == [kind |-> "RetransmitReject", stamp |-> stamp]

(* ---------------------------------------------- what a handler returns  *)

\* `s' the session after it, `send' the messages it queued, `open' whether
\* the binding continues (Bound::Stay), `accept' the number of a delivered
\* message, `gone' the numbers reported abandoned, `blame' the violation.
Result(s, send) == [s |-> s, send |-> send, open |-> TRUE, accept |-> 0,
                    gone |-> {}, blame |-> "none"]

\* The next call of a handler, which returned q, unless r ended the binding.
Then(r, q) ==
    IF ~r.open THEN r
    ELSE [q EXCEPT !.send = r.send \o @, !.gone = r.gone \union @,
                  !.accept = IF @ = 0 THEN r.accept ELSE @]

\* Session::consume_missing: the first `count' numbers of the first gap are
\* recovered or abandoned.
ConsumeMissing(s, count) ==
    IF count = 0 \/ s.missing = <<>> THEN s
    ELSE LET gap == Head(s.missing)
         IN  IF gap.from + count < gap.end
             THEN [s EXCEPT !.missing[1].from = @ + count]
             ELSE [s EXCEPT !.missing = Tail(@),
                            !.runs = IF Len(s.missing) = 1 THEN <<>> ELSE @]

\* Mutant: release_binding_state forgets what was delivered of the request.
ReleaseForgetful(s) ==
    [s EXCEPT !.request = NoRequest, !.replay = NoReplay, !.resume = FALSE]
\* Mutant: it takes the whole request for recovered.
ReleaseGenerous(s) ==
    [ConsumeMissing(s, s.request.count)
        EXCEPT !.request = NoRequest, !.replay = NoReplay, !.resume = FALSE]

\* Session::release_binding_state, on either side.
ReleaseConsumer(s) ==
    [ConsumeMissing(s, s.request.delivered)
        EXCEPT !.request = NoRequest, !.replay = NoReplay, !.resume = FALSE]
ReleaseProvider(s) == [s EXCEPT !.serving = NoService]
Release(x, s) == IF x = "consumer" THEN ReleaseConsumer(s) ELSE ReleaseProvider(s)

\* FixpClient::unbound, FixpServer::unbound.
Unbound(x, s) ==
    [s EXCEPT !.phase = IF x = "consumer" /\ s.finalized THEN "finalized" ELSE "negotiated"]

\* Session::fail: a Terminate if this side may still send, then the close.
FailWith(x, s, code, why) ==
    [Result(Unbound(x, Release(x, s)),
            IF s.phase = "established" THEN <<TerminateMsg(code)>> ELSE <<>>)
        EXCEPT !.open = FALSE, !.blame = why]
Violation(x, s, why) == FailWith(x, s, "Error", why)

(* ----------------------------------------------- the consumer's Session *)

\* Session::request_missing: the start of the first gap, one request at a time.
RequestMissing(s) ==
    IF s.phase # "established" \/ s.request # NoRequest \/ s.missing = <<>>
    THEN Result(s, <<>>)
    ELSE LET gap   == Head(s.missing)
             count == Min({gap.end - gap.from, MaxRetransmitCount})
             stamp == (s.stamp + 1) % Cardinality(Stamps)
         IN  Result([s EXCEPT !.stamp = stamp,
                              !.request = [NoRequest EXCEPT !.stamp = stamp,
                                              !.from = gap.from, !.count = count]],
                    <<RequestMsg(stamp, gap.from, count)>>)

\* Mutant: FinishedReceiving goes out with gaps still open.
MaybeFinishEarly(s) ==
    IF s.finished = NotFinished \/ s.finished.answered \/ s.phase # "established"
    THEN Result(s, <<>>)
    ELSE Result([s EXCEPT !.finished.answered = TRUE], <<[kind |-> "FinishedReceiving"]>>)

\* Session::maybe_finish_receiving.
MaybeFinishReceiving(s) ==
    IF \/ s.finished = NotFinished \/ s.finished.answered
       \/ s.phase # "established" \/ s.missing # <<>> \/ s.request # NoRequest
    THEN Result(s, <<>>)
    ELSE Result([s EXCEPT !.finished.answered = TRUE], <<[kind |-> "FinishedReceiving"]>>)

\* Mutant: every refused gap takes a slot of its own.
RecordUnbounded(s, from, end) ==
    [held |-> Len(s.missing) >= MaxPendingGaps, known |-> TRUE,
     s |-> [s EXCEPT !.missing = Append(@, [from |-> from, end |-> end])]]
\* Mutant: the overflow gap is widened with no record of what arrived inside.
RecordUnmarked(s, from, end) ==
    LET at == Len(s.missing)
    IN  [held |-> at >= MaxPendingGaps, known |-> TRUE,
         s |-> IF at > MaxPendingGaps THEN [s EXCEPT !.missing[at].end = end]
               ELSE [s EXCEPT !.missing = Append(@, [from |-> from, end |-> end])]]
\* Mutant: a gap past the bound is dropped.
RecordDropping(s, from, end) ==
    IF Len(s.missing) >= MaxPendingGaps THEN [held |-> TRUE, known |-> TRUE, s |-> s]
    ELSE [held |-> FALSE, known |-> TRUE,
          s |-> [s EXCEPT !.missing = Append(@, [from |-> from, end |-> end])]]

\* Session::record_gap and hold_refused_gap.  `held' past max_pending_gaps
\* means the binding ends; `known' that the numbers up to `end' are recorded.
RecordGap(s, from, end) ==
    LET last   == Last(s.missing)
        merges == s.missing # <<>> /\ last.end = from
        room   == Len(s.missing) < MaxPendingGaps
        widens == Len(s.missing) > MaxPendingGaps
        full   == widens /\ last.end < from /\ Len(s.runs) >= MaxRuns
        at     == Len(s.missing)
    IN  [held |-> ~merges /\ ~room,
         s |-> IF merges THEN [s EXCEPT !.missing[at].end = end]
               ELSE IF ~widens
                    THEN [s EXCEPT !.missing = Append(@, [from |-> from, end |-> end])]
               ELSE IF full THEN s
               ELSE [s EXCEPT !.missing[at].end = Max({@, end}),
                              !.runs = IF last.end < from
                                       THEN Append(@, [from |-> last.end, end |-> from])
                                       ELSE @],
         known |-> ~full]

\* Session::on_gap on a Recoverable flow.
OnGap(s, next) ==
    LET record == RecordGap(s, s.next, next)
        moved  == IF record.known THEN [record.s EXCEPT !.next = next] ELSE record.s
    IN  IF record.held THEN Violation("consumer", moved, "too many gaps")
                       ELSE RequestMissing(moved)

\* Session::on_next_seq.
OnNextSeq(s, next) ==
    LET cut == s.replay # NoReplay /\ s.request # NoRequest
        t   == [s EXCEPT !.resume = FALSE, !.replay = NoReplay,
                         !.request = IF cut THEN [@ EXCEPT !.interrupted = TRUE,
                                                           !.reported = FALSE]
                                            ELSE @]
    IN  IF s.finished # NotFinished /\ next > s.finished.end
        THEN Violation("consumer", s, "past LastSeqNo")
        ELSE IF s.start THEN Result([t EXCEPT !.start = FALSE, !.next = next], <<>>)
        ELSE IF next < s.next THEN Violation("consumer", t, "NextSeqNo too low")
        ELSE IF next = s.next THEN Result(t, <<>>)
        ELSE IF next - s.next > MaxGapLen THEN Violation("consumer", t, "gap too long")
        ELSE OnGap(t, next)

\* Session::complete_outstanding, and what on_retransmit_reject shares with it:
\* the range is settled, and the next one requested.
SettleRequest(s) ==
    LET t == [ConsumeMissing(s, s.request.count)
                 EXCEPT !.request = NoRequest, !.replay = NoReplay]
    IN  IF t.missing = <<>> THEN MaybeFinishReceiving(t) ELSE RequestMissing(t)

\* Session::on_application while a batch is being received.
OnReplayed(s) ==
    LET number == s.replay.next
        ends   == s.replay.left = 1
        ahead  == {i \in DOMAIN s.runs : s.runs[i].end > number}
        runs   == IF ahead = {} THEN <<>> ELSE SubSeq(s.runs, Min(ahead), Len(s.runs))
        twice  == runs # <<>> /\ Head(runs).from <= number
        t == [s EXCEPT !.runs = runs,
                       !.replay = IF ends THEN NoReplay
                                  ELSE [next |-> number + 1, left |-> @.left - 1],
                       !.request = [@ EXCEPT !.delivered = s.request.delivered + 1,
                                             !.reported = FALSE, !.complete = ends]]
        r == IF t.request.delivered >= t.request.count THEN SettleRequest(t)
                                                       ELSE Result(t, <<>>)
    IN  [r EXCEPT !.accept = IF twice THEN 0 ELSE number]

\* Session::on_application.
OnApplication(s) ==
    IF s.replay # NoReplay THEN OnReplayed(s)
    ELSE IF s.finished # NotFinished THEN Violation("consumer", s, "after FinishedSending")
    ELSE IF s.resume THEN Violation("consumer", s, "no Sequence after a retransmission")
    ELSE [Result([s EXCEPT !.start = FALSE, !.next = @ + 1], <<>>) EXCEPT !.accept = s.next]

\* Session::on_retransmission.
OnRetransmission(s, m) ==
    IF \/ s.request = NoRequest \/ m.stamp # s.request.stamp
       \/ m.next # s.request.from + s.request.delivered
       \/ m.count = 0 \/ m.count > s.request.count - s.request.delivered
    THEN Violation("consumer", s, "Retransmission not asked for")
    ELSE Result([s EXCEPT !.replay = [next |-> m.next, left |-> m.count], !.resume = TRUE,
                          !.request = [@ EXCEPT !.interrupted = FALSE, !.complete = FALSE,
                                                !.reported = FALSE]], <<>>)

\* Mutant: a refused range stays missing and is asked for again.
OnRejectKept(s, m) ==
    IF s.request = NoRequest \/ m.stamp # s.request.stamp THEN Result(s, <<>>)
    ELSE [RequestMissing([s EXCEPT !.request = NoRequest, !.replay = NoReplay]) EXCEPT
             !.gone = s.request.from .. (s.request.from + s.request.count - 1)]

\* Session::on_retransmit_reject: the range is abandoned and reported.
OnRetransmitReject(s, m) ==
    IF s.request = NoRequest \/ m.stamp # s.request.stamp THEN Result(s, <<>>)
    ELSE [SettleRequest(s) EXCEPT
             !.gone = s.request.from .. (s.request.from + s.request.count - 1)]

\* Session::on_finished_sending.
OnFinishedSending(s, last) ==
    IF s.finished # NotFinished THEN Result(s, <<>>)
    ELSE IF last + 1 < s.next THEN Violation("consumer", s, "LastSeqNo too low")
    ELSE LET r == OnNextSeq(s, last + 1)
         IN  Then(r, MaybeFinishReceiving(
                         [r.s EXCEPT !.finished = [end |-> last + 1, answered |-> FALSE]]))

\* Mutant: every stall asks again.
OnStallImpatient(s) ==
    RequestMissing([ConsumeMissing(s, s.request.delivered)
                       EXCEPT !.request = NoRequest, !.replay = NoReplay])
\* Mutant: a stall is only reported.
OnStallSilent(s) == Result([s EXCEPT !.request.reported = TRUE], <<>>)

\* Session::on_stall: report once, or ask again for what is still missing.
OnStall(s) ==
    LET again == \/ Policy = "ReRequestAfterContextSwitch" /\ s.request.interrupted
                 \/ /\ Policy = "ReRequestAfterBatch"
                    /\ s.request.interrupted \/ s.request.complete
    IN  IF Policy = "Terminate" THEN FailWith("consumer", s, "Error", "none")
        ELSE IF again
             THEN RequestMissing([ConsumeMissing(s, s.request.delivered)
                                     EXCEPT !.request = NoRequest, !.replay = NoReplay])
        ELSE Result([s EXCEPT !.request.reported = TRUE], <<>>)

(* ----------------------------------------------- the provider's Session *)

\* Session::on_retransmit_request.
OnRetransmitRequest(s, m) ==
    IF s.phase # "established" THEN Result(s, <<>>)
    ELSE IF s.serving # NoService
    THEN FailWith("provider", s, "Error", "request in progress")
    ELSE IF m.count \notin 1 .. MaxRetransmitCount \/ m.from < 1 \/ m.from + m.count > s.next
    THEN Result([s EXCEPT !.implicit = FALSE], <<RejectMsg(m.stamp)>>)
    ELSE Result([s EXCEPT !.serving = [stamp |-> m.stamp, from |-> m.from,
                                       count |-> m.count, sent |-> 0]], <<>>)

\* Session::allocate_outbound: a Sequence first, unless the receiver can
\* number the message implicitly.
Allocated(s) ==
    Result([s EXCEPT !.implicit = TRUE, !.next = @ + 1],
           (IF s.implicit THEN <<>> ELSE <<SequenceMsg(s.next)>>) \o <<Application(s.next)>>)

\* Mutant: the provider resumes real-time messages without a Sequence.
BatchInSequence(s, count, written) ==
    LET from == s.serving.from + s.serving.sent
        sent == s.serving.sent + count
    IN  Result([s EXCEPT !.serving = IF sent >= @.count THEN NoService ELSE [@ EXCEPT !.sent = sent]],
               <<Retransmission(s.serving.stamp, from, count)>>
                   \o [i \in 1 .. written |-> Application(from + i - 1)])

\* Session::retransmit, and the stored messages its driver writes behind the
\* header: `count' are announced and `written' follow.
Batch(s, count, written) ==
    LET from == s.serving.from + s.serving.sent
        sent == s.serving.sent + count
    IN  Result([s EXCEPT !.implicit = FALSE,
                         !.serving = IF sent >= @.count THEN NoService ELSE [@ EXCEPT !.sent = sent]],
               <<Retransmission(s.serving.stamp, from, count)>>
                   \o [i \in 1 .. written |-> Application(from + i - 1)])

(* --------------------------------------------------------- either side  *)

\* Session::bind.
Bind(x, s) ==
    LET t == [Release(x, s) EXCEPT !.phase = "established", !.announced = 0]
    IN  IF x = "consumer" THEN t ELSE [t EXCEPT !.implicit = FALSE]

\* Session::on_established.
OnEstablished(x, s, next) ==
    IF x = "provider" THEN Result(s, <<>>)
    ELSE LET r == OnNextSeq(s, next)
             q == Then(r, RequestMissing(r.s))
         IN  Then(q, MaybeFinishReceiving(q.s))

\* Session::announced_next_seq: only the provider's flow is sequenced.
AnnouncedNextSeq(x) == IF x = "provider" THEN provider.next ELSE 0

\* Session::on_terminate.  The consumer that has answered a FinishedSending is
\* finalized by a graceful exchange; this side's own code is always Finished.
OnTerminate(x, s, m) ==
    LET done == x = "consumer" /\ s.finished.answered /\ m.code = "Finished"
        t    == IF x = "consumer" THEN [Release(x, s) EXCEPT !.finalized = @ \/ done]
                                  ELSE Release(x, s)
    IN  IF s.phase = "terminating"
        THEN [Result(Unbound(x, t), <<>>) EXCEPT !.open = FALSE]
        ELSE Result([t EXCEPT !.phase = "closing"], <<TerminateMsg("Finished")>>)

\* on_peer of the roles and of Session: a binding that is closing ignores
\* everything, and a session message before establishment closes the transport.
OnPeer(x, handled) ==
    LET s == side[x]
    IN  IF s.phase \in {"established", "terminating"} THEN handled
        ELSE IF s.phase \in {"closing", "finalized", "closed"} THEN Result(s, <<>>)
        ELSE [Result(Unbound(x, s), <<>>) EXCEPT !.open = FALSE, !.blame = "not established"]

\* Carries out what a handler of side x returned.  `unread' is what is left on
\* its channel, `n' the sender's number of the message delivered.  Messages to
\* a side that has let go of the transport go nowhere.
Carry(x, r, unread, n) ==
    /\ side' = [side EXCEPT ![x] = r.s]
    /\ up' = [up EXCEPT ![x] = @ /\ r.open]
    /\ chan' = [chan EXCEPT ![x] = IF r.open THEN unread ELSE <<>>,
                            ![Other(x)] = IF up[Other(x)] THEN @ \o r.send ELSE @]
    /\ handed' = IF r.accept = 0 THEN handed ELSE [handed EXCEPT ![n] = Append(@, r.accept)]
    /\ abandoned' = abandoned \union r.gone
    /\ origin' = IF x = "consumer" /\ consumer.start /\ ~r.s.start
                 THEN (IF r.accept = 0 THEN r.s.next ELSE r.accept) ELSE origin
    /\ blame' = IF r.blame = "none" THEN blame ELSE r.blame
    /\ UNCHANGED transports

Does(x, r) == Carry(x, r, chan[x], 0)

Arrives(x, kind) == up[x] /\ chan[x] # <<>> /\ Head(chan[x]).kind = kind
Hears(x, r) == Carry(x, r, Tail(chan[x]), 0)

(* ------------------------------------------------ transports, handshake *)

\* The driver opens a transport once both ends have let go of the last one.
Connect ==
    /\ transports < MaxTransports
    /\ \A x \in Sides : ~up[x]
    /\ side[Client].phase = "negotiated"
    /\ transports' = transports + 1
    /\ up' = [x \in Sides |-> TRUE]
    /\ UNCHANGED <<side, chan, history>>

\* on_transport_closed: the network failed, or the other end closed; what was
\* not read is lost.
TransportClosed(x) ==
    /\ up[x]
    /\ side' = [side EXCEPT ![x] =
          IF Bound(x) THEN Unbound(x, Release(x, @))
          ELSE IF @.phase \in {"establishing", "pending"} THEN [@ EXCEPT !.phase = "negotiated"]
          ELSE @]
    /\ up' = [up EXCEPT ![x] = FALSE]
    /\ chan' = [chan EXCEPT ![x] = <<>>]
    /\ UNCHANGED <<transports, history>>

\* FixpClient::establish.
Establish ==
    LET s == side[Client]
    IN  /\ up[Client] /\ s.phase = "negotiated"
        /\ Does(Client, Result([s EXCEPT !.phase = "establishing"],
                <<[kind |-> "Establish", next |-> AnnouncedNextSeq(Client)]>>))

EstablishReject(code) == [kind |-> "EstablishmentReject", code |-> code]

\* FixpServer::on_establish; Session::regresses compares with what arrived.
OnEstablish(s, m) ==
    LET regresses == Server = "consumer" /\ ~s.start /\ m.next < s.next
    IN  IF s.phase = "finalized"
        THEN [Result(s, <<EstablishReject("Unnegotiated")>>)
                 EXCEPT !.open = FALSE, !.blame = "finalized"]
        ELSE IF s.phase = "established" THEN Result(s, <<EstablishReject("AlreadyEstablished")>>)
        ELSE IF Bound(Server) THEN Result(s, <<>>)
        ELSE IF s.phase = "pending"
        THEN [Result(Unbound(Server, s), <<>>) EXCEPT !.open = FALSE, !.blame = "Establish pending"]
        ELSE IF regresses
        THEN [Result(s, <<EstablishReject("Unspecified")>>) EXCEPT !.blame = "Establish too low"]
        ELSE Result([s EXCEPT !.phase = "pending", !.announced = m.next], <<>>)

ReceiveEstablish ==
    /\ Arrives(Server, "Establish")
    /\ Hears(Server, OnEstablish(side[Server], Head(chan[Server])))

\* FixpServer::accept_establishment: the Ack, then what the client announced.
AcceptEstablishment ==
    LET s     == side[Server]
        ack   == [kind |-> "EstablishmentAck", next |-> AnnouncedNextSeq(Server)]
        bound == Result(Bind(Server, s), <<ack>>)
    IN  /\ up[Server] /\ s.phase = "pending"
        /\ Does(Server, Then(bound, OnEstablished(Server, bound.s, s.announced)))

\* FixpServer::reject_establishment: the application's choice; the client may
\* establish again on this transport.
RejectEstablishment ==
    /\ up[Server] /\ side[Server].phase = "pending"
    /\ Does(Server, Result([side[Server] EXCEPT !.phase = "negotiated", !.announced = 0],
                           <<EstablishReject("Unspecified")>>))

\* FixpClient::on_establishment_ack, on_establishment_reject.
OnAck(s, m) == IF s.phase = "establishing"
               THEN OnEstablished(Client, Bind(Client, s), m.next) ELSE Result(s, <<>>)
OnReject(s, m) ==
    Result(IF s.phase # "establishing" THEN s
           ELSE [s EXCEPT !.phase = IF m.code = "Unnegotiated" THEN "closed" ELSE "negotiated"], <<>>)

ReceiveEstablishmentAck ==
    /\ Arrives(Client, "EstablishmentAck")
    /\ Hears(Client, OnAck(side[Client], Head(chan[Client])))

ReceiveEstablishmentReject ==
    /\ Arrives(Client, "EstablishmentReject")
    /\ Hears(Client, OnReject(side[Client], Head(chan[Client])))

\* handle_timeout of both roles while no session is bound: an Establish left
\* unanswered is refused first.
HandshakeTimeout(x) ==
    LET s == side[x]
        send == IF s.phase = "pending" THEN <<EstablishReject("Unspecified")>> ELSE <<>>
    IN  /\ up[x]
        /\ s.phase \in IF x = Client THEN {"establishing"} ELSE {"negotiated", "pending"}
        /\ Does(x, [Result(Unbound(x, [s EXCEPT !.announced = 0]), send) EXCEPT !.open = FALSE])

(* ------------------------------------------------ the provider's driver *)

MaySend == Established("provider") /\ Len(chan.consumer) < MaxChannel

\* Session::send_application.
SendApplication ==
    /\ MaySend /\ provider.next <= MaxSeq /\ ~provider.ended
    /\ Does("provider", Allocated(provider))

\* Session::heartbeat of a sequenced flow.
Heartbeat ==
    /\ MaySend
    /\ Does("provider", Result([provider EXCEPT !.implicit = TRUE],
                               <<SequenceMsg(provider.next)>>))

\* Driver::serve_retransmission over the sans-IO core: a batch of up to what
\* is left, written whole behind its header.
Retransmit(count) ==
    /\ Established("provider") /\ provider.serving # NoService
    /\ count <= provider.serving.count - provider.serving.sent
    /\ Does("provider", Batch(provider, count, count))

\* Another implementation writes less than it announced, then switches the
\* context and considers the request served.
RetransmitCut(count, written) ==
    /\ CutsBatches /\ written < count
    /\ Established("provider") /\ provider.serving # NoService
    /\ count <= provider.serving.count - provider.serving.sent
    /\ LET r == Batch(provider, count, written)
       IN  Does("provider", Result([r.s EXCEPT !.serving = NoService, !.implicit = TRUE],
                                   Append(r.send, SequenceMsg(provider.next))))

\* Session::reject_retransmit_request: the messages are no longer stored.
RejectRequest ==
    /\ Established("provider") /\ provider.serving # NoService
    /\ Does("provider", Result([provider EXCEPT !.serving = NoService, !.implicit = FALSE],
                               <<RejectMsg(provider.serving.stamp)>>))

\* Session::end_retransmission: the rest is not served, and nothing says so.
EndRetransmission ==
    /\ EndsEarly /\ Established("provider") /\ provider.serving # NoService
    /\ Does("provider", Result([provider EXCEPT !.serving = NoService], <<>>))

\* Another implementation ends its flow, and repeats it until it is answered.
FinishSending ==
    /\ Finishes /\ MaySend /\ ~provider.answered
    /\ Does("provider", Result([provider EXCEPT !.ended = TRUE, !.implicit = FALSE],
                 <<[kind |-> "FinishedSending", last |-> provider.next - 1]>>))

(* ------------------------------------------------------ messages arrive *)

ReceiveSequence ==
    /\ Arrives("consumer", "Sequence")
    /\ Hears("consumer", OnPeer("consumer", OnNextSeq(consumer, Head(chan.consumer).next)))

ReceiveApplication ==
    /\ Arrives("consumer", "Application")
    /\ Carry("consumer", OnPeer("consumer", OnApplication(consumer)), Tail(chan.consumer),
             Head(chan.consumer).n)

ReceiveRetransmission ==
    /\ Arrives("consumer", "Retransmission")
    /\ Hears("consumer", OnPeer("consumer", OnRetransmission(consumer, Head(chan.consumer))))

ReceiveRetransmitReject ==
    /\ Arrives("consumer", "RetransmitReject")
    /\ Hears("consumer", OnPeer("consumer", OnRetransmitReject(consumer, Head(chan.consumer))))

ReceiveFinishedSending ==
    /\ Arrives("consumer", "FinishedSending")
    /\ Hears("consumer", OnPeer("consumer", OnFinishedSending(consumer, Head(chan.consumer).last)))

ReceiveRetransmitRequest ==
    /\ Arrives("provider", "RetransmitRequest")
    /\ Hears("provider", OnPeer("provider", OnRetransmitRequest(provider, Head(chan.provider))))

ReceiveFinishedReceiving ==
    /\ Arrives("provider", "FinishedReceiving")
    /\ Hears("provider", Result([provider EXCEPT !.answered = TRUE], <<>>))

ReceiveTerminate(x) ==
    /\ Arrives(x, "Terminate")
    /\ IF side[x].phase \in {"negotiated", "establishing", "pending"}
       THEN Hears(x, [Result(Unbound(x, side[x]), <<>>) EXCEPT !.open = FALSE])
       ELSE Hears(x, OnPeer(x, OnTerminate(x, side[x], Head(chan[x]))))

(* ---------------------------------------------------- timers, unbinding *)

\* Session::on_timeout, stall_deadline: once per stall.
Stall ==
    /\ Established("consumer")
    /\ consumer.request # NoRequest /\ ~consumer.request.reported
    /\ Does("consumer", OnStall(consumer))

\* Session::terminate with Finished: the answer is awaited.
Terminate(x) ==
    /\ Established(x)
    /\ LET t == [side[x] EXCEPT !.phase = "terminating"]
       IN  Does(x, Result(IF x = "provider" THEN ReleaseProvider(t) ELSE t,
                          <<TerminateMsg("Finished")>>))

\* Session::terminate with an error code, and Session::on_timeout when the
\* counterparty has been silent: nothing is awaited.
TerminateOnError(x) ==
    /\ Established(x)
    /\ Does(x, FailWith(x, side[x], "Error", "none"))

\* Session::on_timeout of a binding that is ending.
UnbindTimeout(x) ==
    /\ side[x].phase \in {"terminating", "closing"}
    /\ Does(x, [Result(Unbound(x, Release(x, side[x])), <<>>) EXCEPT !.open = FALSE])

Next ==
    \/ Connect \/ Establish
    \/ ReceiveEstablish \/ AcceptEstablishment \/ RejectEstablishment
    \/ ReceiveEstablishmentAck \/ ReceiveEstablishmentReject
    \/ SendApplication \/ Heartbeat \/ RejectRequest
    \/ EndRetransmission \/ FinishSending
    \/ \E count \in 1 .. MaxRetransmitCount :
          Retransmit(count) \/ \E written \in 0 .. count - 1 : RetransmitCut(count, written)
    \/ ReceiveSequence \/ ReceiveApplication \/ ReceiveRetransmission
    \/ ReceiveRetransmitReject \/ ReceiveFinishedSending
    \/ ReceiveRetransmitRequest \/ ReceiveFinishedReceiving
    \/ Stall
    \/ \E x \in Sides : \/ TransportClosed(x) \/ HandshakeTimeout(x) \/ ReceiveTerminate(x)
                        \/ Terminate(x) \/ TerminateOnError(x) \/ UnbindTimeout(x)

Spec == Init /\ [][Next]_vars

\* The network, the drivers and the application do their part; the transport
\* is not promised to last.
FairSpec ==
    /\ Spec
    /\ WF_vars(ReceiveSequence) /\ WF_vars(ReceiveApplication)
    /\ WF_vars(ReceiveRetransmission) /\ WF_vars(ReceiveRetransmitReject)
    /\ WF_vars(ReceiveFinishedSending) /\ WF_vars(ReceiveRetransmitRequest)
    /\ WF_vars(Stall)
    /\ WF_vars(RejectRequest \/ \E count \in 1 .. MaxRetransmitCount : Retransmit(count))

\* A counterparty that finishes repeats FinishedSending, as its heartbeat.
FinishSpec == FairSpec /\ WF_vars(FinishSending) /\ WF_vars(ReceiveFinishedReceiving)

(* ----------------------------------------------------------- properties *)

Gaps == {consumer.missing[i] : i \in DOMAIN consumer.missing}
Runs == {consumer.runs[i] : i \in DOMAIN consumer.runs}
Within(n, ranges) == \E range \in ranges : n \in range.from .. (range.end - 1)
Accounted(n) == handed[n] # <<>> \/ n \in abandoned
Recorded(n) == Within(n, Gaps)

\* What both ends keep has its type: the gaps are ordered, do not touch, end
\* below the next expected number and stay within max_pending_gaps and the one
\* that holds a refused gap; a received run ends inside or below a gap.
TypeOK ==
    /\ consumer.phase \in {"negotiated", "establishing", "pending", "established",
                           "terminating", "closing", "finalized", "closed"}
    /\ provider.phase \in {"negotiated", "establishing", "pending", "established",
                           "terminating", "closing", "closed"}
    /\ {consumer.next, provider.next} \subseteq 1 .. MaxSeq + 1
    /\ Len(consumer.missing) <= MaxPendingGaps + 1 /\ Len(consumer.runs) <= MaxRuns
    /\ \A gap \in Gaps : 1 <= gap.from /\ gap.from < gap.end /\ gap.end <= consumer.next
    /\ \A i \in 1 .. Len(consumer.missing) - 1 :
          consumer.missing[i].end < consumer.missing[i + 1].from
    /\ \A run \in Runs : run.from < run.end /\ \E gap \in Gaps : run.end < gap.end
    /\ consumer.replay # NoReplay => consumer.request # NoRequest
    /\ up \in [Sides -> BOOLEAN] /\ transports \in 0 .. MaxTransports

\* Implicit numbering agrees: through lost transports, retransmissions, widened
\* gaps and repeated requests a message is delivered once at most, and always
\* under the number its sender gave it (on_application, allocate_outbound).
ExactlyOnce == \A n \in Numbers : handed[n] \in {<<>>, <<n>>}

\* No number the consumer has passed is forgotten: it was delivered, reported
\* as abandoned, or is recorded as missing (on_gap, hold_refused_gap, release).
NothingForgotten ==
    \A n \in Numbers : origin # 0 /\ n \in origin .. consumer.next - 1
                       => Accounted(n) \/ Recorded(n)

\* A request reaches a provider that has served the one before: this is what
\* "one at a time" means across batches, stalls and new transports.
OneRequestInService ==
    Established("provider")
    => \/ provider.serving = NoService
       \/ \A i \in DOMAIN chan.provider : chan.provider[i].kind # "RetransmitRequest"

\* Two ends running this code never accuse each other of a violation; only a
\* limit of the configuration ends a binding.
NeverAccused == blame \in {"none", "too many gaps", "gap too long"}

\* FinishedReceiving is only sent when every message up to LastSeqNo is accounted for.
AnswerIsEarned ==
    consumer.finished.answered
    => \A n \in Numbers : n \in origin .. consumer.finished.end - 1 => Accounted(n)

\* A number named as abandoned is not delivered afterwards.
AbandonedIsFinal == [][\A n \in abandoned : handed'[n] = handed[n]]_vars

\* The Ack's NextSeqNo accounts for everything the provider sent before it.
AckRevealsLoss == \A n \in Numbers : n < consumer.next => Accounted(n) \/ Recorded(n)

\* While both ends stay established, and the provider no longer cuts batches
\* short, what is missing is recovered: no request is left without an answer
\* and without a retry (request_missing, on_stall, on_established).
Recovers ==
    /\ <>[](Established("consumer") /\ Established("provider"))
    /\ <>[][\A count \in 1 .. MaxRetransmitCount, written \in 0 .. MaxRetransmitCount :
               ~RetransmitCut(count, written)]_vars
    => <>[](consumer.missing = <<>>)
\* A provider that ended its flow is answered in the end, also on a transport
\* it came back on (on_finished_sending, maybe_finish_receiving).
FinishIsAnswered ==
    <>[](Established("consumer") /\ Established("provider") /\ provider.ended)
    => <>provider.answered
=============================================================================
