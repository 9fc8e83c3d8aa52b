--------------------------- MODULE FixpFlowProofs ---------------------------
(***************************************************************************)
(* A Recoverable flow for every value of the constants: each message is    *)
(* delivered once at most and under the number its sender gave it, no      *)
(* number the consumer has passed is forgotten, and what was reported      *)
(* abandoned stays so.                                                     *)
(***************************************************************************)
EXTENDS FixpFlow, FiniteSetTheorems, SequenceTheorems, TLAPS

-----------------------------------------------------------------------------
(* What the two ends and the channels keep                                  *)

Phases == {"negotiated", "establishing", "pending", "established",
           "terminating", "closing", "finalized", "closed"}
Codes == {"Finished", "Error", "Unnegotiated", "AlreadyEstablished", "Unspecified"}
Ranges == [from : Nat, end : Nat]
Requests == [stamp : Stamps, from : Nat, count : Nat, delivered : Nat,
             interrupted : BOOLEAN, complete : BOOLEAN, reported : BOOLEAN]
Consumers ==
    [phase : Phases, next : 1 .. MaxSeq + 1, start : BOOLEAN, missing : Seq(Ranges),
     runs : Seq(Ranges), request : Requests, replay : [next : Nat, left : Nat],
     resume : BOOLEAN, finished : [end : Nat, answered : BOOLEAN],
     finalized : BOOLEAN, stamp : Stamps, announced : Nat]
Services == [stamp : Nat, from : Nat, count : Nat, sent : Nat]
Providers ==
    [phase : Phases \ {"finalized"}, next : 1 .. MaxSeq + 1, implicit : BOOLEAN,
     serving : Services, ended : BOOLEAN, answered : BOOLEAN, announced : Nat]

Data == {"Sequence", "Application", "Retransmission"}
Message ==
    [kind : {"Sequence", "Establish", "EstablishmentAck"}, next : Nat]
    \union [kind : {"Application"}, n : Nat]
    \union [kind : {"Terminate", "EstablishmentReject"}, code : Codes]
    \union [kind : {"RetransmitRequest"}, stamp : Nat, from : Nat, count : Nat]
    \union [kind : {"Retransmission"}, stamp : Nat, next : Nat, count : Nat]
    \union [kind : {"RetransmitReject"}, stamp : Nat]
    \union [kind : {"FinishedSending"}, last : Nat]
    \union [kind : {"FinishedReceiving"}]

-----------------------------------------------------------------------------
(* The consumer's session                                                   *)

\* The gaps rise, do not touch and end below the next expected number.
GapsOK(s) ==
    /\ Len(s.missing) <= MaxPendingGaps + 1
    /\ \A i \in 1 .. Len(s.missing) :
          /\ 1 <= s.missing[i].from /\ s.missing[i].from < s.missing[i].end
          /\ s.missing[i].end <= s.next
    /\ \A i, j \in 1 .. Len(s.missing) : i < j => s.missing[i].end < s.missing[j].from

\* The received runs rise and end below the end of the last gap.
RunsOK(s) ==
    /\ Len(s.runs) <= MaxRuns
    /\ s.runs # <<>> => s.missing # <<>>
    /\ \A i \in 1 .. Len(s.runs) :
          s.runs[i].from < s.runs[i].end /\ s.runs[i].end < s.missing[Len(s.missing)].end
    /\ \A i, j \in 1 .. Len(s.runs) : i < j => s.runs[i].end < s.runs[j].from

\* A request is for the start of the first gap, and a batch for what is left
\* of the request.
RequestOK(s) ==
    /\ s.request # NoRequest =>
          /\ s.missing # <<>> /\ s.request.from = s.missing[1].from
          /\ s.request.from + s.request.count <= s.missing[1].end
          /\ s.request.delivered <= s.request.count
    /\ s.replay # NoReplay =>
          /\ s.request # NoRequest
          /\ s.replay.next = s.request.from + s.request.delivered
          /\ 1 <= s.replay.left /\ s.request.delivered + s.replay.left <= s.request.count
    /\ s.request.interrupted \/ s.request.complete => s.replay = NoReplay

\* What outlives a binding and what does not, and when the numbering starts.
StartOK(s, start) ==
    /\ s.phase \notin {"established", "terminating"} =>
          s.request = NoRequest /\ s.replay = NoReplay
    /\ s.start <=> start = 0
    /\ s.start => s.next = 1 /\ s.missing = <<>> /\ s.finished = NotFinished

\* A flow that was ended by its sender does not go on.
FinishOK(s) ==
    /\ s.finished # NotFinished => s.finished.end = s.next
    /\ s.finished.answered => s.missing = <<>>

Books == [Numbers -> Seq(Nat)]
Missing(s, n) == \E i \in 1 .. Len(s.missing) : s.missing[i].from <= n /\ n < s.missing[i].end
InRuns(s, n) == \E i \in 1 .. Len(s.runs) : s.runs[i].from <= n /\ n < s.runs[i].end
Delivered(s, n) == s.request.from <= n /\ n < s.request.from + s.request.delivered

\* What the session says of a number is what became of its message: of the
\* missing ones the session knows which were delivered all the same.
BooksOK(s, books, gone, start) ==
    /\ \A n \in Numbers : books[n] \in {<<>>, <<n>>}
    /\ \A n \in Numbers : books[n] # <<>> => n < s.next
    /\ \A n \in Numbers : Missing(s, n) => (books[n] # <<>> <=> InRuns(s, n) \/ Delivered(s, n))
    /\ \A n \in Numbers : start # 0 /\ start <= n /\ n < s.next =>
          books[n] # <<>> \/ n \in gone \/ Missing(s, n)
    /\ start <= s.next /\ \A i \in 1 .. Len(s.missing) : start <= s.missing[i].from
    /\ \A n \in gone : 1 <= n /\ n < s.next /\ \A i \in 1 .. Len(s.missing) : n < s.missing[i].from

Session(s, books, gone, start) ==
    /\ GapsOK(s) /\ RunsOK(s) /\ RequestOK(s) /\ StartOK(s, start) /\ FinishOK(s)
    /\ BooksOK(s, books, gone, start)

\* The first `k' numbers of the request, delivered or all of them, were
\* delivered or are given up.
SettledTo(s, k, books, more) ==
    /\ k \in {s.request.delivered, s.request.count} /\ more \in SUBSET Nat
    /\ \A n \in more : s.request.from <= n /\ n < s.request.from + k
    /\ \A n \in Numbers : s.request.from <= n /\ n < s.request.from + k =>
          books[n] # <<>> \/ n \in more

Settled(s, k) == [ConsumeMissing(s, k) EXCEPT !.request = NoRequest, !.replay = NoReplay]

\* on_gap past the numbers it records; on_next_seq out of the batch it cuts short.
Moved(s, next) ==
    LET record == RecordGap(s, s.next, next)
    IN  IF record.known THEN [record.s EXCEPT !.next = next] ELSE record.s
Cut(s) ==
    [s EXCEPT !.resume = FALSE, !.replay = NoReplay,
              !.request = IF s.replay # NoReplay /\ s.request # NoRequest
                          THEN [@ EXCEPT !.interrupted = TRUE, !.reported = FALSE] ELSE @]

\* What a handler of the consumer returns when it delivers and abandons nothing.
Verdicts == {"none", "too many gaps", "past LastSeqNo", "NextSeqNo too low", "gap too long",
             "after FinishedSending", "no Sequence after a retransmission",
             "Retransmission not asked for", "LastSeqNo too low"}
Replies == {m \in Message : m.kind # "Establish"}
Results == [s : Consumers, send : Seq(Replies), open : BOOLEAN, accept : Nat,
            gone : SUBSET Nat, blame : Verdicts]
Quiet(r) ==
    /\ r \in Results /\ r.accept = 0 /\ r.gone = {}
    /\ ~r.open => r.s.phase \in {"negotiated", "finalized"}

-----------------------------------------------------------------------------
(* The messages on the way to the consumer                                  *)

\* What a consumer knows of the number of the next message: in a batch, in
\* sequence, or nothing before the session is established.
Unknown == [kind |-> "Unknown"]
Context(s) ==
    IF s.phase \notin {"established", "terminating"} THEN Unknown
    ELSE IF s.replay # NoReplay THEN Retransmission(0, s.replay.next, s.replay.left)
    ELSE SequenceMsg(s.next)

\* An application message is numbered by the message before it.
Follows(m, k) ==
    k.kind = "Application" =>
        \/ m.kind \in {"Sequence", "Retransmission"} /\ k.n = m.next
        \/ m.kind = "Application" /\ k.n = m.n + 1

\* What follows context `c' is numbered, and no batch is longer than announced.
Applications(u, first, last) == \A k \in first .. last : u[k].kind = "Application"
Numbered(c, u) ==
    /\ u # <<>> => Follows(c, u[1])
    /\ \A i \in 1 .. Len(u) : i + 1 <= Len(u) => Follows(u[i], u[i + 1])
    /\ c.kind = "Retransmission" =>
          \A j \in 1 .. Len(u) : Applications(u, 1, j) => u[j].n < c.next + c.count
    /\ \A i, j \in 1 .. Len(u) :
          (i < j /\ u[i].kind = "Retransmission" /\ Applications(u, i + 1, j)) =>
              u[j].n < u[i].next + u[i].count

\* A provider in sequence may send its next message without a Sequence.
Ready(p) == IF p.phase = "established" /\ p.implicit THEN <<Application(p.next)>> ELSE <<>>

\* No message names a number the provider has not reached.
Reached(u, next) ==
    \A i \in 1 .. Len(u) :
        /\ u[i].kind \in {"Sequence", "Establish", "EstablishmentAck"} =>
              1 <= u[i].next /\ u[i].next <= next
        /\ u[i].kind = "Application" => 1 <= u[i].n /\ u[i].n < next
        /\ u[i].kind = "Retransmission" => u[i].next + u[i].count <= next
        /\ u[i].kind = "FinishedSending" => u[i].last + 1 <= next

ServingOK(p) ==
    /\ p.serving # NoService => 1 <= p.serving.from
    /\ p.serving.from + p.serving.count <= p.next
    /\ p.serving.sent <= p.serving.count

-----------------------------------------------------------------------------
(* The invariant                                                            *)

FlowTypeOK ==
    /\ side \in [consumer : Consumers, provider : Providers]
    /\ chan \in [Sides -> Seq(Message)] /\ up \in [Sides -> BOOLEAN]
    /\ transports \in 0 .. MaxTransports
    /\ handed \in Books /\ abandoned \subseteq Nat /\ origin \in Nat

Busy == {"pending", "established", "terminating", "closing"}

LetGo ==
    /\ \A x \in Sides : ~up[x] => chan[x] = <<>> /\ side[x].phase \notin Busy
    /\ Bound("consumer") => ~consumer.start
    /\ consumer.phase = "closed" => ConsumerIsClient

NextOK ==
    /\ consumer.next <= provider.next /\ consumer.announced <= provider.next
    /\ consumer.phase = "pending" => 1 <= consumer.announced
    /\ Reached(chan.consumer, provider.next) /\ ServingOK(provider)

LineOK ==
    up.consumer /\ consumer.phase \notin {"closing", "finalized", "closed"} =>
        Numbered(Context(consumer), chan.consumer \o Ready(provider))

\* A consumer that is the client has one Establish under way at most, and
\* sends none to a provider that is bound: it is rejected before it asks again.
Without(u, kind) == \A i \in 1 .. Len(u) : u[i].kind # kind
Lone(u, kind) == \A i, j \in 1 .. Len(u) : u[i].kind = kind /\ u[j].kind = kind => i = j
Calm == provider.phase \notin Busy /\ Without(chan["provider"], "Establish")

HandshakeOK ==
    ConsumerIsClient =>
        /\ Lone(chan["provider"], "Establish")
        /\ provider.phase \in Busy => Without(chan["provider"], "Establish")
        /\ up["consumer"] /\ consumer.phase = "negotiated" =>
              Calm /\ Without(chan["consumer"], "EstablishmentReject")
        /\ up["consumer"] /\ consumer.phase = "establishing" =>
              /\ Lone(chan["consumer"], "EstablishmentReject")
              /\ Calm \/ Without(chan["consumer"], "EstablishmentReject")

FlowInv ==
    /\ FlowTypeOK /\ LetGo /\ NextOK /\ LineOK /\ HandshakeOK
    /\ Session(consumer, handed, abandoned, origin)

-----------------------------------------------------------------------------
(* What happens to a line of messages                                       *)

LEMMA NoMessages == \A c : Numbered(c, <<>>)
BY DEF Numbered

\* What each kind of message carries.
LEMMA Fields ==
    \A m \in Message :
        /\ m.kind = "Sequence" => m.next \in Nat
        /\ m.kind = "Establish" => m.next \in Nat
        /\ m.kind = "EstablishmentAck" => m.next \in Nat
        /\ m.kind = "Application" => m.n \in Nat
        /\ m.kind = "Retransmission" => m.stamp \in Nat /\ m.next \in Nat /\ m.count \in Nat
        /\ m.kind = "RetransmitRequest" => m.stamp \in Nat /\ m.from \in Nat /\ m.count \in Nat
        /\ m.kind = "RetransmitReject" => m.stamp \in Nat
        /\ m.kind = "FinishedSending" => m.last \in Nat
BY DEF Message

\* What is sent behind the line, when it does not begin with an application
\* message.
LEMMA SendBehind ==
    ASSUME NEW c, NEW u \in Seq(Message), NEW v \in Seq(Message),
           Numbered(c, u), Numbered(Unknown, v)
    PROVE  Numbered(c, u \o v)
<1> DEFINE w == u \o v
<1>1. /\ Len(u) \in Nat /\ Len(v) \in Nat /\ Len(w) = Len(u) + Len(v)
      /\ \A i \in 1 .. Len(u) : w[i] = u[i]
      /\ \A i \in 1 .. Len(w) : i > Len(u) => w[i] = v[i - Len(u)] /\ i - Len(u) \in 1 .. Len(v)
  BY ConcatProperties, LenProperties
<1>2. Len(v) > 0 => v # <<>> /\ v[1].kind # "Application"
  BY EmptySeq DEF Numbered, Follows, Unknown
<1>3. w # <<>> => Follows(c, w[1])
  <2>1. CASE Len(u) = 0
    <3>1. w = v
      BY <2>1, ConcatEmptySeq, EmptySeq
    <3> QED BY <1>2, <3>1, EmptySeq DEF Follows, Numbered, Unknown
  <2>2. CASE Len(u) > 0
    BY <1>1, <2>2, EmptySeq DEF Numbered
  <2> QED BY <1>1, <2>1, <2>2
<1>4. ASSUME NEW i \in 1 .. Len(w), i + 1 <= Len(w) PROVE Follows(w[i], w[i + 1])
  <2>1. CASE i < Len(u)
    <3>1. i \in 1 .. Len(u) /\ i + 1 \in 1 .. Len(u)
      BY <1>1, <2>1
    <3>2. w[i] = u[i] /\ w[i + 1] = u[i + 1] /\ i + 1 <= Len(u)
      BY ONLY <1>1, <2>1, <3>1
    <3> QED BY ONLY <3>1, <3>2, Numbered(c, u) DEF Numbered
  <2>2. CASE i = Len(u)
    <3>1. i + 1 \in 1 .. Len(w) /\ i + 1 - Len(u) = 1 /\ Len(v) > 0
      BY <1>1, <1>4, <2>2
    <3>2. w[i + 1] = v[1]
      BY <1>1, <2>2, <3>1
    <3> QED BY <1>2, <3>1, <3>2 DEF Follows
  <2>3. CASE i > Len(u)
    <3> DEFINE k == i - Len(u)
    <3>1. k \in 1 .. Len(v) /\ k + 1 <= Len(v) /\ w[i] = v[k] /\ w[i + 1] = v[k + 1]
      BY <1>1, <1>4, <2>3
    <3> HIDE DEF k
    <3> QED BY <3>1 DEF Numbered
  <2>4. i < Len(u) \/ i = Len(u) \/ i > Len(u)
    BY <1>1
  <2> QED BY <2>1, <2>2, <2>3, <2>4
<1>5. ASSUME c.kind = "Retransmission", NEW j \in 1 .. Len(w), Applications(w, 1, j)
      PROVE  w[j].n < c.next + c.count
  <2>1. CASE j <= Len(u)
    <3>1. Applications(u, 1, j) /\ j \in 1 .. Len(u)
      BY <1>1, <1>5, <2>1 DEF Applications
    <3> QED BY <1>1, <1>5, <3>1 DEF Numbered
  <2>2. CASE j > Len(u)
    <3>1. Len(u) + 1 \in 1 .. j /\ Len(u) + 1 \in 1 .. Len(w) /\ Len(u) + 1 - Len(u) = 1
      BY <1>1, <2>2
    <3>2. w[Len(u) + 1] = v[1] /\ Len(v) > 0
      BY <1>1, <3>1
    <3>3. w[Len(u) + 1].kind = "Application"
      BY <1>5, <3>1 DEF Applications
    <3> QED BY <1>2, <3>2, <3>3
  <2> QED BY <1>1, <2>1, <2>2
<1>6. ASSUME NEW i \in 1 .. Len(w), NEW j \in 1 .. Len(w), i < j,
             w[i].kind = "Retransmission", Applications(w, i + 1, j)
      PROVE  w[j].n < w[i].next + w[i].count
  <2>1. CASE j <= Len(u)
    <3>1. Applications(u, i + 1, j) /\ j \in 1 .. Len(u) /\ i \in 1 .. Len(u)
      BY <1>1, <1>6, <2>1 DEF Applications
    <3> QED BY <1>1, <1>6, <3>1 DEF Numbered
  <2>2. CASE i <= Len(u) /\ j > Len(u)
    <3>1. /\ Len(u) + 1 \in i + 1 .. j /\ Len(u) + 1 \in 1 .. Len(w)
          /\ Len(u) + 1 - Len(u) = 1
      BY <1>1, <2>2
    <3>2. w[Len(u) + 1] = v[1] /\ Len(v) > 0
      BY <1>1, <3>1
    <3>3. w[Len(u) + 1].kind = "Application"
      BY <1>6, <3>1 DEF Applications
    <3> QED BY <1>2, <3>2, <3>3
  <2>3. CASE i > Len(u)
    <3> DEFINE k == i - Len(u)
               l == j - Len(u)
    <3>1. k \in 1 .. Len(v) /\ l \in 1 .. Len(v) /\ k < l /\ w[i] = v[k] /\ w[j] = v[l]
      BY <1>1, <1>6, <2>3
    <3>2. ASSUME NEW h \in k + 1 .. l PROVE v[h].kind = "Application"
      <4>1. h + Len(u) \in i + 1 .. j /\ h + Len(u) \in 1 .. Len(w) /\ h + Len(u) > Len(u)
            /\ h + Len(u) - Len(u) = h
        BY <1>1, <3>1, <3>2
      <4> QED BY <1>1, <1>6, <4>1 DEF Applications
    <3>3. Applications(v, k + 1, l)
      BY <3>2 DEF Applications
    <3> HIDE DEF k, l
    <3> QED BY <1>6, <3>1, <3>3 DEF Numbered
  <2> QED BY <1>1, <2>1, <2>2, <2>3
<1> HIDE DEF w
<1>7. Numbered(c, w)
  BY <1>3, <1>4, <1>5, <1>6 DEF Numbered
<1> QED BY <1>7 DEF w

\* What was sent first is numbered without what was sent behind it.
LEMMA WithoutLast ==
    ASSUME NEW c, NEW u \in Seq(Message), NEW v \in Seq(Message), Numbered(c, u \o v)
    PROVE  Numbered(c, u)
<1> DEFINE w == u \o v
<1>1. /\ Len(u) \in Nat /\ Len(v) \in Nat /\ Len(w) = Len(u) + Len(v)
      /\ \A i \in 1 .. Len(u) : w[i] = u[i] /\ i \in 1 .. Len(w)
  BY ConcatProperties, LenProperties
<1>2. u # <<>> => w # <<>> /\ w[1] = u[1]
  BY <1>1, EmptySeq
<1>3. \A i, j \in 1 .. Len(u) : Applications(u, i, j) => Applications(w, i, j)
  BY <1>1 DEF Applications
<1>4. \A i, j \in 1 .. Len(u) : i < j => i + 1 \in 1 .. Len(u)
  BY <1>1
<1>5. Numbered(c, w)
  OBVIOUS
<1> HIDE DEF w
<1>6. u # <<>> => Follows(c, u[1])
  BY <1>2, <1>5 DEF Numbered
<1>7. ASSUME NEW i \in 1 .. Len(u), i + 1 <= Len(u) PROVE Follows(u[i], u[i + 1])
  <2>1. i + 1 \in 1 .. Len(u) /\ i + 1 <= Len(w)
    BY <1>1, <1>7
  <2> QED BY <1>1, <1>5, <2>1 DEF Numbered
<1>8. c.kind = "Retransmission" =>
          \A j \in 1 .. Len(u) : Applications(u, 1, j) => u[j].n < c.next + c.count
  <2>1. \A j \in 1 .. Len(u) : 1 \in 1 .. Len(u)
    BY <1>1
  <2> QED BY <1>1, <1>3, <1>5, <2>1 DEF Numbered
<1>9. \A i, j \in 1 .. Len(u) :
          (i < j /\ u[i].kind = "Retransmission" /\ Applications(u, i + 1, j)) =>
              u[j].n < u[i].next + u[i].count
  BY <1>1, <1>3, <1>4, <1>5 DEF Numbered
<1> QED BY <1>6, <1>7, <1>8, <1>9 DEF Numbered

\* The first message becomes the context of the rest.
LEMMA ReadFirst ==
    ASSUME NEW c, NEW u \in Seq(Message), u # <<>>, Numbered(c, u)
    PROVE  Follows(c, u[1]) /\ Numbered(u[1], Tail(u))
<1> DEFINE w == Tail(u)
<1>1. /\ Len(u) \in Nat /\ Len(w) \in Nat /\ Len(u) = Len(w) + 1
      /\ \A i \in 1 .. Len(w) : w[i] = u[i + 1] /\ i + 1 \in 1 .. Len(u)
  BY HeadTailProperties, LenProperties, EmptySeq
<1> HIDE DEF w
<1>2. w # <<>> => Follows(u[1], w[1])
  <2>1. ASSUME w # <<>> PROVE 1 \in 1 .. Len(w) /\ 1 \in 1 .. Len(u) /\ w[1] = u[2]
    <3>1. w \in Seq(Message)
      BY HeadTailProperties DEF w
    <3>2. Len(w) # 0
      BY <2>1, <3>1, EmptySeq
    <3> QED BY <1>1, <3>2
  <2>2. \A i \in 1 .. Len(u) : i + 1 <= Len(u) => Follows(u[i], u[i + 1])
    BY DEF Numbered
  <2> QED BY <1>1, <2>1, <2>2
<1>3. ASSUME NEW i \in 1 .. Len(w), i + 1 <= Len(w) PROVE Follows(w[i], w[i + 1])
  <2>1. i + 1 \in 1 .. Len(w) /\ i + 1 \in 1 .. Len(u) /\ i + 1 + 1 <= Len(u)
    BY <1>1, <1>3
  <2> QED BY <1>1, <2>1 DEF Numbered
<1>4. \A i \in 2 .. Len(u) + 1, j \in 1 .. Len(w) :
          Applications(w, i - 1, j) => Applications(u, i, j + 1)
  <2> TAKE i \in 2 .. Len(u) + 1, j \in 1 .. Len(w)
  <2>1. ASSUME Applications(w, i - 1, j), NEW k \in i .. j + 1 PROVE u[k].kind = "Application"
    <3>1. k - 1 \in i - 1 .. j /\ k - 1 \in 1 .. Len(w) /\ k - 1 + 1 = k
      BY <1>1
    <3>2. w[k - 1].kind = "Application"
      BY <2>1, <3>1 DEF Applications
    <3> QED BY <1>1, <3>1, <3>2
  <2> QED BY <2>1 DEF Applications
<1>5. ASSUME u[1].kind = "Retransmission", NEW j \in 1 .. Len(w), Applications(w, 1, j)
      PROVE  w[j].n < u[1].next + u[1].count
  <2>1. 2 \in 2 .. Len(u) + 1 /\ 2 - 1 = 1 /\ 1 \in 1 .. Len(u) /\ 1 < j + 1 /\ 1 + 1 = 2
    BY <1>1
  <2>2. Applications(u, 2, j + 1)
    BY <1>4, <1>5, <2>1
  <2> QED BY <1>1, <1>5, <2>1, <2>2 DEF Numbered
<1>6. ASSUME NEW i \in 1 .. Len(w), NEW j \in 1 .. Len(w), i < j,
             w[i].kind = "Retransmission", Applications(w, i + 1, j)
      PROVE  w[j].n < w[i].next + w[i].count
  <2>1. i + 1 + 1 \in 2 .. Len(u) + 1 /\ i + 1 + 1 - 1 = i + 1 /\ i + 1 < j + 1
        /\ i + 1 \in 1 .. Len(u) /\ j + 1 \in 1 .. Len(u)
    BY <1>1, <1>6
  <2>2. Applications(u, i + 1 + 1, j + 1)
    BY <1>4, <1>6, <2>1
  <2> QED BY <1>1, <1>6, <2>1, <2>2 DEF Numbered
<1>7. Numbered(u[1], w)
  BY <1>2, <1>3, <1>5, <1>6 DEF Numbered
<1> QED BY <1>7 DEF Numbered, w

\* A message that numbers nothing may be forgotten: what comes next brings
\* its own context.
LEMMA ForgetOther ==
    ASSUME NEW m, m.kind \notin Data, NEW u, Numbered(m, u), NEW c
    PROVE  Numbered(c, u)
<1>1. ASSUME NEW j \in 1 .. Len(u), Applications(u, 1, j), u # <<>> PROVE FALSE
  <2>1. u[1].kind = "Application"
    BY <1>1 DEF Applications
  <2> QED BY <1>1, <2>1 DEF Numbered, Follows, Data
<1>2. u = <<>> => 1 .. Len(u) = {}
  OBVIOUS
<1> QED BY <1>1, <1>2 DEF Numbered, Follows, Data

\* Two contexts that say the same.
LEMMA SameContext ==
    ASSUME NEW m, NEW c, m.kind = c.kind, NEW u, Numbered(m, u),
           m.kind \in {"Sequence", "Retransmission"} => m.next = c.next,
           m.kind = "Retransmission" => m.count = c.count,
           m.kind # "Application"
    PROVE  Numbered(c, u)
BY DEF Numbered, Follows

\* An application message in sequence: the next one is its successor.
LEMMA NextInSequence ==
    ASSUME NEW m, m.kind = "Application", NEW u, Numbered(m, u)
    PROVE  Numbered(SequenceMsg(m.n + 1), u)
BY DEF Numbered, Follows, SequenceMsg

\* An application message of a batch: the batch goes on, or what comes next
\* brings its own context.
LEMMA NextInBatch ==
    ASSUME NEW u \in Seq(Message), u # <<>>, u[1].kind = "Application",
           NEW c, c.kind = "Retransmission", c.next \in Nat, c.count \in Nat \ {0},
           Numbered(c, u)
    PROVE  /\ u[1].n = c.next
           /\ c.count > 1 => Numbered(Retransmission(0, c.next + 1, c.count - 1), Tail(u))
           /\ c.count = 1 => \A d : Numbered(d, Tail(u))
<1> DEFINE w == Tail(u)
<1>1. /\ Len(u) \in Nat /\ Len(w) \in Nat /\ Len(u) = Len(w) + 1 /\ w \in Seq(Message)
      /\ \A i \in 1 .. Len(w) : w[i] = u[i + 1] /\ i + 1 \in 1 .. Len(u)
  BY HeadTailProperties, LenProperties, EmptySeq
<1>2. Numbered(u[1], w) /\ u[1].n = c.next
  BY ReadFirst DEF Follows
<1> HIDE DEF w
<1>3. ASSUME NEW j \in 1 .. Len(w), Applications(w, 1, j) PROVE w[j].n < c.next + c.count
  <2>1. ASSUME NEW k \in 1 .. j + 1 PROVE u[k].kind = "Application"
    <3>1. CASE k = 1
      BY <3>1
    <3>2. CASE k > 1
      <4>1. k - 1 \in 1 .. j /\ k - 1 \in 1 .. Len(w) /\ k - 1 + 1 = k
        BY <1>1, <3>2
      <4>2. w[k - 1].kind = "Application"
        BY <1>3, <4>1 DEF Applications
      <4> QED BY <1>1, <4>1, <4>2
    <3> QED BY <3>1, <3>2
  <2>2. Applications(u, 1, j + 1)
    BY <2>1 DEF Applications
  <2> QED BY <1>1, <2>2 DEF Numbered
<1>4. ASSUME c.count > 1 PROVE Numbered(Retransmission(0, c.next + 1, c.count - 1), w)
  <2> DEFINE d == Retransmission(0, c.next + 1, c.count - 1)
  <2>1. d.kind = "Retransmission" /\ d.next = c.next + 1 /\ d.next + d.count = c.next + c.count
    BY <1>4 DEF Retransmission
  <2> HIDE DEF d
  <2>2. w # <<>> => Follows(d, w[1])
    BY <1>2, <2>1 DEF Numbered, Follows
  <2>3. Numbered(d, w)
    BY <1>2, <1>3, <2>1, <2>2 DEF Numbered
  <2> QED BY <2>3 DEF d
<1>5. ASSUME c.count = 1, NEW d PROVE Numbered(d, w)
  <2>1. ASSUME w # <<>>, w[1].kind = "Application" PROVE FALSE
    <3>1. 1 \in 1 .. Len(w)
      BY <1>1, <2>1, EmptySeq
    <3>2. Applications(w, 1, 1)
      BY <2>1 DEF Applications
    <3>3. w[1].n < c.next + 1
      BY <1>3, <1>5, <3>1, <3>2
    <3>4. w[1].n = u[1].n + 1
      BY <1>2, <2>1 DEF Numbered, Follows
    <3> QED BY <1>2, <3>3, <3>4
  <2>2. ASSUME NEW j \in 1 .. Len(w), Applications(w, 1, j) PROVE FALSE
    <3>1. 1 \in 1 .. j /\ w # <<>>
      BY <1>1, EmptySeq
    <3> QED BY <2>1, <2>2, <3>1 DEF Applications
  <2> QED BY <1>2, <2>1, <2>2 DEF Numbered, Follows
<1> QED BY <1>2, <1>4, <1>5 DEF w

\* The next message in sequence goes out, and the one after it may follow.
LEMMA OneMore ==
    ASSUME NEW c, NEW u \in Seq(Message), NEW n \in Nat,
           Numbered(c, u \o <<Application(n)>>), Reached(u, n),
           c.kind = "Retransmission" => c.next + c.count <= n /\ c.next \in Nat /\ c.count \in Nat
    PROVE  Numbered(c, (u \o <<Application(n)>>) \o <<Application(n + 1)>>)
<1> DEFINE w == u \o <<Application(n)>>
           v == w \o <<Application(n + 1)>>
           last == Len(u) + 2
<1>1. \A k \in Nat : Application(k) \in Message /\ Application(k).kind = "Application"
                     /\ Application(k).n = k
  BY DEF Application, Message
<1>2. \A k \in Nat : /\ <<Application(k)>> \in Seq(Message) /\ Len(<<Application(k)>>) = 1
                     /\ <<Application(k)>>[1] = Application(k)
  BY <1>1
<1>3. /\ Len(u) \in Nat /\ w \in Seq(Message) /\ Len(w) = Len(u) + 1
      /\ \A i \in 1 .. Len(u) : w[i] = u[i]
      /\ w[Len(u) + 1] = Application(n)
  BY <1>2, ConcatProperties, LenProperties
<1>4. /\ v \in Seq(Message) /\ Len(v) = last /\ last \in Nat /\ last = Len(w) + 1
      /\ \A i \in 1 .. Len(w) : v[i] = w[i]
      /\ v[last] = Application(n + 1) /\ w # <<>> /\ v # <<>>
      /\ \A i \in 1 .. last : i # last => i \in 1 .. Len(w)
  <2>1. n + 1 \in Nat
    OBVIOUS
  <2>2. v \in Seq(Message) /\ Len(v) = Len(w) + 1
        /\ \A i \in 1 .. Len(w) + 1 : v[i] = IF i <= Len(w) THEN w[i]
                                             ELSE <<Application(n + 1)>>[i - Len(w)]
    BY <1>2, <1>3, <2>1, ConcatProperties
  <2> QED BY <1>2, <1>3, <2>1, <2>2, EmptySeq
<1>5. Numbered(c, w)
  OBVIOUS
<1>6. u \in Seq(Message) /\ \A i \in 1 .. Len(u) : u[i].kind = "Retransmission" =>
          u[i].next + u[i].count <= n /\ u[i].next \in Nat /\ u[i].count \in Nat
  <2>1. \A i \in 1 .. Len(u) : u[i] \in Message
    BY ElementOfSeq
  <2> QED BY <2>1, Fields DEF Reached
<1> HIDE DEF w, v, last
<1>7. \A i \in 1 .. last, j \in 1 .. Len(w) : Applications(v, i, j) => Applications(w, i, j)
  BY <1>3, <1>4 DEF Applications
<1>8. ASSUME NEW i \in 1 .. last, i < last, Applications(v, i, last)
      PROVE  Applications(w, i, Len(w)) /\ Len(w) \in 1 .. Len(w)
  BY <1>3, <1>4, <1>8 DEF Applications
<1>9. Follows(c, v[1])
  BY <1>3, <1>4, <1>5 DEF Numbered
<1>10. ASSUME NEW i \in 1 .. last, i + 1 <= last PROVE Follows(v[i], v[i + 1])
  <2>1. CASE i + 1 = last
    <3>1. i = Len(u) + 1 /\ i \in 1 .. Len(w)
      BY <1>3, <1>4, <2>1
    <3>2. v[i] = Application(n) /\ v[i + 1] = Application(n + 1)
      BY <1>3, <1>4, <2>1, <3>1
    <3> QED BY <1>1, <3>2 DEF Follows
  <2>2. CASE i + 1 # last
    <3>1. i \in 1 .. Len(w) /\ i + 1 \in 1 .. Len(w)
      BY <1>4, <1>10, <2>2
    <3> QED BY <1>4, <1>5, <3>1 DEF Numbered
  <2> QED BY <2>1, <2>2
<1>11. ASSUME c.kind = "Retransmission", NEW j \in 1 .. last, Applications(v, 1, j)
       PROVE  v[j].n < c.next + c.count
  <2>1. CASE j = last
    <3>1. Applications(w, 1, Len(w)) /\ Len(w) \in 1 .. Len(w)
      BY <1>3, <1>4, <1>8, <1>11, <2>1
    <3>2. w[Len(w)].n < c.next + c.count
      BY <1>5, <1>11, <3>1 DEF Numbered
    <3>3. w[Len(w)].n = n
      BY <1>1, <1>3
    <3> QED BY <1>11, <3>2, <3>3
  <2>2. CASE j # last
    BY <1>4, <1>5, <1>7, <1>11, <2>2 DEF Numbered
  <2> QED BY <2>1, <2>2
<1>12. ASSUME NEW i \in 1 .. last, NEW j \in 1 .. last, i < j,
              v[i].kind = "Retransmission", Applications(v, i + 1, j)
       PROVE  v[j].n < v[i].next + v[i].count
  <2>1. i \in 1 .. Len(w) /\ v[i] = w[i] /\ i + 1 \in 1 .. last
    BY <1>4, <1>12
  <2>2. CASE j = last
    <3>1. i \in 1 .. Len(u) /\ w[i] = u[i] /\ i + 1 < last
      BY <1>1, <1>3, <1>4, <1>12, <2>1
    <3>2. Applications(w, i + 1, Len(w)) /\ Len(w) \in 1 .. Len(w) /\ i < Len(w)
      BY <1>3, <1>4, <1>8, <1>12, <2>1, <2>2, <3>1
    <3>3. w[Len(w)].n < w[i].next + w[i].count
      BY <1>5, <1>12, <2>1, <3>2 DEF Numbered
    <3>4. w[Len(w)].n = n
      BY <1>1, <1>3
    <3> QED BY <1>6, <1>12, <2>1, <3>1, <3>3, <3>4
  <2>3. CASE j # last
    <3>1. j \in 1 .. Len(w) /\ v[j] = w[j] /\ Applications(w, i + 1, j)
      BY <1>4, <1>7, <1>12, <2>1, <2>3
    <3> QED BY <1>5, <1>12, <2>1, <3>1 DEF Numbered
  <2> QED BY <2>2, <2>3
<1>13. Numbered(c, v)
  BY <1>4, <1>9, <1>10, <1>11, <1>12 DEF Numbered
<1> QED BY <1>13 DEF v, w

\* What is sent behind the line, and the message that may follow it.
LEMMA SendData ==
    ASSUME NEW c, NEW u \in Seq(Message), NEW v \in Seq(Message), NEW t \in Seq(Message),
           Numbered(c, u), Numbered(Unknown, v \o t)
    PROVE  Numbered(c, (u \o v) \o t)
<1>1. v \o t \in Seq(Message) /\ (u \o v) \o t = u \o (v \o t)
  BY ConcatProperties, ConcatAssociative, SMTT(20)
<1> QED BY <1>1, SendBehind

\* A message that numbers nothing.
LEMMA SendOther ==
    ASSUME NEW m \in Message, m.kind # "Application"
    PROVE  Numbered(Unknown, <<m>>)
BY DEF Numbered, Follows, Unknown

\* A Sequence, the message it numbers and the one after.
LEMMA SendSequence ==
    ASSUME NEW n \in Nat \ {0}
    PROVE  /\ Numbered(Unknown, <<SequenceMsg(n)>> \o <<Application(n)>>)
           /\ Numbered(Unknown, (<<SequenceMsg(n)>> \o <<Application(n)>>) \o <<Application(n + 1)>>)
<1> DEFINE u == <<SequenceMsg(n)>>
           v == u \o <<Application(n)>>
<1>1. u \in Seq(Message) /\ Len(u) = 1 /\ u[1].kind = "Sequence" /\ u[1].next = n
  BY DEF SequenceMsg, Message
<1>2. Application(n) \in Message /\ Application(n).kind = "Application" /\ Application(n).n = n
  BY DEF Application, Message
<1>3. v \in Seq(Message) /\ Len(v) = 2 /\ v[1] = u[1] /\ v[2] = Application(n)
  <2>1. <<Application(n)>> \in Seq(Message) /\ Len(<<Application(n)>>) = 1
        /\ <<Application(n)>>[1] = Application(n)
    BY <1>2
  <2> QED BY <1>1, <2>1, ConcatProperties
<1> HIDE DEF u, v
<1>4. Numbered(Unknown, v)
  BY <1>1, <1>2, <1>3 DEF Numbered, Follows, Unknown
<1>5. Reached(u, n)
  BY <1>1, <1>3 DEF Reached
<1> QED BY <1>1, <1>4, <1>5, OneMore DEF u, v, Unknown

LEMMA SendBatch ==
    ASSUME NEW stamp \in Nat, NEW from \in Nat, NEW count \in Nat, NEW written \in 0 .. count
    PROVE  LET b == <<Retransmission(stamp, from, count)>>
                        \o [i \in 1 .. written |-> Application(from + i - 1)]
           IN  b \in Seq(Message) /\ Numbered(Unknown, b) /\ (1 <= from => Reached(b, from + count))
<1> DEFINE h == <<Retransmission(stamp, from, count)>>
           a == [i \in 1 .. written |-> Application(from + i - 1)]
           b == h \o a
<1>1. h \in Seq(Message) /\ Len(h) = 1 /\ h[1] = Retransmission(stamp, from, count)
  BY DEF Retransmission, Message
<1>2. \A i \in 1 .. written : /\ Application(from + i - 1) \in Message
                              /\ Application(from + i - 1).kind = "Application"
                              /\ Application(from + i - 1).n = from + i - 1
  BY DEF Application, Message
<1>3. a \in Seq(Message) /\ Len(a) = written
  BY <1>2
<1>4. /\ b \in Seq(Message) /\ Len(b) = written + 1 /\ b[1] = Retransmission(stamp, from, count)
      /\ \A i \in 2 .. written + 1 : b[i] = Application(from + i - 2)
  <2>1. /\ b \in Seq(Message) /\ Len(b) = written + 1
        /\ \A i \in 1 .. written + 1 : b[i] = IF i <= 1 THEN h[i] ELSE a[i - 1]
    BY <1>1, <1>3, ConcatProperties
  <2>2. \A i \in 2 .. written + 1 : i - 1 \in 1 .. written /\ a[i - 1] = Application(from + (i - 1) - 1)
                                    /\ from + (i - 1) - 1 = from + i - 2 /\ i \in 1 .. written + 1 /\ ~(i <= 1)
    OBVIOUS
  <2>3. 1 \in 1 .. written + 1
    OBVIOUS
  <2> HIDE DEF a, h, b
  <2>4. b[1] = Retransmission(stamp, from, count)
    BY ONLY <1>1, <2>1, <2>3
  <2>5. \A i \in 2 .. written + 1 : b[i] = a[i - 1]
    BY ONLY <2>1, <2>2, Zenon
  <2>6. \A i \in 2 .. written + 1 : b[i] = Application(from + i - 2)
    BY ONLY <2>2, <2>5
  <2> QED BY ONLY <2>1, <2>4, <2>6
<1>5. /\ b[1].kind = "Retransmission" /\ b[1].next = from /\ b[1].count = count
      /\ \A i \in 2 .. written + 1 : b[i].kind = "Application" /\ b[i].n = from + i - 2
  <2>1. \A i \in 2 .. written + 1 : i - 1 \in 1 .. written /\ from + (i - 1) - 1 = from + i - 2
    OBVIOUS
  <2>2. \A i \in 2 .. written + 1 : Application(from + i - 2).kind = "Application"
                                    /\ Application(from + i - 2).n = from + i - 2
    BY <1>2, <2>1
  <2> HIDE DEF b
  <2>3. b[1].kind = "Retransmission" /\ b[1].next = from /\ b[1].count = count
    BY <1>4 DEF Retransmission
  <2>4. \A i \in 2 .. written + 1 : b[i] = Application(from + i - 2)
    BY ONLY <1>4
  <2> QED BY ONLY <2>2, <2>3, <2>4, ZenonT(20)
<1> HIDE DEF a, h, b
<1>6. ASSUME NEW i \in 1 .. Len(b), i + 1 <= Len(b) PROVE Follows(b[i], b[i + 1])
  <2>1. i + 1 \in 2 .. written + 1 /\ from + (i + 1) - 2 = from + i - 1
    BY <1>4, <1>6
  <2>2. b[i + 1].kind = "Application" /\ b[i + 1].n = from + i - 1
    BY <1>5, <2>1
  <2>3. CASE i = 1
    BY <1>5, <2>2, <2>3 DEF Follows
  <2>4. CASE i # 1
    <3>1. i \in 2 .. written + 1
      BY <1>4, <2>4
    <3> QED BY <1>5, <2>2, <3>1 DEF Follows
  <2> QED BY <2>3, <2>4
<1>7. \A i, j \in 1 .. Len(b) : i < j /\ b[i].kind = "Retransmission"
                                => i = 1 /\ b[j].n < b[i].next + b[i].count
  BY <1>4, <1>5
<1>8. Numbered(Unknown, b)
  <2>1. b # <<>> => Follows(Unknown, b[1])
    BY <1>5 DEF Follows
  <2> QED BY <1>6, <1>7, <2>1 DEF Numbered, Unknown
<1>9. 1 <= from => Reached(b, from + count)
  <2> SUFFICES ASSUME 1 <= from, NEW i \in 1 .. Len(b)
               PROVE  /\ b[i].kind \in {"Retransmission", "Application"}
                      /\ b[i].kind = "Retransmission" => b[i].next + b[i].count <= from + count
                      /\ b[i].kind = "Application" => 1 <= b[i].n /\ b[i].n < from + count
    BY DEF Reached
  <2>1. CASE i = 1
    BY <1>5, <2>1
  <2>2. CASE i # 1
    BY <1>4, <1>5, <2>2
  <2> QED BY <2>1, <2>2
<1> QED BY <1>4, <1>8, <1>9 DEF a, b, h

\* What names no number the provider has not reached.
LEMMA ReachedMore ==
    ASSUME NEW u \in Seq(Message), NEW v \in Seq(Message), NEW n \in Nat, NEW m \in Nat, n <= m,
           Reached(u, n), Reached(v, m)
    PROVE  Reached(u \o v, m)
<1>1. /\ Len(u) \in Nat /\ Len(v) \in Nat /\ Len(u \o v) = Len(u) + Len(v)
      /\ \A i \in 1 .. Len(u \o v) :
            \/ i \in 1 .. Len(u) /\ (u \o v)[i] = u[i]
            \/ i - Len(u) \in 1 .. Len(v) /\ (u \o v)[i] = v[i - Len(u)]
  BY ConcatProperties, LenProperties
<1>2. \A i \in 1 .. Len(u) : u[i] \in Message
  BY ElementOfSeq
<1>3. Reached(u, m)
  <2> SUFFICES ASSUME NEW i \in 1 .. Len(u)
               PROVE  /\ u[i].kind \in {"Sequence", "Establish", "EstablishmentAck"} =>
                            1 <= u[i].next /\ u[i].next <= m
                      /\ u[i].kind = "Application" => 1 <= u[i].n /\ u[i].n < m
                      /\ u[i].kind = "Retransmission" => u[i].next + u[i].count <= m
                      /\ u[i].kind = "FinishedSending" => u[i].last + 1 <= m
    BY DEF Reached
  <2> QED BY <1>2, Fields DEF Reached
<1> QED BY <1>1, <1>3 DEF Reached

LEMMA ReachedRest ==
    ASSUME NEW u \in Seq(Message), u # <<>>, NEW n, Reached(u, n)
    PROVE  Reached(Tail(u), n)
<1>1. /\ Len(u) \in Nat /\ Len(Tail(u)) \in Nat /\ Len(u) = Len(Tail(u)) + 1
      /\ \A i \in 1 .. Len(Tail(u)) : Tail(u)[i] = u[i + 1] /\ i + 1 \in 1 .. Len(u)
  BY HeadTailProperties, LenProperties, EmptySeq
<1> QED BY <1>1 DEF Reached

-----------------------------------------------------------------------------
(* What the session keeps when a range is settled                           *)

LEMMA Constants ==
    /\ MaxSeq \in Nat /\ MaxTransports \in Nat /\ MaxRuns \in Nat
    /\ MaxPendingGaps \in Nat \ {0} /\ MaxRetransmitCount \in Nat \ {0} /\ MaxGapLen \in Nat \ {0}
    /\ Numbers = 1 .. MaxSeq /\ ConsumerIsClient \in BOOLEAN
BY ConfigAssumption, BoundsAssumption, FlagsAssumption DEF Numbers

LEMMA None ==
    /\ NoRequest \in Requests /\ NoRequest.from = 0 /\ NoRequest.count = 0
    /\ NoRequest.delivered = 0 /\ ~NoRequest.interrupted /\ ~NoRequest.complete
    /\ NoReplay \in [next : Nat, left : Nat] /\ NoReplay.next = 0 /\ NoReplay.left = 0
    /\ NotFinished \in [end : Nat, answered : BOOLEAN] /\ ~NotFinished.answered
    /\ NotFinished.end = 0
    /\ NoService \in Services /\ NoService.from = 0 /\ NoService.count = 0 /\ NoService.sent = 0
BY DEF NoRequest, NoReplay, NotFinished, NoService, Requests, Services, Stamps

LEMMA ConsumerFields ==
    ASSUME NEW s \in Consumers
    PROVE  /\ s.phase \in Phases /\ s.next \in 1 .. MaxSeq + 1 /\ s.next \in Nat
           /\ s.start \in BOOLEAN /\ s.resume \in BOOLEAN /\ s.finalized \in BOOLEAN
           /\ s.missing \in Seq(Ranges) /\ Len(s.missing) \in Nat
           /\ \A i \in 1 .. Len(s.missing) : s.missing[i] \in Ranges
                 /\ s.missing[i].from \in Nat /\ s.missing[i].end \in Nat
           /\ s.runs \in Seq(Ranges) /\ Len(s.runs) \in Nat
           /\ \A i \in 1 .. Len(s.runs) : s.runs[i] \in Ranges
                 /\ s.runs[i].from \in Nat /\ s.runs[i].end \in Nat
           /\ s.request \in Requests /\ s.request.stamp \in Stamps
           /\ s.request.from \in Nat /\ s.request.count \in Nat /\ s.request.delivered \in Nat
           /\ s.request.interrupted \in BOOLEAN /\ s.request.complete \in BOOLEAN
           /\ s.replay \in [next : Nat, left : Nat] /\ s.replay.next \in Nat /\ s.replay.left \in Nat
           /\ s.finished \in [end : Nat, answered : BOOLEAN] /\ s.finished.end \in Nat
           /\ s.finished.answered \in BOOLEAN /\ s.stamp \in Stamps /\ s.announced \in Nat
<1>1. /\ s.missing \in Seq(Ranges) /\ s.runs \in Seq(Ranges) /\ s.next \in 1 .. MaxSeq + 1
      /\ s.request \in Requests
  BY DEF Consumers
<1>2. s.next \in Nat
  BY <1>1, Constants
<1>3. /\ \A i \in 1 .. Len(s.missing) : s.missing[i] \in Ranges
      /\ \A i \in 1 .. Len(s.runs) : s.runs[i] \in Ranges
  BY <1>1, ElementOfSeq
<1>4. Len(s.missing) \in Nat /\ Len(s.runs) \in Nat
  BY <1>1, LenProperties
<1> QED BY <1>1, <1>2, <1>3, <1>4 DEF Consumers, Requests, Ranges

\* consume_missing: the first k missing numbers are missing no more, and
\* nothing else changes.
Consumed(s, k, t) ==
    /\ t \in Consumers /\ GapsOK(t) /\ RunsOK(t)
    /\ t = [s EXCEPT !.missing = t.missing, !.runs = t.runs]
    /\ \A n \in Nat : Missing(t, n) <=>
          Missing(s, n) /\ (k = 0 \/ s.missing[1].from + k <= n)
    /\ \A n \in Nat : Missing(t, n) => (InRuns(t, n) <=> InRuns(s, n))
    /\ \A j \in 1 .. Len(t.missing) :
          \E i \in 1 .. Len(s.missing) : s.missing[i].from <= t.missing[j].from
    /\ k # 0 => \A j \in 1 .. Len(t.missing) : s.missing[1].from + k <= t.missing[j].from
    /\ s.missing = <<>> => t.missing = <<>>

LEMMA ConsumeEffect ==
    ASSUME NEW s \in Consumers, GapsOK(s), RunsOK(s), NEW k \in Nat,
           k # 0 => s.missing # <<>> /\ s.missing[1].from + k <= s.missing[1].end,
           NEW t, t = ConsumeMissing(s, k)
    PROVE  Consumed(s, k, t)
<1> USE DEF Consumed
<1> DEFINE old == s.missing
           new == t.missing
<1>1. /\ old \in Seq(Ranges) /\ Len(old) \in Nat /\ s.next \in Nat
      /\ \A i \in 1 .. Len(old) : old[i] \in Ranges /\ old[i].from \in Nat /\ old[i].end \in Nat
      /\ s.runs \in Seq(Ranges)
  BY ConsumerFields
<1>2. /\ \A i \in 1 .. Len(old) : 1 <= old[i].from /\ old[i].from < old[i].end /\ old[i].end <= s.next
      /\ \A i, j \in 1 .. Len(old) : i < j => old[i].end < old[j].from
      /\ Len(old) <= MaxPendingGaps + 1
  BY DEF GapsOK
<1>3. CASE k = 0
  <2>1. t = s
    BY <1>3 DEF ConsumeMissing
  <2>2. s = [s EXCEPT !.missing = s.missing, !.runs = s.runs]
    BY DEF Consumers
  <2>3. \A j \in 1 .. Len(s.missing) : s.missing[j].from <= s.missing[j].from
    BY <1>1
  <2> QED BY <1>3, <2>1, <2>2, <2>3
<1> HIDE DEF old
<1>4. CASE k # 0
  <2>1. old # <<>> /\ Len(old) >= 1 /\ 1 \in 1 .. Len(old) /\ Head(old) = old[1]
        /\ old[1].from + k <= old[1].end
    <3>1. old # <<>> /\ old[1].from + k <= old[1].end
      BY <1>4 DEF old
    <3> QED BY <1>1, <3>1, EmptySeq
  <2>2. CASE old[1].from + k < old[1].end
    <3>1. t = [s EXCEPT !.missing[1].from = @ + k]
      BY <1>4, <2>1, <2>2 DEF ConsumeMissing, old
    <3> DEFINE first == [old[1] EXCEPT !.from = @ + k]
    <3>2. first \in Ranges /\ first.from = old[1].from + k /\ first.end = old[1].end
      BY <1>1, <2>1, SMTT(20) DEF Ranges
    <3>3. t = [s EXCEPT !.missing = [old EXCEPT ![1] = first]]
      BY <3>1 DEF old
    <3> HIDE DEF first
    <3>4. new = [old EXCEPT ![1] = first] /\ t = [s EXCEPT !.missing = new] /\ t.runs = s.runs
          /\ t.next = s.next
      BY <3>3 DEF Consumers
    <3>5. new \in Seq(Ranges) /\ Len(new) = Len(old)
          /\ \A i \in 1 .. Len(old) : new[i] = IF i = 1 THEN first ELSE old[i]
      BY <1>1, <2>1, <3>2, <3>4, ExceptSeq
    <3>6. t \in Consumers
      BY <3>4, <3>5 DEF Consumers
    <3>7. t = [s EXCEPT !.missing = t.missing, !.runs = t.runs]
      BY <3>4 DEF Consumers
    <3> HIDE DEF new
    <3>8. \A i \in 1 .. Len(old) : /\ new[i].end = old[i].end /\ old[i].from <= new[i].from
                                   /\ new[i].from < new[i].end /\ new[i].from \in Nat
                                   /\ old[1].from + k <= new[i].from
      BY <1>1, <1>2, <2>1, <2>2, <3>2, <3>5, SMTT(20)
    <3>9. GapsOK(t)
      <4>1. \A i, j \in 1 .. Len(old) : i < j => new[i].end < new[j].from
        BY <1>1, <1>2, <3>8
      <4>2. \A i \in 1 .. Len(old) : 1 <= new[i].from /\ new[i].end <= s.next
        BY <1>1, <1>2, <3>8
      <4> QED BY <1>2, <3>4, <3>5, <3>8, <4>1, <4>2 DEF GapsOK, new
    <3>10. new # <<>> /\ new[Len(new)].end = old[Len(old)].end
      BY <1>1, <2>1, <3>5, <3>8, EmptySeq
    <3>11. RunsOK(t)
      BY <3>4, <3>10 DEF RunsOK, new, old
    <3>12. \A n \in Nat : Missing(t, n) <=> Missing(s, n) /\ old[1].from + k <= n
      <4>1. ASSUME NEW n \in Nat, NEW i \in 1 .. Len(old)
            PROVE  new[i].from <= n /\ n < new[i].end <=>
                      old[i].from <= n /\ n < old[i].end /\ old[1].from + k <= n
        <5>1. CASE i = 1
          BY <1>1, <2>1, <3>2, <3>5, <5>1
        <5>2. CASE i # 1
          <6>1. new[i] = old[i] /\ old[1].end < old[i].from
            BY <1>1, <1>2, <2>1, <3>5, <5>2
          <6> QED BY <1>1, <2>1, <6>1
        <5> QED BY <5>1, <5>2
      <4> QED BY <3>5, <4>1 DEF Missing, new, old
    <3>13. \A n \in Nat : Missing(t, n) => (InRuns(t, n) <=> InRuns(s, n))
      BY <3>4 DEF InRuns
    <3> QED BY <1>4, <2>1, <3>5, <3>6, <3>7, <3>8, <3>9, <3>11, <3>12, <3>13 DEF new, old
  <2>3. CASE ~(old[1].from + k < old[1].end)
    <3>1. t = [s EXCEPT !.missing = Tail(old),
                        !.runs = IF Len(old) = 1 THEN <<>> ELSE s.runs]
      BY <1>4, <2>1, <2>3 DEF ConsumeMissing, old
    <3>2. old[1].from + k = old[1].end
      <4>1. old[1].from \in Nat /\ old[1].end \in Nat
        BY <1>1, <2>1
      <4>2. old[1].from + k <= old[1].end
        BY <2>1
      <4> QED BY ONLY <2>3, <4>1, <4>2, k \in Nat
    <3>3. Tail(old) \in Seq(Ranges) /\ Len(Tail(old)) = Len(old) - 1
          /\ \A i \in 1 .. Len(Tail(old)) : Tail(old)[i] = old[i + 1] /\ i + 1 \in 1 .. Len(old)
      BY <1>1, <2>1, HeadTailProperties
    <3>4. new = Tail(old) /\ t.next = s.next /\ t.runs = IF Len(old) = 1 THEN <<>> ELSE s.runs
      BY <3>1 DEF Consumers
    <3>5. t \in Consumers
      <4>1. t.runs \in Seq(Ranges)
        BY <1>1, <3>4
      <4> QED BY <3>1, <3>3, <3>4, <4>1 DEF Consumers
    <3>6. t = [s EXCEPT !.missing = t.missing, !.runs = t.runs]
      BY <3>1, <3>4 DEF Consumers
    <3> HIDE DEF new
    <3>7. Len(new) = Len(old) - 1 /\ \A i \in 1 .. Len(new) :
             new[i] = old[i + 1] /\ i + 1 \in 1 .. Len(old) /\ old[1].end < new[i].from
      BY <1>1, <1>2, <2>1, <3>3, <3>4
    <3>8. GapsOK(t)
      <4>1. ASSUME NEW i \in 1 .. Len(new), NEW j \in 1 .. Len(new), i < j
            PROVE  new[i].end < new[j].from
        <5>1. i + 1 \in 1 .. Len(old) /\ j + 1 \in 1 .. Len(old) /\ i + 1 < j + 1
          BY <3>7, <4>1
        <5>2. old[i + 1].end < old[j + 1].from
          BY <1>2, <5>1
        <5> QED BY <3>7, <5>2
      <4>2. \A i \in 1 .. Len(new) : 1 <= new[i].from /\ new[i].from < new[i].end /\ new[i].end <= s.next
        BY <1>1, <1>2, <3>7
      <4>3. Len(new) <= MaxPendingGaps + 1
        BY <1>1, <1>2, <3>7, Constants
      <4> QED BY <3>4, <4>1, <4>2, <4>3 DEF GapsOK, new
    <3>9. RunsOK(t)
      <4>1. CASE Len(old) = 1
        <5>1. t.runs = <<>> /\ Len(t.runs) = 0
          BY <3>4, <4>1
        <5> QED BY <5>1, Constants DEF RunsOK
      <4>2. CASE Len(old) # 1
        <5>1. Len(new) >= 1 /\ Len(new) \in 1 .. Len(new) /\ new[Len(new)] = old[Len(old)] /\ new # <<>>
          BY <1>1, <2>1, <3>7, <4>2
        <5>2. t.runs = s.runs
          BY <3>4, <4>2
        <5> QED BY <5>1, <5>2 DEF RunsOK, new, old
      <4> QED BY <4>1, <4>2
    <3>10. \A n \in Nat : Missing(t, n) <=> Missing(s, n) /\ old[1].from + k <= n
      <4>1. ASSUME NEW n \in Nat, Missing(t, n) PROVE Missing(s, n) /\ old[1].from + k <= n
        <5>1. PICK i \in 1 .. Len(new) : new[i].from <= n /\ n < new[i].end
          BY <4>1 DEF Missing, new, old
        <5>2. i + 1 \in 1 .. Len(old) /\ new[i] = old[i + 1] /\ old[1].end < new[i].from
          BY <3>7
        <5> QED BY <1>1, <2>1, <3>2, <5>1, <5>2, SMTT(20) DEF Missing, old
      <4>2. ASSUME NEW n \in Nat, Missing(s, n), old[1].from + k <= n PROVE Missing(t, n)
        <5>1. PICK i \in 1 .. Len(old) : old[i].from <= n /\ n < old[i].end
          BY <4>2 DEF Missing, old
        <5>2. i # 1
          BY <1>1, <2>1, <3>2, <4>2, <5>1
        <5>3. i - 1 \in 1 .. Len(new) /\ new[i - 1] = old[i - 1 + 1] /\ i - 1 + 1 = i
          BY <1>1, <3>7, <5>2
        <5> QED BY <5>1, <5>3 DEF Missing, new, old
      <4> QED BY <4>1, <4>2
    <3>11. \A n \in Nat : Missing(t, n) => (InRuns(t, n) <=> InRuns(s, n))
      <4>1. ASSUME NEW n \in Nat, Missing(t, n) PROVE Len(old) # 1
        BY <1>1, <3>7, <4>1 DEF Missing, new, old
      <4> QED BY <3>4, <4>1 DEF InRuns
    <3>12. \A j \in 1 .. Len(new) : \E i \in 1 .. Len(old) : old[i].from <= new[j].from
      <4> TAKE j \in 1 .. Len(new)
      <4>1. j + 1 \in 1 .. Len(old) /\ new[j] = old[j + 1] /\ old[j + 1].from \in Nat
        BY <1>1, <3>7
      <4> QED BY <4>1
    <3>13. \A j \in 1 .. Len(new) : old[1].from + k <= new[j].from
      BY <1>1, <2>1, <3>2, <3>7
    <3> QED BY <1>4, <2>1, <3>5, <3>6, <3>8, <3>9, <3>10, <3>11, <3>12, <3>13 DEF new, old
  <2> QED BY <2>2, <2>3
<1> QED BY <1>3, <1>4

\* What the session keeps rests on these fields.
LEMMA SameSession ==
    ASSUME NEW s, NEW t, NEW books, NEW gone, NEW start, Session(s, books, gone, start),
           t.next = s.next, t.start = s.start, t.missing = s.missing, t.runs = s.runs,
           t.request = s.request, t.replay = s.replay, t.finished = s.finished,
           t.phase \notin {"established", "terminating"} => s.request = NoRequest /\ s.replay = NoReplay
    PROVE  Session(t, books, gone, start)
<1>1. GapsOK(t) /\ RunsOK(t) /\ RequestOK(t) /\ FinishOK(t)
  BY DEF Session, GapsOK, RunsOK, RequestOK, FinishOK
<1>2. StartOK(t, start)
  BY DEF Session, StartOK
<1>3. BooksOK(t, books, gone, start)
  BY DEF Session, BooksOK, Missing, InRuns, Delivered
<1> QED BY <1>1, <1>2, <1>3 DEF Session

\* The first gap is the lowest.
LEMMA FirstGap ==
    ASSUME NEW s \in Consumers, GapsOK(s), NEW n \in Nat, Missing(s, n)
    PROVE  s.missing # <<>> /\ s.missing[1].from <= n
<1>1. PICK i \in 1 .. Len(s.missing) : s.missing[i].from <= n /\ n < s.missing[i].end
  BY DEF Missing
<1>2. Len(s.missing) \in Nat /\ 1 \in 1 .. Len(s.missing) /\ s.missing # <<>>
  BY <1>1, ConsumerFields, EmptySeq
<1>3. /\ s.missing[1].from \in Nat /\ s.missing[1].end \in Nat /\ s.missing[i].from \in Nat
      /\ s.missing[1].from < s.missing[1].end
  BY <1>2, ConsumerFields DEF GapsOK
<1>4. 1 < i => s.missing[1].end < s.missing[i].from
  BY <1>2 DEF GapsOK
<1> QED BY <1>1, <1>2, <1>3, <1>4

\* A range is settled when its messages were delivered or are given up.
LEMMA Settles ==
    ASSUME NEW s \in Consumers, NEW books, NEW gone \in SUBSET Nat, NEW start \in Nat,
           Session(s, books, gone, start),
           NEW k, NEW more, SettledTo(s, k, books, more),
           NEW t, t = Settled(s, k)
    PROVE  /\ t \in Consumers /\ Session(t, books, gone \union more, start)
           /\ t.phase = s.phase /\ t.next = s.next /\ t.start = s.start /\ t.announced = s.announced
           /\ t.request = NoRequest /\ t.replay = NoReplay /\ t.finished = s.finished
           /\ t.resume = s.resume
<1>0. PICK u : u = ConsumeMissing(s, k)
  OBVIOUS
<1>1. /\ GapsOK(s) /\ RunsOK(s) /\ RequestOK(s) /\ StartOK(s, start) /\ FinishOK(s)
      /\ BooksOK(s, books, gone, start)
  BY DEF Session
<1>2. s.request \in Requests /\ s.request.count \in Nat /\ s.request.delivered \in Nat /\ k \in Nat
      /\ s.request.from \in Nat /\ s.next \in Nat /\ k \in {s.request.delivered, s.request.count}
      /\ more \in SUBSET Nat
  BY ConsumerFields DEF SettledTo
<1>3. s.request.delivered <= k /\ k <= s.request.count
  <2>1. s.request.delivered <= s.request.count
    BY <1>1, None DEF RequestOK
  <2> QED BY <1>2, <2>1
<1>4. k # 0 => /\ s.missing # <<>> /\ s.request.from = s.missing[1].from
               /\ s.missing[1].from + k <= s.missing[1].end
               /\ s.missing[1].end \in Nat /\ s.missing[1].from \in Nat /\ s.missing[1].end <= s.next
  <2> SUFFICES ASSUME k # 0
               PROVE  /\ s.missing # <<>> /\ s.request.from = s.missing[1].from
                      /\ s.missing[1].from + k <= s.missing[1].end
                      /\ s.missing[1].end \in Nat /\ s.missing[1].from \in Nat /\ s.missing[1].end <= s.next
    OBVIOUS
  <2>1. s.request # NoRequest
    BY <1>2, <1>3, None
  <2>2. s.missing # <<>> /\ s.request.from = s.missing[1].from
        /\ s.missing[1].from + s.request.count <= s.missing[1].end
    BY <1>1, <2>1 DEF RequestOK
  <2>3. 1 \in 1 .. Len(s.missing)
    BY <2>2, ConsumerFields, EmptySeq
  <2>4. s.missing[1].end \in Nat /\ s.missing[1].from \in Nat /\ s.missing[1].end <= s.next
    BY <1>1, <2>3, ConsumerFields DEF GapsOK
  <2> QED BY ONLY <1>2, <1>3, <2>2, <2>4
<1>5. /\ u \in Consumers /\ GapsOK(u) /\ RunsOK(u)
      /\ u = [s EXCEPT !.missing = u.missing, !.runs = u.runs]
      /\ \A n \in Nat : Missing(u, n) <=> Missing(s, n) /\ (k = 0 \/ s.missing[1].from + k <= n)
      /\ \A n \in Nat : Missing(u, n) => (InRuns(u, n) <=> InRuns(s, n))
      /\ \A j \in 1 .. Len(u.missing) :
            \E i \in 1 .. Len(s.missing) : s.missing[i].from <= u.missing[j].from
      /\ k # 0 => \A j \in 1 .. Len(u.missing) : s.missing[1].from + k <= u.missing[j].from
      /\ s.missing = <<>> => u.missing = <<>>
  <2>1. k # 0 => s.missing # <<>> /\ s.missing[1].from + k <= s.missing[1].end
    BY <1>4
  <2>2. GapsOK(s) /\ RunsOK(s) /\ k \in Nat /\ u = ConsumeMissing(s, k) /\ s \in Consumers
    BY <1>0, <1>1, <1>2
  <2>3. Consumed(s, k, u)
    BY ONLY <2>1, <2>2, ConsumeEffect, ZenonT(20)
  <2> QED BY ONLY <2>3 DEF Consumed
<1>6. t = [u EXCEPT !.request = NoRequest, !.replay = NoReplay]
  BY <1>0 DEF Settled
<1>7. /\ u.phase = s.phase /\ u.next = s.next /\ u.start = s.start /\ u.announced = s.announced
      /\ u.finished = s.finished /\ u.resume = s.resume
  BY <1>5 DEF Consumers
<1>8. /\ t \in Consumers
      /\ t.phase = s.phase /\ t.next = s.next /\ t.start = s.start /\ t.announced = s.announced
      /\ t.request = NoRequest /\ t.replay = NoReplay /\ t.finished = s.finished
      /\ t.missing = u.missing /\ t.runs = u.runs /\ t.resume = s.resume
  BY <1>5, <1>6, <1>7, None DEF Consumers
<1>9. GapsOK(t) /\ RunsOK(t)
  BY <1>5, <1>7, <1>8 DEF GapsOK, RunsOK
<1>10. RequestOK(t)
  BY <1>8, None DEF RequestOK
<1>11. StartOK(t, start) /\ FinishOK(t)
  BY <1>1, <1>5, <1>8 DEF StartOK, FinishOK
<1>12. /\ \A n \in Nat : Missing(t, n) <=> Missing(u, n)
       /\ \A n \in Nat : InRuns(t, n) <=> InRuns(u, n)
       /\ \A n \in Nat : ~Delivered(t, n)
  BY <1>8, None DEF Missing, InRuns, Delivered
<1>13. BooksOK(t, books, gone \union more, start)
  <2>1. \A n \in Numbers : n \in Nat
    BY Constants
  <2>2. ASSUME NEW n \in Numbers, Missing(t, n)
        PROVE  books[n] # <<>> <=> InRuns(t, n) \/ Delivered(t, n)
    <3>1. Missing(s, n) /\ (k = 0 \/ s.missing[1].from + k <= n) /\ (InRuns(t, n) <=> InRuns(s, n))
      BY <1>5, <1>12, <2>1, <2>2
    <3>2. ~Delivered(s, n)
      <4>1. CASE k = 0
        BY <1>2, <1>3, <2>1, <4>1 DEF Delivered
      <4>2. CASE k # 0
        BY <1>2, <1>3, <1>4, <2>1, <3>1, <4>2 DEF Delivered
      <4> QED BY <4>1, <4>2
    <3>3. books[n] # <<>> <=> InRuns(s, n) \/ Delivered(s, n)
      BY <1>1, <3>1 DEF BooksOK
    <3> QED BY <1>12, <2>1, <3>1, <3>2, <3>3
  <2>3. ASSUME NEW n \in Numbers, start # 0, start <= n, n < s.next
        PROVE  books[n] # <<>> \/ n \in gone \union more \/ Missing(t, n)
    <3>1. books[n] # <<>> \/ n \in gone \/ Missing(s, n)
      BY <1>1, <2>3 DEF BooksOK
    <3>2. ASSUME Missing(s, n), ~Missing(t, n) PROVE books[n] # <<>> \/ n \in more
      <4>1. k # 0 /\ ~(s.missing[1].from + k <= n)
        BY <1>5, <1>12, <2>1, <3>2
      <4>2. s.missing[1].from <= n
        BY <1>1, <2>1, <3>2, FirstGap
      <4>3. s.request.from <= n /\ n < s.request.from + k
        BY <1>2, <1>4, <2>1, <4>1, <4>2
      <4> QED BY <4>3 DEF SettledTo
    <3> QED BY <3>1, <3>2
  <2>4. ASSUME NEW i \in 1 .. Len(t.missing) PROVE start <= t.missing[i].from
    <3>1. PICK j \in 1 .. Len(s.missing) : s.missing[j].from <= t.missing[i].from
      BY <1>5, <1>8
    <3>2. start <= s.missing[j].from /\ s.missing[j].from \in Nat
      BY <1>1, ConsumerFields DEF BooksOK
    <3>3. t.missing[i].from \in Nat
      BY <1>8, ConsumerFields
    <3> QED BY <3>1, <3>2, <3>3, SMTT(20)
  <2>5. ASSUME NEW n \in gone
        PROVE  1 <= n /\ n < t.next /\ \A i \in 1 .. Len(t.missing) : n < t.missing[i].from
    <3>1. 1 <= n /\ n < s.next /\ \A i \in 1 .. Len(s.missing) : n < s.missing[i].from
      BY <1>1 DEF BooksOK
    <3>2. ASSUME NEW i \in 1 .. Len(t.missing) PROVE n < t.missing[i].from
      <4>1. PICK j \in 1 .. Len(s.missing) : s.missing[j].from <= t.missing[i].from
        BY <1>5, <1>8
      <4>2. s.missing[j].from \in Nat /\ t.missing[i].from \in Nat /\ n < s.missing[j].from
        BY <1>8, <3>1, ConsumerFields
      <4>3. n \in Nat
        OBVIOUS
      <4> QED BY ONLY <4>1, <4>2, <4>3
    <3> QED BY <1>8, <3>1, <3>2
  <2>6. ASSUME NEW n \in more
        PROVE  1 <= n /\ n < t.next /\ \A i \in 1 .. Len(t.missing) : n < t.missing[i].from
    <3>1. k # 0 /\ n < s.missing[1].from + k
      <4>1. s.request.from <= n /\ n < s.request.from + k /\ n \in Nat
        BY <1>2 DEF SettledTo
      <4> QED BY <1>2, <1>4, <4>1
    <3>2. n < t.next
      BY <1>2, <1>4, <1>8, <3>1
    <3>3. ASSUME NEW i \in 1 .. Len(t.missing) PROVE n < t.missing[i].from
      <4>1. s.missing[1].from + k <= t.missing[i].from /\ t.missing[i].from \in Nat
        BY <1>5, <1>8, <3>1, ConsumerFields
      <4>2. n \in Nat
        BY <1>2
      <4> QED BY ONLY <1>2, <1>4, <3>1, <4>1, <4>2, SMTT(20)
    <3>4. 1 <= n
      <4>1. s.request.from <= n /\ n \in Nat
        BY <1>2 DEF SettledTo
      <4>2. 1 <= s.missing[1].from
        <5>1. 1 \in 1 .. Len(s.missing)
          BY <1>4, <3>1, ConsumerFields, EmptySeq
        <5> QED BY <1>1, <5>1 DEF GapsOK
      <4>3. s.request.from = s.missing[1].from /\ s.missing[1].from \in Nat
        BY <1>4, <3>1
      <4> QED BY ONLY <4>1, <4>2, <4>3
    <3> QED BY <3>2, <3>3, <3>4
  <2>7. /\ \A n \in Numbers : books[n] \in {<<>>, <<n>>} /\ (books[n] # <<>> => n < t.next)
        /\ start <= t.next
    BY <1>1, <1>8 DEF BooksOK
  <2> QED BY <1>8, <2>2, <2>3, <2>4, <2>5, <2>6, <2>7 DEF BooksOK
<1> QED BY <1>8, <1>9, <1>10, <1>11, <1>13 DEF Session

-----------------------------------------------------------------------------
(* What the session keeps when a gap is recorded                            *)

LEMMA DeliveredAre ==
    ASSUME NEW s \in Consumers, NEW books, NEW gone, NEW start, Session(s, books, gone, start),
           NEW n \in Numbers, Delivered(s, n)
    PROVE  books[n] # <<>>
<1>1. n \in Nat /\ s.request.from \in Nat /\ s.request.delivered \in Nat /\ s.request.count \in Nat
  BY ConsumerFields, Constants
<1>2. s.request # NoRequest
  BY <1>1, None DEF Delivered
<1>3. /\ s.missing # <<>> /\ s.request.from = s.missing[1].from
      /\ s.request.from + s.request.count <= s.missing[1].end
      /\ s.request.delivered <= s.request.count
  BY <1>2 DEF Session, RequestOK
<1>4. 1 \in 1 .. Len(s.missing) /\ s.missing[1].end \in Nat
  BY <1>3, ConsumerFields, EmptySeq
<1>5. s.missing[1].from <= n /\ n < s.missing[1].end
  BY <1>1, <1>3, <1>4 DEF Delivered
<1> QED BY <1>4, <1>5 DEF Session, BooksOK, Missing

\* The largest number of two.
LEMMA MaxOfTwo ==
    ASSUME NEW a \in Nat, NEW b \in Nat
    PROVE  Max({a, b}) = IF a < b THEN b ELSE a
<1> DEFINE m == IF a < b THEN b ELSE a
<1>1. m \in {a, b} /\ \A y \in {a, b} : m >= y
  OBVIOUS
<1>2. \A x \in {a, b} : (\A y \in {a, b} : x >= y) => x = m
  OBVIOUS
<1> QED BY <1>1, <1>2 DEF Max

LEMMA MinOfTwo ==
    ASSUME NEW a \in Nat, NEW b \in Nat
    PROVE  Min({a, b}) \in {a, b} /\ Min({a, b}) <= a /\ Min({a, b}) <= b
<1> DEFINE m == IF a < b THEN a ELSE b
<1>1. m \in {a, b} /\ \A y \in {a, b} : m <= y
  OBVIOUS
<1>2. \A x \in {a, b} : (\A y \in {a, b} : x <= y) => x = m
  OBVIOUS
<1>3. Min({a, b}) = m
  BY <1>1, <1>2 DEF Min
<1> QED BY <1>3

\* record_gap: a gap of its own.
LEMMA AppendKeeps ==
    ASSUME NEW s \in Consumers, NEW books, NEW gone \in SUBSET Nat, NEW start \in Nat,
           Session(s, books, gone, start), ~s.start, s.finished = NotFinished,
           NEW next \in 1 .. MaxSeq + 1, s.next < next, Len(s.missing) <= MaxPendingGaps,
           s.missing = <<>> \/ s.missing[Len(s.missing)].end # s.next,
           NEW t, t = [s EXCEPT !.missing = Append(s.missing, [from |-> s.next, end |-> next]),
                                !.next = next]
    PROVE  t \in Consumers /\ Session(t, books, gone, start)
<1>0. PICK old : old = s.missing
  OBVIOUS
<1>1. PICK gap : gap = [from |-> s.next, end |-> next]
  OBVIOUS
<1>2. PICK new : new = Append(old, gap)
  OBVIOUS
<1>3. /\ old \in Seq(Ranges) /\ Len(old) \in Nat /\ s.next \in Nat /\ next \in Nat /\ 1 <= s.next
      /\ gap \in Ranges /\ gap.from = s.next /\ gap.end = next
      /\ \A i \in 1 .. Len(old) : old[i].from \in Nat /\ old[i].end \in Nat
  <2>1. /\ old \in Seq(Ranges) /\ Len(old) \in Nat /\ s.next \in Nat /\ 1 <= s.next
        /\ \A i \in 1 .. Len(old) : old[i].from \in Nat /\ old[i].end \in Nat
    BY <1>0, ConsumerFields, Constants
  <2>2. next \in Nat
    BY Constants
  <2>3. gap \in Ranges /\ gap.from = s.next /\ gap.end = next
    BY <1>1, <2>1, <2>2 DEF Ranges
  <2> QED BY <2>1, <2>2, <2>3
<1>4. /\ new \in Seq(Ranges) /\ Len(new) = Len(old) + 1 /\ new # <<>> /\ new[Len(new)] = gap
      /\ \A i \in 1 .. Len(old) : new[i] = old[i]
  BY <1>2, <1>3, AppendProperties
<1>5. /\ t \in Consumers /\ t.missing = new /\ t.next = next /\ t.runs = s.runs
      /\ t.request = s.request /\ t.replay = s.replay /\ t.finished = s.finished
      /\ t.phase = s.phase /\ t.start = s.start
  BY <1>0, <1>1, <1>2, <1>4 DEF Consumers
<1>6. /\ GapsOK(s) /\ RunsOK(s) /\ RequestOK(s) /\ StartOK(s, start) /\ FinishOK(s)
      /\ BooksOK(s, books, gone, start)
  BY DEF Session
<1>7. /\ \A i \in 1 .. Len(old) : 1 <= old[i].from /\ old[i].from < old[i].end /\ old[i].end <= s.next
      /\ \A i, j \in 1 .. Len(old) : i < j => old[i].end < old[j].from
  BY <1>0, <1>6 DEF GapsOK
<1>8. \A i \in 1 .. Len(old) : old[i].end < s.next
  <2> TAKE i \in 1 .. Len(old)
  <2>1. old # <<>> /\ Len(old) \in 1 .. Len(old)
    BY <1>3, EmptySeq
  <2>2. old[Len(old)].end < s.next
    BY <1>0, <1>3, <1>7, <2>1, SMTT(20)
  <2>3. i < Len(old) => old[i].end < old[Len(old)].end
    BY <1>3, <1>7, <2>1
  <2> QED BY <1>3, <2>1, <2>2, <2>3
<1>9. \A i \in 1 .. Len(new) : i \in 1 .. Len(old) \/ i = Len(new)
  BY <1>3, <1>4
<1>10. GapsOK(t)
  <2>1. \A i \in 1 .. Len(new) :
            1 <= new[i].from /\ new[i].from < new[i].end /\ new[i].end <= next
    BY <1>3, <1>4, <1>7, <1>9
  <2>2. ASSUME NEW i \in 1 .. Len(new), NEW j \in 1 .. Len(new), i < j
        PROVE  new[i].end < new[j].from
    <3>1. i \in 1 .. Len(old)
      BY <1>3, <1>4, <2>2
    <3> QED BY <1>3, <1>4, <1>7, <1>8, <1>9, <2>2, <3>1
  <2>3. Len(new) <= MaxPendingGaps + 1
    BY <1>0, <1>3, <1>4, Constants, SMTT(20)
  <2> QED BY <1>5, <2>1, <2>2, <2>3 DEF GapsOK
<1>11. RunsOK(t)
  <2>1. ASSUME NEW i \in 1 .. Len(s.runs) PROVE s.runs[i].end < new[Len(new)].end
    <3>1. s.runs # <<>> /\ old # <<>> /\ s.runs[i].end \in Nat
      BY <1>0, <1>6, ConsumerFields, EmptySeq DEF RunsOK
    <3>2. s.runs[i].end < old[Len(old)].end /\ Len(old) \in 1 .. Len(old)
      BY <1>0, <1>3, <1>6, <3>1, EmptySeq DEF RunsOK
    <3> QED BY <1>3, <1>4, <1>8, <3>1, <3>2, SMTT(20)
  <2> QED BY <1>4, <1>5, <1>6, <2>1 DEF RunsOK
<1>12. RequestOK(t)
  <2>1. old # <<>> => new[1] = old[1]
    BY <1>3, <1>4, EmptySeq, SMTT(20)
  <2> QED BY <1>0, <1>4, <1>5, <1>6, <2>1 DEF RequestOK
<1>13. StartOK(t, start) /\ FinishOK(t)
  BY <1>5, <1>6, None DEF StartOK, FinishOK
<1>14. \A n \in Nat : Missing(t, n) <=> Missing(s, n) \/ (s.next <= n /\ n < next)
  <2>1. \A n : Missing(s, n) => Missing(t, n)
    BY <1>0, <1>3, <1>4, <1>5 DEF Missing
  <2>2. \A n \in Nat : s.next <= n /\ n < next => Missing(t, n)
    <3>1. Len(new) \in 1 .. Len(new) /\ new[Len(new)].from = s.next /\ new[Len(new)].end = next
      BY <1>3, <1>4
    <3> QED BY <1>5, <3>1 DEF Missing
  <2>3. \A n \in Nat : Missing(t, n) => Missing(s, n) \/ (s.next <= n /\ n < next)
    BY <1>0, <1>3, <1>4, <1>5, <1>9 DEF Missing
  <2> QED BY <2>1, <2>2, <2>3
<1>15. BooksOK(t, books, gone, start)
  <2>1. \A n \in Numbers : n \in Nat
    BY Constants
  <2>2. ASSUME NEW n \in Numbers, Missing(t, n)
        PROVE  books[n] # <<>> <=> InRuns(t, n) \/ Delivered(t, n)
    <3>1. InRuns(t, n) <=> InRuns(s, n)
      BY <1>5 DEF InRuns
    <3>2. Delivered(t, n) <=> Delivered(s, n)
      BY <1>5 DEF Delivered
    <3>3. CASE Missing(s, n)
      BY <1>6, <3>1, <3>2, <3>3 DEF BooksOK
    <3>4. CASE ~Missing(s, n)
      <4>1. s.next <= n
        BY <1>14, <2>1, <2>2, <3>4
      <4>2. books[n] = <<>>
        BY <1>3, <1>6, <2>1, <4>1 DEF BooksOK
      <4>3. ~Delivered(s, n)
        BY <4>2, DeliveredAre
      <4>4. ~InRuns(s, n)
        <5>1. ASSUME NEW i \in 1 .. Len(s.runs), n < s.runs[i].end PROVE FALSE
          <6>1. s.runs # <<>> /\ old # <<>> /\ s.runs[i].end \in Nat
            BY <1>0, <1>6, ConsumerFields, EmptySeq DEF RunsOK
          <6>2. s.runs[i].end < old[Len(old)].end /\ Len(old) \in 1 .. Len(old)
            BY <1>0, <1>3, <1>6, <6>1, EmptySeq DEF RunsOK
          <6> QED BY <1>3, <1>8, <2>1, <4>1, <5>1, <6>1, <6>2, SMTT(20)
        <5> QED BY <5>1 DEF InRuns
      <4> QED BY <3>1, <3>2, <4>2, <4>3, <4>4
    <3> QED BY <3>3, <3>4
  <2>3. ASSUME NEW n \in Numbers, start # 0, start <= n, n < next
        PROVE  books[n] # <<>> \/ n \in gone \/ Missing(t, n)
    <3>1. n < s.next \/ s.next <= n
      BY <1>3, <2>1
    <3> QED BY <1>6, <1>14, <2>1, <2>3, <3>1 DEF BooksOK
  <2>4. \A i \in 1 .. Len(new) : start <= new[i].from
    <3>1. start <= s.next
      BY <1>6 DEF BooksOK
    <3> QED BY <1>0, <1>3, <1>4, <1>6, <1>9, <3>1 DEF BooksOK
  <2>5. ASSUME NEW n \in gone PROVE 1 <= n /\ n < next /\ \A i \in 1 .. Len(new) : n < new[i].from
    <3>1. 1 <= n /\ n < s.next /\ \A i \in 1 .. Len(old) : n < old[i].from
      BY <1>0, <1>6 DEF BooksOK
    <3>2. n \in Nat
      OBVIOUS
    <3> QED BY <1>3, <1>4, <1>9, <3>1, <3>2, SMTT(20)
  <2>6. /\ \A n \in Numbers : books[n] \in {<<>>, <<n>>} /\ (books[n] # <<>> => n < next)
        /\ start <= next
    BY <1>3, <1>6, <2>1 DEF BooksOK
  <2> QED BY <1>5, <2>2, <2>3, <2>4, <2>5, <2>6 DEF BooksOK
<1> QED BY <1>5, <1>10, <1>11, <1>12, <1>13, <1>15 DEF Session

\* Nothing is missing past the last gap.
LEMMA LastGap ==
    ASSUME NEW s \in Consumers, GapsOK(s), s.missing # <<>>,
           NEW i \in 1 .. Len(s.missing)
    PROVE  /\ Len(s.missing) \in 1 .. Len(s.missing)
           /\ s.missing[i].end <= s.missing[Len(s.missing)].end
<1>1. Len(s.missing) \in Nat /\ Len(s.missing) \in 1 .. Len(s.missing)
  BY ConsumerFields, EmptySeq
<1>2. /\ s.missing[i].end \in Nat /\ s.missing[Len(s.missing)].from \in Nat
      /\ s.missing[Len(s.missing)].end \in Nat
      /\ s.missing[Len(s.missing)].from < s.missing[Len(s.missing)].end
  BY <1>1, ConsumerFields DEF GapsOK
<1>3. i < Len(s.missing) => s.missing[i].end < s.missing[Len(s.missing)].from
  BY <1>1 DEF GapsOK
<1> QED BY <1>1, <1>2, <1>3

\* record_gap onto the last gap, and hold_refused_gap: what was received
\* between the two is remembered as a run.
LEMMA WidenKeeps ==
    ASSUME NEW s \in Consumers, NEW books, NEW gone \in SUBSET Nat, NEW start \in Nat,
           Session(s, books, gone, start), ~s.start, s.finished = NotFinished,
           NEW next \in 1 .. MaxSeq + 1, s.next < next, s.missing # <<>>,
           NEW last, last = s.missing[Len(s.missing)].end, NEW runs,
           \/ last = s.next /\ runs = s.runs
           \/ /\ last < s.next /\ Len(s.runs) < MaxRuns
              /\ runs = Append(s.runs, [from |-> last, end |-> s.next]),
           NEW t, t = [s EXCEPT !.missing = [s.missing EXCEPT ![Len(s.missing)].end = next],
                                !.runs = runs, !.next = next]
    PROVE  t \in Consumers /\ Session(t, books, gone, start)
<1>0. PICK old : old = s.missing
  OBVIOUS
<1>1. PICK top : top = Len(old)
  OBVIOUS
<1>2. PICK gap : gap = [old[top] EXCEPT !.end = next]
  OBVIOUS
<1>3. PICK new : new = [old EXCEPT ![top] = gap]
  OBVIOUS
<1>4. /\ GapsOK(s) /\ RunsOK(s) /\ RequestOK(s) /\ StartOK(s, start) /\ FinishOK(s)
      /\ BooksOK(s, books, gone, start)
  BY DEF Session
<1>5. /\ old \in Seq(Ranges) /\ top \in Nat /\ s.next \in Nat /\ 1 <= s.next /\ top \in 1 .. Len(old)
      /\ \A i \in 1 .. Len(old) : old[i].from \in Nat /\ old[i].end \in Nat
  BY <1>0, <1>1, ConsumerFields, Constants, EmptySeq, SMTT(20)
<1>6. next \in Nat
  BY Constants
<1>7. /\ \A i \in 1 .. Len(old) : 1 <= old[i].from /\ old[i].from < old[i].end /\ old[i].end <= s.next
      /\ \A i, j \in 1 .. Len(old) : i < j => old[i].end < old[j].from
      /\ Len(old) <= MaxPendingGaps + 1
  BY <1>0, <1>4 DEF GapsOK
<1>8. last = old[top].end /\ last \in Nat /\ last <= s.next /\ old[top].from < last
      /\ old[top].from \in Nat
  BY <1>0, <1>1, <1>5, <1>7
<1>9. gap \in Ranges /\ gap.from = old[top].from /\ gap.end = next
  <2>1. old[top] \in Ranges
    BY <1>5, ElementOfSeq
  <2> QED BY ONLY <1>2, <1>6, <2>1 DEF Ranges
<1>10. /\ new \in Seq(Ranges) /\ Len(new) = top /\ new[top] = gap /\ new # <<>>
       /\ \A i \in 1 .. Len(old) : i # top => new[i] = old[i]
       /\ \A i \in 1 .. Len(old) : new[i].from = old[i].from
  <2>1. /\ new \in Seq(Ranges) /\ Len(new) = top /\ new[top] = gap
        /\ \A i \in 1 .. Len(old) : i # top => new[i] = old[i]
    BY <1>1, <1>3, <1>5, <1>9, ExceptSeq
  <2>2. new # <<>>
    <3>1. Len(new) # 0
      BY <1>5, <2>1
    <3> QED BY ONLY <3>1
  <2>3. ASSUME NEW i \in 1 .. Len(old) PROVE new[i].from = old[i].from
    BY ONLY <1>9, <2>1, <2>3
  <2> QED BY ONLY <2>1, <2>2, <2>3
<1>11. \A i \in 1 .. Len(old) : old[i].end <= last /\ (i # top => i < top)
  <2>1. \A i \in 1 .. Len(old) : old[i].end <= last
    BY <1>0, <1>1, <1>4, <1>8, LastGap
  <2> QED BY <1>1, <1>5, <2>1
<1>12. runs \in Seq(Ranges) /\ Len(runs) <= MaxRuns
  <2>1. s.runs \in Seq(Ranges) /\ Len(s.runs) \in Nat /\ Len(s.runs) <= MaxRuns
    BY <1>4, ConsumerFields DEF RunsOK
  <2>2. [from |-> last, end |-> s.next] \in Ranges
    BY <1>5, <1>8 DEF Ranges
  <2>3. CASE last = s.next
    <3>1. runs = s.runs
      BY <1>5, <1>8, <2>3
    <3> QED BY ONLY <2>1, <3>1
  <2>4. CASE last < s.next
    <3>1. Len(s.runs) < MaxRuns /\ runs = Append(s.runs, [from |-> last, end |-> s.next])
      BY <1>5, <1>8, <2>4
    <3>2. runs \in Seq(Ranges) /\ Len(runs) = Len(s.runs) + 1
      BY <2>1, <2>2, <3>1, AppendProperties
    <3> QED BY ONLY <2>1, <3>1, <3>2, Constants
  <2> QED BY ONLY <1>5, <1>8, <2>3, <2>4
<1>13. /\ t \in Consumers /\ t.missing = new /\ t.next = next /\ t.runs = runs
       /\ t.request = s.request /\ t.replay = s.replay /\ t.finished = s.finished
       /\ t.phase = s.phase /\ t.start = s.start
  <2>1. t = [s EXCEPT !.missing = new, !.runs = runs, !.next = next]
    BY <1>0, <1>1, <1>2, <1>3
  <2> QED BY <1>10, <1>12, <2>1 DEF Consumers
<1>14. GapsOK(t)
  <2>1. \A i \in 1 .. top : 1 <= new[i].from /\ new[i].from < new[i].end /\ new[i].end <= next
    <3> TAKE i \in 1 .. top
    <3>1. CASE i = top
      BY <1>5, <1>6, <1>7, <1>8, <1>9, <1>10, <3>1
    <3>2. CASE i # top
      BY <1>1, <1>5, <1>6, <1>7, <1>10, <3>2
    <3> QED BY <3>1, <3>2
  <2>2. ASSUME NEW i \in 1 .. top, NEW j \in 1 .. top, i < j PROVE new[i].end < new[j].from
    <3>1. i # top
      BY <1>5, <2>2
    <3> QED BY <1>1, <1>7, <1>10, <2>2, <3>1
  <2>3. top <= MaxPendingGaps + 1
    BY <1>1, <1>7
  <2> QED BY <1>10, <1>13, <2>1, <2>2, <2>3 DEF GapsOK
<1>15. \A i \in 1 .. Len(s.runs) : s.runs[i].end < last /\ s.runs[i].end \in Nat
  BY <1>0, <1>1, <1>4, <1>8, ConsumerFields DEF RunsOK
<1>16. /\ \A i \in 1 .. Len(runs) :
            \/ i \in 1 .. Len(s.runs) /\ runs[i] = s.runs[i]
            \/ /\ i = Len(s.runs) + 1 /\ last < s.next
               /\ runs[i].from = last /\ runs[i].end = s.next
       /\ \A i \in 1 .. Len(s.runs) : i \in 1 .. Len(runs) /\ runs[i] = s.runs[i]
       /\ last < s.next => /\ Len(s.runs) + 1 \in 1 .. Len(runs)
                           /\ runs[Len(s.runs) + 1].from = last
                           /\ runs[Len(s.runs) + 1].end = s.next
  <2>1. s.runs \in Seq(Ranges) /\ Len(s.runs) \in Nat
    BY ConsumerFields
  <2>2. [from |-> last, end |-> s.next] \in Ranges
    BY <1>5, <1>8 DEF Ranges
  <2>3. CASE last = s.next
    BY <1>5, <1>8, <2>1, <2>3
  <2>4. CASE last < s.next
    <3>1. runs = Append(s.runs, [from |-> last, end |-> s.next])
      BY <1>5, <1>8, <2>4
    <3>2. /\ Len(runs) = Len(s.runs) + 1 /\ \A i \in 1 .. Len(s.runs) : runs[i] = s.runs[i]
          /\ runs[Len(s.runs) + 1] = [from |-> last, end |-> s.next]
      BY <2>1, <2>2, <3>1, AppendProperties
    <3> QED BY <2>1, <2>4, <3>2
  <2> QED BY <1>5, <1>8, <2>3, <2>4
<1>17. RunsOK(t)
  <2>1. \A i \in 1 .. Len(runs) : runs[i].from < runs[i].end /\ runs[i].end < next
    <3> TAKE i \in 1 .. Len(runs)
    <3>1. CASE i \in 1 .. Len(s.runs) /\ runs[i] = s.runs[i]
      <4>1. s.runs[i].from < s.runs[i].end /\ s.runs[i].end < last /\ s.runs[i].end \in Nat
        BY <1>4, <1>15, <3>1 DEF RunsOK
      <4>2. s.runs[i].end < next
        BY ONLY <1>5, <1>6, <1>8, <4>1, s.next < next
      <4> QED BY ONLY <3>1, <4>1, <4>2
    <3>2. CASE last < s.next /\ runs[i].from = last /\ runs[i].end = s.next
      BY <3>2
    <3> QED BY <1>16, <3>1, <3>2
  <2>2. ASSUME NEW i \in 1 .. Len(runs), NEW j \in 1 .. Len(runs), i < j
        PROVE  runs[i].end < runs[j].from
    <3>1. Len(s.runs) \in Nat
      BY ConsumerFields
    <3>2. i \in 1 .. Len(s.runs) /\ runs[i] = s.runs[i]
      BY <1>16, <2>2, <3>1
    <3>3. CASE j \in 1 .. Len(s.runs) /\ runs[j] = s.runs[j]
      BY <1>4, <2>2, <3>2, <3>3 DEF RunsOK
    <3>4. CASE runs[j].from = last
      BY <1>15, <3>2, <3>4
    <3> QED BY <1>16, <3>3, <3>4
  <2>3. new[Len(new)].end = next
    BY <1>9, <1>10
  <2> QED BY <1>10, <1>12, <1>13, <2>1, <2>2, <2>3 DEF RunsOK
<1>18. RequestOK(t)
  <2>1. 1 \in 1 .. Len(old) /\ new[1].from = old[1].from /\ old[1].end <= new[1].end
        /\ old[1].end \in Nat /\ new[1].end \in Nat
    <3>1. 1 \in 1 .. Len(old)
      BY <1>1, <1>5
    <3>2. CASE top = 1
      BY <1>5, <1>6, <1>7, <1>8, <1>9, <1>10, <3>1, <3>2
    <3>3. CASE top # 1
      BY <1>5, <1>10, <3>1, <3>3
    <3> QED BY <3>1, <3>2, <3>3
  <2>2. /\ s.request # NoRequest => s.request.from = old[1].from
                                    /\ s.request.from + s.request.count <= old[1].end
                                    /\ s.request.delivered <= s.request.count
        /\ s.request.from \in Nat /\ s.request.count \in Nat
    BY <1>0, <1>4, ConsumerFields DEF RequestOK
  <2>3. s.request # NoRequest => s.request.from + s.request.count <= new[1].end
    BY <2>1, <2>2
  <2>4. /\ s.replay # NoReplay =>
              /\ s.request # NoRequest
              /\ s.replay.next = s.request.from + s.request.delivered
              /\ 1 <= s.replay.left /\ s.request.delivered + s.replay.left <= s.request.count
        /\ s.request.interrupted \/ s.request.complete => s.replay = NoReplay
    BY <1>4 DEF RequestOK
  <2> QED BY <1>10, <1>13, <2>1, <2>2, <2>3, <2>4 DEF RequestOK
<1>19. StartOK(t, start) /\ FinishOK(t)
  BY <1>4, <1>13, None DEF StartOK, FinishOK
<1>20. \A n \in Nat : Missing(t, n) <=> Missing(s, n) \/ (last <= n /\ n < next)
  <2>1. ASSUME NEW n \in Nat, Missing(s, n) PROVE Missing(t, n)
    <3>1. PICK i \in 1 .. Len(old) : old[i].from <= n /\ n < old[i].end
      BY <1>0, <2>1 DEF Missing
    <3>2. CASE i = top
      <4>1. top \in 1 .. Len(new) /\ new[top].from <= n
        BY ONLY <1>5, <1>10, <3>1, <3>2
      <4>2. n < new[top].end
        BY ONLY <1>5, <1>6, <1>8, <1>9, <1>10, <2>1, <3>1, <3>2, s.next < next
      <4> QED BY ONLY <1>13, <4>1, <4>2 DEF Missing
    <3>3. CASE i # top
      BY <1>1, <1>10, <1>13, <3>1, <3>3 DEF Missing
    <3> QED BY <3>2, <3>3
  <2>2. ASSUME NEW n \in Nat, last <= n, n < next PROVE Missing(t, n)
    <3>1. top \in 1 .. Len(new) /\ new[top].from <= n /\ n < new[top].end
      BY <1>5, <1>8, <1>9, <1>10, <2>2
    <3> QED BY <1>13, <3>1 DEF Missing
  <2>3. ASSUME NEW n \in Nat, Missing(t, n), ~(last <= n) PROVE Missing(s, n)
    <3>1. PICK i \in 1 .. top : new[i].from <= n /\ n < new[i].end
      BY <1>10, <1>13, <2>3 DEF Missing
    <3>2. CASE i = top
      BY <1>0, <1>5, <1>8, <1>9, <1>10, <2>3, <3>1, <3>2 DEF Missing
    <3>3. CASE i # top
      BY <1>0, <1>1, <1>10, <3>1, <3>3 DEF Missing
    <3> QED BY <3>2, <3>3
  <2>4. ASSUME NEW n \in Nat, Missing(t, n) PROVE n < next
    <3>1. PICK i \in 1 .. top : new[i].from <= n /\ n < new[i].end
      BY <1>10, <1>13, <2>4 DEF Missing
    <3>2. new[i].end <= next /\ new[i].end \in Nat
      BY <1>1, <1>5, <1>6, <1>9, <1>10, <1>11, <1>7
    <3> QED BY <1>6, <3>1, <3>2
  <2> QED BY <1>8, <2>1, <2>2, <2>3, <2>4
<1>21. \A n \in Nat : InRuns(t, n) <=> InRuns(s, n) \/ (last <= n /\ n < s.next)
  <2>1. ASSUME NEW n \in Nat, InRuns(t, n) PROVE InRuns(s, n) \/ (last <= n /\ n < s.next)
    <3>1. PICK i \in 1 .. Len(runs) : runs[i].from <= n /\ n < runs[i].end
      BY <1>13, <2>1 DEF InRuns
    <3> QED BY <1>16, <3>1 DEF InRuns
  <2>2. ASSUME NEW n \in Nat, InRuns(s, n) PROVE InRuns(t, n)
    BY <1>13, <1>16, <2>2 DEF InRuns
  <2>3. ASSUME NEW n \in Nat, last <= n, n < s.next PROVE InRuns(t, n)
    <3>1. last < s.next
      BY <1>5, <1>8, <2>3
    <3> QED BY <1>13, <1>16, <2>3, <3>1 DEF InRuns
  <2> QED BY <2>1, <2>2, <2>3
<1>22. BooksOK(t, books, gone, start)
  <2>1. \A n \in Numbers : n \in Nat
    BY Constants
  <2>2. \A n \in Nat : Missing(s, n) \/ InRuns(s, n) => n < last
    <3>1. ASSUME NEW n \in Nat, Missing(s, n) PROVE n < last
      <4>1. PICK i \in 1 .. Len(old) : old[i].from <= n /\ n < old[i].end
        BY <1>0, <3>1 DEF Missing
      <4> QED BY ONLY <1>5, <1>8, <1>11, <3>1, <4>1
    <3>2. ASSUME NEW n \in Nat, InRuns(s, n) PROVE n < last
      <4>1. PICK i \in 1 .. Len(s.runs) : s.runs[i].from <= n /\ n < s.runs[i].end
        BY <3>2 DEF InRuns
      <4> QED BY ONLY <1>8, <1>15, <3>2, <4>1
    <3> QED BY <3>1, <3>2
  <2>3. \A n : Delivered(t, n) <=> Delivered(s, n)
    BY <1>13 DEF Delivered
  <2>4. start # 0 /\ start <= s.next /\ start <= last
    <3>1. start <= old[top].from
      BY <1>0, <1>4, <1>5 DEF BooksOK
    <3> QED BY <1>4, <1>8, <3>1 DEF StartOK, BooksOK
  <2>5. ASSUME NEW n \in Numbers, last <= n, n < s.next PROVE books[n] # <<>>
    <3>1. ~Missing(s, n)
      BY <1>8, <2>1, <2>2, <2>5
    <3>2. n \notin gone
      <4>1. n \in gone => n < old[top].from
        BY <1>0, <1>4, <1>5 DEF BooksOK
      <4> QED BY <1>8, <2>1, <2>5, <4>1
    <3>3. start <= n
      BY <1>8, <2>1, <2>4, <2>5
    <3> QED BY <1>4, <2>4, <2>5, <3>1, <3>2, <3>3 DEF BooksOK
  <2>6. ASSUME NEW n \in Numbers, Missing(t, n)
        PROVE  books[n] # <<>> <=> InRuns(t, n) \/ Delivered(t, n)
    <3>1. CASE Missing(s, n)
      <4>1. n < last
        BY <2>1, <2>2, <3>1
      <4>2. InRuns(t, n) <=> InRuns(s, n)
        BY <1>8, <1>21, <2>1, <4>1
      <4> QED BY <1>4, <2>3, <3>1, <4>2 DEF BooksOK
    <3>2. CASE ~Missing(s, n) /\ n < s.next
      <4>1. last <= n
        BY <1>20, <2>1, <2>6, <3>2
      <4> QED BY <1>21, <2>1, <2>5, <3>2, <4>1
    <3>3. CASE ~(n < s.next)
      <4>1. books[n] = <<>>
        BY <1>4, <3>3 DEF BooksOK
      <4>2. ~Delivered(s, n)
        BY <4>1, DeliveredAre
      <4>3. ~InRuns(t, n)
        BY <1>5, <1>8, <1>21, <2>1, <2>2, <3>3
      <4> QED BY <2>3, <4>1, <4>2, <4>3
    <3> QED BY <3>1, <3>2, <3>3
  <2>7. ASSUME NEW n \in Numbers, start # 0, start <= n, n < next
        PROVE  books[n] # <<>> \/ n \in gone \/ Missing(t, n)
    <3>1. CASE n < s.next
      BY <1>4, <1>20, <2>1, <2>7, <3>1 DEF BooksOK
    <3>2. CASE ~(n < s.next)
      BY <1>5, <1>8, <1>20, <2>1, <2>7, <3>2
    <3> QED BY <3>1, <3>2
  <2>8. \A i \in 1 .. top : start <= new[i].from
    BY <1>0, <1>1, <1>4, <1>10 DEF BooksOK
  <2>9. ASSUME NEW n \in gone PROVE 1 <= n /\ n < next /\ \A i \in 1 .. top : n < new[i].from
    <3>1. 1 <= n /\ n < s.next /\ \A i \in 1 .. Len(old) : n < old[i].from
      BY <1>0, <1>4 DEF BooksOK
    <3>2. n \in Nat
      OBVIOUS
    <3> QED BY <1>1, <1>5, <1>6, <1>10, <3>1, <3>2
  <2>10. \A n \in Numbers : books[n] \in {<<>>, <<n>>} /\ (books[n] # <<>> => n < next)
    BY <1>4, <1>5, <1>6, <2>1 DEF BooksOK
  <2>11. start <= next
    BY <1>5, <1>6, <2>4
  <2> QED BY <1>10, <1>13, <2>6, <2>7, <2>8, <2>9, <2>10, <2>11 DEF BooksOK
<1> QED BY <1>13, <1>14, <1>17, <1>18, <1>19, <1>22 DEF Session

-----------------------------------------------------------------------------
(* What the handlers of the consumer keep                                   *)

LEMMA RangeFacts ==
    ASSUME NEW s \in Consumers, GapsOK(s), s.missing # <<>>
    PROVE  /\ Len(s.missing) \in 1 .. Len(s.missing) /\ 1 \in 1 .. Len(s.missing)
           /\ Last(s.missing) = s.missing[Len(s.missing)] /\ Head(s.missing) = s.missing[1]
           /\ Last(s.missing).end \in Nat /\ Last(s.missing).end <= s.next
           /\ s.missing[1].from \in Nat /\ s.missing[1].end \in Nat
           /\ 1 <= s.missing[1].from /\ s.missing[1].from < s.missing[1].end
           /\ s.missing[1].end <= s.next
<1>1. s.missing \in Seq(Ranges) /\ Len(s.missing) \in Nat /\ Len(s.missing) # 0
  BY ConsumerFields, EmptySeq
<1>2. Len(s.missing) \in 1 .. Len(s.missing) /\ 1 \in 1 .. Len(s.missing)
  BY ONLY <1>1
<1>3. Last(s.missing) = s.missing[Len(s.missing)] /\ Head(s.missing) = s.missing[1]
  BY <1>1 DEF Last
<1> QED BY <1>2, <1>3, ConsumerFields DEF GapsOK

\* record_gap: the session it leaves, and whether it has moved on.
LEMMA RecordKeeps ==
    ASSUME NEW s \in Consumers, NEW books, NEW gone \in SUBSET Nat, NEW start \in Nat,
           Session(s, books, gone, start), ~s.start, s.finished = NotFinished,
           NEW next \in 1 .. MaxSeq + 1, s.next < next,
           NEW record, record = RecordGap(s, s.next, next),
           NEW t, t = Moved(s, next)
    PROVE  /\ t \in Consumers /\ Session(t, books, gone, start)
           /\ t.next \in {s.next, next} /\ (~record.held => t.next = next)
           /\ t.phase = s.phase /\ t.start = s.start /\ t.announced = s.announced
           /\ t.request = s.request /\ t.replay = s.replay /\ t.finished = s.finished
<1>1. /\ GapsOK(s) /\ RunsOK(s) /\ RequestOK(s) /\ StartOK(s, start) /\ FinishOK(s)
      /\ BooksOK(s, books, gone, start)
  BY DEF Session
<1>2. /\ s.missing \in Seq(Ranges) /\ Len(s.missing) \in Nat /\ s.next \in Nat /\ next \in Nat
      /\ Len(s.runs) \in Nat /\ MaxPendingGaps \in Nat /\ MaxRuns \in Nat
  <2>1. next \in Nat
    BY Constants
  <2> QED BY <2>1, ConsumerFields, Constants
<1>0. t = IF record.known THEN [record.s EXCEPT !.next = next] ELSE record.s
  BY Zenon DEF Moved
<1> DEFINE at     == Len(s.missing)
           merges == s.missing # <<>> /\ Last(s.missing).end = s.next
           room   == at < MaxPendingGaps
           widens == at > MaxPendingGaps
           full   == widens /\ Last(s.missing).end < s.next /\ Len(s.runs) >= MaxRuns
<1>3. PICK onto : onto = [s EXCEPT !.missing = [s.missing EXCEPT ![at].end = next]]
  OBVIOUS
<1>4. PICK behind : behind = [s EXCEPT !.missing = Append(s.missing, [from |-> s.next, end |-> next])]
  OBVIOUS
<1>5. PICK wide : wide = [s EXCEPT !.missing = [s.missing EXCEPT ![at].end = Max({s.missing[at].end, next})],
                                   !.runs = IF Last(s.missing).end < s.next
                                            THEN Append(s.runs, [from |-> Last(s.missing).end, end |-> s.next])
                                            ELSE s.runs]
  OBVIOUS
<1>6. record = [held |-> ~merges /\ ~room,
                s |-> IF merges THEN onto ELSE IF ~widens THEN behind ELSE IF full THEN s ELSE wide,
                known |-> ~full]
  BY <1>3, <1>4, <1>5, Zenon DEF RecordGap
<1>7. /\ record.held = (~merges /\ ~room) /\ record.known = ~full
      /\ record.s = IF merges THEN onto ELSE IF ~widens THEN behind ELSE IF full THEN s ELSE wide
  BY ONLY <1>6
<1>8. merges => s.missing # <<>> /\ s.missing[at].end = s.next
  BY <1>1, RangeFacts
<1>9. ~merges => s.missing = <<>> \/ s.missing[at].end # s.next
  BY <1>1, RangeFacts
<1>10. ~merges /\ widens => /\ s.missing # <<>> /\ ~room
                            /\ Last(s.missing).end < s.next
                            /\ Last(s.missing).end = s.missing[at].end /\ s.missing[at].end \in Nat
  <2> SUFFICES ASSUME ~merges, widens
               PROVE  /\ s.missing # <<>> /\ ~room
                      /\ Last(s.missing).end < s.next
                      /\ Last(s.missing).end = s.missing[at].end /\ s.missing[at].end \in Nat
    BY Zenon
  <2>1. Len(s.missing) # 0 /\ ~room
    BY ONLY <1>2, widens
  <2>2. s.missing # <<>>
    BY ONLY <2>1
  <2>3. /\ Last(s.missing) = s.missing[Len(s.missing)] /\ Last(s.missing).end \in Nat
        /\ Last(s.missing).end <= s.next
    BY <1>1, <2>2, RangeFacts
  <2> QED BY ONLY <1>2, <2>1, <2>2, <2>3, ~merges
<1>11. /\ full <=> (widens /\ Last(s.missing).end < s.next /\ Len(s.runs) >= MaxRuns)
       /\ widens <=> Len(s.missing) > MaxPendingGaps
       /\ at = Len(s.missing)
  OBVIOUS
<1>12. merges => ~(Last(s.missing).end < s.next)
  BY <1>2
<1> HIDE DEF at, merges, room, widens, full
<1>13. CASE merges
  <2>1. record.held = FALSE /\ record.known = TRUE /\ record.s = onto
    BY ONLY <1>7, <1>11, <1>12, <1>13
  <2>2. t = [s EXCEPT !.missing = [s.missing EXCEPT ![Len(s.missing)].end = next],
                      !.runs = s.runs, !.next = next]
    <3>1. t = [onto EXCEPT !.next = next]
      BY <1>0, <2>1, Zenon
    <3> QED BY <1>3, <1>11, <3>1 DEF Consumers
  <2>3. t \in Consumers /\ Session(t, books, gone, start)
    BY <1>8, <1>11, <1>13, <2>2, WidenKeeps
  <2>4. /\ t.next = next /\ t.phase = s.phase /\ t.start = s.start /\ t.announced = s.announced
        /\ t.request = s.request /\ t.replay = s.replay /\ t.finished = s.finished
    BY <2>2 DEF Consumers
  <2> QED BY <2>1, <2>3, <2>4, Zenon
<1>14. CASE ~merges /\ ~widens
  <2>1. record.known = TRUE /\ record.held = ~room /\ record.s = behind
    BY ONLY <1>7, <1>11, <1>14
  <2>2. t = [s EXCEPT !.missing = Append(s.missing, [from |-> s.next, end |-> next]), !.next = next]
    BY <1>0, <1>4, <2>1 DEF Consumers
  <2>3. Len(s.missing) <= MaxPendingGaps
    BY ONLY <1>2, <1>11, <1>14
  <2>4. t \in Consumers /\ Session(t, books, gone, start)
    BY <1>9, <1>11, <1>14, <2>2, <2>3, AppendKeeps
  <2>5. /\ t.next = next /\ t.phase = s.phase /\ t.start = s.start /\ t.announced = s.announced
        /\ t.request = s.request /\ t.replay = s.replay /\ t.finished = s.finished
    BY <2>2 DEF Consumers
  <2> QED BY <2>1, <2>4, <2>5, Zenon
<1>15. CASE ~merges /\ full
  <2>1. record.known = FALSE /\ record.held = TRUE /\ record.s = s
    BY ONLY <1>7, <1>10, <1>11, <1>15
  <2> QED BY <1>0, <2>1, Zenon
<1>16. CASE ~merges /\ widens /\ ~full
  <2>1. record.known = TRUE /\ record.held = TRUE /\ record.s = wide
    BY ONLY <1>7, <1>10, <1>16
  <2>2. Max({s.missing[at].end, next}) = next
    <3>1. s.missing[at].end < next
      BY ONLY <1>2, <1>10, <1>16, s.next < next
    <3> QED BY ONLY <1>2, <1>10, <1>16, <3>1, MaxOfTwo
  <2>3. PICK last : last = s.missing[Len(s.missing)].end
    OBVIOUS
  <2>4. PICK runs : runs = Append(s.runs, [from |-> last, end |-> s.next])
    OBVIOUS
  <2>5. wide = [s EXCEPT !.missing = [s.missing EXCEPT ![Len(s.missing)].end = next], !.runs = runs]
    BY ONLY <1>5, <1>10, <1>11, <1>16, <2>2, <2>3, <2>4, Zenon
  <2>6. t = [s EXCEPT !.missing = [s.missing EXCEPT ![Len(s.missing)].end = next],
                      !.runs = runs, !.next = next]
    BY <1>0, <2>1, <2>5 DEF Consumers
  <2>7. Len(s.runs) < MaxRuns
    BY ONLY <1>2, <1>10, <1>11, <1>16
  <2>8. t \in Consumers /\ Session(t, books, gone, start)
    BY <1>10, <1>11, <1>16, <2>3, <2>4, <2>6, <2>7, WidenKeeps
  <2>9. /\ t.next = next /\ t.phase = s.phase /\ t.start = s.start /\ t.announced = s.announced
        /\ t.request = s.request /\ t.replay = s.replay /\ t.finished = s.finished
    BY <2>6 DEF Consumers
  <2> QED BY <2>1, <2>8, <2>9, Zenon
<1> QED BY <1>13, <1>14, <1>15, <1>16

\* Another request, or none, for numbers of the same state of delivery.
LEMMA OtherRequest ==
    ASSUME NEW s, NEW t, NEW books, NEW gone, NEW start, Session(s, books, gone, start),
           t.next = s.next, t.start = s.start, t.missing = s.missing, t.runs = s.runs,
           t.finished = s.finished, t.phase \in {"established", "terminating"}, RequestOK(t),
           \A n \in Numbers : Missing(s, n) => (Delivered(t, n) <=> Delivered(s, n))
    PROVE  Session(t, books, gone, start)
<1>1. GapsOK(t) /\ RunsOK(t) /\ FinishOK(t)
  BY DEF Session, GapsOK, RunsOK, FinishOK
<1>2. StartOK(t, start)
  BY DEF Session, StartOK
<1>3. BooksOK(t, books, gone, start)
  BY DEF Session, BooksOK, Missing, InRuns
<1> QED BY <1>1, <1>2, <1>3 DEF Session

\* What the consumer sends.
LEMMA ConsumerSends ==
    /\ <<>> \in Seq(Replies) /\ <<[kind |-> "FinishedReceiving"]>> \in Seq(Replies)
    /\ \A code \in Codes : <<TerminateMsg(code)>> \in Seq(Replies)
    /\ \A stamp, from, count \in Nat : <<RequestMsg(stamp, from, count)>> \in Seq(Replies)
    /\ {"Error", "Finished", "Unspecified", "Unnegotiated", "AlreadyEstablished"} \subseteq Codes
<1>1. [kind |-> "FinishedReceiving"] \in Replies
  BY DEF Replies, Message
<1>2. \A code \in Codes : TerminateMsg(code) \in Replies
  BY DEF Replies, Message, TerminateMsg
<1>3. \A stamp, from, count \in Nat : RequestMsg(stamp, from, count) \in Replies
  BY DEF Replies, Message, RequestMsg
<1> QED BY <1>1, <1>2, <1>3 DEF Codes

\* A handler that stays bound.
LEMMA Stays ==
    ASSUME NEW u \in Consumers, NEW send \in Seq(Replies), NEW r, r = Result(u, send)
    PROVE  Quiet(r) /\ r.open /\ r.s = u /\ r.send = send
BY DEF Result, Results, Verdicts, Quiet

\* release_binding_state.
LEMMA ReleaseKeeps ==
    ASSUME NEW s \in Consumers, NEW books, NEW gone \in SUBSET Nat, NEW start \in Nat,
           Session(s, books, gone, start), NEW t, t = ReleaseConsumer(s)
    PROVE  /\ t \in Consumers /\ Session(t, books, gone, start)
           /\ t.phase = s.phase /\ t.next = s.next /\ t.start = s.start /\ t.announced = s.announced
           /\ t.request = NoRequest /\ t.replay = NoReplay /\ t.finished = s.finished
<1>1. PICK u : u = Settled(s, s.request.delivered)
  OBVIOUS
<1>2. PICK k : k = s.request.delivered
  OBVIOUS
<1>3. PICK more : more = {}
  OBVIOUS
<1>4. SettledTo(s, k, books, more)
  BY <1>2, <1>3, DeliveredAre DEF Delivered, SettledTo
<1>5. /\ u \in Consumers /\ Session(u, books, gone \union more, start)
      /\ u.phase = s.phase /\ u.next = s.next /\ u.start = s.start /\ u.announced = s.announced
      /\ u.request = NoRequest /\ u.replay = NoReplay /\ u.finished = s.finished
  <2>2. u = Settled(s, k)
    BY <1>1, <1>2
  <2> QED BY <1>4, <2>2, Settles
<1>6. gone \union more = gone
  BY <1>3
<1>7. t = [u EXCEPT !.resume = FALSE]
  BY <1>1 DEF ReleaseConsumer, Settled
<1>8. /\ t \in Consumers /\ t.next = u.next /\ t.start = u.start /\ t.missing = u.missing
      /\ t.runs = u.runs /\ t.request = u.request /\ t.replay = u.replay
      /\ t.finished = u.finished /\ t.phase = u.phase /\ t.announced = u.announced
  BY <1>5, <1>7 DEF Consumers
<1>9. Session(t, books, gone, start)
  BY <1>5, <1>6, <1>8, SameSession
<1> QED BY <1>5, <1>8, <1>9

\* fail: the binding ends.
LEMMA FailKeeps ==
    ASSUME NEW s \in Consumers, NEW books, NEW gone \in SUBSET Nat, NEW start \in Nat,
           Session(s, books, gone, start), NEW why \in Verdicts,
           NEW r, r = FailWith("consumer", s, "Error", why)
    PROVE  /\ Quiet(r) /\ ~r.open /\ Session(r.s, books, gone, start)
           /\ r.s.next = s.next /\ r.s.start = s.start /\ r.s.announced = s.announced
<1>1. PICK u : u = ReleaseConsumer(s)
  OBVIOUS
<1>2. /\ u \in Consumers /\ Session(u, books, gone, start)
      /\ u.next = s.next /\ u.start = s.start /\ u.announced = s.announced
      /\ u.request = NoRequest /\ u.replay = NoReplay
  BY <1>1, ReleaseKeeps
<1>3. PICK t : t = Unbound("consumer", u)
  OBVIOUS
<1>4. t = [u EXCEPT !.phase = IF u.finalized THEN "finalized" ELSE "negotiated"]
  BY <1>3 DEF Unbound
<1>5. /\ t \in Consumers /\ t.next = u.next /\ t.start = u.start /\ t.missing = u.missing
      /\ t.runs = u.runs /\ t.request = u.request /\ t.replay = u.replay
      /\ t.finished = u.finished /\ t.phase \in {"negotiated", "finalized"} /\ t.announced = u.announced
  BY <1>2, <1>4 DEF Consumers, Phases
<1>6. Session(t, books, gone, start)
  BY <1>2, <1>5, SameSession
<1>7. PICK send : send = IF s.phase = "established" THEN <<TerminateMsg("Error")>> ELSE <<>>
  OBVIOUS
<1>8. send \in Seq(Replies)
  BY <1>7, ConsumerSends
<1>9. r = [Result(t, send) EXCEPT !.open = FALSE, !.blame = why]
  BY <1>1, <1>3, <1>7 DEF FailWith, Release
<1>10. r.s = t /\ r.send = send /\ r.open = FALSE /\ r.accept = 0 /\ r.gone = {}
  BY ONLY <1>9 DEF Result
<1>11. r \in Results
  BY ONLY <1>5, <1>8, <1>9, why \in Verdicts DEF Result, Results
<1> QED BY <1>2, <1>5, <1>6, <1>8, <1>10, <1>11 DEF Quiet

\* request_missing.
LEMMA RequestKeeps ==
    ASSUME NEW s \in Consumers, NEW books, NEW gone \in SUBSET Nat, NEW start \in Nat,
           Session(s, books, gone, start), NEW r, r = RequestMissing(s)
    PROVE  /\ Quiet(r) /\ r.open /\ Session(r.s, books, gone, start)
           /\ r.s.next = s.next /\ r.s.start = s.start /\ r.s.announced = s.announced
           /\ r.s.phase = s.phase /\ r.s.replay = s.replay /\ r.s.finished = s.finished
<1>1. CASE s.phase # "established" \/ s.request # NoRequest \/ s.missing = <<>>
  <2>1. r = Result(s, <<>>)
    BY <1>1 DEF RequestMissing
  <2>2. Quiet(r) /\ r.open /\ r.s = s
    <3>1. <<>> \in Seq(Replies) /\ s \in Consumers
      OBVIOUS
    <3> QED BY ONLY <2>1, <3>1, Stays, ZenonT(20)
  <2> QED BY <2>2
<1>2. CASE ~(s.phase # "established" \/ s.request # NoRequest \/ s.missing = <<>>)
  <2>1. PICK gap : gap = Head(s.missing)
    OBVIOUS
  <2>2. PICK count : count = Min({gap.end - gap.from, MaxRetransmitCount})
    OBVIOUS
  <2>3. PICK stamp : stamp = (s.stamp + 1) % Cardinality(Stamps)
    OBVIOUS
  <2>4. PICK request : request = [NoRequest EXCEPT !.stamp = stamp, !.from = gap.from, !.count = count]
    OBVIOUS
  <2>5. PICK t : t = [s EXCEPT !.stamp = stamp, !.request = request]
    OBVIOUS
  <2>6. r = Result(t, <<RequestMsg(stamp, gap.from, count)>>)
    BY <1>2, <2>1, <2>2, <2>3, <2>4, <2>5, Zenon DEF RequestMissing
  <2>7. GapsOK(s) /\ RequestOK(s) /\ gap = s.missing[1]
    BY <1>2, <2>1 DEF Session
  <2>8. /\ gap.from \in Nat /\ gap.end \in Nat /\ gap.from < gap.end /\ gap.end - gap.from \in Nat
    BY <1>2, <2>7, RangeFacts
  <2>9. count \in Nat /\ count <= gap.end - gap.from
    BY <2>2, <2>8, Constants, MinOfTwo
  <2>10. gap.from + count <= gap.end
    BY ONLY <2>8, <2>9
  <2>11. Stamps = 0 .. 2 /\ Cardinality(Stamps) = 3
    <3>1. Cardinality(0 .. 2) = IF 0 > 2 THEN 0 ELSE 2 - 0 + 1
      <4>1. 0 \in Int /\ 2 \in Int
        OBVIOUS
      <4> QED BY ONLY <4>1, FS_Interval
    <3> QED BY ONLY <3>1 DEF Stamps
  <2>12. stamp \in Stamps /\ stamp \in Nat
    <3>1. s.stamp \in 0 .. 2
      BY <2>11, ConsumerFields
    <3> QED BY ONLY <2>3, <2>11, <3>1
  <2>13. /\ request \in Requests /\ request.from = gap.from /\ request.count = count
         /\ request.delivered = 0 /\ ~request.interrupted /\ ~request.complete
    BY ONLY <2>4, <2>8, <2>9, <2>12 DEF NoRequest, Requests
  <2>14. /\ t \in Consumers /\ t.next = s.next /\ t.start = s.start /\ t.missing = s.missing
         /\ t.runs = s.runs /\ t.request = request /\ t.replay = s.replay
         /\ t.finished = s.finished /\ t.phase = s.phase /\ t.announced = s.announced
    BY <2>5, <2>12, <2>13 DEF Consumers
  <2>15. RequestOK(t)
    <3>1. s.replay = NoReplay
      BY <1>2, <2>7 DEF RequestOK
    <3> QED BY <1>2, <2>7, <2>9, <2>10, <2>13, <2>14, <3>1 DEF RequestOK
  <2>16. \A n \in Numbers : Delivered(t, n) <=> Delivered(s, n)
    BY <1>2, <2>8, <2>13, <2>14, None, Constants DEF Delivered
  <2>17. Session(t, books, gone, start)
    BY <1>2, <2>14, <2>15, <2>16, OtherRequest
  <2>18. <<RequestMsg(stamp, gap.from, count)>> \in Seq(Replies)
    BY <2>8, <2>9, <2>12, ConsumerSends
  <2>19. Quiet(r) /\ r.open /\ r.s = t
    <3>1. PICK send : send = <<RequestMsg(stamp, gap.from, count)>>
      OBVIOUS
    <3>2. t \in Consumers /\ send \in Seq(Replies) /\ r = Result(t, send)
      BY <2>6, <2>14, <2>18, <3>1, Zenon
    <3> QED BY ONLY <3>2, Stays, ZenonT(20)
  <2> QED BY <2>14, <2>17, <2>19
<1> QED BY <1>1, <1>2

\* maybe_finish_receiving.
LEMMA FinishKeeps ==
    ASSUME NEW s \in Consumers, NEW books, NEW gone, NEW start,
           Session(s, books, gone, start), NEW r, r = MaybeFinishReceiving(s)
    PROVE  /\ Quiet(r) /\ r.open /\ Session(r.s, books, gone, start)
           /\ r.s.next = s.next /\ r.s.start = s.start /\ r.s.announced = s.announced
           /\ r.s.phase = s.phase /\ r.s.replay = s.replay
<1>1. CASE \/ s.finished = NotFinished \/ s.finished.answered
           \/ s.phase # "established" \/ s.missing # <<>> \/ s.request # NoRequest
  <2>1. r = Result(s, <<>>)
    BY <1>1 DEF MaybeFinishReceiving
  <2>2. Quiet(r) /\ r.open /\ r.s = s
    <3>1. <<>> \in Seq(Replies) /\ s \in Consumers
      OBVIOUS
    <3> QED BY ONLY <2>1, <3>1, Stays
  <2> QED BY <2>2
<1>2. CASE ~(\/ s.finished = NotFinished \/ s.finished.answered
             \/ s.phase # "established" \/ s.missing # <<>> \/ s.request # NoRequest)
  <2>1. PICK t : t = [s EXCEPT !.finished = [s.finished EXCEPT !.answered = TRUE]]
    OBVIOUS
  <2>2. r = Result(t, <<[kind |-> "FinishedReceiving"]>>)
    BY <1>2, <2>1, Zenon DEF MaybeFinishReceiving
  <2>3. /\ t \in Consumers /\ t.next = s.next /\ t.start = s.start /\ t.missing = s.missing
        /\ t.runs = s.runs /\ t.request = s.request /\ t.replay = s.replay
        /\ t.finished.end = s.finished.end /\ t.phase = s.phase /\ t.announced = s.announced
    BY <2>1 DEF Consumers
  <2>4. GapsOK(t) /\ RunsOK(t) /\ RequestOK(t)
    BY <2>3 DEF Session, GapsOK, RunsOK, RequestOK
  <2>5. FinishOK(t) /\ StartOK(t, start)
    BY <1>2, <2>3 DEF Session, FinishOK, StartOK
  <2>6. BooksOK(t, books, gone, start)
    BY <2>3 DEF Session, BooksOK, Missing, InRuns, Delivered
  <2>7. Quiet(r) /\ r.open /\ r.s = t
    <3>1. PICK send \in Seq(Replies) : send = <<[kind |-> "FinishedReceiving"]>>
      BY ConsumerSends
    <3>2. t \in Consumers /\ r = Result(t, send)
      BY <2>2, <2>3, <3>1, Zenon
    <3> QED BY ONLY <3>1, <3>2, Stays, ZenonT(20)
  <2>8. Session(t, books, gone, start)
    BY <2>4, <2>5, <2>6 DEF Session
  <2> QED BY <2>3, <2>7, <2>8
<1> QED BY <1>1, <1>2

\* on_next_seq interrupts the batch it cuts short.
LEMMA CutKeeps ==
    ASSUME NEW s \in Consumers, NEW books, NEW gone, NEW start,
           Session(s, books, gone, start), s.phase \in {"established", "terminating"},
           NEW t, t = Cut(s)
    PROVE  /\ t \in Consumers /\ Session(t, books, gone, start)
           /\ t.phase = s.phase /\ t.next = s.next /\ t.start = s.start /\ t.announced = s.announced
           /\ t.replay = NoReplay /\ t.finished = s.finished /\ t.missing = s.missing
           /\ t.runs = s.runs /\ (s.request = NoRequest => t.request = NoRequest)
<1>0. PICK request : request = IF s.replay # NoReplay /\ s.request # NoRequest
                               THEN [s.request EXCEPT !.interrupted = TRUE, !.reported = FALSE]
                               ELSE s.request
  OBVIOUS
<1>1. /\ request \in Requests /\ request.from = s.request.from /\ request.count = s.request.count
      /\ request.delivered = s.request.delivered
      /\ (s.request = NoRequest => request = NoRequest)
  BY <1>0, ConsumerFields DEF Requests
<1>2. /\ t \in Consumers /\ t.next = s.next /\ t.start = s.start /\ t.missing = s.missing
      /\ t.runs = s.runs /\ t.request = request /\ t.replay = NoReplay
      /\ t.finished = s.finished /\ t.phase = s.phase /\ t.announced = s.announced
  <2>1. t = [s EXCEPT !.resume = FALSE, !.replay = NoReplay, !.request = request]
    BY <1>0, Zenon DEF Cut
  <2> QED BY <1>1, <2>1, None, ZenonT(20) DEF Consumers
<1>3. RequestOK(t)
  BY <1>1, <1>2 DEF Session, RequestOK
<1>4. \A n \in Numbers : Missing(s, n) => (Delivered(t, n) <=> Delivered(s, n))
  BY <1>1, <1>2 DEF Delivered
<1>5. Session(t, books, gone, start)
  BY <1>2, <1>3, <1>4, OtherRequest
<1> QED BY <1>1, <1>2, <1>5

\* on_gap.
LEMMA GapKeeps ==
    ASSUME NEW s \in Consumers, NEW books, NEW gone \in SUBSET Nat, NEW start \in Nat,
           Session(s, books, gone, start), ~s.start, s.finished = NotFinished,
           NEW next \in 1 .. MaxSeq + 1, s.next < next, s.replay = NoReplay,
           NEW r, r = OnGap(s, next)
    PROVE  /\ Quiet(r) /\ Session(r.s, books, gone, start)
           /\ r.s.next \in {s.next, next} /\ r.s.start = s.start /\ r.s.announced = s.announced
           /\ r.open => /\ r.s.next = next /\ r.s.phase = s.phase /\ r.s.replay = NoReplay
                        /\ r.s.finished = s.finished
<1>1. PICK record : record = RecordGap(s, s.next, next)
  OBVIOUS
<1>2. PICK t : t = Moved(s, next)
  OBVIOUS
<1>3. /\ t \in Consumers /\ Session(t, books, gone, start)
      /\ t.next \in {s.next, next}
      /\ t.phase = s.phase /\ t.start = s.start /\ t.announced = s.announced
      /\ t.replay = s.replay /\ t.finished = s.finished
  BY <1>1, <1>2, RecordKeeps
<1>6. t \in Consumers /\ Session(t, books, gone, start)
  BY <1>3
<1>4. CASE record.held
  <2>0. PICK why \in Verdicts : why = "too many gaps"
    BY DEF Verdicts
  <2>1. r = FailWith("consumer", t, "Error", why)
    BY <2>0, <1>1, <1>2, <1>4, Zenon DEF OnGap, Moved, Violation
  <2>2. /\ Quiet(r) /\ ~r.open /\ Session(r.s, books, gone, start)
        /\ r.s.next = t.next /\ r.s.start = t.start /\ r.s.announced = t.announced
    BY ONLY <1>6, <2>1, FailKeeps, gone \in SUBSET Nat, start \in Nat
  <2> QED BY ONLY <1>3, <2>2
<1>5. CASE ~record.held
  <2>1. r = RequestMissing(t)
    BY <1>1, <1>2, <1>5, Zenon DEF OnGap, Moved
  <2>2. /\ Quiet(r) /\ Session(r.s, books, gone, start)
        /\ r.s.next = t.next /\ r.s.start = t.start /\ r.s.announced = t.announced
        /\ r.s.phase = t.phase /\ r.s.replay = t.replay /\ r.s.finished = t.finished
    BY ONLY <1>6, <2>1, RequestKeeps, gone \in SUBSET Nat, start \in Nat
  <2>3. t.next = next
    BY <1>1, <1>2, <1>5, RecordKeeps
  <2> QED BY ONLY <1>3, <2>2, <2>3, s.replay = NoReplay
<1> QED BY <1>4, <1>5

\* on_next_seq starts the numbering, moves on past a gap, or ends the binding.
LEMMA NextSeqKeeps ==
    ASSUME NEW s \in Consumers, NEW books, NEW gone \in SUBSET Nat, NEW start \in Nat,
           Session(s, books, gone, start), s.phase \in {"established", "terminating"},
           NEW next \in 1 .. MaxSeq + 1, NEW begun, begun = IF s.start THEN next ELSE start,
           NEW r, r = OnNextSeq(s, next)
    PROVE  /\ Quiet(r) /\ Session(r.s, books, gone, begun)
           /\ r.s.next \in {s.next, next} /\ ~r.s.start /\ r.s.announced = s.announced
           /\ r.open => /\ r.s.next = next /\ r.s.phase = s.phase /\ r.s.replay = NoReplay
                        /\ r.s.finished = s.finished
<1>2. PICK t : t = Cut(s)
  OBVIOUS
<1>3. PICK past : past = (s.finished # NotFinished /\ next > s.finished.end)
  OBVIOUS
<1>4. r = IF past THEN FailWith("consumer", s, "Error", "past LastSeqNo")
          ELSE IF s.start THEN Result([t EXCEPT !.start = FALSE, !.next = next], <<>>)
          ELSE IF next < s.next THEN FailWith("consumer", t, "Error", "NextSeqNo too low")
          ELSE IF next = s.next THEN Result(t, <<>>)
          ELSE IF next - s.next > MaxGapLen THEN FailWith("consumer", t, "Error", "gap too long")
          ELSE OnGap(t, next)
  BY <1>2, <1>3, Zenon DEF OnNextSeq, Cut, Violation
<1>5. /\ t \in Consumers /\ Session(t, books, gone, start)
      /\ t.phase = s.phase /\ t.next = s.next /\ t.start = s.start /\ t.announced = s.announced
      /\ t.replay = NoReplay /\ t.finished = s.finished /\ t.missing = s.missing
      /\ t.runs = s.runs /\ (s.request = NoRequest => t.request = NoRequest)
  BY <1>2, CutKeeps
<1>6. s.next \in Nat /\ next \in Nat /\ 1 <= next /\ s.start \in BOOLEAN
  BY ConsumerFields, Constants
<1>7. /\ StartOK(s, start) /\ FinishOK(s) /\ RunsOK(s) /\ RequestOK(s) /\ BooksOK(s, books, gone, start)
  BY DEF Session
<1>8. CASE s.start
  <2>1. /\ s.next = 1 /\ s.missing = <<>> /\ s.finished = NotFinished /\ start = 0 /\ s.runs = <<>>
        /\ s.request = NoRequest
    BY <1>7, <1>8 DEF StartOK, RunsOK, RequestOK
  <2>2. PICK u : u = [t EXCEPT !.start = FALSE, !.next = next]
    OBVIOUS
  <2>3. r = Result(u, <<>>)
    BY <1>3, <1>4, <1>8, <2>1, <2>2, Zenon
  <2>4. /\ u \in Consumers /\ u.next = next /\ ~u.start /\ u.missing = <<>> /\ u.runs = <<>>
        /\ u.request = NoRequest /\ u.replay = NoReplay /\ u.finished = NotFinished
        /\ u.phase = s.phase /\ u.announced = s.announced
    BY <1>5, <1>6, <2>1, <2>2 DEF Consumers
  <2>5. GapsOK(u) /\ RunsOK(u)
    BY <2>4, Constants DEF GapsOK, RunsOK
  <2>6. RequestOK(u) /\ FinishOK(u)
    BY <2>4, None DEF RequestOK, FinishOK
  <2>7. begun = next /\ begun # 0
    BY <1>6, <1>8
  <2>8. StartOK(u, begun)
    BY <2>4, <2>7 DEF StartOK
  <2>9. BooksOK(u, books, gone, begun)
    <3>1. \A n \in Numbers : n \in Nat /\ 1 <= n
      BY Constants
    <3>2. \A n \in Numbers : books[n] = <<>>
      BY <1>7, <2>1, <3>1 DEF BooksOK
    <3>3. \A n : ~Missing(u, n)
      BY <2>4 DEF Missing
    <3>4. \A n \in gone : 1 <= n /\ n < next
      <4>1. \A n \in gone : n \in Nat /\ 1 <= n /\ n < 1
        BY <1>7, <2>1 DEF BooksOK
      <4> QED BY ONLY <1>6, <4>1
    <3>5. \A n \in Numbers : ~(begun <= n /\ n < next)
      BY <1>6, <2>7, <3>1
    <3>6. 1 .. Len(u.missing) = {} /\ begun <= next
      BY <1>6, <2>4, <2>7
    <3> QED BY <2>4, <3>2, <3>3, <3>4, <3>5, <3>6 DEF BooksOK
  <2>10. Session(u, books, gone, begun)
    BY <2>5, <2>6, <2>8, <2>9 DEF Session
  <2>11. Quiet(r) /\ r.open /\ r.s = u
    <3>1. u \in Consumers /\ <<>> \in Seq(Replies)
      BY <2>4
    <3> QED BY ONLY <2>3, <3>1, Stays
  <2> QED BY ONLY <2>1, <2>4, <2>10, <2>11
<1>9. CASE ~s.start
  <2>1. begun = start
    BY <1>9
  <2>2. ASSUME NEW why \in Verdicts, \/ r = FailWith("consumer", s, "Error", why)
                        \/ r = FailWith("consumer", t, "Error", why)
        PROVE  /\ Quiet(r) /\ ~r.open /\ Session(r.s, books, gone, start)
               /\ r.s.next = s.next /\ ~r.s.start /\ r.s.announced = s.announced
    <3>1. CASE r = FailWith("consumer", s, "Error", why)
      <4>1. /\ Quiet(r) /\ ~r.open /\ Session(r.s, books, gone, start)
            /\ r.s.next = s.next /\ r.s.start = s.start /\ r.s.announced = s.announced
        BY <3>1, FailKeeps
      <4> QED BY <1>6, <1>9, <4>1
    <3>2. CASE r = FailWith("consumer", t, "Error", why)
      <4>1. /\ Quiet(r) /\ ~r.open /\ Session(r.s, books, gone, start)
            /\ r.s.next = t.next /\ r.s.start = t.start /\ r.s.announced = t.announced
        BY <1>5, <3>2, FailKeeps
      <4> QED BY <1>5, <1>6, <1>9, <4>1
    <3> QED BY <2>2, <3>1, <3>2
  <2>3. CASE past \/ next < s.next \/ (next # s.next /\ next - s.next > MaxGapLen)
    <3>1. \/ r = FailWith("consumer", s, "Error", "past LastSeqNo")
          \/ r = FailWith("consumer", t, "Error", "NextSeqNo too low")
          \/ r = FailWith("consumer", t, "Error", "gap too long")
      BY <1>4, <1>9, <2>3, Zenon
    <3>2. /\ Quiet(r) /\ ~r.open /\ Session(r.s, books, gone, start)
          /\ r.s.next = s.next /\ ~r.s.start /\ r.s.announced = s.announced
      BY <2>2, <3>1, Zenon DEF Verdicts
    <3> QED BY <2>1, <3>2, Zenon
  <2>4. CASE ~past /\ next = s.next
    <3>1. ~(next < s.next)
      BY <1>6, <2>4
    <3>2. r = Result(t, <<>>)
      BY <1>4, <1>9, <2>4, <3>1, Zenon
    <3>3. Quiet(r) /\ r.open /\ r.s = t
      <4>1. t \in Consumers /\ <<>> \in Seq(Replies)
        BY <1>5
      <4> QED BY ONLY <3>2, <4>1, Stays
    <3> QED BY ONLY <1>5, <1>6, <1>9, <2>1, <2>4, <3>3
  <2>5. CASE ~past /\ next > s.next /\ ~(next - s.next > MaxGapLen)
    <3>1. ~(next < s.next) /\ next # s.next /\ t.next < next
      BY <1>5, <1>6, <2>5
    <3>2. r = OnGap(t, next)
      BY <1>4, <1>9, <2>5, <3>1, Zenon
    <3>3. s.finished = NotFinished
      BY <1>3, <1>6, <1>7, <2>5 DEF FinishOK
    <3>4. /\ Quiet(r) /\ Session(r.s, books, gone, start)
          /\ r.s.next \in {t.next, next} /\ r.s.start = t.start /\ r.s.announced = t.announced
          /\ r.open => /\ r.s.next = next /\ r.s.phase = t.phase /\ r.s.replay = NoReplay
                       /\ r.s.finished = t.finished
      <4>1. ~t.start /\ t.finished = NotFinished
        BY <1>5, <1>9, <3>3
      <4> QED BY <1>5, <3>1, <3>2, <4>1, GapKeeps
    <3> QED BY <1>5, <1>6, <1>9, <2>1, <3>4
  <2> QED BY <1>6, <2>3, <2>4, <2>5
<1> QED BY <1>6, <1>8, <1>9

\* The range of the request is settled, and the next one requested.
LEMMA SettleKeeps ==
    ASSUME NEW s \in Consumers, NEW books, NEW gone \in SUBSET Nat, NEW start \in Nat,
           Session(s, books, gone, start), NEW more, NEW k, k = s.request.count, SettledTo(s, k, books, more),
           NEW r, r = SettleRequest(s)
    PROVE  /\ Quiet(r) /\ r.open /\ Session(r.s, books, gone \union more, start)
           /\ r.s.next = s.next /\ r.s.start = s.start /\ r.s.announced = s.announced
           /\ r.s.phase = s.phase /\ r.s.replay = NoReplay
<1>1. PICK t : t = Settled(s, k)
  OBVIOUS
<1>2. /\ t \in Consumers /\ Session(t, books, gone \union more, start)
      /\ t.phase = s.phase /\ t.next = s.next /\ t.start = s.start /\ t.announced = s.announced
      /\ t.replay = NoReplay
  <2>2. t = Settled(s, k) /\ SettledTo(s, k, books, more)
    BY <1>1
  <2>3. s \in Consumers /\ Session(s, books, gone, start) /\ gone \in SUBSET Nat /\ start \in Nat
    OBVIOUS
  <2>4. Session(t, books, gone \union more, start)
    BY ONLY <2>2, <2>3, Settles
  <2>5. /\ t \in Consumers
        /\ t.phase = s.phase /\ t.next = s.next /\ t.start = s.start /\ t.announced = s.announced
        /\ t.replay = NoReplay
    BY ONLY <2>2, <2>3, <2>4, Settles
  <2> QED BY ONLY <2>4, <2>5
<1>3. t \in Consumers /\ Session(t, books, gone \union more, start) /\ gone \union more \in SUBSET Nat
  BY <1>2 DEF SettledTo
<1>4. CASE t.missing = <<>>
  <2>1. r = MaybeFinishReceiving(t)
    BY <1>1, <1>4, Zenon DEF SettleRequest, Settled
  <2>2. /\ Quiet(r) /\ r.open /\ Session(r.s, books, gone \union more, start)
        /\ r.s.next = t.next /\ r.s.start = t.start /\ r.s.announced = t.announced
        /\ r.s.phase = t.phase /\ r.s.replay = t.replay
    BY ONLY <1>3, <2>1, FinishKeeps
  <2> QED BY ONLY <1>2, <2>2
<1>5. CASE t.missing # <<>>
  <2>1. r = RequestMissing(t)
    BY <1>1, <1>5, Zenon DEF SettleRequest, Settled
  <2>2. /\ Quiet(r) /\ r.open /\ Session(r.s, books, gone \union more, start)
        /\ r.s.next = t.next /\ r.s.start = t.start /\ r.s.announced = t.announced
        /\ r.s.phase = t.phase /\ r.s.replay = t.replay
    BY ONLY <1>3, <2>1, RequestKeeps, start \in Nat
  <2> QED BY ONLY <1>2, <2>2
<1> QED BY <1>4, <1>5

\* What a settled request leaves behind.
SettledIn(r, s, books, gone, start) ==
    /\ Quiet(r) /\ r.open /\ Session(r.s, books, gone, start)
    /\ r.s.next = s.next /\ r.s.start = s.start /\ r.s.announced = s.announced
    /\ r.s.phase = s.phase /\ r.s.replay = NoReplay

LEMMA SettlesIn ==
    ASSUME NEW s \in Consumers, NEW books, NEW gone \in SUBSET Nat, NEW start \in Nat,
           Session(s, books, gone, start), NEW more, NEW k, k = s.request.count, SettledTo(s, k, books, more),
           NEW r, r = SettleRequest(s), NEW all, all = gone \union more
    PROVE  SettledIn(r, s, books, all, start)
<1>1. /\ Quiet(r) /\ r.open /\ Session(r.s, books, gone \union more, start)
      /\ r.s.next = s.next /\ r.s.start = s.start /\ r.s.announced = s.announced
      /\ r.s.phase = s.phase /\ r.s.replay = NoReplay
  BY SettleKeeps
<1> QED BY <1>1 DEF SettledIn

\* on_finished_sending: the flow ends where the consumer has arrived.
LEMMA Finishing ==
    ASSUME NEW s \in Consumers, NEW books, NEW gone, NEW start,
           Session(s, books, gone, start), ~s.start, NEW end \in Nat, end = s.next,
           NEW t, t = [s EXCEPT !.finished = [end |-> end, answered |-> FALSE]]
    PROVE  /\ t \in Consumers /\ Session(t, books, gone, start)
           /\ t.phase = s.phase /\ t.next = s.next /\ t.start = s.start /\ t.announced = s.announced
           /\ t.replay = s.replay
<1>1. /\ t \in Consumers /\ t.next = s.next /\ t.start = s.start /\ t.missing = s.missing
      /\ t.runs = s.runs /\ t.request = s.request /\ t.replay = s.replay
      /\ t.finished.end = s.next /\ ~t.finished.answered
      /\ t.phase = s.phase /\ t.announced = s.announced
  BY DEF Consumers
<1>2. GapsOK(t) /\ RunsOK(t) /\ RequestOK(t)
  BY <1>1 DEF Session, GapsOK, RunsOK, RequestOK
<1>3. FinishOK(t) /\ StartOK(t, start)
  BY <1>1 DEF Session, FinishOK, StartOK
<1>4. BooksOK(t, books, gone, start)
  BY <1>1 DEF Session, BooksOK, Missing, InRuns, Delivered
<1> QED BY <1>1, <1>2, <1>3, <1>4 DEF Session

\* A handler that calls another.
LEMMA ThenIs ==
    ASSUME NEW r, NEW q, NEW t, Quiet(r), r.open, Quiet(q), t = Then(r, q)
    PROVE  /\ Quiet(t) /\ t.s = q.s
           /\ q.open => t.open
           /\ ~q.open => ~t.open
<1>1. t = [q EXCEPT !.send = r.send \o q.send, !.gone = r.gone \union q.gone,
                    !.accept = IF q.accept = 0 THEN r.accept ELSE q.accept]
  BY Zenon DEF Then
<1>2. r.send \o q.send \in Seq(Replies) /\ r.accept = 0 /\ r.gone = {}
  BY ConcatProperties DEF Quiet, Results
<1>3. q \in Results /\ q.accept = 0 /\ q.gone = {}
  BY DEF Quiet
<1>4. t \in Results /\ t.s = q.s /\ t.open = q.open /\ t.accept = 0 /\ t.gone = {}
  BY ONLY <1>1, <1>2, <1>3 DEF Results
<1>5. ~q.open => q.s.phase \in {"negotiated", "finalized"}
  BY DEF Quiet
<1> QED BY ONLY <1>4, <1>5 DEF Quiet

\* on_finished_sending.
LEMMA FinishedSendingKeeps ==
    ASSUME NEW s \in Consumers, NEW books, NEW gone \in SUBSET Nat, NEW start \in Nat,
           Session(s, books, gone, start), s.phase \in {"established", "terminating"}, ~s.start,
           NEW last \in Nat, last + 1 \in 1 .. MaxSeq + 1, NEW r, r = OnFinishedSending(s, last)
    PROVE  /\ Quiet(r) /\ Session(r.s, books, gone, start)
           /\ r.s.next \in {s.next, last + 1} /\ ~r.s.start /\ r.s.announced = s.announced
           /\ r.open => r.s.phase = s.phase
<1>1. CASE s.finished # NotFinished
  <2>1. r = Result(s, <<>>) /\ <<>> \in Seq(Replies) /\ s \in Consumers
    BY <1>1 DEF OnFinishedSending
  <2>2. Quiet(r) /\ r.open /\ r.s = s
    BY ONLY <2>1, Stays, ZenonT(20)
  <2> QED BY <2>2
<1>2. CASE s.finished = NotFinished /\ last + 1 < s.next
  <2>1. PICK why \in Verdicts : why = "LastSeqNo too low"
    BY DEF Verdicts
  <2>2. r = FailWith("consumer", s, "Error", why)
    BY <1>2, <2>1 DEF OnFinishedSending, Violation
  <2>3. /\ Quiet(r) /\ ~r.open /\ Session(r.s, books, gone, start)
        /\ r.s.next = s.next /\ r.s.start = s.start /\ r.s.announced = s.announced
    BY <2>2, FailKeeps
  <2> QED BY <2>3
<1>3. CASE s.finished = NotFinished /\ ~(last + 1 < s.next)
  <2>1. PICK end \in 1 .. MaxSeq + 1 : end = last + 1
    OBVIOUS
  <2>2. PICK p : p = OnNextSeq(s, end)
    OBVIOUS
  <2>3. PICK t : t = [p.s EXCEPT !.finished = [end |-> end, answered |-> FALSE]]
    OBVIOUS
  <2>4. PICK q : q = MaybeFinishReceiving(t)
    OBVIOUS
  <2>5. r = Then(p, q)
    BY <1>3, <2>1, <2>2, <2>3, <2>4, Zenon DEF OnFinishedSending
  <2>6. /\ Quiet(p) /\ Session(p.s, books, gone, start)
        /\ p.s.next \in {s.next, end} /\ ~p.s.start /\ p.s.announced = s.announced
        /\ p.open => p.s.next = end /\ p.s.phase = s.phase
    <3>1. PICK begun : begun = IF s.start THEN end ELSE start
      OBVIOUS
    <3>2. begun = start
      BY <3>1
    <3>3. /\ Quiet(p) /\ Session(p.s, books, gone, begun)
          /\ p.s.next \in {s.next, end} /\ ~p.s.start /\ p.s.announced = s.announced
          /\ p.open => /\ p.s.next = end /\ p.s.phase = s.phase /\ p.s.replay = NoReplay
                       /\ p.s.finished = s.finished
      BY <2>2, <3>1, NextSeqKeeps
    <3> QED BY ONLY <3>2, <3>3
  <2>7. CASE ~p.open
    <3>1. r = p
      BY <2>5, <2>7 DEF Then
    <3> QED BY ONLY <2>1, <2>6, <2>7, <3>1
  <2>8. CASE p.open
    <3>1. PICK u \in Consumers : u = p.s
      BY <2>6 DEF Quiet, Results
    <3>2. end \in Nat
      BY Constants
    <3>3. Session(u, books, gone, start) /\ ~u.start /\ end = u.next
      BY ONLY <2>6, <2>8, <3>1
    <3>4. t = [u EXCEPT !.finished = [end |-> end, answered |-> FALSE]]
      BY ONLY <2>3, <3>1, Zenon
    <3>5. /\ t \in Consumers /\ Session(t, books, gone, start)
          /\ t.phase = u.phase /\ t.next = u.next /\ t.start = u.start /\ t.announced = u.announced
          /\ t.replay = u.replay
      BY ONLY <3>1, <3>2, <3>3, <3>4, Finishing
    <3>6. /\ Quiet(q) /\ q.open /\ Session(q.s, books, gone, start)
          /\ q.s.next = t.next /\ q.s.start = t.start /\ q.s.announced = t.announced
          /\ q.s.phase = t.phase /\ q.s.replay = t.replay
      BY ONLY <2>4, <3>5, FinishKeeps
    <3>7. Quiet(r) /\ r.s = q.s
      BY ONLY <2>5, <2>6, <2>8, <3>6, ThenIs
    <3> QED BY ONLY <2>1, <2>6, <2>8, <3>1, <3>3, <3>5, <3>6, <3>7
  <2> QED BY <2>7, <2>8
<1> QED BY <1>1, <1>2, <1>3

\* on_retransmission: a batch begins where the last one ended.
LEMMA RetransmissionKeeps ==
    ASSUME NEW s \in Consumers, NEW books, NEW gone \in SUBSET Nat, NEW start \in Nat,
           Session(s, books, gone, start), s.phase \in {"established", "terminating"}, ~s.start,
           NEW m, m.next \in Nat, m.count \in Nat, NEW r, r = OnRetransmission(s, m)
    PROVE  /\ Quiet(r) /\ Session(r.s, books, gone, start)
           /\ r.s.next = s.next /\ ~r.s.start /\ r.s.announced = s.announced
           /\ r.open => /\ r.s.phase = s.phase /\ r.s.replay.next = m.next
                        /\ r.s.replay.left = m.count /\ r.s.replay # NoReplay
<1>1. CASE \/ s.request = NoRequest \/ m.stamp # s.request.stamp
           \/ m.next # s.request.from + s.request.delivered
           \/ m.count = 0 \/ m.count > s.request.count - s.request.delivered
  <2>1. PICK why \in Verdicts : why = "Retransmission not asked for"
    BY DEF Verdicts
  <2>2. r = FailWith("consumer", s, "Error", why)
    BY <1>1, <2>1 DEF OnRetransmission, Violation
  <2>3. /\ Quiet(r) /\ ~r.open /\ Session(r.s, books, gone, start)
        /\ r.s.next = s.next /\ r.s.start = s.start /\ r.s.announced = s.announced
    BY <2>2, FailKeeps
  <2> QED BY <2>3
<1>2. CASE /\ s.request # NoRequest /\ m.next = s.request.from + s.request.delivered
           /\ ~(\/ s.request = NoRequest \/ m.stamp # s.request.stamp
                \/ m.next # s.request.from + s.request.delivered
                \/ m.count = 0 \/ m.count > s.request.count - s.request.delivered)
  <2>1. PICK request : request = [s.request EXCEPT !.interrupted = FALSE, !.complete = FALSE,
                                                   !.reported = FALSE]
    OBVIOUS
  <2>2. PICK t : t = [s EXCEPT !.replay = [next |-> m.next, left |-> m.count], !.resume = TRUE,
                               !.request = request]
    OBVIOUS
  <2>3. r = Result(t, <<>>)
    BY <1>2, <2>1, <2>2, Zenon DEF OnRetransmission
  <2>4. /\ request \in Requests /\ request.from = s.request.from /\ request.count = s.request.count
        /\ request.delivered = s.request.delivered /\ ~request.interrupted /\ ~request.complete
    BY <2>1, ConsumerFields DEF Requests
  <2>5. /\ t \in Consumers /\ t.next = s.next /\ t.start = s.start /\ t.missing = s.missing
        /\ t.runs = s.runs /\ t.request = request /\ t.finished = s.finished
        /\ t.replay.next = m.next /\ t.replay.left = m.count
        /\ t.phase = s.phase /\ t.announced = s.announced
    BY <2>2, <2>4 DEF Consumers
  <2>6. /\ s.request.count \in Nat /\ s.request.delivered \in Nat /\ m.count # 0
        /\ m.count <= s.request.count - s.request.delivered
    BY <1>2, ConsumerFields
  <2>7. 1 <= m.count /\ s.request.delivered + m.count <= s.request.count /\ s.request.count # 0
    BY <2>6
  <2>8. request # NoRequest /\ t.replay # NoReplay
    BY <2>4, <2>5, <2>6, <2>7, None
  <2>9. /\ s.missing # <<>> /\ s.request.from = s.missing[1].from
        /\ s.request.from + s.request.count <= s.missing[1].end
        /\ s.request.delivered <= s.request.count
    BY <1>2 DEF Session, RequestOK
  <2>10. RequestOK(t)
    BY ONLY <1>2, <2>4, <2>5, <2>7, <2>8, <2>9 DEF RequestOK
  <2>11. \A n \in Numbers : Missing(s, n) => (Delivered(t, n) <=> Delivered(s, n))
    BY <2>4, <2>5 DEF Delivered
  <2>12. Session(t, books, gone, start)
    BY <2>5, <2>10, <2>11, OtherRequest
  <2>13. Quiet(r) /\ r.open /\ r.s = t
    <3>1. <<>> \in Seq(Replies) /\ t \in Consumers
      BY <2>5
    <3> QED BY ONLY <2>3, <3>1, Stays
  <2> QED BY <2>5, <2>8, <2>12, <2>13
<1> QED BY <1>1, <1>2

\* on_retransmit_reject: the range is abandoned.
LEMMA RejectKeeps ==
    ASSUME NEW s \in Consumers, NEW books, NEW gone \in SUBSET Nat, NEW start \in Nat,
           Session(s, books, gone, start), ~s.start, NEW m, NEW r, r = OnRetransmitReject(s, m)
    PROVE  /\ r \in Results /\ r.accept = 0 /\ r.open
           /\ Session(r.s, books, gone \union r.gone, start)
           /\ r.s.next = s.next /\ ~r.s.start /\ r.s.announced = s.announced
           /\ r.s.phase = s.phase
<1>1. CASE s.request = NoRequest \/ m.stamp # s.request.stamp
  <2>1. r = Result(s, <<>>) /\ <<>> \in Seq(Replies) /\ s \in Consumers
    BY <1>1 DEF OnRetransmitReject
  <2>2. Quiet(r) /\ r.open /\ r.s = s
    BY ONLY <2>1, Stays
  <2>3. gone \union r.gone = gone
    BY <2>2 DEF Quiet
  <2> QED BY <2>2, <2>3 DEF Quiet
<1>2. CASE ~(s.request = NoRequest \/ m.stamp # s.request.stamp)
  <2>1. PICK k : k = s.request.count
    OBVIOUS
  <2>2. PICK more : more = s.request.from .. (s.request.from + k - 1)
    OBVIOUS
  <2>3. PICK q : q = SettleRequest(s)
    OBVIOUS
  <2>4. r = [q EXCEPT !.gone = more]
    BY <1>2, <2>1, <2>2, <2>3, Zenon DEF OnRetransmitReject
  <2>5. more \in SUBSET Nat /\ SettledTo(s, k, books, more)
    <3>1. s.request.from \in Nat /\ k \in Nat
      BY <2>1, ConsumerFields
    <3>2. \A n \in Numbers : n \in Nat
      BY Constants
    <3>3. \A n \in more : n \in Nat /\ s.request.from <= n /\ n < s.request.from + k
      BY ONLY <2>2, <3>1
    <3>4. \A n \in Nat : s.request.from <= n /\ n < s.request.from + k => n \in more
      BY ONLY <2>2, <3>1
    <3>5. k \in {s.request.delivered, s.request.count} /\ more \in SUBSET Nat
      BY <2>1, <3>3
    <3> QED BY ONLY <3>2, <3>3, <3>4, <3>5 DEF SettledTo
  <2>6. /\ Quiet(q) /\ q.open /\ Session(q.s, books, gone \union more, start)
        /\ q.s.next = s.next /\ q.s.start = s.start /\ q.s.announced = s.announced
        /\ q.s.phase = s.phase /\ q.s.replay = NoReplay
    BY <2>1, <2>3, <2>5, SettleKeeps
  <2>7. q \in Results /\ q.accept = 0
    BY <2>6 DEF Quiet
  <2>8. /\ r \in Results /\ r.s = q.s /\ r.open = q.open /\ r.accept = q.accept /\ r.gone = more
    BY ONLY <2>4, <2>5, <2>7 DEF Results
  <2> QED BY <2>6, <2>7, <2>8
<1> QED BY <1>1, <1>2

\* on_stall: what was delivered is settled and the rest asked for again, or
\* the stall is reported, or the binding ends.
LEMMA StallKeeps ==
    ASSUME NEW s \in Consumers, NEW books, NEW gone \in SUBSET Nat, NEW start \in Nat,
           Session(s, books, gone, start), s.phase = "established", s.request # NoRequest,
           NEW r, r = OnStall(s)
    PROVE  /\ Quiet(r) /\ Session(r.s, books, gone, start)
           /\ r.s.next = s.next /\ r.s.start = s.start /\ r.s.announced = s.announced
           /\ r.open => r.s.phase = s.phase /\ r.s.replay = s.replay
<1>1. PICK again : again <=> \/ Policy = "ReRequestAfterContextSwitch" /\ s.request.interrupted
                             \/ /\ Policy = "ReRequestAfterBatch"
                                /\ s.request.interrupted \/ s.request.complete
  OBVIOUS
<1>2. PICK k : k = s.request.delivered
  OBVIOUS
<1>3. CASE Policy = "Terminate"
  <2>1. PICK why \in Verdicts : why = "none"
    BY DEF Verdicts
  <2>2. r = FailWith("consumer", s, "Error", why)
    BY <1>3, <2>1, Zenon DEF OnStall
  <2>3. /\ Quiet(r) /\ ~r.open /\ Session(r.s, books, gone, start)
        /\ r.s.next = s.next /\ r.s.start = s.start /\ r.s.announced = s.announced
    BY <2>2, FailKeeps
  <2> QED BY <2>3
<1>4. CASE Policy # "Terminate" /\ again
  <2>1. PICK t : t = Settled(s, k)
    OBVIOUS
  <2>2. r = RequestMissing(t)
    BY <1>1, <1>2, <1>4, <2>1, Zenon DEF OnStall, Settled
  <2>3. PICK more : more = {}
    OBVIOUS
  <2>4. SettledTo(s, k, books, more)
    BY <1>2, <2>3, DeliveredAre DEF Delivered, SettledTo
  <2>5. /\ t \in Consumers /\ Session(t, books, gone \union more, start)
        /\ t.phase = s.phase /\ t.next = s.next /\ t.start = s.start /\ t.announced = s.announced
        /\ t.replay = NoReplay
    <3>1. s \in Consumers /\ Session(s, books, gone, start) /\ gone \in SUBSET Nat /\ start \in Nat
      OBVIOUS
    <3>2. Session(t, books, gone \union more, start)
      BY ONLY <2>1, <2>4, <3>1, Settles
    <3> QED BY ONLY <2>1, <2>4, <3>1, <3>2, Settles
  <2>6. Session(t, books, gone, start) /\ t \in Consumers
    <3>1. gone \union more = gone
      BY <2>3
    <3> QED BY ONLY <2>5, <3>1
  <2>7. /\ Quiet(r) /\ r.open /\ Session(r.s, books, gone, start)
        /\ r.s.next = t.next /\ r.s.start = t.start /\ r.s.announced = t.announced
        /\ r.s.phase = t.phase /\ r.s.replay = t.replay
    BY ONLY <2>2, <2>6, RequestKeeps, gone \in SUBSET Nat, start \in Nat
  <2>8. s.replay = NoReplay
    BY <1>1, <1>4 DEF Session, RequestOK
  <2> QED BY ONLY <2>5, <2>7, <2>8
<1>5. CASE Policy # "Terminate" /\ ~again
  <2>1. PICK request : request = [s.request EXCEPT !.reported = TRUE]
    OBVIOUS
  <2>2. PICK t : t = [s EXCEPT !.request = request]
    OBVIOUS
  <2>3. r = Result(t, <<>>)
    BY <1>1, <1>5, <2>1, <2>2, Zenon DEF OnStall
  <2>4. /\ request \in Requests /\ request.from = s.request.from /\ request.count = s.request.count
        /\ request.delivered = s.request.delivered /\ request.stamp = s.request.stamp
        /\ (request.interrupted <=> s.request.interrupted)
        /\ (request.complete <=> s.request.complete)
    BY <2>1, ConsumerFields DEF Requests
  <2>5. /\ t \in Consumers /\ t.next = s.next /\ t.start = s.start /\ t.missing = s.missing
        /\ t.runs = s.runs /\ t.request = request /\ t.replay = s.replay
        /\ t.finished = s.finished /\ t.phase = s.phase /\ t.announced = s.announced
    BY <2>2, <2>4 DEF Consumers
  <2>6. request # NoRequest
    <3>1. ~NoRequest.reported
      BY DEF NoRequest
    <3>2. request.reported
      BY <2>1, ConsumerFields DEF Requests
    <3> QED BY <3>1, <3>2
  <2>7. RequestOK(t)
    BY <2>4, <2>5, <2>6 DEF Session, RequestOK
  <2>8. \A n \in Numbers : Missing(s, n) => (Delivered(t, n) <=> Delivered(s, n))
    BY <2>4, <2>5 DEF Delivered
  <2>9. Session(t, books, gone, start)
    BY <2>5, <2>7, <2>8, OtherRequest
  <2>10. Quiet(r) /\ r.open /\ r.s = t
    <3>1. <<>> \in Seq(Replies) /\ t \in Consumers
      BY <2>5
    <3> QED BY ONLY <2>3, <3>1, Stays
  <2> QED BY <2>5, <2>9, <2>10
<1> QED BY <1>3, <1>4, <1>5

\* bind.
LEMMA BindKeeps ==
    ASSUME NEW s \in Consumers, NEW books, NEW gone \in SUBSET Nat, NEW start \in Nat,
           Session(s, books, gone, start), NEW t, t = Bind("consumer", s)
    PROVE  /\ t \in Consumers /\ Session(t, books, gone, start)
           /\ t.phase = "established" /\ t.next = s.next /\ t.start = s.start /\ t.announced = 0
<1>1. PICK u : u = ReleaseConsumer(s)
  OBVIOUS
<1>2. /\ u \in Consumers /\ Session(u, books, gone, start)
      /\ u.next = s.next /\ u.start = s.start
      /\ u.request = NoRequest /\ u.replay = NoReplay
  BY <1>1, ReleaseKeeps
<1>3. t = [u EXCEPT !.phase = "established", !.announced = 0]
  BY <1>1, Zenon DEF Bind, Release
<1>4. /\ t \in Consumers /\ t.next = u.next /\ t.start = u.start /\ t.missing = u.missing
      /\ t.runs = u.runs /\ t.request = u.request /\ t.replay = u.replay
      /\ t.finished = u.finished /\ t.phase = "established" /\ t.announced = 0
  <2>1. u \in Consumers
    BY <1>2
  <2>2. "established" \in Phases /\ 0 \in Nat
    BY DEF Phases
  <2> QED BY ONLY <1>3, <2>1, <2>2 DEF Consumers
<1>5. Session(t, books, gone, start)
  BY <1>2, <1>4, SameSession
<1> QED BY <1>2, <1>4, <1>5

\* on_established: the announced number is the next one, and what is missing
\* is asked for.
LEMMA EstablishedKeeps ==
    ASSUME NEW s \in Consumers, NEW books, NEW gone \in SUBSET Nat, NEW start \in Nat,
           Session(s, books, gone, start), s.phase = "established",
           NEW next \in 1 .. MaxSeq + 1, NEW begun, begun = IF s.start THEN next ELSE start,
           NEW r, r = OnEstablished("consumer", s, next)
    PROVE  /\ Quiet(r) /\ Session(r.s, books, gone, begun)
           /\ r.s.next \in {s.next, next} /\ ~r.s.start /\ r.s.announced = s.announced
           /\ r.open => /\ r.s.next = next /\ r.s.phase = "established" /\ r.s.replay = NoReplay
<1>1. PICK p : p = OnNextSeq(s, next)
  OBVIOUS
<1>2. PICK q : q = RequestMissing(p.s)
  OBVIOUS
<1>3. PICK t : t = Then(p, q)
  OBVIOUS
<1>4. PICK f : f = MaybeFinishReceiving(t.s)
  OBVIOUS
<1>5. r = Then(t, f)
  BY <1>1, <1>2, <1>3, <1>4, Zenon DEF OnEstablished
<1>6. /\ Quiet(p) /\ Session(p.s, books, gone, begun)
      /\ p.s.next \in {s.next, next} /\ ~p.s.start /\ p.s.announced = s.announced
      /\ p.open => /\ p.s.next = next /\ p.s.phase = s.phase /\ p.s.replay = NoReplay
                   /\ p.s.finished = s.finished
  <2>1. s.phase \in {"established", "terminating"}
    OBVIOUS
  <2> QED BY ONLY <1>1, <2>1, NextSeqKeeps, s \in Consumers, gone \in SUBSET Nat, start \in Nat,
          Session(s, books, gone, start), next \in 1 .. MaxSeq + 1,
          begun = IF s.start THEN next ELSE start
<1>7. CASE ~p.open
  <2>1. t = p
    BY <1>3, <1>7 DEF Then
  <2>2. r = p
    BY <1>5, <1>7, <2>1 DEF Then
  <2> QED BY ONLY <1>6, <1>7, <2>2
<1>8. CASE p.open
  <2>1. p.s \in Consumers
    BY <1>6 DEF Quiet, Results
  <2>2. begun \in Nat
    BY Constants
  <2>3. /\ Quiet(q) /\ q.open /\ Session(q.s, books, gone, begun)
        /\ q.s.next = p.s.next /\ q.s.start = p.s.start /\ q.s.announced = p.s.announced
        /\ q.s.phase = p.s.phase /\ q.s.replay = p.s.replay /\ q.s.finished = p.s.finished
    <3>1. PICK u \in Consumers : u = p.s
      BY <2>1
    <3>2. Session(u, books, gone, begun) /\ q = RequestMissing(u)
      BY ONLY <1>2, <1>6, <3>1
    <3>3. /\ Quiet(q) /\ q.open /\ Session(q.s, books, gone, begun)
          /\ q.s.next = u.next /\ q.s.start = u.start /\ q.s.announced = u.announced
          /\ q.s.phase = u.phase /\ q.s.replay = u.replay /\ q.s.finished = u.finished
      BY ONLY <2>2, <3>1, <3>2, RequestKeeps, gone \in SUBSET Nat
    <3> QED BY ONLY <3>1, <3>3
  <2>4. Quiet(t) /\ t.s = q.s /\ t.open
    BY ONLY <1>3, <1>6, <1>8, <2>3, ThenIs
  <2>5. /\ Quiet(f) /\ f.open /\ Session(f.s, books, gone, begun)
        /\ f.s.next = t.s.next /\ f.s.start = t.s.start /\ f.s.announced = t.s.announced
        /\ f.s.phase = t.s.phase /\ f.s.replay = t.s.replay
    <3>1. PICK u \in Consumers : u = t.s
      BY <2>4 DEF Quiet, Results
    <3>2. Session(u, books, gone, begun) /\ f = MaybeFinishReceiving(u)
      BY ONLY <1>4, <2>3, <2>4, <3>1
    <3>3. /\ Quiet(f) /\ f.open /\ Session(f.s, books, gone, begun)
          /\ f.s.next = u.next /\ f.s.start = u.start /\ f.s.announced = u.announced
          /\ f.s.phase = u.phase /\ f.s.replay = u.replay
      BY ONLY <3>1, <3>2, FinishKeeps
    <3> QED BY ONLY <3>1, <3>3
  <2>6. Quiet(r) /\ r.s = f.s /\ r.open
    BY ONLY <1>5, <2>4, <2>5, ThenIs
  <2> QED BY ONLY <1>6, <1>8, <2>3, <2>4, <2>5, <2>6, s.phase = "established"
<1> QED BY <1>7, <1>8

-----------------------------------------------------------------------------
(* What the session keeps when a message is delivered                       *)

\* The message of the sender's number `n' is delivered under `number'.
Filed(books, n, number) == [books EXCEPT ![n] = Append(@, number)]

LEMMA FiledIs ==
    ASSUME NEW books \in Books, NEW n \in Numbers, books[n] = <<>>,
           NEW after, after = Filed(books, n, n)
    PROVE  /\ after \in Books /\ after[n] = <<n>>
           /\ \A k \in Numbers : k # n => after[k] = books[k]
<1>1. n \in Nat /\ Append(<<>>, n) = <<n>> /\ <<n>> \in Seq(Nat)
  BY Constants
<1>2. after = [books EXCEPT ![n] = <<n>>]
  BY <1>1, Zenon DEF Filed
<1> QED BY <1>1, <1>2 DEF Books

\* on_application of a message in sequence.
Counted(s) == [s EXCEPT !.start = FALSE, !.next = s.next + 1]
LEMMA ApplicationKeeps ==
    ASSUME NEW s \in Consumers, NEW books \in Books, NEW gone \in SUBSET Nat,
           NEW start \in Nat, Session(s, books, gone, start),
           s.phase \in {"established", "terminating"}, ~s.start,
           s.replay = NoReplay, s.finished = NotFinished, s.next \in Numbers,
           NEW after, after = Filed(books, s.next, s.next),
           NEW t, t = Counted(s)
    PROVE  /\ t \in Consumers /\ Session(t, after, gone, start)
           /\ t.next = s.next + 1 /\ ~t.start /\ t.announced = s.announced /\ t.phase = s.phase
           /\ t.replay = NoReplay /\ s.next \notin gone /\ after \in Books
<1>1. /\ GapsOK(s) /\ RunsOK(s) /\ RequestOK(s) /\ StartOK(s, start) /\ FinishOK(s)
      /\ BooksOK(s, books, gone, start)
  BY DEF Session
<1>2. s.next \in Nat /\ 1 <= s.next /\ s.next + 1 \in 1 .. MaxSeq + 1 /\ Numbers \subseteq Nat
  BY Constants
<1>3. books[s.next] = <<>>
  BY <1>1, <1>2 DEF BooksOK
<1>4. /\ after \in Books /\ after[s.next] = <<s.next>>
      /\ \A k \in Numbers : k # s.next => after[k] = books[k]
  BY <1>3, FiledIs
<1>5. /\ t \in Consumers /\ t.next = s.next + 1 /\ ~t.start /\ t.missing = s.missing
      /\ t.runs = s.runs /\ t.request = s.request /\ t.replay = s.replay
      /\ t.finished = s.finished /\ t.phase = s.phase /\ t.announced = s.announced
  BY <1>2 DEF Consumers, Counted
<1>6. GapsOK(t)
  <2>1. \A i \in 1 .. Len(s.missing) : s.missing[i].end \in Nat /\ s.missing[i].end <= s.next
    BY <1>1, ConsumerFields DEF GapsOK
  <2>2. \A i \in 1 .. Len(s.missing) : s.missing[i].end <= s.next + 1
    BY <1>2, <2>1
  <2> QED BY <1>1, <1>5, <2>2 DEF GapsOK
<1>7. RunsOK(t) /\ RequestOK(t)
  BY <1>1, <1>5 DEF RunsOK, RequestOK
<1>8. StartOK(t, start) /\ FinishOK(t)
  BY <1>1, <1>5, None DEF StartOK, FinishOK
<1>9. BooksOK(t, after, gone, start)
  <2>1. \A n : (Missing(t, n) <=> Missing(s, n)) /\ (InRuns(t, n) <=> InRuns(s, n))
               /\ (Delivered(t, n) <=> Delivered(s, n))
    BY <1>5 DEF Missing, InRuns, Delivered
  <2>2. ASSUME NEW n \in Numbers
        PROVE  /\ after[n] \in {<<>>, <<n>>}
               /\ after[n] # <<>> => n < t.next
               /\ Missing(t, n) => (after[n] # <<>> <=> InRuns(t, n) \/ Delivered(t, n))
               /\ start # 0 /\ start <= n /\ n < t.next =>
                     after[n] # <<>> \/ n \in gone \/ Missing(t, n)
    <3>1. CASE n = s.next
      <4>1. ~Missing(s, n)
        <5>1. \A i \in 1 .. Len(s.missing) : s.missing[i].end \in Nat /\ s.missing[i].end <= s.next
          BY <1>1, ConsumerFields DEF GapsOK
        <5> QED BY <1>2, <3>1, <5>1 DEF Missing
      <4>2. after[n] = <<n>> /\ n < t.next
        BY <1>2, <1>4, <1>5, <3>1
      <4>3. after[n] # <<>>
        BY <4>2
      <4> QED BY ONLY <2>1, <4>1, <4>2, <4>3
    <3>2. CASE n # s.next
      <4>1. after[n] = books[n] /\ n \in Nat
        BY <1>2, <1>4, <3>2
      <4>2. /\ books[n] \in {<<>>, <<n>>}
            /\ books[n] # <<>> => n < s.next
            /\ Missing(s, n) => (books[n] # <<>> <=> InRuns(s, n) \/ Delivered(s, n))
            /\ start # 0 /\ start <= n /\ n < s.next =>
                  books[n] # <<>> \/ n \in gone \/ Missing(s, n)
        BY <1>1 DEF BooksOK
      <4>3. n < t.next <=> n < s.next
        BY <1>2, <1>5, <3>2, <4>1
      <4> QED BY ONLY <2>1, <4>1, <4>2, <4>3
    <3> QED BY <3>1, <3>2
  <2>3. start <= t.next /\ \A i \in 1 .. Len(t.missing) : start <= t.missing[i].from
    BY <1>1, <1>2, <1>5 DEF BooksOK
  <2>4. \A n \in gone : 1 <= n /\ n < t.next /\ \A i \in 1 .. Len(t.missing) : n < t.missing[i].from
    <3>1. \A n \in gone : n \in Nat /\ 1 <= n /\ n < s.next
      BY <1>1 DEF BooksOK
    <3>2. \A n \in gone : 1 <= n /\ n < s.next + 1
      BY <1>2, <3>1
    <3> QED BY <1>1, <1>5, <3>2 DEF BooksOK
  <2> QED BY ONLY <2>2, <2>3, <2>4 DEF BooksOK
<1>10. s.next \notin gone
  BY <1>1, <1>2 DEF BooksOK
<1>11. Session(t, after, gone, start)
  BY <1>6, <1>7, <1>8, <1>9 DEF Session
<1> QED BY <1>4, <1>5, <1>10, <1>11

-----------------------------------------------------------------------------
(* What the session keeps when a batch goes on                              *)

\* A set of numbers has a least one: the strict subset ordering is well
\* founded on the ranges 0 .. n.
LEMMA LeastNumber ==
    ASSUME NEW S, S \subseteq Nat, S # {}
    PROVE  \E least \in S : \A n \in S : least <= n
<1> DEFINE R == StrictSubsetOrdering(Nat)
           F == FiniteSubsetsOf(Nat)
           T == { 0 .. n : n \in S }
<1>1. IsWellFoundedOn(R, F)
  BY FS_StrictSubsetOrderingWellFounded
<1>2. T \subseteq F
  <2>1. ASSUME NEW n \in S PROVE 0 .. n \in F
    <3>1. IsFiniteSet(0 .. n)
      BY FS_Interval
    <3>2. 0 .. n \in SUBSET Nat
      OBVIOUS
    <3> QED BY <3>1, <3>2 DEF FiniteSubsetsOf
  <2> QED BY <2>1
<1>3. T # {} /\ \A n \in S : 0 .. n \in T
  OBVIOUS
<1>4. \A x \in T : \E n \in S : x = 0 .. n
  OBVIOUS
<1> HIDE DEF R, F, T
<1>5. PICK x \in T : \A y \in T : <<y, x>> \notin R
  BY <1>1, <1>2, <1>3, WFMin, Zenon
<1>6. PICK least \in S : x = 0 .. least
  BY <1>4
<1>7. ASSUME NEW n \in S, n < least PROVE FALSE
  <2>1. 0 .. n \in SUBSET Nat /\ 0 .. least \in SUBSET Nat
    OBVIOUS
  <2>2. 0 .. n \subseteq 0 .. least
    BY <1>7
  <2>3. least \in 0 .. least /\ least \notin 0 .. n
    BY <1>7
  <2>4. <<0 .. n, 0 .. least>> \in R
    BY <2>1, <2>2, <2>3 DEF R, StrictSubsetOrdering
  <2> QED BY <2>4, <1>3, <1>5, <1>6
<1> QED BY <1>6, <1>7

\* The runs that end above `number': the rest was passed.
Ahead(runs, number) ==
    LET ahead == {i \in DOMAIN runs : runs[i].end > number}
    IN  IF ahead = {} THEN <<>> ELSE SubSeq(runs, Min(ahead), Len(runs))

\* The first `d' of the runs are passed, and the others are not.
Passed(runs, new, d, number) ==
    /\ Len(new) = Len(runs) - d
    /\ \A i \in 1 .. Len(new) : new[i] = runs[i + d]
    /\ \A i \in 1 .. d : runs[i].end <= number
    /\ \A i \in d + 1 .. Len(runs) : runs[i].end > number

LEMMA RunsAhead ==
    ASSUME NEW runs \in Seq(Ranges), NEW number \in Nat,
           \A i \in 1 .. Len(runs) : runs[i].from < runs[i].end,
           \A i, j \in 1 .. Len(runs) : i < j => runs[i].end < runs[j].from,
           NEW new, new = Ahead(runs, number)
    PROVE  /\ new \in Seq(Ranges)
           /\ \E d \in 0 .. Len(runs) : Passed(runs, new, d, number)
<1>1. /\ Len(runs) \in Nat /\ DOMAIN runs = 1 .. Len(runs)
      /\ \A i \in 1 .. Len(runs) : runs[i] \in Ranges /\ runs[i].from \in Nat /\ runs[i].end \in Nat
  <2>1. \A i \in 1 .. Len(runs) : runs[i] \in Ranges
    BY ElementOfSeq
  <2> QED BY <2>1, LenProperties DEF Ranges
<1>2. PICK ahead : ahead = {i \in 1 .. Len(runs) : runs[i].end > number}
  OBVIOUS
<1>3. new = IF ahead = {} THEN <<>> ELSE SubSeq(runs, Min(ahead), Len(runs))
  BY <1>1, <1>2 DEF Ahead
<1>4. CASE ahead = {}
  <2>1. new = <<>> /\ Len(new) = 0 /\ new \in Seq(Ranges)
    BY <1>3, <1>4
  <2>2. Len(runs) \in 0 .. Len(runs) /\ Len(new) = Len(runs) - Len(runs)
        /\ 1 .. Len(new) = {} /\ Len(runs) + 1 .. Len(runs) = {}
    BY <1>1, <2>1
  <2>3. \A i \in 1 .. Len(runs) : runs[i].end <= number
    BY <1>1, <1>2, <1>4
  <2> QED BY <2>1, <2>2, <2>3 DEF Passed
<1>5. CASE ahead # {}
  <2>1. ahead \in SUBSET Nat
    BY <1>1, <1>2
  <2>2. PICK m \in ahead : \A n \in ahead : m <= n
    BY <1>5, <2>1, LeastNumber
  <2>3. Min(ahead) = m
    <3>1. \A x \in ahead : (\A y \in ahead : x <= y) => x = m
      <4> TAKE x \in ahead
      <4>1. x \in Nat /\ m \in Nat
        BY <2>1
      <4> QED BY <2>2, <4>1
    <3> QED BY <2>2, <3>1 DEF Min
  <2>4. m \in 1 .. Len(runs) /\ m \in Nat /\ runs[m].end > number
    BY <1>1, <1>2, <2>2
  <2>5. new = SubSeq(runs, m, Len(runs))
    BY <1>3, <1>5, <2>3
  <2>6. /\ new \in Seq(Ranges) /\ Len(new) = Len(runs) - m + 1
        /\ \A i \in 1 .. Len(new) : new[i] = runs[m + i - 1]
    <3>1. \A i \in m .. Len(runs) : runs[i] \in Ranges
      BY <1>1, <2>4
    <3>2. m \in Int /\ Len(runs) \in Int /\ m <= Len(runs)
      BY <1>1, <2>4
    <3> QED BY <2>5, <3>1, <3>2, SubSeqProperties
  <2>7. PICK d \in 0 .. Len(runs) : d = m - 1
    BY <1>1, <2>4
  <2>8. Len(new) = Len(runs) - d /\ \A i \in 1 .. Len(new) : new[i] = runs[i + d]
    <3>1. \A i \in 1 .. Len(new) : m + i - 1 = i + d
      BY <1>1, <2>4, <2>6, <2>7
    <3> QED BY <1>1, <2>4, <2>6, <2>7, <3>1
  <2>9. \A i \in 1 .. d : runs[i].end <= number
    <3> TAKE i \in 1 .. d
    <3>1. i \in 1 .. Len(runs) /\ ~(m <= i)
      BY <1>1, <2>4, <2>7
    <3>2. i \notin ahead
      BY <2>2, <3>1
    <3> QED BY <1>1, <1>2, <3>1, <3>2
  <2>10. \A i \in d + 1 .. Len(runs) : runs[i].end > number
    <3> TAKE i \in d + 1 .. Len(runs)
    <3>1. i \in 1 .. Len(runs) /\ m <= i
      BY <1>1, <2>4, <2>7
    <3>2. m < i => runs[m].end < runs[i].from
      BY <2>4, <3>1
    <3> QED BY <1>1, <2>4, <3>1, <3>2
  <2> QED BY <2>6, <2>8, <2>9, <2>10 DEF Passed
<1> QED BY <1>4, <1>5

\* Passing a number keeps the runs above it.
LEMMA RunsLeft ==
    ASSUME NEW s \in Consumers, RunsOK(s), NEW number \in Nat,
           NEW t, t.missing = s.missing, t.runs = Ahead(s.runs, number)
    PROVE  /\ t.runs \in Seq(Ranges) /\ RunsOK(t)
           /\ \A n \in Nat : number <= n => (InRuns(t, n) <=> InRuns(s, n))
           /\ t.runs # <<>> /\ Head(t.runs).from <= number <=> InRuns(s, number)
<1>1. PICK old : old = s.runs
  OBVIOUS
<1>2. PICK new : new = t.runs
  OBVIOUS
<1>3. /\ old \in Seq(Ranges) /\ Len(old) \in Nat
      /\ \A i \in 1 .. Len(old) : old[i].from \in Nat /\ old[i].end \in Nat
  BY <1>1, ConsumerFields
<1>4. /\ \A i \in 1 .. Len(old) : old[i].from < old[i].end
      /\ \A i, j \in 1 .. Len(old) : i < j => old[i].end < old[j].from
  BY <1>1 DEF RunsOK
<1>5. new = Ahead(old, number)
  BY <1>1, <1>2
<1>6. new \in Seq(Ranges)
  BY <1>3, <1>4, <1>5, RunsAhead
<1>0. PICK d \in 0 .. Len(old) : Passed(old, new, d, number)
  BY <1>3, <1>4, <1>5, RunsAhead
<1>7. /\ Len(new) = Len(old) - d
      /\ \A i \in 1 .. Len(new) : new[i] = old[i + d]
      /\ \A i \in 1 .. d : old[i].end <= number
      /\ \A i \in d + 1 .. Len(old) : old[i].end > number
  BY <1>0 DEF Passed
<1>8. /\ Len(new) \in Nat /\ Len(new) <= Len(old)
      /\ \A i \in 1 .. Len(new) : i + d \in 1 .. Len(old) /\ new[i] = old[i + d]
  BY <1>3, <1>7
<1>9. RunsOK(t)
  <2>1. Len(old) <= MaxRuns
    BY <1>1 DEF RunsOK
  <2>2. Len(new) <= MaxRuns
    BY <1>3, <1>8, <2>1, Constants
  <2>3. new # <<>> => t.missing # <<>>
    <3>1. ASSUME new # <<>> PROVE old # <<>>
      <4>1. Len(new) # 0
        BY <1>6, <3>1, EmptySeq
      <4>2. Len(old) # 0
        BY <1>3, <1>8, <4>1
      <4> QED BY <4>2
    <3> QED BY <1>1, <3>1 DEF RunsOK
  <2>4. \A i \in 1 .. Len(old) : old[i].end < t.missing[Len(t.missing)].end
    BY <1>1 DEF RunsOK
  <2>5. \A i \in 1 .. Len(new) :
           new[i].from < new[i].end /\ new[i].end < t.missing[Len(t.missing)].end
    BY <1>4, <1>8, <2>4
  <2>6. ASSUME NEW i \in 1 .. Len(new), NEW j \in 1 .. Len(new), i < j
        PROVE  new[i].end < new[j].from
    <3>1. i + d < j + d /\ i + d \in 1 .. Len(old) /\ j + d \in 1 .. Len(old)
      BY <1>7, <1>8, <2>6
    <3> QED BY <1>4, <1>8, <3>1
  <2> QED BY <1>2, <2>2, <2>3, <2>5, <2>6 DEF RunsOK
<1>10. ASSUME NEW n \in Nat, number <= n PROVE InRuns(t, n) <=> InRuns(s, n)
  <2>1. ASSUME NEW i \in 1 .. Len(new), new[i].from <= n /\ n < new[i].end
        PROVE  InRuns(s, n)
    BY <1>1, <1>8, <2>1 DEF InRuns
  <2>2. ASSUME NEW i \in 1 .. Len(old), old[i].from <= n /\ n < old[i].end
        PROVE  InRuns(t, n)
    <3>1. ~(i <= d)
      <4>1. old[i].end > number
        BY <1>3, <1>10, <2>2
      <4>2. i <= d => old[i].end <= number
        BY <1>7
      <4> QED BY <1>3, <4>1, <4>2
    <3>2. i - d \in 1 .. Len(new) /\ i - d + d = i
      BY <1>3, <1>7, <3>1
    <3>3. new[i - d] = old[i]
      BY <1>8, <3>2
    <3> QED BY <1>2, <2>2, <3>2, <3>3 DEF InRuns
  <2> QED BY <1>1, <1>2, <2>1, <2>2 DEF InRuns
<1>11. ASSUME new # <<>>, Head(new).from <= number PROVE InRuns(s, number)
  <2>1. 1 \in 1 .. Len(new) /\ Head(new) = new[1]
    BY <1>6, <1>8, <1>11, EmptySeq
  <2>2. 1 + d \in d + 1 .. Len(old) /\ 1 + d \in 1 .. Len(old) /\ new[1] = old[1 + d]
    BY <1>3, <1>7, <1>8, <2>1
  <2>3. old[1 + d].end > number
    BY <1>7, <2>2
  <2>4. number < old[1 + d].end
    BY <1>3, <2>2, <2>3
  <2> QED BY <1>1, <1>11, <2>1, <2>2, <2>4 DEF InRuns
<1>12. ASSUME InRuns(s, number) PROVE new # <<>> /\ Head(new).from <= number
  <2>1. PICK i \in 1 .. Len(new) : new[i].from <= number /\ number < new[i].end
    BY <1>2, <1>10, <1>12 DEF InRuns
  <2>2. new # <<>> /\ 1 \in 1 .. Len(new) /\ Head(new) = new[1]
    BY <1>6, <1>8, <2>1, EmptySeq
  <2>3. i # 1 => new[1].end < new[i].from
    BY <1>2, <1>9, <2>1, <2>2 DEF RunsOK
  <2>4. /\ new[1].end \in Nat /\ new[i].from \in Nat /\ new[1].from \in Nat
        /\ new[1].from < new[1].end
    <3>1. 1 + d \in 1 .. Len(old) /\ new[1] = old[1 + d] /\ i + d \in 1 .. Len(old) /\ new[i] = old[i + d]
      BY <1>8, <2>2
    <3> QED BY <1>3, <1>4, <3>1
  <2>5. new[1].from <= number
    <3>1. CASE i = 1
      BY <2>1, <3>1
    <3>2. CASE i # 1
      BY <2>1, <2>3, <2>4, <3>2
    <3> QED BY <3>1, <3>2
  <2> QED BY <2>2, <2>5
<1> QED BY <1>2, <1>6, <1>9, <1>10, <1>11, <1>12

\* on_application of a batch, before what it completes is settled.
Onward(s) ==
    [s EXCEPT !.runs = Ahead(s.runs, s.replay.next),
              !.replay = IF s.replay.left = 1 THEN NoReplay
                         ELSE [next |-> s.replay.next + 1, left |-> s.replay.left - 1],
              !.request = [s.request EXCEPT !.delivered = s.request.delivered + 1, !.reported = FALSE,
                                            !.complete = s.replay.left = 1]]

Taken(s, books) ==
    IF InRuns(s, s.replay.next) THEN books ELSE Filed(books, s.replay.next, s.replay.next)

\* The next message of the batch: `after' are the books with it, unless it
\* arrived before.
LEMMA OnwardKeeps ==
    ASSUME NEW s \in Consumers, NEW books \in Books, NEW gone \in SUBSET Nat,
           NEW start \in Nat, Session(s, books, gone, start),
           s.phase \in {"established", "terminating"}, ~s.start, s.replay # NoReplay,
           NEW number, number = s.replay.next,
           NEW after, after = Taken(s, books),
           NEW t, t = Onward(s)
    PROVE  /\ number \in Numbers /\ number \notin gone /\ after \in Books
           /\ t \in Consumers /\ Session(t, after, gone, start)
           /\ t.phase = s.phase /\ t.next = s.next /\ ~t.start /\ t.announced = s.announced
           /\ t.request.count = s.request.count /\ t.request.delivered = s.request.delivered + 1
           /\ s.replay.left = 1 => t.replay = NoReplay
           /\ s.replay.left # 1 =>
                 /\ t.replay # NoReplay /\ t.replay.next = number + 1
                 /\ t.replay.left = s.replay.left - 1
           /\ s.request.delivered + s.replay.left <= s.request.count /\ 1 <= s.replay.left
<1>1. /\ GapsOK(s) /\ RunsOK(s) /\ RequestOK(s) /\ StartOK(s, start) /\ FinishOK(s)
      /\ BooksOK(s, books, gone, start)
  BY DEF Session
<1>2. PICK from : from = s.request.from
  OBVIOUS
<1>3. PICK count : count = s.request.count
  OBVIOUS
<1>4. PICK done : done = s.request.delivered
  OBVIOUS
<1>5. PICK left : left = s.replay.left
  OBVIOUS
<1>6. from \in Nat /\ count \in Nat /\ done \in Nat /\ left \in Nat /\ number \in Nat
  BY <1>2, <1>3, <1>4, <1>5, ConsumerFields
<1>7. /\ s.request # NoRequest /\ number = from + done /\ 1 <= left /\ done + left <= count
      /\ ~s.request.interrupted /\ ~s.request.complete
  BY <1>1, <1>2, <1>3, <1>4, <1>5 DEF RequestOK
<1>8. /\ s.missing # <<>> /\ from = s.missing[1].from /\ from + count <= s.missing[1].end
  BY <1>1, <1>2, <1>3, <1>7 DEF RequestOK
<1>9. /\ 1 \in 1 .. Len(s.missing) /\ s.missing[1].end \in Nat /\ 1 <= from
      /\ s.missing[1].end <= s.next /\ s.next \in Nat /\ s.next <= MaxSeq + 1
  BY <1>1, <1>8, RangeFacts, ConsumerFields, Constants
<1>10. from <= number /\ number < s.missing[1].end /\ number < from + count /\ number < s.next
  <2>1. PICK end : end = s.missing[1].end
    OBVIOUS
  <2>2. /\ end \in Nat /\ from + count <= end /\ end <= s.next /\ s.next \in Nat
        /\ number = from + done /\ 1 <= left /\ done + left <= count
    BY <1>7, <1>8, <1>9, <2>1
  <2>3. from <= number /\ number < end /\ number < from + count /\ number < s.next
    BY ONLY <1>6, <2>2
  <2> QED BY <2>1, <2>3
<1>11. number \in Numbers /\ \A n \in Numbers : n \in Nat
  BY <1>6, <1>9, <1>10, Constants
<1>12. Missing(s, number) /\ ~Delivered(s, number)
  BY <1>2, <1>4, <1>6, <1>7, <1>8, <1>9, <1>10 DEF Missing, Delivered
<1>13. number \notin gone
  <2>1. \A n \in gone : n \in Nat /\ n < s.missing[1].from
    BY <1>1, <1>9 DEF BooksOK
  <2> QED BY <1>6, <1>8, <1>10, <2>1
<1>14. /\ books[number] # <<>> <=> InRuns(s, number)
       /\ books[number] \in {<<>>, <<number>>}
  BY <1>1, <1>11, <1>12 DEF BooksOK
<1>15. /\ after \in Books /\ after[number] = <<number>>
       /\ \A k \in Numbers : k # number => after[k] = books[k]
  <2>1. CASE InRuns(s, number)
    BY <1>14, <2>1 DEF Taken
  <2>2. CASE ~InRuns(s, number)
    <3>1. books[number] = <<>> /\ after = Filed(books, number, number)
      BY <1>14, <2>2 DEF Taken
    <3> QED BY <1>11, <3>1, FiledIs
  <2> QED BY <2>1, <2>2
<1>16. PICK runs : runs = Ahead(s.runs, number)
  OBVIOUS
<1>17. PICK replay : replay = IF left = 1 THEN NoReplay ELSE [next |-> number + 1, left |-> left - 1]
  OBVIOUS
<1>0. PICK ends \in BOOLEAN : ends <=> left = 1
  OBVIOUS
<1>18. PICK request : request = [s.request EXCEPT !.delivered = done + 1, !.reported = FALSE,
                                                  !.complete = left = 1]
  OBVIOUS
<1>19. t = [s EXCEPT !.runs = runs, !.replay = replay, !.request = request]
  BY <1>4, <1>5, <1>16, <1>17, <1>18, Zenon DEF Onward
<1>20. /\ request \in Requests /\ request.from = from /\ request.count = count
       /\ request.delivered = done + 1 /\ ~request.interrupted /\ (request.complete <=> left = 1)
  <2>1. s.request \in Requests /\ done + 1 \in Nat
    BY <1>6, ConsumerFields
  <2>2. (left = 1) = ends
    BY <1>0, Zenon
  <2>3. request = [s.request EXCEPT !.delivered = done + 1, !.reported = FALSE, !.complete = ends]
    BY <1>18, <2>2, Zenon
  <2>4. /\ request \in Requests /\ request.from = s.request.from /\ request.count = s.request.count
        /\ request.delivered = done + 1 /\ (request.interrupted <=> s.request.interrupted)
        /\ (request.complete <=> ends)
    BY ONLY <2>1, <2>3, ends \in BOOLEAN DEF Requests
  <2> QED BY <1>0, <1>2, <1>3, <1>7, <2>4
<1>21. /\ replay \in [next : Nat, left : Nat]
       /\ left = 1 => replay = NoReplay
       /\ left # 1 => /\ replay # NoReplay /\ replay.next = number + 1 /\ replay.left = left - 1
                      /\ 1 <= replay.left
  <2>1. CASE left = 1
    BY <1>17, <2>1, None
  <2>2. CASE left # 1
    <3>1. replay = [next |-> number + 1, left |-> left - 1]
      BY <1>17, <2>2
    <3>2. left - 1 \in Nat /\ 1 <= left - 1 /\ number + 1 \in Nat
      BY <1>6, <1>7, <2>2
    <3>3. replay.left = left - 1 /\ replay.next = number + 1 /\ replay \in [next : Nat, left : Nat]
      BY <3>1, <3>2
    <3>4. replay # NoReplay
      BY <3>2, <3>3, None
    <3> QED BY <2>2, <3>2, <3>3, <3>4
  <2> QED BY <2>1, <2>2
<1>22. runs \in Seq(Ranges)
  <2>1. PICK u : u = [missing |-> s.missing, runs |-> runs]
    OBVIOUS
  <2>2. u.missing = s.missing /\ u.runs = Ahead(s.runs, number)
    BY <1>16, <2>1
  <2>3. u.runs \in Seq(Ranges)
    BY <1>1, <1>6, <2>2, RunsLeft
  <2> QED BY <2>1, <2>3
<1>23. /\ t \in Consumers /\ t.next = s.next /\ ~t.start /\ t.missing = s.missing
       /\ t.runs = runs /\ t.request = request /\ t.replay = replay
       /\ t.finished = s.finished /\ t.phase = s.phase /\ t.announced = s.announced
  BY <1>19, <1>20, <1>21, <1>22, ZenonT(20) DEF Consumers
<1>24. GapsOK(t) /\ FinishOK(t)
  BY <1>1, <1>23 DEF GapsOK, FinishOK
<1>25. /\ RunsOK(t)
       /\ \A n \in Nat : number <= n => (InRuns(t, n) <=> InRuns(s, n))
  BY <1>1, <1>6, <1>16, <1>23, RunsLeft
<1>26. RequestOK(t)
  <2>1. done + 1 <= count /\ from + (done + 1) = number + 1
    BY <1>6, <1>7
  <2>2. request # NoRequest
    BY <1>6, <1>20, None
  <2>3. left # 1 => done + 1 + (left - 1) <= count
    BY <1>6, <1>7
  <2>4. t.missing # <<>> /\ t.request.from = t.missing[1].from
        /\ t.request.from + t.request.count <= t.missing[1].end
        /\ t.request.delivered <= t.request.count
    BY <1>8, <1>20, <1>23, <2>1
  <2>5. t.replay # NoReplay =>
          /\ t.request # NoRequest
          /\ t.replay.next = t.request.from + t.request.delivered
          /\ 1 <= t.replay.left /\ t.request.delivered + t.replay.left <= t.request.count
    BY <1>20, <1>21, <1>23, <2>1, <2>2, <2>3
  <2>6. t.request.interrupted \/ t.request.complete => t.replay = NoReplay
    BY <1>20, <1>21, <1>23
  <2> QED BY ONLY <2>4, <2>5, <2>6 DEF RequestOK
<1>27. StartOK(t, start)
  BY <1>1, <1>23 DEF StartOK
<1>28. BooksOK(t, after, gone, start)
  <2>1. \A n : Missing(t, n) <=> Missing(s, n)
    BY <1>23 DEF Missing
  <2>2. ASSUME NEW n \in Numbers
        PROVE  /\ after[n] \in {<<>>, <<n>>}
               /\ after[n] # <<>> => n < t.next
               /\ Missing(t, n) => (after[n] # <<>> <=> InRuns(t, n) \/ Delivered(t, n))
               /\ start # 0 /\ start <= n /\ n < t.next =>
                     after[n] # <<>> \/ n \in gone \/ Missing(t, n)
    <3>1. CASE n = number
      <4>1. Delivered(t, n)
        BY <1>6, <1>7, <1>20, <1>23, <3>1 DEF Delivered
      <4>2. after[n] = <<n>> /\ after[n] # <<>> /\ n < t.next
        <5>1. after[n] = <<n>>
          BY <1>15, <3>1
        <5>2. <<n>> # <<>>
          OBVIOUS
        <5>3. n < t.next
          BY <1>10, <1>23, <3>1
        <5> QED BY ONLY <5>1, <5>2, <5>3
      <4> QED BY ONLY <4>1, <4>2
    <3>2. CASE n # number
      <4>1. after[n] = books[n] /\ n \in Nat
        BY <1>11, <1>15, <3>2
      <4>2. /\ books[n] \in {<<>>, <<n>>}
            /\ books[n] # <<>> => n < s.next
            /\ Missing(s, n) => (books[n] # <<>> <=> InRuns(s, n) \/ Delivered(s, n))
            /\ start # 0 /\ start <= n /\ n < s.next =>
                  books[n] # <<>> \/ n \in gone \/ Missing(s, n)
        BY <1>1 DEF BooksOK
      <4>3. Delivered(t, n) <=> Delivered(s, n)
        <5>1. t.request.from = from /\ t.request.delivered = done + 1
              /\ s.request.from = from /\ s.request.delivered = done
          BY <1>2, <1>4, <1>20, <1>23
        <5>2. n < from + (done + 1) <=> n < from + done
          BY <1>6, <1>7, <3>2, <4>1
        <5> QED BY ONLY <5>1, <5>2 DEF Delivered
      <4>4. ASSUME Missing(s, n) PROVE Delivered(s, n) \/ (InRuns(t, n) <=> InRuns(s, n))
        <5>1. CASE n < number
          <6>1. from <= n
            BY <1>1, <1>8, <4>1, <4>4, FirstGap
          <6> QED BY <1>2, <1>4, <1>7, <5>1, <6>1 DEF Delivered
        <5>2. CASE number <= n
          BY <1>25, <4>1, <5>2
        <5> QED BY <1>6, <4>1, <5>1, <5>2
      <4> QED BY ONLY <1>23, <2>1, <4>1, <4>2, <4>3, <4>4
    <3> QED BY <3>1, <3>2
  <2>3. /\ start <= t.next /\ \A i \in 1 .. Len(t.missing) : start <= t.missing[i].from
        /\ \A n \in gone : 1 <= n /\ n < t.next /\ \A i \in 1 .. Len(t.missing) : n < t.missing[i].from
    BY <1>1, <1>23 DEF BooksOK
  <2> QED BY ONLY <2>2, <2>3 DEF BooksOK
<1>29. Session(t, after, gone, start)
  BY <1>24, <1>25, <1>26, <1>27, <1>28 DEF Session
<1> QED BY <1>3, <1>4, <1>5, <1>7, <1>11, <1>13, <1>15, <1>20, <1>21, <1>23, <1>29

\* The next message of the batch, and what is left of it.
GoesOn(s, r, gone) ==
    /\ r.accept = IF InRuns(s, s.replay.next) THEN 0 ELSE s.replay.next
    /\ s.replay.next \in Numbers /\ s.replay.next \notin gone
    /\ r.s.phase = s.phase /\ r.s.next = s.next /\ r.s.announced = s.announced
    /\ s.replay.left = 1 => r.s.replay = NoReplay
    /\ s.replay.left # 1 =>
          /\ r.s.replay # NoReplay /\ r.s.replay.next = s.replay.next + 1
          /\ r.s.replay.left = s.replay.left - 1

\* on_application of a batch: the message is delivered unless it arrived
\* before, and a request that is complete is settled.
LEMMA ReplayedKeeps ==
    ASSUME NEW s \in Consumers, NEW books \in Books, NEW gone \in SUBSET Nat,
           NEW start \in Nat, Session(s, books, gone, start),
           s.phase \in {"established", "terminating"}, ~s.start, s.replay # NoReplay,
           NEW after, after = Taken(s, books), NEW r, r = OnReplayed(s)
    PROVE  /\ r \in Results /\ r.open /\ r.gone = {} /\ ~r.s.start
           /\ after \in Books /\ Session(r.s, after, gone, start) /\ GoesOn(s, r, gone)
<1>0. PICK number : number = s.replay.next
  OBVIOUS
<1>1. PICK t : t = Onward(s)
  OBVIOUS
<1>2. PICK q : q = IF t.request.delivered >= t.request.count THEN SettleRequest(t)
                   ELSE Result(t, <<>>)
  OBVIOUS
<1>3. PICK runs : runs = Ahead(s.runs, number)
  OBVIOUS
<1>4. r = [q EXCEPT !.accept = IF runs # <<>> /\ Head(runs).from <= number THEN 0 ELSE number]
  BY <1>0, <1>1, <1>2, <1>3, Zenon DEF OnReplayed, Onward, Ahead
<1>5. /\ number \in Numbers /\ number \notin gone /\ after \in Books
      /\ t \in Consumers /\ Session(t, after, gone, start)
      /\ t.phase = s.phase /\ t.next = s.next /\ ~t.start /\ t.announced = s.announced
      /\ t.request.count = s.request.count /\ t.request.delivered = s.request.delivered + 1
      /\ s.replay.left = 1 => t.replay = NoReplay
      /\ s.replay.left # 1 =>
            /\ t.replay # NoReplay /\ t.replay.next = number + 1
            /\ t.replay.left = s.replay.left - 1
      /\ s.request.delivered + s.replay.left <= s.request.count /\ 1 <= s.replay.left
  <2>1. /\ number \in Numbers /\ number \notin gone /\ after \in Books
        /\ t \in Consumers /\ Session(t, after, gone, start)
    BY <1>0, <1>1, OnwardKeeps
  <2>2. /\ t.phase = s.phase /\ t.next = s.next /\ ~t.start /\ t.announced = s.announced
        /\ t.request.count = s.request.count /\ t.request.delivered = s.request.delivered + 1
        /\ s.replay.left = 1 => t.replay = NoReplay
        /\ s.replay.left # 1 =>
              /\ t.replay # NoReplay /\ t.replay.next = number + 1
              /\ t.replay.left = s.replay.left - 1
        /\ s.request.delivered + s.replay.left <= s.request.count /\ 1 <= s.replay.left
    BY <1>0, <1>1, OnwardKeeps
  <2> QED BY ONLY <2>1, <2>2
<1>6. number \in Nat
  BY <1>0, ConsumerFields
<1>7. runs # <<>> /\ Head(runs).from <= number <=> InRuns(s, number)
  <2>1. PICK u : u = [missing |-> s.missing, runs |-> runs]
    OBVIOUS
  <2>2. u.missing = s.missing /\ u.runs = Ahead(s.runs, number) /\ u.runs = runs
    BY <1>3, <2>1
  <2>3. RunsOK(s)
    BY DEF Session
  <2>4. u.runs # <<>> /\ Head(u.runs).from <= number <=> InRuns(s, number)
    BY <1>6, <2>2, <2>3, RunsLeft
  <2> QED BY ONLY <2>2, <2>4
<1>8. /\ Quiet(q) /\ q.open /\ Session(q.s, after, gone, start)
      /\ q.s.phase = t.phase /\ q.s.next = t.next /\ ~q.s.start /\ q.s.announced = t.announced
      /\ s.replay.left = 1 => q.s.replay = NoReplay
      /\ s.replay.left # 1 => q.s.replay = t.replay
  <2>1. CASE t.request.delivered >= t.request.count
    <3>1. PICK k : k = t.request.count
      OBVIOUS
    <3>2. PICK more : more = {}
      OBVIOUS
    <3>3. q = SettleRequest(t)
      BY <1>2, <2>1
    <3>4. SettledTo(t, k, after, more)
      <4>1. k \in Nat /\ t.request.delivered \in Nat /\ t.request.from \in Nat /\ Numbers \subseteq Nat
        BY <1>5, <3>1, ConsumerFields, Constants
      <4>2. \A n \in Numbers : t.request.from <= n /\ n < t.request.from + k => Delivered(t, n)
        BY <2>1, <3>1, <4>1 DEF Delivered
      <4>3. \A n \in Numbers : Delivered(t, n) => after[n] # <<>>
        BY <1>5, DeliveredAre
      <4> QED BY <3>1, <3>2, <4>2, <4>3 DEF SettledTo
    <3>5. t \in Consumers /\ Session(t, after, gone, start)
      BY <1>5
    <3>6. SettledIn(q, t, after, gone, start)
      <4>1. gone = gone \union more
        BY <3>2
      <4> QED BY ONLY <3>1, <3>3, <3>4, <3>5, <4>1, SettlesIn, gone \in SUBSET Nat, start \in Nat
    <3>7. s.replay.left = 1
      <4>1. /\ s.replay.left \in Nat /\ s.request.delivered \in Nat /\ s.request.count \in Nat
        BY ConsumerFields
      <4> QED BY <1>5, <2>1, <4>1
    <3> QED BY ONLY <1>5, <3>6, <3>7 DEF SettledIn
  <2>2. CASE ~(t.request.delivered >= t.request.count)
    <3>1. q = Result(t, <<>>) /\ <<>> \in Seq(Replies) /\ t \in Consumers
      BY <1>2, <1>5, <2>2
    <3>2. Quiet(q) /\ q.open /\ q.s = t
      BY ONLY <3>1, Stays
    <3> QED BY ONLY <1>5, <3>2
  <2> QED BY <2>1, <2>2
<1>9. /\ r \in Results /\ r.s = q.s /\ r.open = q.open /\ r.gone = {}
      /\ r.accept = IF InRuns(s, number) THEN 0 ELSE number
  <2>1. q \in Results /\ q.gone = {}
    BY <1>8 DEF Quiet
  <2>2. PICK accept \in Nat : /\ accept = IF InRuns(s, number) THEN 0 ELSE number
                              /\ r = [q EXCEPT !.accept = accept]
    BY <1>4, <1>6, <1>7
  <2> QED BY ONLY <2>1, <2>2 DEF Results
<1>10. /\ r \in Results /\ r.open /\ r.gone = {} /\ ~r.s.start
       /\ after \in Books /\ Session(r.s, after, gone, start)
  BY ONLY <1>5, <1>8, <1>9
<1>11. GoesOn(s, r, gone)
  BY ONLY <1>0, <1>5, <1>8, <1>9 DEF GoesOn
<1> QED BY <1>10, <1>11

\* Handlers that end the binding: what was delivered is settled first.
LEMMA UnboundKeeps ==
    ASSUME NEW s \in Consumers, NEW books, NEW gone \in SUBSET Nat, NEW start \in Nat,
           Session(s, books, gone, start), NEW t, t = Unbound("consumer", ReleaseConsumer(s))
    PROVE  /\ t \in Consumers /\ Session(t, books, gone, start)
           /\ t.next = s.next /\ t.start = s.start /\ t.announced = s.announced
           /\ t.phase \in {"negotiated", "finalized"}
<1>1. PICK why \in Verdicts : why = "none"
  BY DEF Verdicts
<1>2. PICK r : r = FailWith("consumer", s, "Error", why)
  OBVIOUS
<1>3. /\ Quiet(r) /\ ~r.open /\ Session(r.s, books, gone, start)
      /\ r.s.next = s.next /\ r.s.start = s.start /\ r.s.announced = s.announced
  BY <1>2, FailKeeps
<1>4. r.s = t
  BY <1>2 DEF FailWith, Result, Release
<1> QED BY <1>3, <1>4 DEF Quiet, Results

\* A session that is not bound, or binds no more, keeps what it had.
Rephased(s, phase, announced) == [s EXCEPT !.phase = phase, !.announced = announced]
LEMMA PhaseKeeps ==
    ASSUME NEW s \in Consumers, NEW books, NEW gone \in SUBSET Nat, NEW start \in Nat,
           Session(s, books, gone, start), s.phase \notin {"established", "terminating"},
           NEW phase \in Phases, NEW announced \in Nat, phase \notin {"established", "terminating"},
           NEW t, t = Rephased(s, phase, announced)
    PROVE  /\ t \in Consumers /\ Session(t, books, gone, start)
           /\ t.next = s.next /\ t.start = s.start /\ t.announced = announced /\ t.phase = phase
<1>1. /\ t \in Consumers /\ t.next = s.next /\ t.start = s.start /\ t.missing = s.missing
      /\ t.runs = s.runs /\ t.request = s.request /\ t.replay = s.replay
      /\ t.finished = s.finished /\ t.announced = announced /\ t.phase = phase
  BY DEF Consumers, Rephased
<1>2. s.request = NoRequest /\ s.replay = NoReplay
  BY DEF Session, StartOK
<1>3. Session(t, books, gone, start)
  BY <1>1, <1>2, SameSession
<1> QED BY <1>1, <1>3

\* on_terminate: an answer that was awaited ends the binding, and a request
\* to end it is answered.
LEMMA TerminateKeeps ==
    ASSUME NEW s \in Consumers, NEW books, NEW gone \in SUBSET Nat, NEW start \in Nat,
           Session(s, books, gone, start), NEW m, NEW r, r = OnTerminate("consumer", s, m)
    PROVE  /\ r \in Results /\ r.accept = 0 /\ r.gone = {} /\ Session(r.s, books, gone, start)
           /\ r.s.next = s.next /\ r.s.start = s.start /\ r.s.announced = s.announced
           /\ r.open => r.s.phase = "closing"
           /\ ~r.open => r.s.phase \in {"negotiated", "finalized"}
<1>1. PICK u : u = ReleaseConsumer(s)
  OBVIOUS
<1>2. /\ u \in Consumers /\ Session(u, books, gone, start)
      /\ u.next = s.next /\ u.start = s.start /\ u.announced = s.announced
      /\ u.request = NoRequest /\ u.replay = NoReplay
  BY <1>1, ReleaseKeeps
<1>3. PICK final \in BOOLEAN :
         final = (u.finalized \/ ("consumer" = "consumer" /\ s.finished.answered /\ m.code = "Finished"))
  OBVIOUS
<1>4. PICK t : t = [u EXCEPT !.finalized = final]
  OBVIOUS
<1>5. /\ t \in Consumers /\ t.next = u.next /\ t.start = u.start /\ t.missing = u.missing
      /\ t.runs = u.runs /\ t.request = NoRequest /\ t.replay = NoReplay
      /\ t.finished = u.finished /\ t.announced = u.announced /\ t.phase = u.phase
  BY <1>2, <1>4 DEF Consumers
<1>6. ASSUME NEW phase \in Phases, NEW v, v = [t EXCEPT !.phase = phase]
      PROVE  /\ v \in Consumers /\ Session(v, books, gone, start) /\ v.phase = phase
             /\ v.next = s.next /\ v.start = s.start /\ v.announced = s.announced
  <2>1. /\ v \in Consumers /\ v.next = u.next /\ v.start = u.start /\ v.missing = u.missing
        /\ v.runs = u.runs /\ v.request = u.request /\ v.replay = u.replay
        /\ v.finished = u.finished /\ v.announced = u.announced /\ v.phase = phase
    BY ONLY <1>2, <1>5, <1>6 DEF Consumers
  <2>2. Session(v, books, gone, start)
    BY <1>2, <2>1, SameSession
  <2> QED BY <1>2, <2>1, <2>2
<1>7. CASE s.phase = "terminating"
  <2>1. PICK phase \in Phases : phase = IF t.finalized THEN "finalized" ELSE "negotiated"
    BY DEF Phases
  <2>2. PICK v : v = [t EXCEPT !.phase = phase]
    OBVIOUS
  <2>3. r = [Result(v, <<>>) EXCEPT !.open = FALSE]
    BY <1>1, <1>3, <1>4, <1>7, <2>1, <2>2 DEF OnTerminate, Release, Unbound
  <2>4. /\ v \in Consumers /\ Session(v, books, gone, start) /\ v.phase = phase
        /\ v.next = s.next /\ v.start = s.start /\ v.announced = s.announced
    BY <1>6, <2>2
  <2>5. r \in Results /\ r.s = v /\ ~r.open /\ r.accept = 0 /\ r.gone = {}
    <3>1. PICK q : q = Result(v, <<>>)
      OBVIOUS
    <3>2. Quiet(q) /\ q.s = v
      <4>1. v \in Consumers /\ <<>> \in Seq(Replies)
        BY <2>4
      <4> QED BY ONLY <3>1, <4>1, Stays, ZenonT(20)
    <3>3. r = [q EXCEPT !.open = FALSE] /\ q \in Results /\ q.accept = 0 /\ q.gone = {}
      BY <2>3, <3>1, <3>2 DEF Quiet
    <3> QED BY ONLY <3>2, <3>3 DEF Results
  <2> QED BY <2>1, <2>4, <2>5
<1>8. CASE s.phase # "terminating"
  <2>1. PICK phase \in Phases : phase = "closing"
    BY DEF Phases
  <2>2. PICK v : v = [t EXCEPT !.phase = phase]
    OBVIOUS
  <2>3. PICK send \in Seq(Replies) : send = <<TerminateMsg("Finished")>>
    BY ConsumerSends
  <2>4. r = Result(v, send)
    BY <1>1, <1>3, <1>4, <1>8, <2>1, <2>2, <2>3 DEF OnTerminate, Release
  <2>5. /\ v \in Consumers /\ Session(v, books, gone, start) /\ v.phase = phase
        /\ v.next = s.next /\ v.start = s.start /\ v.announced = s.announced
    BY <1>6, <2>2
  <2>6. Quiet(r) /\ r.open /\ r.s = v
    BY <2>4, <2>5, Stays
  <2> QED BY <2>1, <2>5, <2>6 DEF Quiet
<1> QED BY <1>7, <1>8

-----------------------------------------------------------------------------
(* A step of either side                                                    *)

LEMMA TheSides ==
    /\ Sides = {"consumer", "provider"} /\ "consumer" # "provider"
    /\ Other("consumer") = "provider" /\ Other("provider") = "consumer"
    /\ Client \in Sides /\ Server \in Sides /\ Client # Server
    /\ Client = "consumer" <=> Server = "provider"
    /\ Client = "provider" <=> Server = "consumer"
BY FlagsAssumption DEF Sides, Other, Client, Server

LEMMA SidesHave ==
    ASSUME FlowInv
    PROVE  /\ consumer \in Consumers /\ provider \in Providers
           /\ side["consumer"] = consumer /\ side["provider"] = provider
           /\ chan["consumer"] \in Seq(Message) /\ chan["provider"] \in Seq(Message)
           /\ up["consumer"] \in BOOLEAN /\ up["provider"] \in BOOLEAN
           /\ consumer.next \in Nat /\ provider.next \in Nat /\ 1 <= provider.next
           /\ provider.next \in 1 .. MaxSeq + 1
           /\ handed \in Books /\ abandoned \in SUBSET Nat /\ origin \in Nat
           /\ Session(consumer, handed, abandoned, origin)
           /\ Reached(chan.consumer, provider.next)
<1>1. FlowTypeOK /\ Session(consumer, handed, abandoned, origin) /\ NextOK
  BY DEF FlowInv
<1>2. consumer \in Consumers /\ provider \in Providers
  BY <1>1 DEF FlowTypeOK, consumer, provider
<1>3. side["consumer"] = consumer /\ side["provider"] = provider
  BY DEF consumer, provider
<1>4. chan["consumer"] \in Seq(Message) /\ chan["provider"] \in Seq(Message)
      /\ up["consumer"] \in BOOLEAN /\ up["provider"] \in BOOLEAN
  BY <1>1 DEF FlowTypeOK, Sides
<1>5. provider.next \in 1 .. MaxSeq + 1 /\ consumer.next \in 1 .. MaxSeq + 1
  BY <1>2 DEF Providers, Consumers
<1>6. consumer.next \in Nat /\ provider.next \in Nat /\ 1 <= provider.next
  BY <1>5, Constants
<1> QED BY <1>1, <1>2, <1>3, <1>4, <1>5, <1>6 DEF FlowTypeOK, NextOK

\* What a number of a batch is bounded by.
LEMMA ContextOK ==
    ASSUME NEW s \in Consumers, GapsOK(s), RequestOK(s), Context(s).kind = "Retransmission"
    PROVE  /\ Context(s).next \in Nat /\ Context(s).count \in Nat \ {0}
           /\ Context(s).next + Context(s).count <= s.next
           /\ s.replay # NoReplay /\ Context(s) = Retransmission(0, s.replay.next, s.replay.left)
<1>1. s.replay # NoReplay /\ Context(s) = Retransmission(0, s.replay.next, s.replay.left)
  BY DEF Context, Unknown, SequenceMsg
<1>2. Context(s).next = s.replay.next /\ Context(s).count = s.replay.left
  BY <1>1 DEF Retransmission
<1>3. /\ s.replay.next \in Nat /\ s.replay.left \in Nat /\ s.request.from \in Nat
      /\ s.request.count \in Nat /\ s.request.delivered \in Nat /\ s.next \in Nat
  BY ConsumerFields
<1>4. /\ s.request # NoRequest /\ s.replay.next = s.request.from + s.request.delivered
      /\ 1 <= s.replay.left /\ s.request.delivered + s.replay.left <= s.request.count
  BY <1>1 DEF RequestOK
<1>5. s.missing # <<>> /\ s.request.from + s.request.count <= s.missing[1].end
  BY <1>4 DEF RequestOK
<1>6. s.missing[1].end \in Nat /\ s.missing[1].end <= s.next
  BY <1>5, RangeFacts
<1>7. PICK end : end = s.missing[1].end
  OBVIOUS
<1>8. s.replay.next + s.replay.left <= s.next
  <2>1. /\ end \in Nat /\ end <= s.next /\ s.request.from + s.request.count <= end
    BY <1>5, <1>6, <1>7
  <2> QED BY ONLY <1>3, <1>4, <2>1
<1>9. s.replay.left \in Nat \ {0}
  BY <1>3, <1>4
<1> QED BY ONLY <1>1, <1>2, <1>3, <1>8, <1>9

\* What a channel holds of one kind.
LEMMA KindsBehind ==
    ASSUME NEW u \in Seq(Message), NEW v \in Seq(Message), NEW kind, Without(v, kind)
    PROVE  /\ Without(u, kind) => Without(u \o v, kind)
           /\ Lone(u, kind) => Lone(u \o v, kind)
<1>1. /\ Len(u) \in Nat /\ Len(v) \in Nat /\ Len(u \o v) = Len(u) + Len(v)
      /\ \A i \in 1 .. Len(u \o v) :
            \/ i \in 1 .. Len(u) /\ (u \o v)[i] = u[i]
            \/ i - Len(u) \in 1 .. Len(v) /\ (u \o v)[i] = v[i - Len(u)]
  BY ConcatProperties, LenProperties
<1>2. \A i \in 1 .. Len(u \o v) : (u \o v)[i].kind = kind => i \in 1 .. Len(u) /\ u[i].kind = kind
  BY <1>1 DEF Without
<1> QED BY <1>2 DEF Without, Lone

LEMMA OneBehind ==
    ASSUME NEW u \in Seq(Message), NEW v \in Seq(Message), NEW kind, Without(u, kind), Lone(v, kind)
    PROVE  Lone(u \o v, kind)
<1>1. /\ Len(u) \in Nat /\ Len(v) \in Nat /\ Len(u \o v) = Len(u) + Len(v)
      /\ \A i \in 1 .. Len(u \o v) :
            \/ i \in 1 .. Len(u) /\ (u \o v)[i] = u[i]
            \/ i - Len(u) \in 1 .. Len(v) /\ (u \o v)[i] = v[i - Len(u)]
  BY ConcatProperties, LenProperties
<1>2. \A i \in 1 .. Len(u \o v) : (u \o v)[i].kind = kind =>
          i - Len(u) \in 1 .. Len(v) /\ v[i - Len(u)].kind = kind
  BY <1>1 DEF Without
<1>3. ASSUME NEW i \in 1 .. Len(u \o v), NEW j \in 1 .. Len(u \o v),
             (u \o v)[i].kind = kind, (u \o v)[j].kind = kind
      PROVE  i = j
  <2>1. i - Len(u) = j - Len(u)
    BY <1>2, <1>3 DEF Lone
  <2>2. i \in Int /\ j \in Int
    OBVIOUS
  <2> QED BY ONLY <1>1, <2>1, <2>2
<1> QED BY <1>3 DEF Lone

LEMMA KindsLeft ==
    ASSUME NEW u \in Seq(Message), u # <<>>, NEW kind
    PROVE  /\ Without(u, kind) => Without(Tail(u), kind)
           /\ Lone(u, kind) => Lone(Tail(u), kind)
           /\ Lone(u, kind) /\ Head(u).kind = kind => Without(Tail(u), kind)
<1>1. /\ Len(u) \in Nat /\ Len(Tail(u)) \in Nat /\ Len(u) = Len(Tail(u)) + 1 /\ Head(u) = u[1]
      /\ 1 \in 1 .. Len(u)
      /\ \A i \in 1 .. Len(Tail(u)) : Tail(u)[i] = u[i + 1] /\ i + 1 \in 1 .. Len(u) /\ i + 1 # 1
  BY HeadTailProperties, LenProperties, EmptySeq
<1>2. ASSUME Lone(u, kind), NEW i \in 1 .. Len(Tail(u)), NEW j \in 1 .. Len(Tail(u)),
             Tail(u)[i].kind = kind, Tail(u)[j].kind = kind
      PROVE  i = j
  <2>1. i + 1 = j + 1
    BY <1>1, <1>2 DEF Lone
  <2> QED BY <2>1
<1>3. ASSUME Lone(u, kind), Head(u).kind = kind, NEW i \in 1 .. Len(Tail(u))
      PROVE  Tail(u)[i].kind # kind
  BY <1>1, <1>3 DEF Lone
<1> QED BY <1>1, <1>2, <1>3 DEF Without, Lone

LEMMA NoneIsLone ==
    ASSUME NEW u, NEW kind, Without(u, kind)
    PROVE  Lone(u, kind)
BY DEF Without, Lone

\* The consumer as the client: it sends an Establish when the last one was
\* rejected, and comes back to that only by the rejection.
Greets(r, unread) ==
    ConsumerIsClient =>
        \/ /\ Without(r.send, "Establish")
           /\ r.open /\ r.s.phase \in {"negotiated", "establishing"} =>
                 \/ /\ r.s.phase = consumer.phase
                    /\ unread \in {chan["consumer"], Tail(chan["consumer"])}
                    /\ chan["consumer"] # <<>> \/ unread = chan["consumer"]
                 \/ /\ r.s.phase = "negotiated"
                    /\ Calm /\ Without(unread, "EstablishmentReject")
        \/ /\ r.s.phase = "establishing" /\ consumer.phase = "negotiated"
           /\ Lone(r.send, "Establish") /\ unread = chan["consumer"]

\* A step of the consumer.
Steps(r, unread, books, gone, begun) ==
    /\ r.s \in Consumers /\ r.send \in Seq(Message) /\ unread \in Seq(Message)
    /\ books \in Books /\ gone \in SUBSET Nat /\ begun \in Nat
    /\ Session(r.s, books, gone, begun)
    /\ r.s.next <= provider.next /\ r.s.announced <= provider.next
    /\ r.s.phase = "pending" => 1 <= r.s.announced
    /\ ~r.open => r.s.phase \notin Busy
    /\ r.s.phase \in {"established", "terminating", "closing"} => ~r.s.start
    /\ r.s.phase = "closed" => ConsumerIsClient
    /\ Greets(r, unread)
    /\ r.open /\ r.s.phase \notin {"closing", "finalized", "closed"} =>
          Numbered(Context(r.s), unread \o Ready(provider))
    /\ Reached(unread, provider.next)

LEMMA ConsumerStep ==
    ASSUME FlowInv, up["consumer"], NEW r, NEW unread, NEW n, Carry("consumer", r, unread, n),
           NEW books, NEW gone, NEW begun,
           books = IF r.accept = 0 THEN handed ELSE [handed EXCEPT ![n] = Append(@, r.accept)],
           gone = abandoned \union r.gone,
           begun = IF consumer.start /\ ~r.s.start
                   THEN (IF r.accept = 0 THEN r.s.next ELSE r.accept) ELSE origin,
           Steps(r, unread, books, gone, begun)
    PROVE  FlowInv'
<1> USE TheSides, SidesHave
<1>1. /\ side' = [side EXCEPT !["consumer"] = r.s]
      /\ up' = [up EXCEPT !["consumer"] = @ /\ r.open]
      /\ chan' = [chan EXCEPT !["consumer"] = IF r.open THEN unread ELSE <<>>,
                              !["provider"] = IF up["provider"] THEN @ \o r.send ELSE @]
      /\ handed' = books /\ abandoned' = gone /\ origin' = begun /\ transports' = transports
  BY DEF Carry
<1>2. FlowTypeOK /\ LetGo /\ NextOK
  BY DEF FlowInv
<1>3. /\ side' \in [consumer : Consumers, provider : Providers]
      /\ consumer' = r.s /\ provider' = provider
      /\ side'["consumer"] = r.s /\ side'["provider"] = provider
  BY <1>1, <1>2 DEF Steps, FlowTypeOK, consumer, provider
<1>4. /\ up' \in [Sides -> BOOLEAN] /\ up'["provider"] = up["provider"]
      /\ up'["consumer"] <=> r.open
  BY <1>1, <1>2 DEF FlowTypeOK
<1>5. /\ chan' \in [Sides -> Seq(Message)]
      /\ chan'["consumer"] = IF r.open THEN unread ELSE <<>>
      /\ chan'["provider"] = IF up["provider"] THEN chan["provider"] \o r.send ELSE chan["provider"]
  <2>1. r.send \in Seq(Message) /\ unread \in Seq(Message) /\ chan["provider"] \in Seq(Message)
    BY DEF Steps
  <2>2. chan["provider"] \o r.send \in Seq(Message)
    BY <2>1, ConcatProperties
  <2>3. chan \in [Sides -> Seq(Message)] /\ <<>> \in Seq(Message)
    BY <1>2 DEF FlowTypeOK
  <2> QED BY ONLY <1>1, <2>1, <2>2, <2>3, TheSides
<1>6. FlowTypeOK'
  BY <1>1, <1>2, <1>3, <1>4, <1>5 DEF FlowTypeOK, Steps
<1>7. LetGo'
  <2>1. ASSUME ~up'["consumer"] PROVE chan'["consumer"] = <<>> /\ side'["consumer"].phase \notin Busy
    <3>1. ~r.open
      BY <1>4, <2>1
    <3>2. r.s.phase \notin Busy
      BY <3>1 DEF Steps
    <3> QED BY <1>3, <1>5, <3>1, <3>2
  <2>2. ASSUME ~up'["provider"] PROVE chan'["provider"] = <<>> /\ side'["provider"].phase \notin Busy
    <3>1. ~up["provider"]
      BY <1>4, <2>2
    <3>2. chan["provider"] = <<>> /\ side["provider"].phase \notin Busy
      BY <1>2, <3>1 DEF LetGo
    <3> QED BY <1>3, <1>5, <3>1, <3>2
  <2>3. (Bound("consumer")' => ~consumer'.start) /\ (consumer'.phase = "closed" => ConsumerIsClient)
    BY <1>3 DEF Steps, Bound
  <2> QED BY <2>1, <2>2, <2>3 DEF LetGo
<1>8. NextOK'
  <2>1. Reached(chan'["consumer"], provider.next)
    <3>1. CASE r.open
      BY <1>5, <3>1 DEF Steps
    <3>2. CASE ~r.open
      <4>1. chan'["consumer"] = <<>> /\ Len(<<>>) = 0
        BY <1>5, <3>2
      <4> QED BY <4>1 DEF Reached
    <3> QED BY <3>1, <3>2
  <2>2. /\ r.s.next <= provider.next /\ r.s.announced <= provider.next
        /\ r.s.phase = "pending" => 1 <= r.s.announced
    BY DEF Steps
  <2>3. ServingOK(provider)
    BY <1>2 DEF NextOK
  <2> QED BY <1>3, <2>1, <2>2, <2>3 DEF NextOK
<1>9. LineOK'
  <2> SUFFICES ASSUME up'["consumer"], r.s.phase \notin {"closing", "finalized", "closed"}
               PROVE  Numbered(Context(r.s), chan'["consumer"] \o Ready(provider))
    BY <1>3 DEF LineOK, Context, Ready
  <2>1. r.open /\ chan'["consumer"] = unread
    BY <1>4, <1>5
  <2>2. Numbered(Context(r.s), unread \o Ready(provider))
    BY <2>1 DEF Steps
  <2> QED BY <2>1, <2>2
<1>10. Session(consumer, handed, abandoned, origin)'
  <2>1. Session(r.s, books, gone, begun)
    BY DEF Steps
  <2>2. Session(consumer', handed', abandoned', origin')
    BY ONLY <1>1, <1>3, <2>1
  <2> QED BY <2>2
<1>11. HandshakeOK'
  <2> SUFFICES ASSUME ConsumerIsClient
               PROVE  /\ Lone(chan'["provider"], "Establish")
                      /\ provider.phase \in Busy => Without(chan'["provider"], "Establish")
                      /\ r.open /\ r.s.phase = "negotiated" =>
                            /\ provider.phase \notin Busy /\ Without(chan'["provider"], "Establish")
                            /\ Without(unread, "EstablishmentReject")
                      /\ r.open /\ r.s.phase = "establishing" =>
                            /\ Lone(unread, "EstablishmentReject")
                            /\ \/ /\ provider.phase \notin Busy
                                  /\ Without(chan'["provider"], "Establish")
                               \/ Without(unread, "EstablishmentReject")
    BY <1>3, <1>4, <1>5 DEF HandshakeOK, Calm, Without, Lone
  <2>1. /\ Lone(chan["provider"], "Establish")
        /\ provider.phase \in Busy => Without(chan["provider"], "Establish")
        /\ consumer.phase = "negotiated" => Calm /\ Without(chan["consumer"], "EstablishmentReject")
        /\ consumer.phase = "establishing" =>
              /\ Lone(chan["consumer"], "EstablishmentReject")
              /\ Calm \/ Without(chan["consumer"], "EstablishmentReject")
    BY DEF FlowInv, HandshakeOK
  <2>2. r.send \in Seq(Message)
    BY DEF Steps
  <2>3. CASE /\ Without(r.send, "Establish")
             /\ r.open /\ r.s.phase \in {"negotiated", "establishing"} =>
                   \/ /\ r.s.phase = consumer.phase
                      /\ unread \in {chan["consumer"], Tail(chan["consumer"])}
                      /\ chan["consumer"] # <<>> \/ unread = chan["consumer"]
                   \/ /\ r.s.phase = "negotiated"
                      /\ Calm /\ Without(unread, "EstablishmentReject")
    <3>1. /\ Lone(chan'["provider"], "Establish")
          /\ Without(chan["provider"], "Establish") => Without(chan'["provider"], "Establish")
      <4>1. /\ Lone(chan["provider"] \o r.send, "Establish")
            /\ Without(chan["provider"], "Establish") =>
                  Without(chan["provider"] \o r.send, "Establish")
        BY <2>1, <2>2, <2>3, KindsBehind
      <4> QED BY <1>5, <2>1, <4>1
    <3>2. CASE r.s.phase = consumer.phase /\ unread = chan["consumer"]
      BY <2>1, <3>1, <3>2 DEF Calm
    <3>3. CASE r.s.phase = consumer.phase /\ unread = Tail(chan["consumer"]) /\ chan["consumer"] # <<>>
      <4>1. /\ Without(chan["consumer"], "EstablishmentReject") => Without(unread, "EstablishmentReject")
            /\ Lone(chan["consumer"], "EstablishmentReject") => Lone(unread, "EstablishmentReject")
        BY <3>3, KindsLeft
      <4> QED BY <2>1, <3>1, <3>3, <4>1 DEF Calm
    <3>4. CASE r.s.phase = "negotiated" /\ Calm /\ Without(unread, "EstablishmentReject")
      BY <2>1, <3>1, <3>4 DEF Calm
    <3>5. CASE ~(r.open /\ r.s.phase \in {"negotiated", "establishing"})
      BY <2>1, <3>1, <3>5
    <3> QED BY <2>3, <3>2, <3>3, <3>4, <3>5
  <2>4. CASE /\ r.s.phase = "establishing" /\ consumer.phase = "negotiated"
             /\ Lone(r.send, "Establish") /\ unread = chan["consumer"]
    <3>1. Calm /\ Without(unread, "EstablishmentReject")
      BY <2>1, <2>4
    <3>2. Lone(chan["provider"] \o r.send, "Establish") /\ provider.phase \notin Busy
      BY <2>2, <2>4, <3>1, OneBehind DEF Calm
    <3>3. Lone(chan'["provider"], "Establish")
      BY <1>5, <2>1, <3>2
    <3>4. Lone(unread, "EstablishmentReject")
      BY <3>1, NoneIsLone
    <3> QED BY <2>4, <3>1, <3>2, <3>3, <3>4
  <2> QED BY <2>3, <2>4 DEF Steps, Greets
<1> QED BY <1>6, <1>7, <1>8, <1>9, <1>10, <1>11 DEF FlowInv

\* The provider as the server: it takes the Establish before it is bound, and
\* rejects only the one it has taken.
Answers(r, unread) ==
    /\ Lone(unread, "Establish")
    /\ r.s.phase \in Busy => Without(unread, "Establish")
    /\ Calm => /\ r.s.phase \notin Busy /\ Without(unread, "Establish")
               /\ Without(r.send, "EstablishmentReject")
    /\ \/ Without(r.send, "EstablishmentReject")
       \/ /\ Lone(r.send, "EstablishmentReject") /\ Without(unread, "Establish")
          /\ r.s.phase \notin Busy

\* A step of the provider: what it sends may follow what is on its way.
Serves(r, unread) ==
    /\ r.s \in Providers /\ r.send \in Seq(Message) /\ unread \in Seq(Message)
    /\ r.accept = 0 /\ r.gone = {}
    /\ provider.next <= r.s.next /\ ServingOK(r.s)
    /\ Reached(r.send, r.s.next)
    /\ ~r.open => r.s.phase \notin Busy
    /\ ConsumerIsClient => Answers(r, unread)

Continues(r) ==
    Numbered(Context(consumer), chan["consumer"] \o Ready(provider)) =>
        Numbered(Context(consumer), (chan["consumer"] \o r.send) \o Ready(r.s))

LEMMA ProviderStep ==
    ASSUME FlowInv, up["provider"], NEW r, NEW unread, NEW n, Carry("provider", r, unread, n),
           Serves(r, unread), Continues(r)
    PROVE  FlowInv' /\ handed' = handed
<1> USE TheSides, SidesHave
<1>1. /\ side' = [side EXCEPT !["provider"] = r.s]
      /\ up' = [up EXCEPT !["provider"] = @ /\ r.open]
      /\ chan' = [chan EXCEPT !["provider"] = IF r.open THEN unread ELSE <<>>,
                              !["consumer"] = IF up["consumer"] THEN @ \o r.send ELSE @]
      /\ handed' = handed /\ abandoned' = abandoned /\ origin' = origin
      /\ transports' = transports
  BY DEF Carry, Serves
<1>2. FlowTypeOK /\ LetGo /\ NextOK /\ LineOK
  BY DEF FlowInv
<1>3. /\ side' \in [consumer : Consumers, provider : Providers]
      /\ provider' = r.s /\ consumer' = consumer
      /\ side'["provider"] = r.s /\ side'["consumer"] = consumer
  BY <1>1, <1>2 DEF Serves, FlowTypeOK, consumer, provider
<1>4. /\ up' \in [Sides -> BOOLEAN] /\ up'["consumer"] = up["consumer"]
      /\ up'["provider"] <=> r.open
  BY <1>1, <1>2 DEF FlowTypeOK
<1>5. /\ chan' \in [Sides -> Seq(Message)]
      /\ chan'["provider"] = IF r.open THEN unread ELSE <<>>
      /\ chan'["consumer"] = IF up["consumer"] THEN chan["consumer"] \o r.send ELSE chan["consumer"]
  <2>1. r.send \in Seq(Message) /\ unread \in Seq(Message) /\ chan["consumer"] \in Seq(Message)
    BY DEF Serves
  <2>2. chan["consumer"] \o r.send \in Seq(Message)
    BY <2>1, ConcatProperties
  <2>3. chan \in [Sides -> Seq(Message)] /\ <<>> \in Seq(Message)
    BY <1>2 DEF FlowTypeOK
  <2> QED BY ONLY <1>1, <2>1, <2>2, <2>3, TheSides
<1>6. FlowTypeOK'
  BY <1>1, <1>2, <1>3, <1>4, <1>5 DEF FlowTypeOK
<1>7. LetGo'
  <2>1. ASSUME ~up'["provider"] PROVE chan'["provider"] = <<>> /\ side'["provider"].phase \notin Busy
    <3>1. ~r.open
      BY <1>4, <2>1
    <3>2. r.s.phase \notin Busy
      BY <3>1 DEF Serves
    <3> QED BY <1>3, <1>5, <3>1, <3>2
  <2>2. ASSUME ~up'["consumer"] PROVE chan'["consumer"] = <<>> /\ side'["consumer"].phase \notin Busy
    <3>1. ~up["consumer"]
      BY <1>4, <2>2
    <3>2. chan["consumer"] = <<>> /\ side["consumer"].phase \notin Busy
      BY <1>2, <3>1 DEF LetGo
    <3> QED BY <1>3, <1>5, <3>1, <3>2
  <2>3. (Bound("consumer")' => ~consumer'.start) /\ (consumer'.phase = "closed" => ConsumerIsClient)
    BY <1>2, <1>3 DEF LetGo, Bound
  <2> QED BY <2>1, <2>2, <2>3 DEF LetGo
<1>8. r.s.next \in Nat /\ r.s.next \in 1 .. MaxSeq + 1 /\ consumer.announced \in Nat
  <2>1. r.s.next \in 1 .. MaxSeq + 1
    BY DEF Serves, Providers
  <2> QED BY <2>1, Constants, ConsumerFields
<1>9. NextOK'
  <2>1. Reached(chan'["consumer"], r.s.next)
    <3>1. <<>> \in Seq(Message) /\ Reached(<<>>, r.s.next) /\ chan["consumer"] \o <<>> = chan["consumer"]
      <4>1. Len(<<>>) = 0
        OBVIOUS
      <4> QED BY <4>1, ConcatEmptySeq DEF Reached
    <3>2. Reached(chan["consumer"], provider.next) /\ provider.next <= r.s.next
      BY DEF Serves
    <3>3. Reached(chan["consumer"] \o <<>>, r.s.next)
      BY <1>8, <3>1, <3>2, ReachedMore
    <3>4. Reached(chan["consumer"] \o r.send, r.s.next)
      <4>1. r.send \in Seq(Message) /\ Reached(r.send, r.s.next)
        BY DEF Serves
      <4> QED BY <1>8, <3>2, <4>1, ReachedMore
    <3> QED BY <1>5, <3>1, <3>3, <3>4
  <2>2. /\ consumer.next <= r.s.next /\ consumer.announced <= r.s.next
        /\ consumer.phase = "pending" => 1 <= consumer.announced
    <3>1. provider.next <= r.s.next /\ consumer.next <= provider.next /\ consumer.announced <= provider.next
      BY <1>2 DEF Serves, NextOK
    <3> QED BY <1>2, <1>8, <3>1 DEF NextOK
  <2> QED BY <1>3, <2>1, <2>2 DEF NextOK, Serves
<1>10. LineOK'
  <2> SUFFICES ASSUME up'["consumer"], consumer.phase \notin {"closing", "finalized", "closed"}
               PROVE  Numbered(Context(consumer), chan'["consumer"] \o Ready(r.s))
    BY <1>3 DEF LineOK, Context, Ready
  <2>1. up["consumer"] /\ chan'["consumer"] = chan["consumer"] \o r.send
    BY <1>4, <1>5
  <2>2. Numbered(Context(consumer), chan["consumer"] \o Ready(provider))
    BY <1>2, <2>1 DEF LineOK
  <2> QED BY <2>1, <2>2 DEF Continues
<1>11. Session(consumer, handed, abandoned, origin)'
  <2>1. Session(consumer', handed', abandoned', origin')
    BY ONLY <1>1, <1>3, SidesHave, FlowInv
  <2> QED BY <2>1
<1>12. HandshakeOK'
  <2> SUFFICES ASSUME ConsumerIsClient
               PROVE  /\ Lone(chan'["provider"], "Establish")
                      /\ r.s.phase \in Busy => Without(chan'["provider"], "Establish")
                      /\ up["consumer"] /\ consumer.phase = "negotiated" =>
                            /\ r.s.phase \notin Busy /\ Without(chan'["provider"], "Establish")
                            /\ Without(chan'["consumer"], "EstablishmentReject")
                      /\ up["consumer"] /\ consumer.phase = "establishing" =>
                            /\ Lone(chan'["consumer"], "EstablishmentReject")
                            /\ \/ r.s.phase \notin Busy /\ Without(chan'["provider"], "Establish")
                               \/ Without(chan'["consumer"], "EstablishmentReject")
    BY <1>3, <1>4 DEF HandshakeOK, Calm, Without, Lone
  <2>1. /\ Lone(chan["provider"], "Establish")
        /\ provider.phase \in Busy => Without(chan["provider"], "Establish")
        /\ up["consumer"] /\ consumer.phase = "negotiated" =>
              Calm /\ Without(chan["consumer"], "EstablishmentReject")
        /\ up["consumer"] /\ consumer.phase = "establishing" =>
              /\ Lone(chan["consumer"], "EstablishmentReject")
              /\ Calm \/ Without(chan["consumer"], "EstablishmentReject")
    BY DEF FlowInv, HandshakeOK
  <2>2. Answers(r, unread) /\ r.send \in Seq(Message)
    BY DEF Serves
  <2>3. /\ Lone(chan'["provider"], "Establish")
        /\ Without(unread, "Establish") => Without(chan'["provider"], "Establish")
        /\ r.s.phase \in Busy => Without(chan'["provider"], "Establish")
    <3>1. chan'["provider"] = unread \/ chan'["provider"] = <<>>
      BY <1>5
    <3>2. Without(<<>>, "Establish") /\ Lone(<<>>, "Establish")
      <4>1. Len(<<>>) = 0
        OBVIOUS
      <4> QED BY <4>1 DEF Without, Lone
    <3> QED BY <2>2, <3>1, <3>2 DEF Answers
  <2>4. /\ Without(r.send, "EstablishmentReject") =>
              /\ Without(chan["consumer"], "EstablishmentReject") =>
                    Without(chan'["consumer"], "EstablishmentReject")
              /\ Lone(chan["consumer"], "EstablishmentReject") =>
                    Lone(chan'["consumer"], "EstablishmentReject")
    BY <1>5, <2>2, KindsBehind
  <2>5. /\ Lone(r.send, "EstablishmentReject") /\ Without(chan["consumer"], "EstablishmentReject") =>
              Lone(chan'["consumer"], "EstablishmentReject")
    BY <1>5, <2>2, OneBehind, NoneIsLone
  <2>6. CASE Calm
    BY <2>1, <2>2, <2>3, <2>4, <2>6 DEF Answers
  <2>7. CASE ~Calm
    BY <2>1, <2>2, <2>3, <2>4, <2>5, <2>7 DEF Answers
  <2> QED BY <2>6, <2>7
<1> QED BY <1>1, <1>6, <1>7, <1>9, <1>10, <1>11, <1>12 DEF FlowInv

-----------------------------------------------------------------------------
(* The steps of the provider                                                *)

LEMMA ProviderFields ==
    ASSUME NEW p \in Providers
    PROVE  /\ p.phase \in Phases \ {"finalized"} /\ p.next \in 1 .. MaxSeq + 1 /\ p.next \in Nat
           /\ 1 <= p.next /\ p.implicit \in BOOLEAN /\ p.serving \in Services
           /\ p.serving.stamp \in Nat /\ p.serving.from \in Nat /\ p.serving.count \in Nat
           /\ p.serving.sent \in Nat /\ p.ended \in BOOLEAN /\ p.answered \in BOOLEAN
           /\ p.announced \in Nat
<1>1. p.next \in 1 .. MaxSeq + 1
  BY DEF Providers
<1> QED BY <1>1, Constants DEF Providers, Services

\* What may follow at once is a sequence of messages.
LEMMA ReadyIs ==
    ASSUME NEW p \in Providers
    PROVE  /\ Ready(p) \in Seq(Message)
           /\ p.phase # "established" \/ ~p.implicit => Ready(p) = <<>>
           /\ p.phase = "established" /\ p.implicit => Ready(p) = <<Application(p.next)>>
<1>1. Application(p.next) \in Message
  BY ProviderFields DEF Application, Message
<1> QED BY <1>1 DEF Ready

\* A message that numbers nothing: what it needs to be sent.
Others == {"Terminate", "RetransmitReject"}
LEMMA OneOther ==
    ASSUME NEW m \in Message, NEW n,
           \/ m.kind \in Others
           \/ m.kind \in {"Establish", "EstablishmentAck"} /\ 1 <= m.next /\ m.next <= n
           \/ m.kind = "FinishedSending" /\ m.last + 1 <= n
           \/ m.kind = "EstablishmentReject"
    PROVE  /\ <<m>> \in Seq(Message) /\ Reached(<<m>>, n) /\ Numbered(Unknown, <<m>> \o <<>>)
           /\ m.kind # "EstablishmentReject" => Without(<<m>>, "EstablishmentReject")
           /\ m.kind # "Establish" => Without(<<m>>, "Establish")
           /\ Lone(<<m>>, "EstablishmentReject") /\ Lone(<<m>>, "Establish")
<1>1. <<m>> \in Seq(Message) /\ Len(<<m>>) = 1 /\ <<m>>[1] = m
  OBVIOUS
<1>2. Reached(<<m>>, n)
  BY <1>1 DEF Reached, Others
<1>3. Numbered(Unknown, <<m>>)
  BY SendOther DEF Others
<1>4. <<m>> \o <<>> = <<m>>
  BY <1>1, ConcatEmptySeq
<1>5. m.kind # "EstablishmentReject" => Without(<<m>>, "EstablishmentReject")
  BY <1>1 DEF Without
<1>6. m.kind # "Establish" => Without(<<m>>, "Establish")
  BY <1>1 DEF Without
<1>7. \A i \in 1 .. Len(<<m>>) : i = 1
  BY <1>1
<1>8. Lone(<<m>>, "EstablishmentReject") /\ Lone(<<m>>, "Establish")
  BY ONLY <1>7 DEF Lone
<1> QED BY ONLY <1>1, <1>2, <1>3, <1>4, <1>5, <1>6, <1>8

LEMMA NothingSent ==
    /\ <<>> \in Seq(Message) /\ \A n : Reached(<<>>, n) /\ \A c : Numbered(c, <<>> \o <<>>)
    /\ \A kind : Without(<<>>, kind) /\ Lone(<<>>, kind)
<1>1. Len(<<>>) = 0 /\ <<>> \in Seq(Message)
  OBVIOUS
<1>2. <<>> \o <<>> = <<>>
  BY <1>1, ConcatEmptySeq
<1> QED BY <1>1, <1>2, NoMessages DEF Reached, Without, Lone

LEMMA ContinuesBehind ==
    ASSUME FlowInv, NEW r, r.s \in Providers, r.send \in Seq(Message),
           Numbered(Unknown, r.send \o Ready(r.s))
    PROVE  Continues(r)
<1> SUFFICES ASSUME Numbered(Context(consumer), chan["consumer"] \o Ready(provider))
             PROVE  Numbered(Context(consumer), (chan["consumer"] \o r.send) \o Ready(r.s))
  BY DEF Continues
<1>1. /\ chan["consumer"] \in Seq(Message) /\ Ready(provider) \in Seq(Message)
      /\ Ready(r.s) \in Seq(Message)
  BY SidesHave, ReadyIs
<1>2. Numbered(Context(consumer), chan["consumer"])
  BY <1>1, WithoutLast
<1> QED BY <1>1, <1>2, SendData

LEMMA ContinuesSilent ==
    ASSUME FlowInv, NEW r, r.send = <<>>, Ready(r.s) = Ready(provider)
    PROVE  Continues(r)
<1>1. chan["consumer"] \o r.send = chan["consumer"]
  BY SidesHave, ConcatEmptySeq
<1> QED BY <1>1 DEF Continues

\* A step of the provider that is bound, or stays unbound.
LEMMA ProviderGoes ==
    ASSUME FlowInv, up["provider"], NEW r, NEW unread, NEW n, Carry("provider", r, unread, n),
           unread = chan["provider"] \/ (chan["provider"] # <<>> /\ unread = Tail(chan["provider"])),
           r.s \in Providers, r.send \in Seq(Message), r.accept = 0, r.gone = {},
           provider.next <= r.s.next, ServingOK(r.s), Reached(r.send, r.s.next),
           ~r.open => r.s.phase \notin Busy, r.s.phase \notin Busy \/ provider.phase \in Busy \/ ~ConsumerIsClient,
           Without(r.send, "EstablishmentReject"), Continues(r)
    PROVE  FlowInv' /\ handed' = handed
<1>1. chan["provider"] \in Seq(Message)
  BY SidesHave
<1>2. unread \in Seq(Message)
  <2>1. CASE unread = chan["provider"]
    BY <1>1, <2>1
  <2>2. CASE chan["provider"] # <<>> /\ unread = Tail(chan["provider"])
    BY <1>1, <2>2, HeadTailProperties
  <2> QED BY <2>1, <2>2
<1>3. /\ Lone(chan["provider"], "Establish") => Lone(unread, "Establish")
      /\ Without(chan["provider"], "Establish") => Without(unread, "Establish")
  BY <1>1, KindsLeft
<1>4. ConsumerIsClient => Answers(r, unread)
  <2>1. ConsumerIsClient =>
          /\ Lone(chan["provider"], "Establish")
          /\ provider.phase \in Busy => Without(chan["provider"], "Establish")
    BY DEF FlowInv, HandshakeOK
  <2> QED BY <1>3, <2>1 DEF Answers, Calm
<1>5. Serves(r, unread)
  BY <1>2, <1>4 DEF Serves
<1> QED BY <1>5, ProviderStep

\* A provider that holds the transport, and one that is bound does.
LEMMA BoundHolds ==
    ASSUME FlowInv, NEW x \in Sides, side[x].phase \in Busy
    PROVE  up[x]
BY DEF FlowInv, LetGo

\* What the provider queues when it does not end the binding.
LEMMA Queued ==
    ASSUME NEW u, NEW send, NEW r, r = Result(u, send)
    PROVE  r.s = u /\ r.send = send /\ r.open /\ r.accept = 0 /\ r.gone = {}
BY DEF Result

\* The provider as the invariant has it.
LEMMA ProviderIs ==
    ASSUME FlowInv
    PROVE  /\ provider \in Providers /\ side["provider"] = provider /\ ServingOK(provider)
           /\ provider.next \in Nat /\ 1 <= provider.next
           /\ "established" \in Busy /\ "terminating" \in Busy /\ "closing" \in Busy
BY SidesHave, ProviderFields DEF FlowInv, NextOK, Busy

\* A provider that stays, sends a message that numbers nothing, and has to
\* send a Sequence next.
LEMMA SendsOther ==
    ASSUME FlowInv, up["provider"], NEW u \in Providers, NEW m \in Message,
           NEW unread, unread = chan["provider"] \/ (chan["provider"] # <<>> /\ unread = Tail(chan["provider"])),
           NEW r, r = Result(u, <<m>>), Carry("provider", r, unread, 0),
           \/ m.kind \in Others
           \/ m.kind \in {"Establish", "EstablishmentAck"} /\ 1 <= m.next /\ m.next <= u.next
           \/ m.kind = "FinishedSending" /\ m.last + 1 <= u.next,
           u.phase # "established" \/ ~u.implicit,
           provider.next <= u.next, ServingOK(u),
           u.phase \notin Busy \/ provider.phase \in Busy \/ ~ConsumerIsClient
    PROVE  FlowInv' /\ handed' = handed
<1>1. r.s = u /\ r.send = <<m>> /\ r.open /\ r.accept = 0 /\ r.gone = {}
  BY Queued
<1>2. m.kind # "EstablishmentReject"
  BY DEF Others
<1>3. /\ <<m>> \in Seq(Message) /\ Reached(<<m>>, u.next) /\ Numbered(Unknown, <<m>> \o <<>>)
      /\ Without(<<m>>, "EstablishmentReject")
  BY <1>2, OneOther
<1>4. Ready(u) = <<>>
  BY ReadyIs
<1>5. Continues(r)
  BY <1>1, <1>3, <1>4, ContinuesBehind
<1> QED BY <1>1, <1>3, <1>5, ProviderGoes

\* A provider that sends nothing, and keeps what may follow at once or gives
\* that up.
LEMMA SendsNothing ==
    ASSUME FlowInv, up["provider"], NEW r, r.s \in Providers, r.send = <<>>, r.accept = 0, r.gone = {},
           NEW unread, unread = chan["provider"] \/ (chan["provider"] # <<>> /\ unread = Tail(chan["provider"])),
           Carry("provider", r, unread, 0),
           Ready(r.s) = Ready(provider) \/ Ready(r.s) = <<>>,
           provider.next <= r.s.next, ServingOK(r.s), r.s.phase \notin Busy \/ provider.phase \in Busy \/ ~ConsumerIsClient,
           ~r.open => r.s.phase \notin Busy
    PROVE  FlowInv' /\ handed' = handed
<1>1. /\ r.send \in Seq(Message) /\ Reached(r.send, r.s.next) /\ Numbered(Unknown, r.send \o <<>>)
      /\ Without(r.send, "EstablishmentReject")
  BY NothingSent
<1>2. Continues(r)
  BY <1>1, ContinuesBehind, ContinuesSilent
<1> QED BY <1>1, <1>2, ProviderGoes

LEMMA SendApplicationStep == FlowInv /\ SendApplication => FlowInv' /\ handed' = handed
<1> SUFFICES ASSUME FlowInv, SendApplication PROVE FlowInv' /\ handed' = handed
  OBVIOUS
<1> PICK p : p = provider
  OBVIOUS
<1> PICK r : r = Allocated(provider)
  OBVIOUS
<1>1. /\ p \in Providers /\ ServingOK(p) /\ p.next \in Nat /\ 1 <= p.next /\ "established" \in Busy
      /\ p = provider /\ side["provider"] = p
  BY ProviderIs
<1>2. p.phase = "established" /\ p.next <= MaxSeq /\ Carry("provider", r, chan["provider"], 0)
  BY <1>1 DEF SendApplication, MaySend, Established, Does
<1>3. up["provider"]
  BY <1>1, <1>2, BoundHolds, TheSides
<1>4. PICK u : u = [p EXCEPT !.implicit = TRUE, !.next = p.next + 1]
  OBVIOUS
<1>5. /\ u \in Providers /\ u.next = p.next + 1 /\ u.implicit /\ u.phase = "established"
      /\ u.serving = p.serving
  <2>1. p.next + 1 \in 1 .. MaxSeq + 1
    BY <1>1, <1>2, Constants
  <2> QED BY <1>1, <1>2, <1>4, <2>1 DEF Providers
<1>6. ServingOK(u)
  <2>1. p.serving.from \in Nat /\ p.serving.count \in Nat
    BY <1>1, ProviderFields
  <2>2. p.serving.from + p.serving.count <= p.next + 1
    BY <1>1, <2>1 DEF ServingOK
  <2> QED BY <1>1, <1>5, <2>2 DEF ServingOK
<1>7. Ready(u) = <<Application(p.next + 1)>>
  BY <1>5, ReadyIs
<1>8. PICK first : first = IF p.implicit THEN <<>> ELSE <<SequenceMsg(p.next)>>
  OBVIOUS
<1>9. PICK send : send = first \o <<Application(p.next)>>
  OBVIOUS
<1>10. r = Result(u, send)
  BY <1>1, <1>4, <1>8, <1>9 DEF Allocated
<1>11. r.s = u /\ r.send = send /\ r.open /\ r.accept = 0 /\ r.gone = {}
  BY <1>10, Queued
<1>12. /\ Application(p.next) \in Message /\ Application(p.next).kind = "Application"
       /\ Application(p.next).n = p.next
       /\ SequenceMsg(p.next) \in Message /\ SequenceMsg(p.next).kind = "Sequence"
       /\ SequenceMsg(p.next).next = p.next
  BY <1>1 DEF Application, SequenceMsg, Message
<1>13. \A i \in 1 .. Len(send) : send[i] \in {Application(p.next), SequenceMsg(p.next)}
  <2>1. CASE p.implicit
    <3>1. send = <<Application(p.next)>>
      <4>1. <<Application(p.next)>> \in Seq(Message) /\ first = <<>>
        BY <1>8, <1>12, <2>1
      <4> QED BY <1>9, <4>1, ConcatEmptySeq
    <3> QED BY <3>1
  <2>2. CASE ~p.implicit
    <3>1. send = <<SequenceMsg(p.next)>> \o <<Application(p.next)>>
      BY <1>8, <1>9, <2>2
    <3> QED BY <3>1
  <2> QED BY <2>1, <2>2
<1>14. send \in Seq(Message)
  <2>1. first \in Seq(Message) /\ <<Application(p.next)>> \in Seq(Message)
    BY <1>8, <1>12
  <2> QED BY <1>9, <2>1, ConcatProperties
<1>15. Reached(send, u.next) /\ Without(send, "EstablishmentReject")
  BY <1>1, <1>5, <1>12, <1>13 DEF Reached, Without
<1>16. Continues(r)
  <2>1. CASE p.implicit
    <3>1. Ready(provider) = <<Application(p.next)>>
      BY <1>1, <1>2, <2>1, ReadyIs
    <3>2. send = <<Application(p.next)>>
      <4>1. <<Application(p.next)>> \in Seq(Message) /\ first = <<>>
        BY <1>8, <1>12, <2>1
      <4> QED BY <1>9, <4>1, ConcatEmptySeq
    <3>3. /\ consumer \in Consumers /\ chan["consumer"] \in Seq(Message)
          /\ Reached(chan["consumer"], p.next) /\ GapsOK(consumer) /\ RequestOK(consumer)
          /\ consumer.next <= p.next /\ consumer.next \in Nat
      BY <1>1, SidesHave DEF Session, FlowInv, NextOK
    <3>4. PICK c : c = Context(consumer)
      OBVIOUS
    <3>5. c.kind = "Retransmission" => c.next + c.count <= p.next /\ c.next \in Nat /\ c.count \in Nat
      BY <1>1, <3>3, <3>4, ContextOK
    <3>6. Numbered(c, chan["consumer"] \o <<Application(p.next)>>) =>
             Numbered(c, (chan["consumer"] \o <<Application(p.next)>>) \o <<Application(p.next + 1)>>)
      BY <1>1, <3>3, <3>5, OneMore
    <3> QED BY <1>7, <1>11, <3>1, <3>2, <3>4, <3>6 DEF Continues
  <2>2. CASE ~p.implicit
    <3>1. send = <<SequenceMsg(p.next)>> \o <<Application(p.next)>>
      BY <1>8, <1>9, <2>2
    <3>2. p.next \in Nat \ {0}
      BY <1>1
    <3>3. Numbered(Unknown, send \o Ready(u))
      BY <1>7, <3>1, <3>2, SendSequence
    <3> QED BY <1>5, <1>11, <1>14, <3>3, ContinuesBehind
  <2> QED BY <2>1, <2>2
<1>17. provider.next <= u.next /\ provider.phase \in Busy
  BY <1>1, <1>2, <1>5
<1> QED BY <1>2, <1>3, <1>5, <1>6, <1>11, <1>14, <1>15, <1>16, <1>17, ProviderGoes

LEMMA HeartbeatStep == FlowInv /\ Heartbeat => FlowInv' /\ handed' = handed
<1> SUFFICES ASSUME FlowInv, Heartbeat PROVE FlowInv' /\ handed' = handed
  OBVIOUS
<1> PICK p : p = provider
  OBVIOUS
<1>1. /\ p \in Providers /\ ServingOK(p) /\ p.next \in Nat /\ 1 <= p.next /\ "established" \in Busy
      /\ p = provider /\ side["provider"] = p
  BY ProviderIs
<1>2. PICK u : u = [p EXCEPT !.implicit = TRUE]
  OBVIOUS
<1>3. PICK r : r = Result(u, <<SequenceMsg(p.next)>>)
  OBVIOUS
<1>4. p.phase = "established" /\ Carry("provider", r, chan["provider"], 0)
  BY <1>1, <1>2, <1>3 DEF Heartbeat, MaySend, Established, Does
<1>5. up["provider"]
  BY <1>1, <1>4, BoundHolds, TheSides
<1>6. /\ u \in Providers /\ u.next = p.next /\ u.implicit /\ u.phase = "established"
      /\ u.serving = p.serving
  BY <1>1, <1>2, <1>4 DEF Providers
<1>7. ServingOK(u) /\ Ready(u) = <<Application(p.next)>>
  BY <1>1, <1>6, ReadyIs DEF ServingOK
<1>8. /\ SequenceMsg(p.next) \in Message /\ SequenceMsg(p.next).kind = "Sequence"
      /\ SequenceMsg(p.next).next = p.next
  BY <1>1 DEF SequenceMsg, Message
<1>9. PICK send : send = <<SequenceMsg(p.next)>>
  OBVIOUS
<1>10. send \in Seq(Message) /\ Len(send) = 1 /\ send[1] = SequenceMsg(p.next)
  BY <1>8, <1>9
<1>11. Reached(send, u.next) /\ Without(send, "EstablishmentReject")
  BY <1>1, <1>6, <1>8, <1>10 DEF Reached, Without
<1>12. r.s = u /\ r.send = send /\ r.open /\ r.accept = 0 /\ r.gone = {}
  BY <1>3, <1>9, Queued
<1>13. Continues(r)
  <2>1. p.next \in Nat \ {0}
    BY <1>1
  <2>2. Numbered(Unknown, send \o Ready(u))
    BY <1>7, <1>9, <2>1, SendSequence
  <2> QED BY <1>6, <1>10, <1>12, <2>2, ContinuesBehind
<1>14. provider.next <= u.next /\ provider.phase \in Busy
  BY <1>1, <1>4, <1>6
<1> QED BY <1>4, <1>5, <1>6, <1>7, <1>10, <1>11, <1>12, <1>13, <1>14, ProviderGoes

\* A batch of the request in service, whole or cut short.
LEMMA BatchKeeps ==
    ASSUME NEW p \in Providers, ServingOK(p), p.serving # NoService,
           NEW count \in Nat, count <= p.serving.count - p.serving.sent, NEW written \in 0 .. count,
           NEW r, r = Batch(p, count, written)
    PROVE  /\ r.s \in Providers /\ r.s.phase = p.phase /\ r.s.next = p.next /\ ~r.s.implicit
           /\ ServingOK(r.s) /\ r.open /\ r.accept = 0 /\ r.gone = {}
           /\ r.send \in Seq(Message) /\ Numbered(Unknown, r.send) /\ Reached(r.send, p.next)
           /\ Without(r.send, "EstablishmentReject")
<1>1. /\ p.next \in Nat /\ p.serving.stamp \in Nat /\ p.serving.from \in Nat
      /\ p.serving.count \in Nat /\ p.serving.sent \in Nat /\ p.serving \in Services
  BY ProviderFields
<1>2. 1 <= p.serving.from /\ p.serving.from + p.serving.count <= p.next
  BY DEF ServingOK
<1>3. PICK from : from = p.serving.from + p.serving.sent
  OBVIOUS
<1>4. PICK sent : sent = p.serving.sent + count
  OBVIOUS
<1>5. from \in Nat /\ 1 <= from /\ sent \in Nat /\ from + count <= p.next /\ sent <= p.serving.count
  BY ONLY <1>1, <1>2, <1>3, <1>4, count \in Nat, count <= p.serving.count - p.serving.sent
<1>6. PICK head : head = <<Retransmission(p.serving.stamp, from, count)>>
  OBVIOUS
<1>7. PICK body : body = [i \in 1 .. written |-> Application(from + i - 1)]
  OBVIOUS
<1>8. PICK serving : serving = IF sent >= p.serving.count THEN NoService
                               ELSE [p.serving EXCEPT !.sent = sent]
  OBVIOUS
<1>9. PICK u : u = [p EXCEPT !.implicit = FALSE, !.serving = serving]
  OBVIOUS
<1>18. PICK send : send = head \o body
  OBVIOUS
<1>10. r = Result(u, send)
  BY <1>3, <1>4, <1>6, <1>7, <1>8, <1>9, <1>18 DEF Batch
<1>11. r.s = u /\ r.send = send /\ r.open /\ r.accept = 0 /\ r.gone = {}
  BY <1>10, Queued
<1>12. /\ serving \in Services
       /\ serving # NoService => serving.from = p.serving.from
       /\ serving.from + serving.count <= p.next /\ serving.sent <= serving.count
  <2>1. CASE sent >= p.serving.count
    BY <1>1, <1>8, <2>1, None
  <2>2. CASE ~(sent >= p.serving.count)
    <3>1. serving = [p.serving EXCEPT !.sent = sent]
      BY <1>8, <2>2
    <3>2. /\ serving \in Services /\ serving.from = p.serving.from
          /\ serving.count = p.serving.count /\ serving.sent = sent
      BY <1>1, <1>5, <3>1 DEF Services
    <3> QED BY <1>2, <1>5, <3>2
  <2> QED BY <2>1, <2>2
<1>13. /\ u \in Providers /\ u.phase = p.phase /\ u.next = p.next /\ ~u.implicit
       /\ u.serving = serving
  BY <1>9, <1>12 DEF Providers
<1>14. ServingOK(u)
  BY <1>2, <1>12, <1>13 DEF ServingOK
<1>15. /\ head \o body \in Seq(Message) /\ Numbered(Unknown, head \o body)
       /\ Reached(head \o body, from + count)
  BY <1>1, <1>5, <1>6, <1>7, SendBatch
<1>16. Reached(head \o body, p.next)
  <2>1. Reached((head \o body) \o <<>>, p.next)
    <3>1. from + count \in Nat
      BY <1>5
    <3> QED BY <1>1, <1>5, <1>15, <3>1, NothingSent, ReachedMore
  <2> QED BY <1>15, <2>1, ConcatEmptySeq
<1>17. Without(head \o body, "EstablishmentReject")
  <2>1. head \in Seq(Message) /\ Len(head) = 1 /\ head[1].kind = "Retransmission"
    BY <1>1, <1>5, <1>6 DEF Retransmission, Message
  <2>2. Without(head, "EstablishmentReject")
    BY <2>1 DEF Without
  <2>3. \A i \in 1 .. written : Application(from + i - 1) \in Message
    BY <1>5 DEF Application, Message
  <2>4. body \in Seq(Message) /\ Len(body) = written
    BY <1>7, <2>3
  <2>5. Without(body, "EstablishmentReject")
    BY <1>7, <2>4 DEF Without, Application
  <2> QED BY <2>1, <2>2, <2>4, <2>5, KindsBehind
<1> QED BY <1>11, <1>13, <1>14, <1>15, <1>16, <1>17, <1>18

LEMMA RetransmitStep ==
    ASSUME FlowInv, NEW count \in 1 .. MaxRetransmitCount, Retransmit(count)
    PROVE  FlowInv' /\ handed' = handed
<1>1. /\ provider \in Providers /\ ServingOK(provider) /\ provider.next \in Nat
      /\ "established" \in Busy /\ side["provider"] = provider
  BY ProviderIs
<1>2. PICK r : r = Batch(provider, count, count)
  OBVIOUS
<1>3. /\ provider.phase = "established" /\ provider.serving # NoService
      /\ count <= provider.serving.count - provider.serving.sent
      /\ Carry("provider", r, chan["provider"], 0)
  BY <1>1, <1>2 DEF Retransmit, Established, Does
<1>4. count \in Nat /\ count \in 0 .. count
  BY Constants
<1>5. /\ r.s \in Providers /\ r.s.phase = provider.phase /\ r.s.next = provider.next
      /\ ~r.s.implicit /\ ServingOK(r.s) /\ r.open /\ r.accept = 0 /\ r.gone = {}
      /\ r.send \in Seq(Message) /\ Numbered(Unknown, r.send) /\ Reached(r.send, provider.next)
      /\ Without(r.send, "EstablishmentReject")
  BY <1>1, <1>2, <1>3, <1>4, BatchKeeps
<1>6. Ready(r.s) = <<>> /\ r.send \o <<>> = r.send
  BY <1>5, ReadyIs, ConcatEmptySeq
<1>7. Continues(r)
  BY <1>5, <1>6, ContinuesBehind
<1>8. up["provider"] /\ provider.phase \in Busy /\ provider.next <= r.s.next
  BY <1>1, <1>3, <1>5, BoundHolds, TheSides
<1> QED BY <1>3, <1>5, <1>7, <1>8, ProviderGoes

LEMMA RetransmitCutStep ==
    ASSUME FlowInv, NEW count \in 1 .. MaxRetransmitCount, NEW written \in 0 .. count - 1,
           RetransmitCut(count, written)
    PROVE  FlowInv' /\ handed' = handed
<1> PICK p : p = provider
  OBVIOUS
<1>1. /\ p \in Providers /\ ServingOK(p) /\ p.next \in Nat /\ 1 <= p.next /\ p = provider
      /\ "established" \in Busy /\ side["provider"] = p
  BY ProviderIs
<1>2. PICK b : b = Batch(p, count, written)
  OBVIOUS
<1>3. PICK u : u = [b.s EXCEPT !.serving = NoService, !.implicit = TRUE]
  OBVIOUS
<1>4. PICK send : send = Append(b.send, SequenceMsg(p.next))
  OBVIOUS
<1>5. PICK r : r = Result(u, send)
  OBVIOUS
<1>6. /\ p.phase = "established" /\ p.serving # NoService
      /\ count <= p.serving.count - p.serving.sent
      /\ Carry("provider", r, chan["provider"], 0)
  BY <1>1, <1>2, <1>3, <1>4, <1>5 DEF RetransmitCut, Established, Does
<1>7. count \in Nat /\ written \in 0 .. count
  BY Constants
<1>8. /\ b.s \in Providers /\ b.s.phase = p.phase /\ b.s.next = p.next
      /\ b.send \in Seq(Message) /\ Numbered(Unknown, b.send) /\ Reached(b.send, p.next)
      /\ Without(b.send, "EstablishmentReject")
  BY <1>1, <1>2, <1>6, <1>7, BatchKeeps
<1>9. /\ u \in Providers /\ u.phase = "established" /\ u.next = p.next /\ u.implicit
      /\ u.serving = NoService
  BY <1>3, <1>6, <1>8, None DEF Providers
<1>10. ServingOK(u) /\ Ready(u) = <<Application(p.next)>>
  BY <1>1, <1>9, None, ReadyIs DEF ServingOK
<1>11. PICK last : last = <<SequenceMsg(p.next)>>
  OBVIOUS
<1>12. /\ last \in Seq(Message) /\ Len(last) = 1 /\ last[1].kind = "Sequence" /\ last[1].next = p.next
  BY <1>1, <1>11 DEF SequenceMsg, Message
<1>13. send = b.send \o last
  BY <1>4, <1>8, <1>11, <1>12, AppendIsConcat
<1>14. send \in Seq(Message)
  BY <1>8, <1>12, <1>13, ConcatProperties
<1>15. Without(last, "EstablishmentReject") /\ Reached(last, p.next)
  BY <1>1, <1>12 DEF Without, Reached
<1>16. Without(send, "EstablishmentReject") /\ Reached(send, p.next)
  BY <1>1, <1>8, <1>12, <1>13, <1>15, KindsBehind, ReachedMore
<1>17. Numbered(Unknown, send \o Ready(u))
  <2>1. p.next \in Nat \ {0} /\ Ready(u) \in Seq(Message)
    BY <1>1, <1>9, ReadyIs
  <2>2. Numbered(Unknown, last \o Ready(u))
    BY <1>10, <1>11, <2>1, SendSequence
  <2>3. Numbered(Unknown, (b.send \o last) \o Ready(u))
    BY <1>8, <1>12, <2>1, <2>2, SendData
  <2> QED BY <1>13, <2>3
<1>18. r.s = u /\ r.send = send /\ r.open /\ r.accept = 0 /\ r.gone = {}
  BY <1>5, Queued
<1>19. Continues(r)
  BY <1>9, <1>14, <1>17, <1>18, ContinuesBehind
<1>20. up["provider"] /\ provider.phase \in Busy /\ provider.next <= r.s.next
  BY <1>1, <1>6, <1>9, <1>18, BoundHolds, TheSides
<1> QED BY <1>6, <1>9, <1>10, <1>14, <1>16, <1>18, <1>19, <1>20, ProviderGoes

\* What a provider that ends its binding comes back to.
LEMMA ProviderUnbinds ==
    ASSUME NEW p \in Providers, ServingOK(p), NEW u,
           u \in {Unbound("provider", p), Unbound("provider", ReleaseProvider(p))}
    PROVE  u \in Providers /\ u.phase = "negotiated" /\ u.next = p.next /\ ServingOK(u)
<1>1. PICK t : t = ReleaseProvider(p)
  OBVIOUS
<1>2. t \in Providers /\ t.next = p.next /\ t.serving = NoService
  BY <1>1, None DEF ReleaseProvider, Providers
<1>3. ServingOK(t)
  BY <1>2, None, ProviderFields DEF ServingOK
<1>4. PICK q \in {p, t} : u = Unbound("provider", q)
  BY <1>1
<1>5. u = [q EXCEPT !.phase = "negotiated"]
  BY <1>4, TheSides DEF Unbound
<1>6. q \in Providers /\ q.next = p.next /\ ServingOK(q)
  BY <1>2, <1>3
<1>7. u \in Providers /\ u.phase = "negotiated" /\ u.next = q.next /\ u.serving = q.serving
  BY <1>5, <1>6 DEF Providers, Phases
<1> QED BY <1>6, <1>7 DEF ServingOK

\* A provider that is not bound any more, or was not, and said so at most.
LEMMA ProviderEnds ==
    ASSUME FlowInv, up["provider"], NEW u \in Providers, u.phase \notin Busy, u.next = provider.next,
           ServingOK(u), NEW send \in {<<>>, <<TerminateMsg("Error")>>},
           NEW unread, unread = chan["provider"] \/ (chan["provider"] # <<>> /\ unread = Tail(chan["provider"])),
           NEW r, r.s = u, r.send = send, r.accept = 0, r.gone = {}, Carry("provider", r, unread, 0)
    PROVE  FlowInv' /\ handed' = handed
<1>1. provider.next \in Nat /\ Ready(u) = <<>>
  BY ProviderIs, ReadyIs DEF Busy
<1>2. /\ send \in Seq(Message) /\ Reached(send, u.next) /\ Numbered(Unknown, send \o <<>>)
      /\ Without(send, "EstablishmentReject")
  <2>1. CASE send = <<>>
    BY <2>1, NothingSent
  <2>2. CASE send = <<TerminateMsg("Error")>>
    <3>1. PICK m : m = TerminateMsg("Error")
      OBVIOUS
    <3>2. m \in Message /\ m.kind \in Others /\ m.kind # "EstablishmentReject"
      BY <3>1 DEF TerminateMsg, Message, Others, Codes
    <3>3. /\ <<m>> \in Seq(Message) /\ Reached(<<m>>, u.next) /\ Numbered(Unknown, <<m>> \o <<>>)
          /\ Without(<<m>>, "EstablishmentReject")
      BY <3>2, OneOther
    <3> QED BY <2>2, <3>1, <3>3
  <2> QED BY <2>1, <2>2
<1>3. Continues(r)
  BY <1>1, <1>2, ContinuesBehind
<1>4. provider.next <= r.s.next
  BY <1>1
<1> QED BY <1>2, <1>3, <1>4, ProviderGoes

\* fail of the provider.
LEMMA ProviderFails ==
    ASSUME FlowInv, up["provider"], NEW why, NEW r, r = FailWith("provider", provider, "Error", why),
           NEW unread, unread = chan["provider"] \/ (chan["provider"] # <<>> /\ unread = Tail(chan["provider"])),
           Carry("provider", r, unread, 0)
    PROVE  FlowInv' /\ handed' = handed
<1>1. PICK u : u = Unbound("provider", ReleaseProvider(provider))
  OBVIOUS
<1>2. PICK send : send = IF provider.phase = "established" THEN <<TerminateMsg("Error")>> ELSE <<>>
  OBVIOUS
<1>3. r = [Result(u, send) EXCEPT !.open = FALSE, !.blame = why]
  BY <1>1, <1>2, TheSides DEF FailWith, Release
<1>4. r.s = u /\ r.send = send /\ r.accept = 0 /\ r.gone = {}
  BY ONLY <1>3 DEF Result
<1>5. u \in Providers /\ u.phase = "negotiated" /\ u.next = provider.next /\ ServingOK(u)
  BY <1>1, ProviderIs, ProviderUnbinds
<1>6. send \in {<<>>, <<TerminateMsg("Error")>>} /\ u.phase \notin Busy
  BY <1>2, <1>5 DEF Busy
<1> QED BY <1>4, <1>5, <1>6, ProviderEnds

LEMMA RejectRequestStep == FlowInv /\ RejectRequest => FlowInv' /\ handed' = handed
<1> SUFFICES ASSUME FlowInv, RejectRequest PROVE FlowInv' /\ handed' = handed
  OBVIOUS
<1>1. /\ provider \in Providers /\ ServingOK(provider) /\ provider.next \in Nat
      /\ "established" \in Busy /\ side["provider"] = provider
  BY ProviderIs
<1>2. PICK u : u = [provider EXCEPT !.serving = NoService, !.implicit = FALSE]
  OBVIOUS
<1>3. PICK m : m = RejectMsg(provider.serving.stamp)
  OBVIOUS
<1>4. PICK r : r = Result(u, <<m>>)
  OBVIOUS
<1>5. provider.phase = "established" /\ Carry("provider", r, chan["provider"], 0)
  BY <1>1, <1>2, <1>3, <1>4 DEF RejectRequest, Established, Does
<1>6. m \in Message /\ m.kind \in Others
  BY <1>1, <1>3, ProviderFields DEF RejectMsg, Message, Others
<1>7. u \in Providers /\ u.next = provider.next /\ ~u.implicit /\ u.serving = NoService
  BY <1>1, <1>2, None DEF Providers
<1>8. ServingOK(u) /\ provider.next <= u.next
  BY <1>1, <1>7, None DEF ServingOK
<1>9. up["provider"] /\ provider.phase \in Busy
  BY <1>1, <1>5, BoundHolds, TheSides
<1> QED BY <1>4, <1>5, <1>6, <1>7, <1>8, <1>9, SendsOther

LEMMA EndRetransmissionStep == FlowInv /\ EndRetransmission => FlowInv' /\ handed' = handed
<1> SUFFICES ASSUME FlowInv, EndRetransmission PROVE FlowInv' /\ handed' = handed
  OBVIOUS
<1>1. /\ provider \in Providers /\ ServingOK(provider) /\ provider.next \in Nat
      /\ "established" \in Busy /\ side["provider"] = provider
  BY ProviderIs
<1>2. PICK u : u = [provider EXCEPT !.serving = NoService]
  OBVIOUS
<1>3. PICK r : r = Result(u, <<>>)
  OBVIOUS
<1>4. provider.phase = "established" /\ Carry("provider", r, chan["provider"], 0)
  BY <1>1, <1>2, <1>3 DEF EndRetransmission, Established, Does
<1>5. /\ u \in Providers /\ u.next = provider.next /\ u.phase = provider.phase
      /\ u.implicit = provider.implicit /\ u.serving = NoService
  BY <1>1, <1>2, None DEF Providers
<1>6. ServingOK(u) /\ provider.next <= u.next /\ Ready(u) = Ready(provider)
  BY <1>1, <1>5, None DEF ServingOK, Ready
<1>7. up["provider"] /\ provider.phase \in Busy
  BY <1>1, <1>4, BoundHolds, TheSides
<1>8. r.s = u /\ r.send = <<>> /\ r.open /\ r.accept = 0 /\ r.gone = {}
  BY <1>3, Queued
<1> QED BY <1>4, <1>5, <1>6, <1>7, <1>8, SendsNothing

LEMMA FinishSendingStep == FlowInv /\ FinishSending => FlowInv' /\ handed' = handed
<1> SUFFICES ASSUME FlowInv, FinishSending PROVE FlowInv' /\ handed' = handed
  OBVIOUS
<1>1. /\ provider \in Providers /\ ServingOK(provider) /\ provider.next \in Nat /\ 1 <= provider.next
      /\ "established" \in Busy /\ side["provider"] = provider
  BY ProviderIs
<1>2. PICK u : u = [provider EXCEPT !.ended = TRUE, !.implicit = FALSE]
  OBVIOUS
<1>3. PICK m : m = [kind |-> "FinishedSending", last |-> provider.next - 1]
  OBVIOUS
<1>4. PICK r : r = Result(u, <<m>>)
  OBVIOUS
<1>5. provider.phase = "established" /\ Carry("provider", r, chan["provider"], 0)
  BY <1>1, <1>2, <1>3, <1>4 DEF FinishSending, MaySend, Established, Does
<1>6. m \in Message /\ m.kind = "FinishedSending" /\ m.last + 1 <= provider.next
  <2>1. provider.next - 1 \in Nat /\ (provider.next - 1) + 1 <= provider.next
    BY ONLY <1>1
  <2> QED BY <1>3, <2>1 DEF Message
<1>7. /\ u \in Providers /\ u.next = provider.next /\ ~u.implicit /\ u.serving = provider.serving
  BY <1>1, <1>2 DEF Providers
<1>8. ServingOK(u) /\ provider.next <= u.next
  BY <1>1, <1>7 DEF ServingOK
<1>9. up["provider"] /\ provider.phase \in Busy
  BY <1>1, <1>5, BoundHolds, TheSides
<1> QED BY <1>4, <1>5, <1>6, <1>7, <1>8, <1>9, SendsOther

\* A message that arrives before the provider is bound ends the transport, and
\* one that arrives after is ignored.
LEMMA ProviderIgnores ==
    ASSUME FlowInv, up["provider"], chan["provider"] # <<>>,
           provider.phase \notin {"established", "terminating"},
           NEW handled, NEW r, r = OnPeer("provider", handled),
           Carry("provider", r, Tail(chan["provider"]), 0)
    PROVE  FlowInv' /\ handed' = handed
<1>1. /\ provider \in Providers /\ ServingOK(provider) /\ provider.next \in Nat
      /\ side["provider"] = provider
  BY ProviderIs
<1>2. CASE provider.phase \in {"closing", "finalized", "closed"}
  <2>1. r = Result(provider, <<>>)
    BY <1>1, <1>2 DEF OnPeer
  <2>2. r.s = provider /\ r.send = <<>> /\ r.open /\ r.accept = 0 /\ r.gone = {}
    BY <2>1, Queued
  <2>3. provider.phase \notin Busy \/ provider.phase \in Busy
    OBVIOUS
  <2>4. provider.next <= provider.next
    BY <1>1
  <2> QED BY <1>1, <2>2, <2>3, <2>4, SendsNothing
<1>3. CASE provider.phase \notin {"closing", "finalized", "closed"}
  <2>1. PICK u : u = Unbound("provider", provider)
    OBVIOUS
  <2>2. r = [Result(u, <<>>) EXCEPT !.open = FALSE, !.blame = "not established"]
    BY <1>1, <1>3, <2>1 DEF OnPeer
  <2>3. r.s = u /\ r.send = <<>> /\ r.accept = 0 /\ r.gone = {}
    BY ONLY <2>2 DEF Result
  <2>4. u \in Providers /\ u.phase = "negotiated" /\ u.next = provider.next /\ ServingOK(u)
    BY <1>1, <2>1, ProviderUnbinds
  <2>5. u.phase \notin Busy
    BY <2>4 DEF Busy
  <2> QED BY <2>3, <2>4, <2>5, ProviderEnds
<1> QED BY <1>2, <1>3

LEMMA ReceiveRetransmitRequestStep ==
    FlowInv /\ ReceiveRetransmitRequest => FlowInv' /\ handed' = handed
<1> SUFFICES ASSUME FlowInv, ReceiveRetransmitRequest PROVE FlowInv' /\ handed' = handed
  OBVIOUS
<1>1. /\ provider \in Providers /\ ServingOK(provider) /\ provider.next \in Nat
      /\ side["provider"] = provider /\ "established" \in Busy
  BY ProviderIs
<1>2. PICK m : m = Head(chan["provider"])
  OBVIOUS
<1>3. PICK handled : handled = OnRetransmitRequest(provider, m)
  OBVIOUS
<1>4. PICK r : r = OnPeer("provider", handled)
  OBVIOUS
<1>5. /\ up["provider"] /\ chan["provider"] # <<>> /\ m.kind = "RetransmitRequest"
      /\ Carry("provider", r, Tail(chan["provider"]), 0)
  BY <1>2, <1>3, <1>4 DEF ReceiveRetransmitRequest, Arrives, Hears
<1>6. m.stamp \in Nat /\ m.from \in Nat /\ m.count \in Nat
  <2>1. m \in Message
    BY <1>2, <1>5, SidesHave
  <2> QED BY <1>5, <2>1, Fields
<1>7. CASE provider.phase \notin {"established", "terminating"}
  BY <1>4, <1>5, <1>7, ProviderIgnores
<1>8. CASE provider.phase = "terminating"
  <2>1. r = Result(provider, <<>>)
    BY <1>1, <1>3, <1>4, <1>8 DEF OnPeer, OnRetransmitRequest
  <2>2. r.s = provider /\ r.send = <<>> /\ r.open /\ r.accept = 0 /\ r.gone = {}
    BY <2>1, Queued
  <2>3. provider.next <= provider.next
    BY <1>1
  <2> QED BY <1>1, <1>5, <2>2, <2>3, SendsNothing
<1>9. CASE provider.phase = "established"
  <2>1. r = handled /\ provider.phase \in Busy
    BY <1>1, <1>4, <1>9 DEF OnPeer
  <2>2. CASE provider.serving # NoService
    <3>1. PICK why : why = "request in progress"
      OBVIOUS
    <3>2. r = FailWith("provider", provider, "Error", why)
      BY <1>3, <1>9, <2>1, <2>2, <3>1 DEF OnRetransmitRequest
    <3> QED BY <1>5, <3>2, ProviderFails
  <2>3. CASE /\ provider.serving = NoService
             /\ \/ m.count \notin 1 .. MaxRetransmitCount \/ m.from < 1
                \/ m.from + m.count > provider.next
    <3>1. PICK u : u = [provider EXCEPT !.implicit = FALSE]
      OBVIOUS
    <3>2. PICK reject : reject = RejectMsg(m.stamp)
      OBVIOUS
    <3>3. r = Result(u, <<reject>>)
      BY <1>3, <1>9, <2>1, <2>3, <3>1, <3>2 DEF OnRetransmitRequest
    <3>4. u \in Providers /\ u.next = provider.next /\ ~u.implicit /\ u.serving = provider.serving
      BY <1>1, <3>1 DEF Providers
    <3>5. ServingOK(u) /\ provider.next <= u.next
      BY <1>1, <3>4 DEF ServingOK
    <3>6. reject \in Message /\ reject.kind \in Others
      BY <1>6, <3>2 DEF RejectMsg, Message, Others
    <3> QED BY <1>5, <2>1, <3>3, <3>4, <3>5, <3>6, SendsOther
  <2>4. CASE /\ provider.serving = NoService /\ m.count \in 1 .. MaxRetransmitCount
             /\ ~(m.from < 1) /\ ~(m.from + m.count > provider.next)
    <3>1. PICK serving : serving = [stamp |-> m.stamp, from |-> m.from, count |-> m.count, sent |-> 0]
      OBVIOUS
    <3>2. PICK u : u = [provider EXCEPT !.serving = serving]
      OBVIOUS
    <3>3. r = Result(u, <<>>)
      BY <1>3, <1>9, <2>1, <2>4, <3>1, <3>2 DEF OnRetransmitRequest
    <3>4. r.s = u /\ r.send = <<>> /\ r.open /\ r.accept = 0 /\ r.gone = {}
      BY <3>3, Queued
    <3>5. serving \in Services
      BY <1>6, <3>1 DEF Services
    <3>6. /\ u \in Providers /\ u.next = provider.next /\ u.phase = provider.phase
          /\ u.implicit = provider.implicit /\ u.serving = serving
      BY <1>1, <3>2, <3>5 DEF Providers
    <3>7. /\ serving.from = m.from /\ serving.count = m.count /\ serving.sent = 0
          /\ 1 <= m.from /\ m.from + m.count <= provider.next /\ 0 <= m.count
      BY <1>1, <1>6, <2>4, <3>1
    <3>8. ServingOK(u) /\ provider.next <= u.next /\ Ready(u) = Ready(provider)
      BY <1>1, <3>6, <3>7 DEF ServingOK, Ready
    <3> QED BY <1>5, <2>1, <3>4, <3>6, <3>8, SendsNothing
  <2> QED BY <2>2, <2>3, <2>4
<1> QED BY <1>7, <1>8, <1>9

LEMMA ReceiveFinishedReceivingStep ==
    FlowInv /\ ReceiveFinishedReceiving => FlowInv' /\ handed' = handed
<1> SUFFICES ASSUME FlowInv, ReceiveFinishedReceiving PROVE FlowInv' /\ handed' = handed
  OBVIOUS
<1>1. /\ provider \in Providers /\ ServingOK(provider) /\ provider.next \in Nat
      /\ side["provider"] = provider
  BY ProviderIs
<1>2. PICK u : u = [provider EXCEPT !.answered = TRUE]
  OBVIOUS
<1>3. PICK r : r = Result(u, <<>>)
  OBVIOUS
<1>4. /\ up["provider"] /\ chan["provider"] # <<>>
      /\ Carry("provider", r, Tail(chan["provider"]), 0)
  BY <1>2, <1>3 DEF ReceiveFinishedReceiving, Arrives, Hears
<1>5. /\ u \in Providers /\ u.next = provider.next /\ u.phase = provider.phase
      /\ u.implicit = provider.implicit /\ u.serving = provider.serving
  BY <1>1, <1>2 DEF Providers
<1>6. ServingOK(u) /\ provider.next <= u.next /\ Ready(u) = Ready(provider)
  BY <1>1, <1>5 DEF ServingOK, Ready
<1>7. r.s = u /\ r.send = <<>> /\ r.open /\ r.accept = 0 /\ r.gone = {}
  BY <1>3, Queued
<1> QED BY <1>4, <1>5, <1>6, <1>7, SendsNothing

LEMMA ProviderTerminates ==
    ASSUME FlowInv, Terminate("provider")
    PROVE  FlowInv' /\ handed' = handed
<1>1. /\ provider \in Providers /\ ServingOK(provider) /\ provider.next \in Nat
      /\ side["provider"] = provider /\ "established" \in Busy
  BY ProviderIs
<1>2. PICK u : u = ReleaseProvider([provider EXCEPT !.phase = "terminating"])
  OBVIOUS
<1>3. PICK m : m = TerminateMsg("Finished")
  OBVIOUS
<1>4. PICK r : r = Result(u, <<m>>)
  OBVIOUS
<1>5. provider.phase = "established" /\ Carry("provider", r, chan["provider"], 0)
  BY <1>1, <1>2, <1>3, <1>4 DEF Terminate, Established, Does
<1>6. /\ u \in Providers /\ u.next = provider.next /\ u.phase = "terminating"
      /\ u.serving = NoService
  BY <1>1, <1>2, None DEF Providers, ReleaseProvider, Phases
<1>7. ServingOK(u) /\ provider.next <= u.next
  BY <1>1, <1>6, None DEF ServingOK
<1>8. m \in Message /\ m.kind \in Others
  BY <1>3 DEF TerminateMsg, Message, Others, Codes
<1>9. up["provider"] /\ provider.phase \in Busy
  BY <1>1, <1>5, BoundHolds, TheSides
<1> QED BY <1>4, <1>5, <1>6, <1>7, <1>8, <1>9, SendsOther

LEMMA ProviderGivesUp ==
    ASSUME FlowInv, TerminateOnError("provider") \/ UnbindTimeout("provider")
    PROVE  FlowInv' /\ handed' = handed
<1>1. /\ provider \in Providers /\ ServingOK(provider) /\ side["provider"] = provider
      /\ "established" \in Busy /\ "terminating" \in Busy /\ "closing" \in Busy
  BY ProviderIs
<1>2. up["provider"]
  BY <1>1, BoundHolds, TheSides DEF TerminateOnError, UnbindTimeout, Established
<1>3. CASE TerminateOnError("provider")
  <2>1. PICK why : why = "none"
    OBVIOUS
  <2>2. PICK r : r = FailWith("provider", provider, "Error", why)
    OBVIOUS
  <2>3. Carry("provider", r, chan["provider"], 0)
    BY <1>1, <1>3, <2>1, <2>2 DEF TerminateOnError, Does
  <2> QED BY <1>2, <2>2, <2>3, ProviderFails
<1>4. CASE UnbindTimeout("provider")
  <2>1. PICK u : u = Unbound("provider", ReleaseProvider(provider))
    OBVIOUS
  <2>2. PICK r : r = [Result(u, <<>>) EXCEPT !.open = FALSE]
    OBVIOUS
  <2>3. Carry("provider", r, chan["provider"], 0)
    BY <1>1, <1>4, <2>1, <2>2, TheSides DEF UnbindTimeout, Does, Release
  <2>4. r.s = u /\ r.send = <<>> /\ r.accept = 0 /\ r.gone = {}
    BY ONLY <2>2 DEF Result
  <2>5. u \in Providers /\ u.phase = "negotiated" /\ u.next = provider.next /\ ServingOK(u)
    BY <1>1, <2>1, ProviderUnbinds
  <2>6. u.phase \notin Busy
    BY <2>5 DEF Busy
  <2> QED BY <1>2, <2>3, <2>4, <2>5, <2>6, ProviderEnds
<1> QED BY <1>3, <1>4

LEMMA ProviderHearsTerminate ==
    ASSUME FlowInv, ReceiveTerminate("provider")
    PROVE  FlowInv' /\ handed' = handed
<1>1. /\ provider \in Providers /\ ServingOK(provider) /\ provider.next \in Nat
      /\ side["provider"] = provider /\ "established" \in Busy /\ "terminating" \in Busy
  BY ProviderIs
<1>2. up["provider"] /\ chan["provider"] # <<>>
  BY DEF ReceiveTerminate, Arrives
<1>3. CASE provider.phase \in {"negotiated", "establishing", "pending"}
  <2>1. PICK u : u = Unbound("provider", provider)
    OBVIOUS
  <2>2. PICK r : r = [Result(u, <<>>) EXCEPT !.open = FALSE]
    OBVIOUS
  <2>3. Carry("provider", r, Tail(chan["provider"]), 0)
    BY <1>1, <1>3, <2>1, <2>2 DEF ReceiveTerminate, Hears
  <2>4. r.s = u /\ r.send = <<>> /\ r.accept = 0 /\ r.gone = {}
    BY ONLY <2>2 DEF Result
  <2>5. u \in Providers /\ u.phase = "negotiated" /\ u.next = provider.next /\ ServingOK(u)
    BY <1>1, <2>1, ProviderUnbinds
  <2>6. u.phase \notin Busy
    BY <2>5 DEF Busy
  <2> QED BY <1>2, <2>3, <2>4, <2>5, <2>6, ProviderEnds
<1>4. CASE provider.phase \notin {"negotiated", "establishing", "pending"}
  <2>1. PICK handled : handled = OnTerminate("provider", provider, Head(chan["provider"]))
    OBVIOUS
  <2>2. PICK r : r = OnPeer("provider", handled)
    OBVIOUS
  <2>3. Carry("provider", r, Tail(chan["provider"]), 0)
    BY <1>1, <1>4, <2>1, <2>2 DEF ReceiveTerminate, Hears
  <2>4. PICK t : t = ReleaseProvider(provider)
    OBVIOUS
  <2>5. /\ t \in Providers /\ t.next = provider.next /\ t.serving = NoService
    BY <1>1, <2>4, None DEF Providers, ReleaseProvider
  <2>6. CASE provider.phase \notin {"established", "terminating"}
    BY <1>2, <2>2, <2>3, <2>6, ProviderIgnores
  <2>7. CASE provider.phase = "terminating"
    <3>1. PICK u : u = Unbound("provider", t)
      OBVIOUS
    <3>2. r = [Result(u, <<>>) EXCEPT !.open = FALSE]
      BY <1>1, <2>1, <2>2, <2>4, <2>7, <3>1, TheSides DEF OnPeer, OnTerminate, Release
    <3>3. r.s = u /\ r.send = <<>> /\ r.accept = 0 /\ r.gone = {}
      BY ONLY <3>2 DEF Result
    <3>4. u \in Providers /\ u.phase = "negotiated" /\ u.next = provider.next /\ ServingOK(u)
      BY <1>1, <2>4, <3>1, ProviderUnbinds
    <3>5. u.phase \notin Busy
      BY <3>4 DEF Busy
    <3> QED BY <1>2, <2>3, <3>3, <3>4, <3>5, ProviderEnds
  <2>8. CASE provider.phase = "established"
    <3>1. PICK u : u = [t EXCEPT !.phase = "closing"]
      OBVIOUS
    <3>2. PICK m : m = TerminateMsg("Finished")
      OBVIOUS
    <3>3. r = Result(u, <<m>>)
      BY <1>1, <2>1, <2>2, <2>4, <2>8, <3>1, <3>2, TheSides DEF OnPeer, OnTerminate, Release
    <3>4. /\ u \in Providers /\ u.next = provider.next /\ u.phase = "closing"
          /\ u.serving = NoService
      BY <2>5, <3>1 DEF Providers, Phases
    <3>5. ServingOK(u) /\ provider.next <= u.next
      BY <1>1, <3>4, None DEF ServingOK
    <3>6. m \in Message /\ m.kind \in Others
      BY <3>2 DEF TerminateMsg, Message, Others, Codes
    <3>7. provider.phase \in Busy
      BY <1>1, <2>8
    <3> QED BY <1>2, <2>3, <3>3, <3>4, <3>5, <3>6, <3>7, SendsOther
  <2> QED BY <2>6, <2>7, <2>8
<1> QED BY <1>3, <1>4

-----------------------------------------------------------------------------
(* The handshake, at the provider                                           *)

\* A provider that rejects the Establish it had taken.
LEMMA ProviderRejects ==
    ASSUME FlowInv, up["provider"], provider.phase = "pending",
           NEW u \in Providers, u.phase = "negotiated", u.next = provider.next, ServingOK(u),
           NEW r, r.s = u, r.send = <<EstablishReject("Unspecified")>>, r.accept = 0, r.gone = {},
           Carry("provider", r, chan["provider"], 0)
    PROVE  FlowInv' /\ handed' = handed
<1>1. PICK m : m = EstablishReject("Unspecified")
  OBVIOUS
<1>2. m \in Message /\ m.kind = "EstablishmentReject"
  BY <1>1 DEF EstablishReject, Message, Codes
<1>3. /\ <<m>> \in Seq(Message) /\ Reached(<<m>>, u.next) /\ Numbered(Unknown, <<m>> \o <<>>)
      /\ Lone(<<m>>, "EstablishmentReject")
  BY <1>2, OneOther
<1>4. Ready(u) = <<>>
  BY ReadyIs
<1>5. Continues(r)
  BY <1>1, <1>3, <1>4, ContinuesBehind
<1>6. u.phase \notin Busy /\ provider.phase \in Busy
  BY DEF Busy
<1>7. ConsumerIsClient => Answers(r, chan["provider"])
  BY <1>1, <1>3, <1>6 DEF FlowInv, HandshakeOK, Answers, Calm
<1>8. Serves(r, chan["provider"])
  <2>1. provider.next \in Nat /\ chan["provider"] \in Seq(Message)
    BY SidesHave
  <2> QED BY <1>1, <1>3, <1>6, <1>7, <2>1 DEF Serves
<1> QED BY <1>5, <1>8, ProviderStep

LEMMA ProviderHandshakeTimeout ==
    ASSUME FlowInv, HandshakeTimeout("provider")
    PROVE  FlowInv' /\ handed' = handed
<1>1. /\ provider \in Providers /\ ServingOK(provider) /\ side["provider"] = provider
  BY ProviderIs
<1>2. PICK p : p = [provider EXCEPT !.announced = 0]
  OBVIOUS
<1>3. PICK u : u = Unbound("provider", p)
  OBVIOUS
<1>4. PICK send : send = IF provider.phase = "pending" THEN <<EstablishReject("Unspecified")>> ELSE <<>>
  OBVIOUS
<1>5. PICK r : r = [Result(u, send) EXCEPT !.open = FALSE]
  OBVIOUS
<1>6. up["provider"] /\ Carry("provider", r, chan["provider"], 0)
  BY <1>1, <1>2, <1>3, <1>4, <1>5 DEF HandshakeTimeout, Does
<1>7. p \in Providers /\ p.next = provider.next /\ p.serving = provider.serving
  BY <1>1, <1>2 DEF Providers
<1>8. ServingOK(p)
  BY <1>1, <1>7 DEF ServingOK
<1>9. u \in Providers /\ u.phase = "negotiated" /\ u.next = provider.next /\ ServingOK(u)
  BY <1>3, <1>7, <1>8, ProviderUnbinds
<1>10. r.s = u /\ r.send = send /\ r.accept = 0 /\ r.gone = {}
  BY ONLY <1>5 DEF Result
<1>11. CASE provider.phase = "pending"
  BY <1>4, <1>6, <1>9, <1>10, <1>11, ProviderRejects
<1>12. CASE provider.phase # "pending"
  <2>1. send \in {<<>>, <<TerminateMsg("Error")>>} /\ u.phase \notin Busy
    BY <1>4, <1>9, <1>12 DEF Busy
  <2> QED BY <1>6, <1>9, <1>10, <2>1, ProviderEnds
<1> QED BY <1>11, <1>12

LEMMA ProviderRejectsEstablish ==
    ASSUME FlowInv, Server = "provider", RejectEstablishment
    PROVE  FlowInv' /\ handed' = handed
<1>1. /\ provider \in Providers /\ ServingOK(provider) /\ side["provider"] = provider
  BY ProviderIs
<1>2. PICK u : u = [provider EXCEPT !.phase = "negotiated", !.announced = 0]
  OBVIOUS
<1>3. PICK send : send = <<EstablishReject("Unspecified")>>
  OBVIOUS
<1>4. PICK r : r = Result(u, send)
  OBVIOUS
<1>5. up["provider"] /\ provider.phase = "pending" /\ Carry("provider", r, chan["provider"], 0)
  BY <1>1, <1>2, <1>3, <1>4 DEF RejectEstablishment, Does
<1>6. /\ u \in Providers /\ u.phase = "negotiated" /\ u.next = provider.next
      /\ u.serving = provider.serving
  BY <1>1, <1>2 DEF Providers, Phases
<1>7. ServingOK(u)
  BY <1>1, <1>6 DEF ServingOK
<1>8. r.s = u /\ r.send = send /\ r.accept = 0 /\ r.gone = {}
  BY <1>4, Queued
<1> QED BY <1>3, <1>5, <1>6, <1>7, <1>8, ProviderRejects

\* establish, by a provider that is the client.
LEMMA ProviderEstablishes ==
    ASSUME FlowInv, Client = "provider", Establish
    PROVE  FlowInv' /\ handed' = handed
<1>1. /\ provider \in Providers /\ ServingOK(provider) /\ side["provider"] = provider
      /\ provider.next \in Nat /\ 1 <= provider.next
  BY ProviderIs
<1>2. PICK u : u = [provider EXCEPT !.phase = "establishing"]
  OBVIOUS
<1>3. PICK m : m = [kind |-> "Establish", next |-> provider.next]
  OBVIOUS
<1>4. PICK r : r = Result(u, <<m>>)
  OBVIOUS
<1>5. up["provider"] /\ Carry("provider", r, chan["provider"], 0)
  BY <1>1, <1>2, <1>3, <1>4 DEF Establish, Does, AnnouncedNextSeq
<1>6. /\ u \in Providers /\ u.phase = "establishing" /\ u.next = provider.next
      /\ u.serving = provider.serving
  BY <1>1, <1>2 DEF Providers, Phases
<1>7. ServingOK(u) /\ provider.next <= u.next /\ u.phase \notin Busy
  BY <1>1, <1>6 DEF ServingOK, Busy
<1>8. m \in Message /\ m.kind \in {"Establish", "EstablishmentAck"} /\ 1 <= m.next /\ m.next <= u.next
  BY <1>1, <1>3, <1>6 DEF Message
<1> QED BY <1>4, <1>5, <1>6, <1>7, <1>8, SendsOther

\* on_establish, by a provider that is the server: no other Establish is under
\* way, and it is not bound.
LEMMA ProviderTakesEstablish ==
    ASSUME FlowInv, Server = "provider", ReceiveEstablish
    PROVE  FlowInv' /\ handed' = handed
<1>1. /\ provider \in Providers /\ ServingOK(provider) /\ side["provider"] = provider
      /\ provider.next \in Nat /\ 1 <= provider.next
  BY ProviderIs
<1>2. PICK m : m = Head(chan["provider"])
  OBVIOUS
<1>3. PICK r : r = OnEstablish(provider, m)
  OBVIOUS
<1>4. /\ up["provider"] /\ chan["provider"] # <<>> /\ m.kind = "Establish"
      /\ Carry("provider", r, Tail(chan["provider"]), 0)
  BY <1>1, <1>2, <1>3 DEF ReceiveEstablish, Arrives, Hears
<1>5. chan["provider"] \in Seq(Message) /\ Tail(chan["provider"]) \in Seq(Message)
  BY <1>4, SidesHave, HeadTailProperties
<1>6. m.next \in Nat
  <2>1. m \in Message
    BY <1>2, <1>4, <1>5
  <2> QED BY <1>4, <2>1, Fields
<1>7. ConsumerIsClient
  BY FlagsAssumption DEF Server, Client, Other
<1>8. /\ Lone(chan["provider"], "Establish")
      /\ provider.phase \in Busy => Without(chan["provider"], "Establish")
  BY <1>7 DEF FlowInv, HandshakeOK
<1>9. ~Without(chan["provider"], "Establish")
  <2>1. 1 \in 1 .. Len(chan["provider"]) /\ chan["provider"][1].kind = "Establish"
    BY <1>2, <1>4, <1>5, HeadTailProperties, LenProperties, EmptySeq
  <2> QED BY <2>1 DEF Without
<1>10. provider.phase \notin Busy /\ provider.phase # "finalized" /\ ~Bound("provider")
  BY <1>1, <1>8, <1>9, ProviderFields DEF Busy, Bound
<1>11. PICK next : next = m.next
  OBVIOUS
<1>12. PICK u : u = [provider EXCEPT !.phase = "pending", !.announced = next]
  OBVIOUS
<1>13. r = Result(u, <<>>)
  <2>1. "consumer" # Server
    BY TheSides
  <2> QED BY <1>3, <1>10, <1>11, <1>12, <2>1 DEF OnEstablish, Busy
<1>14. r.s = u /\ r.send = <<>> /\ r.open /\ r.accept = 0 /\ r.gone = {}
  BY <1>13, Queued
<1>15. /\ u \in Providers /\ u.phase = "pending" /\ u.next = provider.next
       /\ u.serving = provider.serving
  BY <1>1, <1>6, <1>11, <1>12 DEF Providers, Phases
<1>16. ServingOK(u) /\ provider.next <= u.next
  BY <1>1, <1>15 DEF ServingOK
<1>17. Without(Tail(chan["provider"]), "Establish") /\ Lone(Tail(chan["provider"]), "Establish")
  BY <1>2, <1>4, <1>5, <1>8, KindsLeft
<1>18. Answers(r, Tail(chan["provider"]))
  BY <1>9, <1>14, <1>17, NothingSent DEF Answers, Calm
<1>19. Serves(r, Tail(chan["provider"]))
  BY <1>5, <1>14, <1>15, <1>16, <1>18, NothingSent DEF Serves
<1>20. Continues(r)
  <2>1. Ready(u) = <<>>
    BY <1>15, ReadyIs
  <2> QED BY <1>14, <1>15, <2>1, NothingSent, ContinuesBehind
<1> QED BY <1>4, <1>19, <1>20, ProviderStep

\* bind of the provider: its next message needs a Sequence.
LEMMA ProviderBinds ==
    ASSUME NEW p \in Providers, ServingOK(p), NEW u, u = Bind("provider", p)
    PROVE  /\ u \in Providers /\ u.next = p.next /\ u.phase = "established" /\ ~u.implicit
           /\ ServingOK(u)
<1>1. PICK t : t = ReleaseProvider(p)
  OBVIOUS
<1>2. t \in Providers /\ t.next = p.next /\ t.serving = NoService
  BY <1>1, None DEF Providers, ReleaseProvider
<1>3. PICK q : q = [t EXCEPT !.phase = "established", !.announced = 0]
  OBVIOUS
<1>4. q \in Providers /\ q.next = p.next /\ q.serving = NoService /\ q.phase = "established"
  BY <1>2, <1>3 DEF Providers, Phases
<1>5. u = [q EXCEPT !.implicit = FALSE]
  BY <1>1, <1>3, TheSides DEF Bind, Release
<1>6. /\ u \in Providers /\ u.next = p.next /\ u.serving = NoService /\ u.phase = "established"
      /\ ~u.implicit
  BY <1>4, <1>5 DEF Providers
<1>7. p.next \in Nat
  BY ProviderFields
<1> QED BY <1>6, <1>7, None DEF ServingOK

\* accept_establishment.
LEMMA ProviderAccepts ==
    ASSUME FlowInv, Server = "provider", AcceptEstablishment
    PROVE  FlowInv' /\ handed' = handed
<1>1. /\ provider \in Providers /\ ServingOK(provider) /\ side["provider"] = provider
      /\ provider.next \in Nat /\ 1 <= provider.next
  BY ProviderIs
<1>2. PICK u : u = Bind("provider", provider)
  OBVIOUS
<1>3. PICK m : m = [kind |-> "EstablishmentAck", next |-> provider.next]
  OBVIOUS
<1>4. PICK send : send = <<m>>
  OBVIOUS
<1>5. PICK b : b = Result(u, send)
  OBVIOUS
<1>6. PICK q : q = Result(u, <<>>)
  OBVIOUS
<1>7. PICK r : r = Then(b, q)
  OBVIOUS
<1>8. up["provider"] /\ provider.phase = "pending" /\ Carry("provider", r, chan["provider"], 0)
  <2>1. b.s = u
    BY <1>5, Queued
  <2>2. OnEstablished("provider", b.s, provider.announced) = q
    BY <1>6, <2>1 DEF OnEstablished
  <2>3. b = Result(Bind(Server, side[Server]),
                   <<[kind |-> "EstablishmentAck", next |-> AnnouncedNextSeq(Server)]>>)
    BY <1>1, <1>2, <1>3, <1>4, <1>5 DEF AnnouncedNextSeq
  <2>4. /\ up[Server] /\ side[Server].phase = "pending"
        /\ Does(Server, Then(b, OnEstablished(Server, b.s, side[Server].announced)))
    BY <2>3, Zenon DEF AcceptEstablishment
  <2> QED BY <1>1, <1>7, <2>2, <2>4 DEF Does
<1>9. send \in Seq(Message) /\ m \in Message /\ m.kind = "EstablishmentAck" /\ m.next = provider.next
  BY <1>1, <1>3, <1>4 DEF Message
<1>10. r = Result(u, <<m>>)
  <2>1. send \o <<>> = send
    BY <1>9, ConcatEmptySeq
  <2>2. /\ b.open /\ b.send = send /\ b.gone = {} /\ b.accept = 0
        /\ q = [s |-> u, send |-> <<>>, open |-> TRUE, accept |-> 0, gone |-> {}, blame |-> "none"]
    BY <1>5, <1>6 DEF Result
  <2>3. r = [q EXCEPT !.send = b.send \o @, !.gone = b.gone \union @,
                      !.accept = IF @ = 0 THEN b.accept ELSE @]
    BY <1>7, <2>2 DEF Then
  <2>4. r = [s |-> u, send |-> send, open |-> TRUE, accept |-> 0, gone |-> {}, blame |-> "none"]
    BY <2>1, <2>2, <2>3
  <2> QED BY <1>4, <2>4 DEF Result
<1>11. u \in Providers /\ u.next = provider.next /\ u.phase = "established" /\ ~u.implicit /\ ServingOK(u)
  BY <1>1, <1>2, ProviderBinds
<1>12. provider.next <= u.next /\ 1 <= m.next /\ m.next <= u.next /\ provider.phase \in Busy
  BY <1>1, <1>8, <1>9, <1>11 DEF Busy
<1> QED BY <1>8, <1>9, <1>10, <1>11, <1>12, SendsOther

\* on_establishment_ack and on_establishment_reject, by a provider that is
\* the client.
LEMMA ProviderHearsAnswer ==
    ASSUME FlowInv, Client = "provider", ReceiveEstablishmentAck \/ ReceiveEstablishmentReject
    PROVE  FlowInv' /\ handed' = handed
<1>1. /\ provider \in Providers /\ ServingOK(provider) /\ side["provider"] = provider
      /\ provider.next \in Nat /\ 1 <= provider.next
  BY ProviderIs
<1>2. ~ConsumerIsClient
  BY TheSides DEF Client
<1>3. up["provider"] /\ chan["provider"] # <<>>
  BY DEF ReceiveEstablishmentAck, ReceiveEstablishmentReject, Arrives
<1>4. \E u : /\ u \in Providers /\ u.next = provider.next /\ ServingOK(u)
             /\ Ready(u) = Ready(provider) \/ Ready(u) = <<>>
             /\ Carry("provider", Result(u, <<>>), Tail(chan["provider"]), 0)
  <2>1. CASE provider.phase # "establishing"
    <3>1. Carry("provider", Result(provider, <<>>), Tail(chan["provider"]), 0)
      BY <1>1, <2>1 DEF ReceiveEstablishmentAck, ReceiveEstablishmentReject, OnAck, OnReject, Hears
    <3> QED BY <1>1, <3>1
  <2>2. CASE provider.phase = "establishing" /\ ReceiveEstablishmentAck
    <3>1. PICK u : u = Bind("provider", provider)
      OBVIOUS
    <3>2. Carry("provider", Result(u, <<>>), Tail(chan["provider"]), 0)
      BY <1>1, <2>2, <3>1 DEF ReceiveEstablishmentAck, OnAck, OnEstablished, Hears
    <3>3. /\ u \in Providers /\ u.next = provider.next /\ u.phase = "established" /\ ~u.implicit
          /\ ServingOK(u)
      BY <1>1, <3>1, ProviderBinds
    <3>4. Ready(u) = <<>>
      BY <3>3, ReadyIs
    <3> QED BY <3>2, <3>3, <3>4
  <2>3. CASE provider.phase = "establishing" /\ ReceiveEstablishmentReject
    <3>1. PICK phase \in {"closed", "negotiated"} :
             phase = IF Head(chan["provider"]).code = "Unnegotiated" THEN "closed" ELSE "negotiated"
      OBVIOUS
    <3>2. PICK u : u = [provider EXCEPT !.phase = phase]
      OBVIOUS
    <3>3. Carry("provider", Result(u, <<>>), Tail(chan["provider"]), 0)
      BY <1>1, <2>3, <3>1, <3>2 DEF ReceiveEstablishmentReject, OnReject, Hears
    <3>4. /\ u \in Providers /\ u.next = provider.next /\ u.phase = phase
          /\ u.serving = provider.serving
      BY <1>1, <3>1, <3>2 DEF Providers, Phases
    <3>5. ServingOK(u) /\ Ready(u) = <<>>
      BY <1>1, <3>1, <3>4, ReadyIs DEF ServingOK
    <3> QED BY <3>3, <3>4, <3>5
  <2> QED BY <2>1, <2>2, <2>3
<1>5. PICK u : /\ u \in Providers /\ u.next = provider.next /\ ServingOK(u)
               /\ Ready(u) = Ready(provider) \/ Ready(u) = <<>>
               /\ Carry("provider", Result(u, <<>>), Tail(chan["provider"]), 0)
  BY <1>4
<1>6. PICK r : r = Result(u, <<>>)
  OBVIOUS
<1>7. r.s = u /\ r.send = <<>> /\ r.open /\ r.accept = 0 /\ r.gone = {}
  BY <1>6, Queued
<1>8. provider.next <= u.next
  BY <1>1, <1>5
<1> QED BY <1>2, <1>3, <1>5, <1>6, <1>7, <1>8, SendsNothing

-----------------------------------------------------------------------------
(* The steps of the consumer                                                *)

LEMMA RepliesAre ==
    ASSUME NEW u \in Seq(Replies)
    PROVE  u \in Seq(Message) /\ Without(u, "Establish")
<1>1. \A i \in 1 .. Len(u) : u[i] \in Replies
  BY LenProperties, ElementOfSeq
<1>2. \A i \in 1 .. Len(u) : u[i] \in Message /\ u[i].kind # "Establish"
  BY <1>1 DEF Replies
<1>3. u = [i \in 1 .. Len(u) |-> u[i]] /\ Len(u) \in Nat
  BY LenProperties
<1> QED BY <1>2, <1>3 DEF Without

\* The consumer as the invariant has it.
LEMMA ConsumerIs ==
    ASSUME FlowInv
    PROVE  /\ consumer \in Consumers /\ side["consumer"] = consumer
           /\ consumer.next <= provider.next /\ consumer.announced <= provider.next
           /\ consumer.phase = "pending" => 1 <= consumer.announced
           /\ provider.next \in 1 .. MaxSeq + 1 /\ provider.next \in Nat /\ MaxSeq \in Nat
           /\ consumer.next \in Nat
           /\ abandoned \in SUBSET Nat /\ origin \in Nat
           /\ Session(consumer, handed, abandoned, origin)
           /\ consumer.phase \in {"established", "terminating", "closing"} => ~consumer.start
           /\ consumer.phase = "closed" => ConsumerIsClient
           /\ {"established", "terminating", "closing", "pending"} = Busy
<1>1. (Bound("consumer") => ~consumer.start) /\ (consumer.phase = "closed" => ConsumerIsClient)
  BY DEF FlowInv, LetGo
<1>2. consumer.phase \in {"established", "terminating", "closing"} => ~consumer.start
  BY <1>1, SidesHave DEF Bound
<1> QED BY <1>1, <1>2, SidesHave, Constants DEF FlowInv, NextOK, Busy

\* The first message of a line, and what is behind it.
LEMMA FirstOf ==
    ASSUME NEW v \in Seq(Message), v # <<>>, NEW w \in Seq(Message), NEW u, u = v \o w
    PROVE  u \in Seq(Message) /\ u # <<>> /\ u[1] = Head(v) /\ Tail(u) = Tail(v) \o w
<1>1. v \in Seq(Message) /\ w \in Seq(Message) /\ v # <<>> /\ u = v \o w
  OBVIOUS
<1>2. /\ u \in Seq(Message) /\ Len(u) = Len(v) + Len(w) /\ Len(v) \in Nat /\ Len(w) \in Nat
      /\ \A i \in 1 .. Len(u) : u[i] = IF i <= Len(v) THEN v[i] ELSE w[i - Len(v)]
  BY <1>1, ConcatProperties, LenProperties
<1>3. Len(v) # 0 /\ Head(v) = v[1]
  BY <1>1, EmptySeq, HeadTailProperties
<1>4. u # <<>>
  <2>1. Len(u) # 0
    BY ONLY <1>2, <1>3
  <2> QED BY <2>1
<1>5. u[1] = v[1]
  <2>1. 1 \in 1 .. Len(u) /\ 1 <= Len(v)
    BY ONLY <1>2, <1>3
  <2> QED BY <1>2, <2>1
<1>6. /\ Tail(u) \in Seq(Message) /\ Len(Tail(u)) = Len(u) - 1
      /\ \A i \in 1 .. Len(Tail(u)) : Tail(u)[i] = u[i + 1]
  BY <1>2, <1>4, HeadTailProperties
<1>7. /\ Tail(v) \in Seq(Message) /\ Len(Tail(v)) = Len(v) - 1
      /\ \A i \in 1 .. Len(Tail(v)) : Tail(v)[i] = v[i + 1]
  BY <1>1, HeadTailProperties
<1>8. /\ Tail(v) \o w \in Seq(Message) /\ Len(Tail(v) \o w) = Len(Tail(v)) + Len(w)
       /\ \A i \in 1 .. Len(Tail(v) \o w) :
             (Tail(v) \o w)[i] = IF i <= Len(Tail(v)) THEN Tail(v)[i] ELSE w[i - Len(Tail(v))]
  BY <1>1, <1>7, ConcatProperties
<1>9. Len(Tail(v) \o w) = Len(Tail(u))
  BY ONLY <1>2, <1>3, <1>6, <1>7, <1>8
<1>10. ASSUME NEW i \in 1 .. Len(Tail(u))
       PROVE  (Tail(v) \o w)[i] = Tail(u)[i]
  <2>1. i \in Nat /\ i + 1 \in 1 .. Len(u) /\ i \in 1 .. Len(Tail(v) \o w)
    BY ONLY <1>2, <1>3, <1>6, <1>9, i \in 1 .. Len(Tail(u))
  <2>2. CASE i <= Len(Tail(v))
    <3>1. i \in 1 .. Len(Tail(v)) /\ i + 1 <= Len(v)
      BY ONLY <1>2, <1>7, <2>1, <2>2, i \in 1 .. Len(Tail(u))
    <3> QED BY <1>2, <1>6, <1>7, <1>8, <2>1, <3>1
  <2>3. CASE ~(i <= Len(Tail(v)))
    <3>1. ~(i + 1 <= Len(v)) /\ (i + 1) - Len(v) = i - Len(Tail(v))
      BY ONLY <1>2, <1>7, <2>1, <2>3
    <3> QED BY <1>2, <1>6, <1>8, <2>1, <2>3, <3>1
  <2> QED BY <2>2, <2>3
<1>11. Tail(v) \o w = Tail(u)
  BY <1>6, <1>8, <1>9, <1>10, SeqEqual
<1> QED BY <1>2, <1>3, <1>4, <1>5, <1>11

LEMMA FirstOfLine ==
    ASSUME FlowInv, chan["consumer"] # <<>>, NEW u, u = chan["consumer"] \o Ready(provider)
    PROVE  /\ u \in Seq(Message) /\ u # <<>> /\ u[1] = Head(chan["consumer"])
           /\ Tail(u) = Tail(chan["consumer"]) \o Ready(provider)
<1>1. /\ chan["consumer"] \in Seq(Message) /\ Ready(provider) \in Seq(Message)
  BY SidesHave, ReadyIs
<1> QED BY <1>1, FirstOf

\* What is left to the consumer behind the message it reads.
LEMMA LineLeft ==
    ASSUME FlowInv, up["consumer"], chan["consumer"] # <<>>,
           consumer.phase \notin {"closing", "finalized", "closed"},
           NEW m, m = Head(chan["consumer"]), NEW rest, rest = Tail(chan["consumer"]) \o Ready(provider)
    PROVE  /\ Follows(Context(consumer), m) /\ Numbered(m, rest)
           /\ m.kind \notin Data => \A c : Numbered(c, rest)
<1>2. PICK u : u = chan["consumer"] \o Ready(provider)
  OBVIOUS
<1>3. u \in Seq(Message) /\ u # <<>> /\ u[1] = m /\ Tail(u) = rest
  BY <1>2, FirstOfLine
<1>4. Numbered(Context(consumer), u)
  BY <1>2 DEF FlowInv, LineOK
<1>5. Follows(Context(consumer), m) /\ Numbered(m, rest)
  BY <1>3, <1>4, ReadFirst
<1> QED BY <1>5, ForgetOther

\* The message the consumer reads, and what is left.
LEMMA HeadIs ==
    ASSUME FlowInv, chan["consumer"] # <<>>, NEW m, m = Head(chan["consumer"])
    PROVE  /\ m \in Message /\ Tail(chan["consumer"]) \in Seq(Message)
           /\ Reached(Tail(chan["consumer"]), provider.next)
           /\ m.kind \in {"Sequence", "Establish", "EstablishmentAck"} =>
                 m.next \in Nat /\ 1 <= m.next /\ m.next <= provider.next
           /\ m.kind = "Application" => m.n \in Nat /\ 1 <= m.n /\ m.n < provider.next
           /\ m.kind = "Retransmission" => m.next \in Nat /\ m.count \in Nat
           /\ m.kind = "FinishedSending" => m.last \in Nat /\ m.last + 1 <= provider.next
<1>1. chan["consumer"] \in Seq(Message) /\ Reached(chan["consumer"], provider.next)
  BY SidesHave
<1>2. /\ Head(chan["consumer"]) = chan["consumer"][1] /\ 1 \in 1 .. Len(chan["consumer"])
      /\ m \in Message /\ Tail(chan["consumer"]) \in Seq(Message)
  BY <1>1, HeadTailProperties, LenProperties, EmptySeq
<1>3. Reached(Tail(chan["consumer"]), provider.next)
  BY <1>1, ReachedRest
<1> QED BY <1>1, <1>2, <1>3, Fields DEF Reached

\* A step of the consumer that delivers nothing.
LEMMA ConsumerGoes ==
    ASSUME FlowInv, up["consumer"], NEW r, NEW unread,
           unread = chan["consumer"] \/ (chan["consumer"] # <<>> /\ unread = Tail(chan["consumer"])),
           NEW n, Carry("consumer", r, unread, n), r.accept = 0,
           r.s \in Consumers, r.send \in Seq(Message),
           NEW gone \in SUBSET Nat, gone = abandoned \union r.gone,
           NEW begun \in Nat, begun = IF consumer.start /\ ~r.s.start THEN r.s.next ELSE origin,
           Session(r.s, handed, gone, begun),
           r.s.next <= provider.next, r.s.announced <= provider.next,
           r.s.phase = "pending" => 1 <= r.s.announced, ~r.open => r.s.phase \notin Busy,
           r.s.phase \in {"established", "terminating", "closing"} => ~r.s.start,
           r.s.phase = "closed" => ConsumerIsClient,
           Greets(r, unread),
           r.open /\ r.s.phase \notin {"closing", "finalized", "closed"} =>
              Numbered(Context(r.s), unread \o Ready(provider))
    PROVE  FlowInv' /\ handed' = handed
<1>1. unread \in Seq(Message) /\ Reached(unread, provider.next)
  BY SidesHave, HeadIs
<1>2. handed \in Books
  BY SidesHave
<1>3. Steps(r, unread, handed, gone, begun)
  BY <1>1, <1>2 DEF Steps
<1>4. handed = IF r.accept = 0 THEN handed ELSE [handed EXCEPT ![n] = Append(@, r.accept)]
  OBVIOUS
<1>5. begun = IF consumer.start /\ ~r.s.start
              THEN (IF r.accept = 0 THEN r.s.next ELSE r.accept) ELSE origin
  OBVIOUS
<1>6. FlowInv'
  BY <1>3, <1>4, <1>5, ConsumerStep
<1>7. handed' = handed
  BY DEF Carry
<1> QED BY <1>6, <1>7

\* One that is bound afterwards, or lets go of the transport.
LEMMA GreetsNone ==
    ASSUME NEW r, NEW unread, r.send \in Seq(Replies),
           r.open => r.s.phase \notin {"negotiated", "establishing"}
    PROVE  Greets(r, unread)
<1>1. Without(r.send, "Establish")
  BY RepliesAre
<1> QED BY <1>1 DEF Greets

\* A handler that does not start the numbering and abandons nothing.
LEMMA ConsumerHandles ==
    ASSUME FlowInv, up["consumer"], NEW r, NEW unread,
           unread = chan["consumer"] \/ (chan["consumer"] # <<>> /\ unread = Tail(chan["consumer"])),
           NEW n, Carry("consumer", r, unread, n), r.accept = 0, r.gone = {},
           r.s \in Consumers, r.send \in Seq(Replies),
           Session(r.s, handed, abandoned, origin),
           r.s.next <= provider.next, r.s.announced = consumer.announced,
           r.s.start <=> consumer.start,
           ~r.open => r.s.phase \in {"negotiated", "finalized"},
           r.open => r.s.phase \notin {"negotiated", "establishing", "pending"},
           r.open /\ r.s.phase \notin {"closing", "finalized", "closed"} =>
              ~consumer.start /\ Numbered(Context(r.s), unread \o Ready(provider)),
           r.open /\ r.s.phase = "closing" => ~consumer.start,
           r.s.phase = "closed" => ConsumerIsClient
    PROVE  FlowInv' /\ handed' = handed
<1>1. /\ abandoned \in SUBSET Nat /\ origin \in Nat /\ consumer.announced <= provider.next
      /\ {"established", "terminating", "closing", "pending"} = Busy
  BY ConsumerIs
<1>2. PICK gone : gone = abandoned
  OBVIOUS
<1>3. gone = abandoned \union r.gone /\ gone \in SUBSET Nat
  BY <1>1, <1>2
<1>4. PICK begun : begun = origin
  OBVIOUS
<1>5. begun = (IF consumer.start /\ ~r.s.start THEN r.s.next ELSE origin) /\ begun \in Nat
  BY <1>1, <1>4
<1>6. r.send \in Seq(Message) /\ Greets(r, unread)
  BY RepliesAre, GreetsNone
<1>7. r.s.announced <= provider.next
  BY <1>1
<1>8. ~r.open => r.s.phase \notin Busy
  BY <1>1
<1>9. r.s.phase # "pending"
  OBVIOUS
<1>10. r.s.phase \in {"established", "terminating", "closing"} => ~r.s.start
  BY <1>8
<1>11. Session(r.s, handed, gone, begun)
  BY <1>2, <1>4
<1> QED BY <1>3, <1>5, <1>6, <1>7, <1>8, <1>9, <1>10, <1>11, ConsumerGoes

\* A handler of a bound consumer that is quiet and does not start the numbering.
LEMMA ConsumerQuiet ==
    ASSUME FlowInv, up["consumer"], consumer.phase \in {"established", "terminating"},
           NEW r, NEW unread,
           unread = chan["consumer"] \/ (chan["consumer"] # <<>> /\ unread = Tail(chan["consumer"])),
           NEW n, Carry("consumer", r, unread, n), Quiet(r),
           Session(r.s, handed, abandoned, origin),
           r.s.next <= provider.next, r.s.announced = consumer.announced, ~r.s.start,
           r.open => r.s.phase = consumer.phase /\ Numbered(Context(r.s), unread \o Ready(provider))
    PROVE  FlowInv' /\ handed' = handed
<1>1. r.accept = 0 /\ r.gone = {} /\ r.s \in Consumers /\ r.send \in Seq(Replies)
  BY DEF Quiet, Results
<1>2. ~consumer.start
  BY ConsumerIs
<1>3. ~r.open => r.s.phase \in {"negotiated", "finalized"}
  BY DEF Quiet
<1>4. r.open => r.s.phase \notin {"negotiated", "establishing", "pending"}
  OBVIOUS
<1>5. r.s.start <=> consumer.start
  BY <1>2
<1>6. r.s.phase # "closed"
  BY <1>3
<1> QED BY <1>1, <1>2, <1>3, <1>4, <1>5, <1>6, ConsumerHandles

\* What is not for a session that is not bound: it ends the transport, or is
\* ignored.
LEMMA ConsumerUnbinds ==
    ASSUME FlowInv, NEW s \in Consumers, Session(s, handed, abandoned, origin),
           s.phase \notin {"established", "terminating"}, NEW u, u = Unbound("consumer", s)
    PROVE  /\ u \in Consumers /\ Session(u, handed, abandoned, origin)
           /\ u.phase \in {"negotiated", "finalized"} /\ u.next = s.next
           /\ u.start = s.start /\ u.announced = s.announced
<1>1. PICK phase \in {"negotiated", "finalized"} :
         phase = IF s.finalized THEN "finalized" ELSE "negotiated"
  OBVIOUS
<1>2. PICK announced \in Nat : announced = s.announced
  BY ConsumerFields
<1>3. u = Rephased(s, phase, announced)
  <2>1. u = [s EXCEPT !.phase = phase]
    BY <1>1 DEF Unbound
  <2> QED BY <1>2, <2>1 DEF Consumers, Rephased
<1>4. phase \in Phases /\ phase \notin {"established", "terminating"}
  BY <1>1 DEF Phases
<1>5. abandoned \in SUBSET Nat /\ origin \in Nat
  BY ConsumerIs
<1>6. /\ u \in Consumers /\ Session(u, handed, abandoned, origin)
      /\ u.next = s.next /\ u.start = s.start /\ u.announced = announced /\ u.phase = phase
  BY <1>3, <1>4, <1>5, PhaseKeeps
<1> QED BY <1>2, <1>6

LEMMA ConsumerIgnores ==
    ASSUME FlowInv, up["consumer"], chan["consumer"] # <<>>,
           consumer.phase \notin {"established", "terminating"},
           NEW handled, NEW r, r = OnPeer("consumer", handled),
           NEW n, Carry("consumer", r, Tail(chan["consumer"]), n)
    PROVE  FlowInv' /\ handed' = handed
<1>1. /\ consumer \in Consumers /\ side["consumer"] = consumer /\ consumer.next <= provider.next
      /\ Session(consumer, handed, abandoned, origin)
      /\ consumer.phase \in {"established", "terminating", "closing"} => ~consumer.start
      /\ consumer.phase = "closed" => ConsumerIsClient
  BY ConsumerIs
<1>2. CASE consumer.phase \in {"closing", "finalized", "closed"}
  <2>1. r = Result(consumer, <<>>)
    BY <1>1, <1>2 DEF OnPeer
  <2>2. r.s = consumer /\ r.send = <<>> /\ r.open /\ r.accept = 0 /\ r.gone = {}
    BY <2>1, Queued
  <2>3. r.send \in Seq(Replies)
    BY <2>2, ConsumerSends
  <2> QED BY <1>1, <1>2, <2>2, <2>3, ConsumerHandles
<1>3. CASE consumer.phase \notin {"closing", "finalized", "closed"}
  <2>1. PICK u : u = Unbound("consumer", consumer)
    OBVIOUS
  <2>2. r = [Result(u, <<>>) EXCEPT !.open = FALSE, !.blame = "not established"]
    BY <1>1, <1>3, <2>1 DEF OnPeer
  <2>3. r.s = u /\ r.send = <<>> /\ r.accept = 0 /\ r.gone = {} /\ ~r.open
    BY ONLY <2>2 DEF Result
  <2>4. /\ u \in Consumers /\ Session(u, handed, abandoned, origin)
        /\ u.phase \in {"negotiated", "finalized"} /\ u.next = consumer.next
        /\ u.start = consumer.start /\ u.announced = consumer.announced
    BY <1>1, <2>1, ConsumerUnbinds
  <2>5. r.send \in Seq(Replies) /\ r.s.next <= provider.next
    BY <1>1, <2>3, <2>4, ConsumerSends
  <2> QED BY <2>3, <2>4, <2>5, ConsumerHandles
<1> QED BY <1>2, <1>3

LEMMA ReceiveSequenceStep == FlowInv /\ ReceiveSequence => FlowInv' /\ handed' = handed
<1> SUFFICES ASSUME FlowInv, ReceiveSequence PROVE FlowInv' /\ handed' = handed
  OBVIOUS
<1>1. PICK m : m = Head(chan["consumer"])
  OBVIOUS
<1>2. PICK next : next = m.next
  OBVIOUS
<1>3. PICK handled : handled = OnNextSeq(consumer, next)
  OBVIOUS
<1>4. PICK r : r = OnPeer("consumer", handled)
  OBVIOUS
<1>5. /\ up["consumer"] /\ chan["consumer"] # <<>> /\ m.kind = "Sequence"
      /\ Carry("consumer", r, Tail(chan["consumer"]), 0)
  BY <1>1, <1>2, <1>3, <1>4 DEF ReceiveSequence, Arrives, Hears
<1>6. CASE consumer.phase \notin {"established", "terminating"}
  BY <1>4, <1>5, <1>6, ConsumerIgnores
<1>7. CASE consumer.phase \in {"established", "terminating"}
  <2>1. /\ consumer \in Consumers /\ side["consumer"] = consumer /\ consumer.next <= provider.next
        /\ Session(consumer, handed, abandoned, origin) /\ ~consumer.start
        /\ abandoned \in SUBSET Nat /\ origin \in Nat
        /\ provider.next \in 1 .. MaxSeq + 1 /\ provider.next \in Nat /\ MaxSeq \in Nat
    BY <1>7, ConsumerIs
  <2>2. r = handled
    BY <1>4, <1>7, <2>1 DEF OnPeer
  <2>3. next \in Nat /\ 1 <= next /\ next <= provider.next
    BY <1>1, <1>2, <1>5, HeadIs
  <2>4. next \in 1 .. MaxSeq + 1
    BY ONLY <2>1, <2>3
  <2>5. PICK begun : begun = IF consumer.start THEN next ELSE origin
    OBVIOUS
  <2>6. /\ Quiet(r) /\ Session(r.s, handed, abandoned, begun)
        /\ r.s.next \in {consumer.next, next} /\ ~r.s.start /\ r.s.announced = consumer.announced
        /\ r.open => r.s.next = next /\ r.s.phase = consumer.phase /\ r.s.replay = NoReplay
    BY <1>3, <1>7, <2>1, <2>2, <2>4, <2>5, NextSeqKeeps
  <2>7. begun = origin /\ r.s.next <= provider.next
    BY <2>1, <2>3, <2>5, <2>6
  <2>8. ASSUME r.open
        PROVE  Numbered(Context(r.s), Tail(chan["consumer"]) \o Ready(provider))
    <3>1. PICK rest : rest = Tail(chan["consumer"]) \o Ready(provider)
      OBVIOUS
    <3>2. Numbered(m, rest)
      BY <1>1, <1>5, <1>7, <3>1, LineLeft
    <3>3. PICK c : c = Context(r.s)
      OBVIOUS
    <3>4. c = SequenceMsg(next)
      BY <1>7, <2>6, <2>8, <3>3 DEF Context
    <3>5. c.kind = "Sequence" /\ c.next = next
      BY <3>4 DEF SequenceMsg
    <3>6. Numbered(c, rest)
      BY <1>2, <1>5, <3>2, <3>5, SameContext
    <3> QED BY <3>1, <3>3, <3>6
  <2>9. Session(r.s, handed, abandoned, origin)
    BY <2>6, <2>7
  <2> QED BY <1>5, <1>7, <2>6, <2>7, <2>8, <2>9, ConsumerQuiet
<1> QED BY <1>6, <1>7

LEMMA ReceiveRetransmissionStep ==
    FlowInv /\ ReceiveRetransmission => FlowInv' /\ handed' = handed
<1> SUFFICES ASSUME FlowInv, ReceiveRetransmission PROVE FlowInv' /\ handed' = handed
  OBVIOUS
<1>1. PICK m : m = Head(chan["consumer"])
  OBVIOUS
<1>2. PICK handled : handled = OnRetransmission(consumer, m)
  OBVIOUS
<1>3. PICK r : r = OnPeer("consumer", handled)
  OBVIOUS
<1>4. /\ up["consumer"] /\ chan["consumer"] # <<>> /\ m.kind = "Retransmission"
      /\ Carry("consumer", r, Tail(chan["consumer"]), 0)
  BY <1>1, <1>2, <1>3 DEF ReceiveRetransmission, Arrives, Hears
<1>5. CASE consumer.phase \notin {"established", "terminating"}
  BY <1>3, <1>4, <1>5, ConsumerIgnores
<1>6. CASE consumer.phase \in {"established", "terminating"}
  <2>1. /\ consumer \in Consumers /\ side["consumer"] = consumer /\ consumer.next <= provider.next
        /\ Session(consumer, handed, abandoned, origin) /\ ~consumer.start
        /\ abandoned \in SUBSET Nat /\ origin \in Nat
    BY <1>6, ConsumerIs
  <2>2. r = OnRetransmission(consumer, m)
    BY <1>2, <1>3, <1>6, <2>1 DEF OnPeer
  <2>3. m.next \in Nat /\ m.count \in Nat
    BY <1>1, <1>4, HeadIs
  <2>4. /\ Quiet(r) /\ Session(r.s, handed, abandoned, origin)
        /\ r.s.next = consumer.next /\ ~r.s.start /\ r.s.announced = consumer.announced
        /\ r.open => /\ r.s.phase = consumer.phase /\ r.s.replay.next = m.next
                     /\ r.s.replay.left = m.count /\ r.s.replay # NoReplay
    BY <1>6, <2>1, <2>2, <2>3, RetransmissionKeeps
  <2>5. ASSUME r.open
        PROVE  Numbered(Context(r.s), Tail(chan["consumer"]) \o Ready(provider))
    <3>1. PICK rest : rest = Tail(chan["consumer"]) \o Ready(provider)
      OBVIOUS
    <3>2. Numbered(m, rest)
      BY <1>1, <1>4, <1>6, <3>1, LineLeft
    <3>3. PICK c : c = Context(r.s)
      OBVIOUS
    <3>4. c = Retransmission(0, r.s.replay.next, r.s.replay.left)
      BY <1>6, <2>4, <2>5, <3>3 DEF Context
    <3>5. c.kind = "Retransmission" /\ c.next = m.next /\ c.count = m.count
      BY <2>4, <2>5, <3>4 DEF Retransmission
    <3>6. Numbered(c, rest)
      BY <1>4, <3>2, <3>5, SameContext
    <3> QED BY <3>1, <3>3, <3>6
  <2>6. r.s.next <= provider.next
    BY <2>1, <2>4
  <2> QED BY <1>4, <1>6, <2>4, <2>5, <2>6, ConsumerQuiet
<1> QED BY <1>5, <1>6

\* on_finished_sending.
LEMMA ReceiveFinishedSendingStep ==
    FlowInv /\ ReceiveFinishedSending => FlowInv' /\ handed' = handed
<1> SUFFICES ASSUME FlowInv, ReceiveFinishedSending PROVE FlowInv' /\ handed' = handed
  OBVIOUS
<1>1. PICK m : m = Head(chan["consumer"])
  OBVIOUS
<1>2. PICK last : last = m.last
  OBVIOUS
<1>3. PICK handled : handled = OnFinishedSending(consumer, last)
  OBVIOUS
<1>4. PICK r : r = OnPeer("consumer", handled)
  OBVIOUS
<1>5. /\ up["consumer"] /\ chan["consumer"] # <<>> /\ m.kind = "FinishedSending"
      /\ Carry("consumer", r, Tail(chan["consumer"]), 0)
  BY <1>1, <1>2, <1>3, <1>4 DEF ReceiveFinishedSending, Arrives, Hears
<1>6. CASE consumer.phase \notin {"established", "terminating"}
  BY <1>4, <1>5, <1>6, ConsumerIgnores
<1>7. CASE consumer.phase \in {"established", "terminating"}
  <2>1. /\ consumer \in Consumers /\ side["consumer"] = consumer /\ consumer.next <= provider.next
        /\ Session(consumer, handed, abandoned, origin) /\ ~consumer.start
        /\ abandoned \in SUBSET Nat /\ origin \in Nat
        /\ provider.next \in 1 .. MaxSeq + 1 /\ provider.next \in Nat /\ MaxSeq \in Nat
    BY <1>7, ConsumerIs
  <2>2. r = OnFinishedSending(consumer, last)
    BY <1>3, <1>4, <1>7, <2>1 DEF OnPeer
  <2>3. last \in Nat /\ last + 1 <= provider.next
    BY <1>1, <1>2, <1>5, HeadIs
  <2>4. last + 1 \in 1 .. MaxSeq + 1
    BY ONLY <2>1, <2>3
  <2>5. /\ Quiet(r) /\ Session(r.s, handed, abandoned, origin)
        /\ r.s.next \in {consumer.next, last + 1} /\ ~r.s.start /\ r.s.announced = consumer.announced
        /\ r.open => r.s.phase = consumer.phase
    BY <1>7, <2>1, <2>2, <2>3, <2>4, FinishedSendingKeeps
  <2>6. Numbered(Context(r.s), Tail(chan["consumer"]) \o Ready(provider))
    <3>1. PICK rest : rest = Tail(chan["consumer"]) \o Ready(provider)
      OBVIOUS
    <3>2. \A c : Numbered(c, rest)
      <4>1. m.kind \notin Data
        BY <1>5 DEF Data
      <4> QED BY <1>1, <1>5, <1>7, <3>1, <4>1, LineLeft
    <3> QED BY <3>1, <3>2
  <2>7. r.s.next <= provider.next
    BY <2>1, <2>3, <2>5
  <2> QED BY <1>5, <1>7, <2>5, <2>6, <2>7, ConsumerQuiet
<1> QED BY <1>6, <1>7

\* on_retransmit_reject: what it names is abandoned.
LEMMA ReceiveRetransmitRejectStep ==
    FlowInv /\ ReceiveRetransmitReject => FlowInv' /\ handed' = handed
<1> SUFFICES ASSUME FlowInv, ReceiveRetransmitReject PROVE FlowInv' /\ handed' = handed
  OBVIOUS
<1>1. PICK m : m = Head(chan["consumer"])
  OBVIOUS
<1>2. PICK handled : handled = OnRetransmitReject(consumer, m)
  OBVIOUS
<1>3. PICK r : r = OnPeer("consumer", handled)
  OBVIOUS
<1>4. /\ up["consumer"] /\ chan["consumer"] # <<>> /\ m.kind = "RetransmitReject"
      /\ Carry("consumer", r, Tail(chan["consumer"]), 0)
  BY <1>1, <1>2, <1>3 DEF ReceiveRetransmitReject, Arrives, Hears
<1>5. CASE consumer.phase \notin {"established", "terminating"}
  BY <1>3, <1>4, <1>5, ConsumerIgnores
<1>6. CASE consumer.phase \in {"established", "terminating"}
  <2>1. /\ consumer \in Consumers /\ side["consumer"] = consumer /\ consumer.next <= provider.next
        /\ consumer.announced <= provider.next
        /\ Session(consumer, handed, abandoned, origin) /\ ~consumer.start
        /\ abandoned \in SUBSET Nat /\ origin \in Nat
    BY <1>6, ConsumerIs
  <2>2. r = OnRetransmitReject(consumer, m)
    BY <1>2, <1>3, <1>6, <2>1 DEF OnPeer
  <2>3. /\ r \in Results /\ r.accept = 0 /\ r.open
        /\ Session(r.s, handed, abandoned \union r.gone, origin)
        /\ r.s.next = consumer.next /\ ~r.s.start /\ r.s.announced = consumer.announced
        /\ r.s.phase = consumer.phase
    BY <2>1, <2>2, RejectKeeps
  <2>4. r.s \in Consumers /\ r.send \in Seq(Replies) /\ r.gone \in SUBSET Nat
    BY <2>3 DEF Results
  <2>5. Numbered(Context(r.s), Tail(chan["consumer"]) \o Ready(provider))
    <3>1. PICK rest : rest = Tail(chan["consumer"]) \o Ready(provider)
      OBVIOUS
    <3>2. \A c : Numbered(c, rest)
      <4>1. m.kind \notin Data
        BY <1>4 DEF Data
      <4> QED BY <1>1, <1>4, <1>6, <3>1, <4>1, LineLeft
    <3> QED BY <3>1, <3>2
  <2>6. PICK gone : gone = abandoned \union r.gone
    OBVIOUS
  <2>7. gone \in SUBSET Nat /\ Session(r.s, handed, gone, origin)
    BY <2>1, <2>3, <2>4, <2>6
  <2>8. r.send \in Seq(Message) /\ Greets(r, Tail(chan["consumer"]))
    BY <1>6, <2>3, <2>4, RepliesAre, GreetsNone
  <2>9. PICK begun : begun = origin
    OBVIOUS
  <2>10. /\ begun = (IF consumer.start /\ ~r.s.start THEN r.s.next ELSE origin) /\ begun \in Nat
         /\ Session(r.s, handed, gone, begun)
    BY <2>1, <2>7, <2>9
  <2>11. r.s.phase # "pending" /\ r.s.phase # "closed" /\ r.s.next <= provider.next /\ r.s.announced <= provider.next
    BY <1>6, <2>1, <2>3
  <2> QED BY <1>4, <2>3, <2>4, <2>5, <2>6, <2>7, <2>8, <2>10, <2>11, ConsumerGoes
<1> QED BY <1>5, <1>6

\* What a step leaves on its way, when the context stays.
LEMMA SameLine ==
    ASSUME FlowInv, up["consumer"], consumer.phase \in {"established", "terminating"},
           NEW s, s.phase \in {"established", "terminating"}, s.replay = consumer.replay,
           s.next = consumer.next
    PROVE  Numbered(Context(s), chan["consumer"] \o Ready(provider))
<1>1. Context(s) = Context(consumer)
  BY DEF Context
<1>2. Numbered(Context(consumer), chan["consumer"] \o Ready(provider))
  BY DEF FlowInv, LineOK
<1> QED BY <1>1, <1>2

\* on_timeout of a request that stalls.
LEMMA StallStep == FlowInv /\ Stall => FlowInv' /\ handed' = handed
<1> SUFFICES ASSUME FlowInv, Stall PROVE FlowInv' /\ handed' = handed
  OBVIOUS
<1>1. /\ consumer \in Consumers /\ side["consumer"] = consumer /\ consumer.next <= provider.next
      /\ Session(consumer, handed, abandoned, origin)
      /\ consumer.phase = "established" => ~consumer.start
      /\ abandoned \in SUBSET Nat /\ origin \in Nat /\ "established" \in Busy
  BY ConsumerIs
<1>2. PICK r : r = OnStall(consumer)
  OBVIOUS
<1>3. /\ consumer.phase = "established" /\ consumer.request # NoRequest
      /\ Carry("consumer", r, chan["consumer"], 0)
  BY <1>1, <1>2 DEF Stall, Established, Does
<1>4. up["consumer"]
  BY <1>1, <1>3, BoundHolds, TheSides
<1>5. /\ Quiet(r) /\ Session(r.s, handed, abandoned, origin)
      /\ r.s.next = consumer.next /\ r.s.start = consumer.start
      /\ r.s.announced = consumer.announced
      /\ r.open => r.s.phase = consumer.phase /\ r.s.replay = consumer.replay
  BY <1>1, <1>2, <1>3, StallKeeps
<1>6. r.open => Numbered(Context(r.s), chan["consumer"] \o Ready(provider))
  BY <1>3, <1>4, <1>5, SameLine
<1>7. ~r.s.start /\ r.s.next <= provider.next
  BY <1>1, <1>3, <1>5
<1> QED BY <1>3, <1>4, <1>5, <1>6, <1>7, ConsumerQuiet

LEMMA ConsumerTerminates ==
    ASSUME FlowInv, Terminate("consumer")
    PROVE  FlowInv' /\ handed' = handed
<1>1. /\ consumer \in Consumers /\ side["consumer"] = consumer /\ consumer.next <= provider.next
      /\ Session(consumer, handed, abandoned, origin)
      /\ consumer.phase = "established" => ~consumer.start
      /\ "established" \in Busy
  BY ConsumerIs
<1>2. PICK u : u = [consumer EXCEPT !.phase = "terminating"]
  OBVIOUS
<1>3. PICK send \in Seq(Replies) : send = <<TerminateMsg("Finished")>>
  BY ConsumerSends
<1>4. PICK r : r = Result(u, send)
  OBVIOUS
<1>5. consumer.phase = "established" /\ Carry("consumer", r, chan["consumer"], 0)
  BY <1>1, <1>2, <1>3, <1>4, TheSides DEF Terminate, Established, Does
<1>6. up["consumer"]
  BY <1>1, <1>5, BoundHolds, TheSides
<1>7. /\ u \in Consumers /\ u.next = consumer.next /\ u.start = consumer.start
      /\ u.missing = consumer.missing /\ u.runs = consumer.runs /\ u.finished = consumer.finished
      /\ u.phase = "terminating" /\ u.request = consumer.request /\ u.replay = consumer.replay
      /\ u.announced = consumer.announced
  BY <1>1, <1>2 DEF Consumers, Phases
<1>8. RequestOK(u) /\ \A n \in Numbers : Missing(consumer, n) => (Delivered(u, n) <=> Delivered(consumer, n))
  BY <1>1, <1>7 DEF Session, RequestOK, Delivered
<1>9. Session(u, handed, abandoned, origin)
  BY <1>1, <1>7, <1>8, OtherRequest
<1>10. r.s = u /\ r.send = send /\ r.open /\ r.accept = 0 /\ r.gone = {}
  BY <1>4, Queued
<1>11. Numbered(Context(u), chan["consumer"] \o Ready(provider))
  BY <1>5, <1>6, <1>7, SameLine
<1>12. ~consumer.start /\ r.s.next <= provider.next /\ (r.s.start <=> consumer.start)
  BY <1>1, <1>5, <1>7, <1>10
<1> QED BY <1>5, <1>6, <1>7, <1>9, <1>10, <1>11, <1>12, ConsumerHandles

LEMMA ConsumerGivesUp ==
    ASSUME FlowInv, TerminateOnError("consumer") \/ UnbindTimeout("consumer")
    PROVE  FlowInv' /\ handed' = handed
<1>1. /\ consumer \in Consumers /\ side["consumer"] = consumer /\ consumer.next <= provider.next
      /\ Session(consumer, handed, abandoned, origin)
      /\ consumer.phase \in {"established", "terminating", "closing"} => ~consumer.start
      /\ abandoned \in SUBSET Nat /\ origin \in Nat
      /\ {"established", "terminating", "closing", "pending"} = Busy
  BY ConsumerIs
<1>2. up["consumer"] /\ ~consumer.start
  BY <1>1, BoundHolds, TheSides DEF TerminateOnError, UnbindTimeout, Established
<1>3. CASE TerminateOnError("consumer")
  <2>1. PICK why \in Verdicts : why = "none"
    BY DEF Verdicts
  <2>2. PICK r : r = FailWith("consumer", consumer, "Error", why)
    OBVIOUS
  <2>3. consumer.phase = "established" /\ Carry("consumer", r, chan["consumer"], 0)
    BY <1>1, <1>3, <2>1, <2>2 DEF TerminateOnError, Does, Established
  <2>4. /\ Quiet(r) /\ ~r.open /\ Session(r.s, handed, abandoned, origin)
        /\ r.s.next = consumer.next /\ r.s.start = consumer.start
        /\ r.s.announced = consumer.announced
    BY <1>1, <2>2, FailKeeps
  <2>5. ~r.s.start /\ r.s.next <= provider.next
    BY <1>1, <1>2, <2>4
  <2> QED BY <1>2, <2>3, <2>4, <2>5, ConsumerQuiet
<1>4. CASE UnbindTimeout("consumer")
  <2>1. PICK u : u = Unbound("consumer", ReleaseConsumer(consumer))
    OBVIOUS
  <2>2. PICK r : r = [Result(u, <<>>) EXCEPT !.open = FALSE]
    OBVIOUS
  <2>3. Carry("consumer", r, chan["consumer"], 0)
    BY <1>1, <1>4, <2>1, <2>2 DEF UnbindTimeout, Does, Release
  <2>4. r.s = u /\ r.send = <<>> /\ r.accept = 0 /\ r.gone = {} /\ ~r.open
    BY ONLY <2>2 DEF Result
  <2>5. /\ u \in Consumers /\ Session(u, handed, abandoned, origin)
        /\ u.next = consumer.next /\ u.start = consumer.start /\ u.announced = consumer.announced
        /\ u.phase \in {"negotiated", "finalized"}
    BY <1>1, <2>1, UnboundKeeps
  <2>6. r.send \in Seq(Replies) /\ r.s.next <= provider.next /\ (r.s.start <=> consumer.start)
    BY <1>1, <2>4, <2>5, ConsumerSends
  <2> QED BY <1>2, <2>3, <2>4, <2>5, <2>6, ConsumerHandles
<1> QED BY <1>3, <1>4

LEMMA ConsumerHearsTerminate ==
    ASSUME FlowInv, ReceiveTerminate("consumer")
    PROVE  FlowInv' /\ handed' = handed
<1>1. /\ consumer \in Consumers /\ side["consumer"] = consumer /\ consumer.next <= provider.next
      /\ Session(consumer, handed, abandoned, origin)
      /\ consumer.phase \in {"established", "terminating", "closing"} => ~consumer.start
      /\ abandoned \in SUBSET Nat /\ origin \in Nat
  BY ConsumerIs
<1>2. up["consumer"] /\ chan["consumer"] # <<>>
  BY DEF ReceiveTerminate, Arrives
<1>3. CASE consumer.phase \in {"negotiated", "establishing", "pending"}
  <2>1. PICK u : u = Unbound("consumer", consumer)
    OBVIOUS
  <2>2. PICK r : r = [Result(u, <<>>) EXCEPT !.open = FALSE]
    OBVIOUS
  <2>3. Carry("consumer", r, Tail(chan["consumer"]), 0)
    BY <1>1, <1>3, <2>1, <2>2 DEF ReceiveTerminate, Hears
  <2>4. r.s = u /\ r.send = <<>> /\ r.accept = 0 /\ r.gone = {} /\ ~r.open
    BY ONLY <2>2 DEF Result
  <2>5. /\ u \in Consumers /\ Session(u, handed, abandoned, origin)
        /\ u.phase \in {"negotiated", "finalized"} /\ u.next = consumer.next
        /\ u.start = consumer.start /\ u.announced = consumer.announced
    BY <1>1, <1>3, <2>1, ConsumerUnbinds
  <2>6. r.send \in Seq(Replies) /\ r.s.next <= provider.next /\ (r.s.start <=> consumer.start)
    BY <1>1, <2>4, <2>5, ConsumerSends
  <2> QED BY <1>2, <2>3, <2>4, <2>5, <2>6, ConsumerHandles
<1>4. CASE consumer.phase \notin {"negotiated", "establishing", "pending"}
  <2>1. PICK m : m = Head(chan["consumer"])
    OBVIOUS
  <2>2. PICK handled : handled = OnTerminate("consumer", consumer, m)
    OBVIOUS
  <2>3. PICK r : r = OnPeer("consumer", handled)
    OBVIOUS
  <2>4. Carry("consumer", r, Tail(chan["consumer"]), 0)
    BY <1>1, <1>4, <2>1, <2>2, <2>3 DEF ReceiveTerminate, Hears
  <2>5. CASE consumer.phase \notin {"established", "terminating"}
    BY <1>2, <2>3, <2>4, <2>5, ConsumerIgnores
  <2>6. CASE consumer.phase \in {"established", "terminating"}
    <3>1. r = OnTerminate("consumer", consumer, m)
      BY <1>1, <2>2, <2>3, <2>6 DEF OnPeer
    <3>2. /\ r \in Results /\ r.accept = 0 /\ r.gone = {} /\ Session(r.s, handed, abandoned, origin)
          /\ r.s.next = consumer.next /\ r.s.start = consumer.start
          /\ r.s.announced = consumer.announced
          /\ r.open => r.s.phase = "closing"
          /\ ~r.open => r.s.phase \in {"negotiated", "finalized"}
      BY <1>1, <3>1, TerminateKeeps
    <3>3. r.s \in Consumers /\ r.send \in Seq(Replies)
      BY <3>2 DEF Results
    <3>4. ~consumer.start /\ r.s.next <= provider.next /\ (r.s.start <=> consumer.start)
      BY <1>1, <2>6, <3>2
    <3> QED BY <1>2, <2>4, <3>2, <3>3, <3>4, ConsumerHandles
  <2> QED BY <2>5, <2>6
<1> QED BY <1>3, <1>4

-----------------------------------------------------------------------------
(* The handshake, at the consumer                                           *)

LEMMA ConsumerHandshakeTimeout ==
    ASSUME FlowInv, HandshakeTimeout("consumer")
    PROVE  FlowInv' /\ handed' = handed
<1>1. /\ consumer \in Consumers /\ side["consumer"] = consumer /\ consumer.next <= provider.next
      /\ Session(consumer, handed, abandoned, origin)
      /\ abandoned \in SUBSET Nat /\ origin \in Nat
      /\ {"established", "terminating", "closing", "pending"} = Busy
      /\ provider.next \in Nat
  BY ConsumerIs
<1>2. PICK none \in Nat : none = 0
  OBVIOUS
<1>3. PICK s : s = [consumer EXCEPT !.announced = none]
  OBVIOUS
<1>4. PICK u : u = Unbound("consumer", s)
  OBVIOUS
<1>5. PICK send : send = IF consumer.phase = "pending" THEN <<EstablishReject("Unspecified")>> ELSE <<>>
  OBVIOUS
<1>6. PICK r : r = [Result(u, send) EXCEPT !.open = FALSE]
  OBVIOUS
<1>7. /\ up["consumer"] /\ consumer.phase \in {"establishing", "negotiated", "pending"}
      /\ Carry("consumer", r, chan["consumer"], 0)
  BY <1>1, <1>2, <1>3, <1>4, <1>5, <1>6 DEF HandshakeTimeout, Does
<1>8. PICK phase \in Phases : phase = consumer.phase
  BY <1>1, ConsumerFields
<1>9. s = Rephased(consumer, phase, none)
  BY <1>1, <1>3, <1>8 DEF Rephased, Consumers
<1>10. /\ s \in Consumers /\ Session(s, handed, abandoned, origin)
       /\ s.next = consumer.next /\ s.start = consumer.start /\ s.announced = none /\ s.phase = phase
  <2>1. phase \notin {"established", "terminating"} /\ consumer.phase \notin {"established", "terminating"}
    BY <1>7, <1>8
  <2> QED BY <1>1, <1>9, <2>1, PhaseKeeps
<1>11. /\ u \in Consumers /\ Session(u, handed, abandoned, origin)
       /\ u.phase \in {"negotiated", "finalized"} /\ u.next = s.next
       /\ u.start = s.start /\ u.announced = s.announced
  BY <1>4, <1>7, <1>8, <1>10, ConsumerUnbinds
<1>12. r.s = u /\ r.send = send /\ r.accept = 0 /\ r.gone = {} /\ ~r.open
  BY ONLY <1>6 DEF Result
<1>13. send \in Seq(Replies)
  <2>1. EstablishReject("Unspecified") \in Replies
    BY DEF EstablishReject, Replies, Message, Codes
  <2> QED BY <1>5, <2>1, ConsumerSends
<1>14. r.send \in Seq(Message) /\ Greets(r, chan["consumer"])
  BY <1>12, <1>13, RepliesAre, GreetsNone
<1>15. PICK begun : begun = origin
  OBVIOUS
<1>16. PICK gone : gone = abandoned
  OBVIOUS
<1>17. /\ begun = (IF consumer.start /\ ~r.s.start THEN r.s.next ELSE origin) /\ begun \in Nat
       /\ gone = abandoned \union r.gone /\ gone \in SUBSET Nat
       /\ Session(r.s, handed, gone, begun)
  BY <1>1, <1>10, <1>11, <1>12, <1>15, <1>16
<1>18. /\ r.s.next <= provider.next /\ r.s.announced <= provider.next
       /\ r.s.phase \notin Busy /\ r.s.phase # "pending" /\ r.s.phase # "closed"
       /\ r.s.phase \notin {"established", "terminating", "closing"}
  BY <1>1, <1>2, <1>10, <1>11, <1>12
<1> QED BY <1>7, <1>11, <1>12, <1>14, <1>17, <1>18, ConsumerGoes

\* A consumer that is not bound: what it keeps, and what reaches it.
LEMMA ConsumerWaits ==
    ASSUME FlowInv, up["consumer"], consumer.phase \notin {"established", "terminating"},
           NEW phase \in Phases, phase \notin {"established", "terminating", "closing"},
           NEW announced \in Nat, announced <= provider.next,
           phase = "pending" => 1 <= announced, phase = "closed" => ConsumerIsClient,
           NEW r, r.s = Rephased(consumer, phase, announced),
           r.send \in Seq(Message), r.accept = 0, r.gone = {},
           ~r.open => phase # "pending",
           NEW unread, unread = chan["consumer"] \/ (chan["consumer"] # <<>> /\ unread = Tail(chan["consumer"])),
           Carry("consumer", r, unread, 0), Greets(r, unread),
           phase \notin {"finalized", "closed"} => Numbered(Unknown, unread \o Ready(provider))
    PROVE  FlowInv' /\ handed' = handed
<1>1. /\ consumer \in Consumers /\ consumer.next <= provider.next
      /\ Session(consumer, handed, abandoned, origin)
      /\ abandoned \in SUBSET Nat /\ origin \in Nat
      /\ {"established", "terminating", "closing", "pending"} = Busy
  BY ConsumerIs
<1>2. PICK u : u = Rephased(consumer, phase, announced)
  OBVIOUS
<1>3. /\ u \in Consumers /\ Session(u, handed, abandoned, origin)
      /\ u.next = consumer.next /\ u.start = consumer.start /\ u.announced = announced
      /\ u.phase = phase
  <2>1. phase \notin {"established", "terminating"}
    OBVIOUS
  <2> QED BY ONLY <1>1, <1>2, <2>1, phase \in Phases, announced \in Nat,
                  consumer.phase \notin {"established", "terminating"}, PhaseKeeps
<1>4. r.s = u
  BY <1>2
<1>5. PICK begun : begun = origin
  OBVIOUS
<1>6. PICK gone : gone = abandoned
  OBVIOUS
<1>7. /\ begun = (IF consumer.start /\ ~r.s.start THEN r.s.next ELSE origin) /\ begun \in Nat
      /\ gone = abandoned \union r.gone /\ gone \in SUBSET Nat
      /\ Session(r.s, handed, gone, begun)
  BY <1>1, <1>3, <1>4, <1>5, <1>6
<1>8. Context(r.s) = Unknown
  BY <1>3, <1>4 DEF Context
<1>9. /\ r.s.next <= provider.next /\ r.s.announced <= provider.next
      /\ r.s.phase = "pending" => 1 <= r.s.announced
      /\ r.s.phase \notin {"established", "terminating", "closing"}
      /\ r.s.phase = "closed" => ConsumerIsClient
      /\ ~r.open => r.s.phase \notin Busy
  BY <1>1, <1>3, <1>4
<1>10. r.open /\ r.s.phase \notin {"closing", "finalized", "closed"} =>
          Numbered(Context(r.s), unread \o Ready(provider))
  BY <1>3, <1>4, <1>8
<1> QED BY <1>3, <1>4, <1>7, <1>9, <1>10, ConsumerGoes

\* establish, by a consumer that is the client.
LEMMA ConsumerEstablishes ==
    ASSUME FlowInv, Client = "consumer", Establish
    PROVE  FlowInv' /\ handed' = handed
<1>1. /\ consumer \in Consumers /\ side["consumer"] = consumer
      /\ consumer.announced <= provider.next
  BY ConsumerIs
<1>2. PICK announced \in Nat : announced = consumer.announced
  BY <1>1, ConsumerFields
<1>3. PICK phase \in Phases : phase = "establishing"
  BY DEF Phases
<1>4. PICK m : m = [kind |-> "Establish", next |-> 0]
  OBVIOUS
<1>5. PICK r : r = Result([consumer EXCEPT !.phase = "establishing"], <<m>>)
  OBVIOUS
<1>6. up["consumer"] /\ consumer.phase = "negotiated" /\ Carry("consumer", r, chan["consumer"], 0)
  BY <1>1, <1>4, <1>5 DEF Establish, Does, AnnouncedNextSeq
<1>7. r.s = Rephased(consumer, phase, announced) /\ r.send = <<m>> /\ r.open /\ r.accept = 0 /\ r.gone = {}
  <2>1. /\ r.s = [consumer EXCEPT !.phase = "establishing"] /\ r.send = <<m>> /\ r.open
        /\ r.accept = 0 /\ r.gone = {}
    BY <1>5 DEF Result
  <2>2. [consumer EXCEPT !.phase = "establishing"] = Rephased(consumer, phase, announced)
    BY <1>1, <1>2, <1>3 DEF Rephased, Consumers
  <2> QED BY <2>1, <2>2
<1>8. m \in Message
  BY <1>4 DEF Message
<1>9. <<m>> \in Seq(Message) /\ Lone(<<m>>, "Establish")
  <2>1. <<m>> \in Seq(Message) /\ \A i \in 1 .. Len(<<m>>) : i = 1
    BY <1>8
  <2> QED BY ONLY <2>1 DEF Lone
<1>10. Greets(r, chan["consumer"])
  <2>1. r.s.phase = "establishing"
    BY <1>1, <1>3, <1>7 DEF Rephased, Consumers
  <2> QED BY <1>6, <1>7, <1>9, <2>1 DEF Greets
<1>11. Numbered(Unknown, chan["consumer"] \o Ready(provider))
  BY <1>6 DEF FlowInv, LineOK, Context
<1> QED BY <1>1, <1>2, <1>3, <1>6, <1>7, <1>9, <1>10, <1>11, ConsumerWaits

\* on_establishment_ack and accept_establishment of the consumer: it is bound,
\* goes on at the number announced, and asks for what is missing.
LEMMA ConsumerBinds ==
    ASSUME FlowInv, up["consumer"], consumer.phase \notin {"established", "terminating"},
           NEW next \in Nat, 1 <= next, next <= provider.next,
           NEW u, u = Bind("consumer", consumer), NEW q, q = OnEstablished("consumer", u, next),
           NEW r, r.s = q.s, r.open <=> q.open, Quiet(q) => Quiet(r),
           NEW unread, unread = chan["consumer"] \/ (chan["consumer"] # <<>> /\ unread = Tail(chan["consumer"])),
           Carry("consumer", r, unread, 0), \A c : Numbered(c, unread \o Ready(provider))
    PROVE  FlowInv' /\ handed' = handed
<1>1. /\ consumer \in Consumers /\ consumer.next <= provider.next
      /\ Session(consumer, handed, abandoned, origin)
      /\ abandoned \in SUBSET Nat /\ origin \in Nat
      /\ {"established", "terminating", "closing", "pending"} = Busy
      /\ provider.next \in 1 .. MaxSeq + 1 /\ provider.next \in Nat /\ MaxSeq \in Nat
  BY ConsumerIs
<1>2. /\ u \in Consumers /\ Session(u, handed, abandoned, origin)
      /\ u.phase = "established" /\ u.next = consumer.next /\ u.start = consumer.start
      /\ u.announced = 0
  BY <1>1, BindKeeps
<1>3. next \in 1 .. MaxSeq + 1
  BY ONLY <1>1, next \in Nat, 1 <= next, next <= provider.next
<1>4. PICK begun : begun = IF u.start THEN next ELSE origin
  OBVIOUS
<1>5. /\ Quiet(q) /\ Session(q.s, handed, abandoned, begun)
      /\ q.s.next \in {u.next, next} /\ ~q.s.start /\ q.s.announced = u.announced
      /\ q.open => q.s.next = next /\ q.s.phase = "established" /\ q.s.replay = NoReplay
  BY <1>1, <1>2, <1>3, <1>4, EstablishedKeeps
<1>6. /\ Quiet(r) /\ Session(r.s, handed, abandoned, begun)
      /\ r.s.next \in {consumer.next, next} /\ ~r.s.start /\ r.s.announced = 0
      /\ r.open => r.s.phase = "established"
  BY <1>2, <1>5
<1>7. begun = IF consumer.start /\ ~r.s.start THEN r.s.next ELSE origin
  <2>1. CASE consumer.start
    <3>1. consumer.next = 1
      BY <1>1, <2>1 DEF Session, StartOK
    <3>2. begun = next
      BY <1>2, <1>4, <2>1
    <3>3. next <= r.s.next
      BY <1>6, <3>2 DEF Session, BooksOK
    <3>4. r.s.next = next
      BY <1>6, <3>1, <3>3
    <3> QED BY <1>6, <2>1, <3>2, <3>4
  <2>2. CASE ~consumer.start
    BY <1>2, <1>4, <2>2
  <2> QED BY <2>1, <2>2
<1>8. begun \in Nat
  BY <1>1, <1>4
<1>9. /\ r.accept = 0 /\ r.gone = {} /\ r.s \in Consumers /\ r.send \in Seq(Replies)
      /\ ~r.open => r.s.phase \in {"negotiated", "finalized"}
  BY <1>6 DEF Quiet, Results
<1>10. r.send \in Seq(Message) /\ Greets(r, unread)
  BY <1>6, <1>9, RepliesAre, GreetsNone
<1>11. PICK gone : gone = abandoned
  OBVIOUS
<1>12. gone = abandoned \union r.gone /\ gone \in SUBSET Nat /\ Session(r.s, handed, gone, begun)
  BY <1>1, <1>6, <1>9, <1>11
<1>13. r.s.next <= provider.next /\ r.s.announced <= provider.next /\ r.s.phase # "pending"
       /\ r.s.phase # "closed"
  BY <1>1, <1>6, <1>9
<1>14. ~r.open => r.s.phase \notin Busy
  BY <1>1, <1>9
<1> QED BY <1>6, <1>7, <1>8, <1>9, <1>10, <1>12, <1>13, <1>14, ConsumerGoes

LEMMA ConsumerAccepts ==
    ASSUME FlowInv, Server = "consumer", AcceptEstablishment
    PROVE  FlowInv' /\ handed' = handed
<1>1. /\ consumer \in Consumers /\ side["consumer"] = consumer
      /\ Session(consumer, handed, abandoned, origin)
      /\ consumer.announced <= provider.next
      /\ consumer.phase = "pending" => 1 <= consumer.announced
      /\ abandoned \in SUBSET Nat /\ origin \in Nat
  BY ConsumerIs
<1>2. PICK u : u = Bind("consumer", consumer)
  OBVIOUS
<1>3. PICK send : send = <<[kind |-> "EstablishmentAck", next |-> 0]>>
  OBVIOUS
<1>4. PICK b : b = Result(u, send)
  OBVIOUS
<1>5. PICK next \in Nat : next = consumer.announced
  BY <1>1, ConsumerFields
<1>6. PICK q : q = OnEstablished("consumer", u, next)
  OBVIOUS
<1>7. PICK r : r = Then(b, q)
  OBVIOUS
<1>8. up["consumer"] /\ consumer.phase = "pending" /\ Carry("consumer", r, chan["consumer"], 0)
  <2>1. b.s = u
    BY <1>4, Queued
  <2>2. b = Result(Bind(Server, side[Server]),
                   <<[kind |-> "EstablishmentAck", next |-> AnnouncedNextSeq(Server)]>>)
    BY <1>1, <1>2, <1>3, <1>4 DEF AnnouncedNextSeq
  <2>3. /\ up[Server] /\ side[Server].phase = "pending"
        /\ Does(Server, Then(b, OnEstablished(Server, b.s, side[Server].announced)))
    BY <2>2, Zenon DEF AcceptEstablishment
  <2> QED BY <1>1, <1>5, <1>6, <1>7, <2>1, <2>3 DEF Does
<1>9. u \in Consumers
  BY <1>1, <1>2, BindKeeps
<1>10. send \in Seq(Replies)
  <2>1. [kind |-> "EstablishmentAck", next |-> 0] \in Replies
    BY DEF Replies, Message
  <2> QED BY <1>3, <2>1
<1>11. Quiet(b) /\ b.open
  BY <1>4, <1>9, <1>10, Stays
<1>12. Quiet(q)
  <2>1. /\ Session(u, handed, abandoned, origin) /\ u.phase = "established"
    BY <1>1, <1>2, BindKeeps
  <2>2. next \in 1 .. MaxSeq + 1
    <3>1. provider.next \in 1 .. MaxSeq + 1 /\ provider.next \in Nat /\ MaxSeq \in Nat
      BY ConsumerIs
    <3>2. 1 <= next /\ next <= provider.next
      BY <1>1, <1>5, <1>8
    <3> QED BY ONLY <1>5, <3>1, <3>2
  <2>3. PICK begun : begun = IF u.start THEN next ELSE origin
    OBVIOUS
  <2> QED BY <1>1, <1>6, <1>9, <2>1, <2>2, <2>3, EstablishedKeeps
<1>13. Quiet(r) /\ r.s = q.s /\ (q.open => r.open) /\ (~q.open => ~r.open)
  BY <1>7, <1>11, <1>12, ThenIs
<1>14. \A c : Numbered(c, chan["consumer"] \o Ready(provider))
  <2>1. Numbered(Unknown, chan["consumer"] \o Ready(provider))
    BY <1>8 DEF FlowInv, LineOK, Context
  <2>2. Unknown.kind \notin Data
    BY DEF Unknown, Data
  <2> QED BY <2>1, <2>2, ForgetOther
<1>15. 1 <= next /\ next <= provider.next
  BY <1>1, <1>5, <1>8
<1>16. r.open <=> q.open
  BY <1>13
<1> QED BY <1>2, <1>6, <1>8, <1>13, <1>14, <1>15, <1>16, ConsumerBinds

\* A message that the consumer takes no notice of.
LEMMA ConsumerPasses ==
    ASSUME FlowInv, up["consumer"], chan["consumer"] # <<>>,
           Head(chan["consumer"]).kind \notin Data,
           NEW r, r = Result(consumer, <<>>), Carry("consumer", r, Tail(chan["consumer"]), 0)
    PROVE  FlowInv' /\ handed' = handed
<1>1. /\ consumer \in Consumers /\ consumer.next <= provider.next
      /\ consumer.announced <= provider.next
      /\ consumer.phase = "pending" => 1 <= consumer.announced
      /\ Session(consumer, handed, abandoned, origin)
      /\ consumer.phase \in {"established", "terminating", "closing"} => ~consumer.start
      /\ consumer.phase = "closed" => ConsumerIsClient
  BY ConsumerIs
<1>2. PICK unread : unread = Tail(chan["consumer"])
  OBVIOUS
<1>3. r.s = consumer /\ r.send = <<>> /\ r.open /\ r.accept = 0 /\ r.gone = {}
  BY Queued
<1>4. r.send \in Seq(Replies) /\ r.send \in Seq(Message) /\ Without(r.send, "Establish")
  BY <1>3, ConsumerSends, RepliesAre
<1>5. consumer.phase \notin {"closing", "finalized", "closed"} =>
         \A c : Numbered(c, unread \o Ready(provider))
  BY <1>2, LineLeft
<1>6. CASE consumer.phase \in {"established", "terminating", "closing"}
  BY <1>1, <1>2, <1>3, <1>4, <1>5, <1>6, ConsumerHandles
<1>7. CASE consumer.phase \notin {"established", "terminating", "closing"}
  <2>1. PICK phase \in Phases : phase = consumer.phase
    BY <1>1, ConsumerFields
  <2>2. PICK announced \in Nat : announced = consumer.announced
    BY <1>1, ConsumerFields
  <2>3. r.s = Rephased(consumer, phase, announced)
    BY <1>1, <1>3, <2>1, <2>2 DEF Rephased, Consumers
  <2>4. Greets(r, unread)
    BY <1>2, <1>3, <1>4 DEF Greets
  <2>5. phase \notin {"finalized", "closed"} => Numbered(Unknown, unread \o Ready(provider))
    BY <1>5, <1>7, <2>1
  <2>6. /\ consumer.phase \notin {"established", "terminating"}
        /\ phase \notin {"established", "terminating", "closing"}
        /\ announced <= provider.next /\ (phase = "pending" => 1 <= announced)
        /\ (phase = "closed" => ConsumerIsClient)
    BY <1>1, <1>7, <2>1, <2>2
  <2> QED BY <1>2, <1>3, <1>4, <2>3, <2>4, <2>5, <2>6, ConsumerWaits
<1> QED BY <1>6, <1>7

\* on_establish, by a consumer that is the server.
LEMMA ConsumerTakesEstablish ==
    ASSUME FlowInv, Server = "consumer", ReceiveEstablish
    PROVE  FlowInv' /\ handed' = handed
<1>1. /\ consumer \in Consumers /\ side["consumer"] = consumer /\ consumer.next <= provider.next
      /\ Session(consumer, handed, abandoned, origin)
      /\ consumer.announced <= provider.next
      /\ consumer.phase = "pending" => 1 <= consumer.announced
      /\ consumer.phase \in {"established", "terminating", "closing"} => ~consumer.start
      /\ consumer.phase = "closed" => ConsumerIsClient
  BY ConsumerIs
<1>2. PICK m : m = Head(chan["consumer"])
  OBVIOUS
<1>3. PICK r : r = OnEstablish(consumer, m)
  OBVIOUS
<1>4. PICK unread : unread = Tail(chan["consumer"])
  OBVIOUS
<1>5. /\ up["consumer"] /\ chan["consumer"] # <<>> /\ m.kind = "Establish"
      /\ Carry("consumer", r, unread, 0)
  BY <1>1, <1>2, <1>3, <1>4 DEF ReceiveEstablish, Arrives, Hears
<1>6. PICK next \in Nat : next = m.next /\ 1 <= next /\ next <= provider.next
  BY <1>2, <1>5, HeadIs
<1>7. m.kind \notin Data
  BY <1>5 DEF Data
<1>8. consumer.phase \notin {"closing", "finalized", "closed"} =>
         \A c : Numbered(c, unread \o Ready(provider))
  BY <1>2, <1>4, <1>5, <1>7, LineLeft
<1>9. ~ConsumerIsClient
  BY TheSides DEF Client
<1>10. /\ <<EstablishReject("Unnegotiated")>> \in Seq(Replies)
       /\ <<EstablishReject("AlreadyEstablished")>> \in Seq(Replies)
       /\ <<EstablishReject("Unspecified")>> \in Seq(Replies)
  <2>1. /\ EstablishReject("Unnegotiated") \in Replies
        /\ EstablishReject("AlreadyEstablished") \in Replies
        /\ EstablishReject("Unspecified") \in Replies
    BY DEF EstablishReject, Replies, Message, Codes
  <2> QED BY <2>1
<1>11. Bound("consumer") <=> consumer.phase \in {"established", "terminating", "closing"}
  BY <1>1 DEF Bound
<1>12. CASE consumer.phase = "finalized"
  <2>1. r = [Result(consumer, <<EstablishReject("Unnegotiated")>>)
                EXCEPT !.open = FALSE, !.blame = "finalized"]
    BY <1>3, <1>12 DEF OnEstablish
  <2>2. /\ r.s = consumer /\ r.send = <<EstablishReject("Unnegotiated")>> /\ ~r.open
        /\ r.accept = 0 /\ r.gone = {}
    BY ONLY <2>1 DEF Result
  <2> QED BY <1>1, <1>4, <1>5, <1>10, <1>12, <2>2, ConsumerHandles
<1>13. CASE consumer.phase = "established"
  <2>1. r = Result(consumer, <<EstablishReject("AlreadyEstablished")>>)
    BY <1>3, <1>13 DEF OnEstablish
  <2>2. /\ r.s = consumer /\ r.send = <<EstablishReject("AlreadyEstablished")>> /\ r.open
        /\ r.accept = 0 /\ r.gone = {}
    BY ONLY <2>1 DEF Result
  <2> QED BY <1>1, <1>4, <1>5, <1>8, <1>10, <1>13, <2>2, ConsumerHandles
<1>14. CASE consumer.phase \in {"terminating", "closing"}
  <2>1. r = Result(consumer, <<>>)
    BY <1>3, <1>11, <1>14 DEF OnEstablish
  <2> QED BY <1>2, <1>4, <1>5, <1>7, <2>1, ConsumerPasses
<1>15. CASE consumer.phase = "pending"
  <2>1. PICK u : u = Unbound("consumer", consumer)
    OBVIOUS
  <2>2. r = [Result(u, <<>>) EXCEPT !.open = FALSE, !.blame = "Establish pending"]
    BY <1>3, <1>11, <1>15, <2>1 DEF OnEstablish
  <2>3. r.s = u /\ r.send = <<>> /\ ~r.open /\ r.accept = 0 /\ r.gone = {}
    BY ONLY <2>2 DEF Result
  <2>4. /\ u \in Consumers /\ Session(u, handed, abandoned, origin)
        /\ u.phase \in {"negotiated", "finalized"} /\ u.next = consumer.next
        /\ u.start = consumer.start /\ u.announced = consumer.announced
    BY <1>1, <1>15, <2>1, ConsumerUnbinds
  <2>5. r.send \in Seq(Replies) /\ r.s.next <= provider.next /\ (r.s.start <=> consumer.start)
    BY <1>1, <2>3, <2>4, ConsumerSends
  <2> QED BY <1>4, <1>5, <2>3, <2>4, <2>5, ConsumerHandles
<1>16. CASE consumer.phase \in {"negotiated", "establishing"}
  <2>1. Greets(r, unread)
    BY <1>9 DEF Greets
  <2>2. consumer.phase \notin {"established", "terminating"}
    BY <1>16
  <2>3. CASE ~consumer.start /\ next < consumer.next
    <3>1. r = [Result(consumer, <<EstablishReject("Unspecified")>>)
                  EXCEPT !.blame = "Establish too low"]
      BY <1>3, <1>6, <1>11, <1>16, <2>3 DEF OnEstablish
    <3>2. /\ r.s = consumer /\ r.send = <<EstablishReject("Unspecified")>> /\ r.open
          /\ r.accept = 0 /\ r.gone = {}
      BY ONLY <3>1 DEF Result
    <3>3. PICK phase \in Phases : phase = consumer.phase
      BY <1>1, ConsumerFields
    <3>4. PICK announced \in Nat : announced = consumer.announced
      BY <1>1, ConsumerFields
    <3>5. r.s = Rephased(consumer, phase, announced)
      BY <1>1, <3>2, <3>3, <3>4 DEF Rephased, Consumers
    <3>6. phase \notin {"finalized", "closed"} => Numbered(Unknown, unread \o Ready(provider))
      BY <1>8, <1>16, <3>3
    <3>7. /\ phase \notin {"established", "terminating", "closing", "closed"} /\ phase # "pending"
          /\ announced <= provider.next /\ r.send \in Seq(Message)
      BY <1>1, <1>10, <1>16, <3>2, <3>3, <3>4, RepliesAre
    <3> QED BY <1>4, <1>5, <2>1, <2>2, <3>2, <3>5, <3>6, <3>7, ConsumerWaits
  <2>4. CASE ~(~consumer.start /\ next < consumer.next)
    <3>1. PICK phase \in Phases : phase = "pending"
      BY DEF Phases
    <3>2. r = Result([consumer EXCEPT !.phase = "pending", !.announced = m.next], <<>>)
      BY <1>3, <1>6, <1>11, <1>16, <2>4 DEF OnEstablish
    <3>3. /\ r.s = [consumer EXCEPT !.phase = "pending", !.announced = m.next] /\ r.send = <<>>
          /\ r.open /\ r.accept = 0 /\ r.gone = {}
      BY ONLY <3>2 DEF Result
    <3>4. r.s = Rephased(consumer, phase, next)
      BY <1>6, <3>1, <3>3 DEF Rephased
    <3>5. Numbered(Unknown, unread \o Ready(provider))
      BY <1>8, <1>16
    <3>6. /\ phase \notin {"established", "terminating", "closing", "closed"}
          /\ r.send \in Seq(Message)
      BY <3>1, <3>3, NothingSent
    <3> QED BY <1>4, <1>5, <1>6, <2>1, <2>2, <3>3, <3>4, <3>5, <3>6, ConsumerWaits
  <2> QED BY <2>3, <2>4
<1> QED BY <1>1, <1>9, <1>12, <1>13, <1>14, <1>15, <1>16, ConsumerFields DEF Phases

LEMMA ConsumerRejectsEstablish ==
    ASSUME FlowInv, Server = "consumer", RejectEstablishment
    PROVE  FlowInv' /\ handed' = handed
<1>1. consumer \in Consumers /\ side["consumer"] = consumer /\ provider.next \in Nat
  BY ConsumerIs
<1>2. PICK none \in Nat : none = 0
  OBVIOUS
<1>3. PICK phase \in Phases : phase = "negotiated"
  BY DEF Phases
<1>4. PICK send \in Seq(Replies) : send = <<EstablishReject("Unspecified")>>
  <2>1. EstablishReject("Unspecified") \in Replies
    BY DEF EstablishReject, Replies, Message, Codes
  <2>2. <<EstablishReject("Unspecified")>> \in Seq(Replies)
    BY <2>1
  <2> QED BY <2>2
<1>5. PICK r : r = Result(Rephased(consumer, phase, none), send)
  OBVIOUS
<1>6. up["consumer"] /\ consumer.phase = "pending" /\ Carry("consumer", r, chan["consumer"], 0)
  BY <1>1, <1>2, <1>3, <1>4, <1>5 DEF RejectEstablishment, Does, Rephased
<1>7. /\ r.s = Rephased(consumer, phase, none) /\ r.send = send /\ r.open /\ r.accept = 0
      /\ r.gone = {}
  BY ONLY <1>5 DEF Result
<1>8. Greets(r, chan["consumer"])
  BY TheSides DEF Client, Greets
<1>9. Numbered(Unknown, chan["consumer"] \o Ready(provider))
  BY <1>6 DEF FlowInv, LineOK, Context
<1>10. /\ phase \notin {"established", "terminating", "closing"} /\ phase # "pending"
       /\ phase # "closed" /\ none <= provider.next /\ send \in Seq(Message)
  <2>1. none <= provider.next
    BY ONLY <1>1, <1>2
  <2>2. send \in Seq(Message)
    BY <1>4, RepliesAre
  <2>3. phase \notin {"established", "terminating", "closing"} /\ phase # "pending" /\ phase # "closed"
    BY <1>3
  <2> QED BY <2>1, <2>2, <2>3
<1> QED BY <1>6, <1>7, <1>8, <1>9, <1>10, ConsumerWaits

LEMMA ConsumerHearsAck ==
    ASSUME FlowInv, Client = "consumer", ReceiveEstablishmentAck
    PROVE  FlowInv' /\ handed' = handed
<1>1. consumer \in Consumers /\ side["consumer"] = consumer
  BY ConsumerIs
<1>2. PICK m : m = Head(chan["consumer"])
  OBVIOUS
<1>3. PICK r : r = OnAck(consumer, m)
  OBVIOUS
<1>4. /\ up["consumer"] /\ chan["consumer"] # <<>> /\ m.kind = "EstablishmentAck"
      /\ Carry("consumer", r, Tail(chan["consumer"]), 0)
  BY <1>1, <1>2, <1>3 DEF ReceiveEstablishmentAck, Arrives, Hears
<1>5. m.kind \notin Data
  BY <1>4 DEF Data
<1>6. CASE consumer.phase # "establishing"
  <2>1. r = Result(consumer, <<>>)
    BY <1>3, <1>6 DEF OnAck
  <2> QED BY <1>2, <1>4, <1>5, <2>1, ConsumerPasses
<1>7. CASE consumer.phase = "establishing"
  <2>1. PICK next \in Nat : next = m.next /\ 1 <= next /\ next <= provider.next
    BY <1>2, <1>4, HeadIs
  <2>2. PICK u : u = Bind("consumer", consumer)
    OBVIOUS
  <2>3. r = OnEstablished("consumer", u, next)
    BY <1>3, <1>7, <2>1, <2>2 DEF OnAck
  <2>4. PICK unread : unread = Tail(chan["consumer"])
    OBVIOUS
  <2>5. \A c : Numbered(c, unread \o Ready(provider))
    BY <1>2, <1>4, <1>5, <1>7, <2>4, LineLeft
  <2>6. consumer.phase \notin {"established", "terminating"}
    BY <1>7
  <2>7. (r.open <=> r.open) /\ (Quiet(r) => Quiet(r)) /\ r.s = r.s
    OBVIOUS
  <2> QED BY <1>4, <2>1, <2>2, <2>3, <2>4, <2>5, <2>6, <2>7, ConsumerBinds
<1> QED BY <1>6, <1>7

\* on_establishment_reject: nothing of the Establish it answers is left, so
\* the consumer may send the next one.
LEMMA ConsumerHearsReject ==
    ASSUME FlowInv, Client = "consumer", ReceiveEstablishmentReject
    PROVE  FlowInv' /\ handed' = handed
<1>1. /\ consumer \in Consumers /\ side["consumer"] = consumer
      /\ consumer.announced <= provider.next
  BY ConsumerIs
<1>2. PICK m : m = Head(chan["consumer"])
  OBVIOUS
<1>3. PICK r : r = OnReject(consumer, m)
  OBVIOUS
<1>4. PICK unread : unread = Tail(chan["consumer"])
  OBVIOUS
<1>5. /\ up["consumer"] /\ chan["consumer"] # <<>> /\ m.kind = "EstablishmentReject"
      /\ Carry("consumer", r, unread, 0)
  BY <1>1, <1>2, <1>3, <1>4 DEF ReceiveEstablishmentReject, Arrives, Hears
<1>6. m.kind \notin Data
  BY <1>5 DEF Data
<1>7. ConsumerIsClient
  BY TheSides DEF Client
<1>8. CASE consumer.phase # "establishing"
  <2>1. r = Result(consumer, <<>>)
    BY <1>3, <1>8 DEF OnReject
  <2> QED BY <1>2, <1>4, <1>5, <1>6, <2>1, ConsumerPasses
<1>9. CASE consumer.phase = "establishing"
  <2>1. PICK phase \in {"closed", "negotiated"} :
           phase = IF m.code = "Unnegotiated" THEN "closed" ELSE "negotiated"
    OBVIOUS
  <2>2. PICK announced \in Nat : announced = consumer.announced
    BY <1>1, ConsumerFields
  <2>3. /\ r.s = [consumer EXCEPT !.phase = phase] /\ r.send = <<>> /\ r.open
        /\ r.accept = 0 /\ r.gone = {}
    BY <1>3, <1>9, <2>1 DEF OnReject, Result
  <2>4. r.s = Rephased(consumer, phase, announced) /\ r.s.phase = phase
    <3>1. [consumer EXCEPT !.phase = phase] = Rephased(consumer, phase, announced)
      BY <1>1, <2>2 DEF Rephased, Consumers
    <3>2. [consumer EXCEPT !.phase = phase].phase = phase
      BY <1>1 DEF Consumers
    <3> QED BY <2>3, <3>1, <3>2
  <2>5. /\ Lone(chan["consumer"], "EstablishmentReject")
        /\ Calm \/ Without(chan["consumer"], "EstablishmentReject")
    BY <1>5, <1>7, <1>9 DEF FlowInv, HandshakeOK
  <2>6. chan["consumer"] \in Seq(Message)
    BY SidesHave
  <2>7. ~Without(chan["consumer"], "EstablishmentReject")
    <3>1. 1 \in 1 .. Len(chan["consumer"]) /\ chan["consumer"][1].kind = "EstablishmentReject"
      BY <1>2, <1>5, <2>6, HeadTailProperties, LenProperties, EmptySeq
    <3> QED BY <3>1 DEF Without
  <2>8. Without(unread, "EstablishmentReject")
    BY <1>2, <1>4, <1>5, <2>5, <2>6, KindsLeft
  <2>9. Greets(r, unread)
    BY <2>1, <2>3, <2>4, <2>5, <2>7, <2>8, NothingSent DEF Greets
  <2>10. Numbered(Unknown, unread \o Ready(provider))
    BY <1>2, <1>4, <1>5, <1>6, <1>9, LineLeft
  <2>11. /\ phase \in Phases /\ phase \notin {"established", "terminating", "closing"}
         /\ phase # "pending" /\ announced <= provider.next /\ r.send \in Seq(Message)
         /\ consumer.phase \notin {"established", "terminating"}
    BY <1>1, <1>9, <2>1, <2>2, <2>3, NothingSent DEF Phases
  <2> QED BY <1>4, <1>5, <1>7, <2>2, <2>3, <2>4, <2>9, <2>10, <2>11, ConsumerWaits
<1> QED BY <1>8, <1>9

\* What was given up was expected before.
LEMMA GivenUp ==
    ASSUME FlowInv, NEW n \in abandoned
    PROVE  n \in Numbers
<1>1. abandoned \in SUBSET Nat /\ consumer.next <= provider.next
      /\ provider.next \in 1 .. MaxSeq + 1 /\ MaxSeq \in Nat /\ consumer.next \in Nat
      /\ Session(consumer, handed, abandoned, origin)
  BY ConsumerIs
<1>2. n \in Nat /\ 1 <= n /\ n < consumer.next
  BY <1>1 DEF Session, BooksOK
<1>3. PICK next : next = provider.next
  OBVIOUS
<1>4. PICK expected : expected = consumer.next
  OBVIOUS
<1>5. n \in 1 .. MaxSeq
  BY ONLY <1>1, <1>2, <1>3, <1>4
<1> QED BY <1>5, Constants

\* A bound consumer that takes a message, and delivers it or had it before.
LEMMA ConsumerDelivers ==
    ASSUME FlowInv, up["consumer"], consumer.phase \in {"established", "terminating"},
           chan["consumer"] # <<>>, NEW n, NEW r, Carry("consumer", r, Tail(chan["consumer"]), n),
           r.open, r.gone = {}, r.s \in Consumers, r.send \in Seq(Replies), r.accept \in {0, n},
           NEW after, after = IF r.accept = 0 THEN handed ELSE Filed(handed, n, n),
           after \in Books, Session(r.s, after, abandoned, origin),
           r.s.phase = consumer.phase, r.s.next <= provider.next, ~r.s.start,
           r.s.announced = consumer.announced, r.accept # 0 => n \notin abandoned,
           Numbered(Context(r.s), Tail(chan["consumer"]) \o Ready(provider))
    PROVE  FlowInv' /\ \A k \in abandoned : handed'[k] = handed[k]
<1>1. /\ abandoned \in SUBSET Nat /\ origin \in Nat /\ consumer.announced <= provider.next
      /\ ~consumer.start
  BY ConsumerIs
<1>2. PICK unread : unread = Tail(chan["consumer"])
  OBVIOUS
<1>3. unread \in Seq(Message) /\ Reached(unread, provider.next)
  BY <1>2, HeadIs
<1>4. after = IF r.accept = 0 THEN handed ELSE [handed EXCEPT ![n] = Append(@, r.accept)]
  BY DEF Filed
<1>5. PICK gone : gone = abandoned
  OBVIOUS
<1>6. gone = abandoned \union r.gone
  BY <1>5
<1>7. PICK begun : begun = origin
  OBVIOUS
<1>8. begun = IF consumer.start /\ ~r.s.start
              THEN (IF r.accept = 0 THEN r.s.next ELSE r.accept) ELSE origin
  BY <1>1, <1>7
<1>9. r.s.phase \notin {"negotiated", "establishing"} /\ r.s.phase \notin {"pending", "closed"}
  OBVIOUS
<1>10. r.send \in Seq(Message) /\ Greets(r, unread)
  BY <1>9, RepliesAre, GreetsNone
<1>11. Session(r.s, after, gone, begun) /\ gone \in SUBSET Nat /\ begun \in Nat
  BY <1>1, <1>5, <1>7
<1>12. r.s.announced <= provider.next
  BY <1>1
<1>13. Steps(r, unread, after, gone, begun)
  BY <1>2, <1>3, <1>9, <1>10, <1>11, <1>12 DEF Steps
<1>14. FlowInv'
  BY <1>2, <1>4, <1>6, <1>8, <1>13, ConsumerStep
<1>15. handed' = after
  BY <1>4 DEF Carry
<1>16. ASSUME NEW k \in abandoned PROVE handed'[k] = handed[k]
  <2>1. k \in Numbers /\ handed \in Books
    BY GivenUp, SidesHave
  <2>2. CASE r.accept = 0
    BY <1>15, <2>2
  <2>3. CASE r.accept # 0
    <3>1. k # n
      BY <2>3
    <3>2. after = [handed EXCEPT ![n] = Append(@, n)]
      BY <2>3 DEF Filed
    <3> QED BY ONLY <1>15, <2>1, <3>1, <3>2 DEF Books
  <2> QED BY <2>2, <2>3
<1> QED BY <1>14, <1>16

LEMMA ReceiveApplicationStep ==
    FlowInv /\ ReceiveApplication => FlowInv' /\ \A k \in abandoned : handed'[k] = handed[k]
<1> SUFFICES ASSUME FlowInv, ReceiveApplication
             PROVE  FlowInv' /\ \A k \in abandoned : handed'[k] = handed[k]
  OBVIOUS
<1>1. PICK m : m = Head(chan["consumer"])
  OBVIOUS
<1>2. PICK n : n = m.n
  OBVIOUS
<1>3. PICK handled : handled = OnApplication(consumer)
  OBVIOUS
<1>4. PICK r : r = OnPeer("consumer", handled)
  OBVIOUS
<1>5. /\ up["consumer"] /\ chan["consumer"] # <<>> /\ m.kind = "Application"
      /\ Carry("consumer", r, Tail(chan["consumer"]), n)
  BY <1>1, <1>2, <1>3, <1>4 DEF ReceiveApplication, Arrives
<1>6. CASE consumer.phase \notin {"established", "terminating"}
  BY <1>4, <1>5, <1>6, ConsumerIgnores
<1>7. CASE consumer.phase \in {"established", "terminating"}
  <2>1. /\ consumer \in Consumers /\ side["consumer"] = consumer /\ consumer.next <= provider.next
        /\ Session(consumer, handed, abandoned, origin) /\ ~consumer.start
        /\ abandoned \in SUBSET Nat /\ origin \in Nat
        /\ provider.next \in Nat /\ provider.next \in 1 .. MaxSeq + 1 /\ consumer.next \in Nat
    BY <1>7, ConsumerIs
  <2>2. r = handled
    BY <1>4, <1>7, <2>1 DEF OnPeer
  <2>3. PICK rest : rest = Tail(chan["consumer"]) \o Ready(provider)
    OBVIOUS
  <2>4. Follows(Context(consumer), m) /\ Numbered(m, rest)
    BY <1>1, <1>5, <1>7, <2>3, LineLeft
  <2>5. handed \in Books
    BY SidesHave
  <2>6. ASSUME NEW why \in Verdicts, consumer.replay = NoReplay,
               r = FailWith("consumer", consumer, "Error", why)
        PROVE  FlowInv' /\ handed' = handed
    <3>1. /\ Quiet(r) /\ ~r.open /\ Session(r.s, handed, abandoned, origin)
          /\ r.s.next = consumer.next /\ r.s.start = consumer.start
          /\ r.s.announced = consumer.announced
      BY <2>1, <2>6, FailKeeps
    <3> QED BY <1>5, <1>7, <2>1, <3>1, ConsumerQuiet
  <2>7. CASE consumer.replay # NoReplay
    <3>1. PICK number : number = consumer.replay.next
      OBVIOUS
    <3>2. PICK after : after = Taken(consumer, handed)
      OBVIOUS
    <3>3. r = OnReplayed(consumer)
      BY <1>3, <2>2, <2>7 DEF OnApplication
    <3>4. /\ r \in Results /\ r.open /\ r.gone = {}
          /\ r.accept = IF InRuns(consumer, number) THEN 0 ELSE number
          /\ number \in Numbers /\ number \notin abandoned /\ after \in Books
          /\ Session(r.s, after, abandoned, origin)
          /\ r.s.phase = consumer.phase /\ r.s.next = consumer.next /\ ~r.s.start
          /\ r.s.announced = consumer.announced
          /\ consumer.replay.left = 1 => r.s.replay = NoReplay
          /\ consumer.replay.left # 1 =>
                /\ r.s.replay # NoReplay /\ r.s.replay.next = number + 1
                /\ r.s.replay.left = consumer.replay.left - 1
      <4>1. PICK s : s = consumer
        OBVIOUS
      <4>2. /\ s \in Consumers /\ Session(s, handed, abandoned, origin)
            /\ s.phase \in {"established", "terminating"} /\ ~s.start
            /\ s.replay # NoReplay /\ number = s.replay.next
            /\ after = Taken(s, handed) /\ r = OnReplayed(s)
        BY <1>7, <2>1, <2>7, <3>1, <3>2, <3>3, <4>1
      <4>3. /\ r \in Results /\ r.open /\ r.gone = {} /\ ~r.s.start
            /\ after \in Books /\ Session(r.s, after, abandoned, origin) /\ GoesOn(s, r, abandoned)
        BY ONLY <2>1, <2>5, <4>2, ReplayedKeeps
      <4> QED BY ONLY <3>1, <4>1, <4>3 DEF GoesOn
    <3>5. PICK c : c = Context(consumer)
      OBVIOUS
    <3>6. c = Retransmission(0, number, consumer.replay.left) /\ c.kind = "Retransmission"
          /\ c.next = number /\ c.count = consumer.replay.left
      BY <1>7, <2>7, <3>1, <3>5 DEF Context, Retransmission
    <3>7. c.next \in Nat /\ c.count \in Nat \ {0}
      BY <2>1, <3>5, <3>6, ContextOK DEF Session
    <3>8. n = number /\ Numbered(Context(r.s), rest)
      <4>1. PICK v : v = chan["consumer"]
        OBVIOUS
      <4>2. PICK u : u = v \o Ready(provider)
        OBVIOUS
      <4>3. u \in Seq(Message) /\ u # <<>> /\ u[1] = m /\ Tail(u) = rest
        BY <1>1, <1>5, <2>3, <4>1, <4>2, FirstOfLine
      <4>4. Numbered(c, u)
        BY <1>5, <1>7, <3>5, <4>1, <4>2 DEF FlowInv, LineOK
      <4>5. /\ u[1].n = c.next
            /\ c.count > 1 => Numbered(Retransmission(0, c.next + 1, c.count - 1), Tail(u))
            /\ c.count = 1 => \A d : Numbered(d, Tail(u))
        BY <1>5, <3>6, <3>7, <4>3, <4>4, NextInBatch
      <4>6. CASE c.count = 1
        BY <1>2, <3>6, <4>3, <4>5, <4>6
      <4>7. CASE c.count # 1
        <5>1. Context(r.s) = Retransmission(0, r.s.replay.next, r.s.replay.left)
          BY <1>7, <3>4, <3>6, <4>7 DEF Context
        <5>2. Context(r.s) = Retransmission(0, c.next + 1, c.count - 1)
          BY ONLY <3>4, <3>6, <4>7, <5>1
        <5>3. c.count > 1
          BY ONLY <3>7, <4>7
        <5> QED BY <1>2, <3>6, <4>3, <4>5, <5>2, <5>3
      <4> QED BY <4>6, <4>7
    <3>9. number # 0
      BY <3>4, Constants
    <3>10. /\ r.s \in Consumers /\ r.send \in Seq(Replies) /\ r.accept \in {0, n}
           /\ r.accept # 0 => n \notin abandoned
           /\ after = IF r.accept = 0 THEN handed ELSE Filed(handed, n, n)
      BY <3>1, <3>2, <3>4, <3>8, <3>9 DEF Results, Taken
    <3> QED BY <1>5, <1>7, <2>1, <2>3, <3>4, <3>8, <3>10, ConsumerDelivers
  <2>8. CASE consumer.replay = NoReplay /\ consumer.finished # NotFinished
    <3>1. PICK why \in Verdicts : why = "after FinishedSending"
      BY DEF Verdicts
    <3>2. r = FailWith("consumer", consumer, "Error", why)
      BY <1>3, <2>2, <2>8, <3>1 DEF OnApplication, Violation
    <3> QED BY <2>6, <2>8, <3>2
  <2>9. CASE consumer.replay = NoReplay /\ consumer.finished = NotFinished /\ consumer.resume
    <3>1. PICK why \in Verdicts : why = "no Sequence after a retransmission"
      BY DEF Verdicts
    <3>2. r = FailWith("consumer", consumer, "Error", why)
      BY <1>3, <2>2, <2>9, <3>1 DEF OnApplication, Violation
    <3> QED BY <2>6, <2>9, <3>2
  <2>10. CASE consumer.replay = NoReplay /\ consumer.finished = NotFinished /\ ~consumer.resume
    <3>1. PICK number : number = consumer.next
      OBVIOUS
    <3>2. PICK t : t = Counted(consumer)
      OBVIOUS
    <3>3. r = [Result(t, <<>>) EXCEPT !.accept = number]
      BY <1>3, <2>2, <2>10, <3>1, <3>2 DEF OnApplication, Counted
    <3>4. r.s = t /\ r.send = <<>> /\ r.open /\ r.gone = {} /\ r.accept = number
      BY ONLY <3>3 DEF Result
    <3>5. Context(consumer) = SequenceMsg(number)
      BY <1>7, <2>10, <3>1 DEF Context
    <3>6. n = number
      BY <1>2, <1>5, <2>4, <3>5 DEF Follows, SequenceMsg
    <3>7. n \in Nat /\ 1 <= n /\ n < provider.next
      BY <1>1, <1>2, <1>5, HeadIs
    <3>8. number \in Numbers /\ number # 0 /\ number + 1 <= provider.next
      <4>1. PICK last : last = provider.next
        OBVIOUS
      <4>2. MaxSeq \in Nat
        BY Constants
      <4>3. n \in 1 .. MaxSeq /\ n # 0 /\ n + 1 <= last
        BY ONLY <2>1, <3>7, <4>1, <4>2
      <4> QED BY <3>6, <4>1, <4>3, Constants
    <3>9. PICK after : after = Filed(handed, consumer.next, consumer.next)
      OBVIOUS
    <3>10. /\ t \in Consumers /\ Session(t, after, abandoned, origin)
           /\ t.next = consumer.next + 1 /\ ~t.start /\ t.announced = consumer.announced
           /\ t.phase = consumer.phase /\ t.replay = NoReplay /\ consumer.next \notin abandoned
           /\ after \in Books
      <4>1. PICK s : s = consumer
        OBVIOUS
      <4>2. /\ s \in Consumers /\ Session(s, handed, abandoned, origin)
            /\ s.phase \in {"established", "terminating"} /\ ~s.start
            /\ s.replay = NoReplay /\ s.finished = NotFinished /\ s.next \in Numbers
            /\ after = Filed(handed, s.next, s.next)
            /\ t = Counted(s)
        BY <1>7, <2>1, <2>10, <3>1, <3>2, <3>8, <3>9, <4>1
      <4>3. /\ t \in Consumers /\ Session(t, after, abandoned, origin)
            /\ t.next = s.next + 1 /\ ~t.start /\ t.announced = s.announced
            /\ t.phase = s.phase /\ t.replay = NoReplay /\ s.next \notin abandoned
            /\ after \in Books
        BY ONLY <2>1, <2>5, <4>2, ApplicationKeeps
      <4> QED BY <4>1, <4>3
    <3>11. Numbered(Context(r.s), rest)
      <4>1. Context(t) = SequenceMsg(m.n + 1)
        BY <1>2, <1>7, <3>1, <3>6, <3>10 DEF Context
      <4> QED BY <1>5, <2>4, <3>4, <4>1, NextInSequence
    <3>12. r.send \in Seq(Replies)
      BY <3>4, ConsumerSends
    <3>13. /\ r.accept \in {0, n} /\ n \notin abandoned /\ r.s.next <= provider.next
           /\ after = IF r.accept = 0 THEN handed ELSE Filed(handed, n, n)
      BY <3>1, <3>4, <3>6, <3>8, <3>9, <3>10
    <3> QED BY <1>5, <1>7, <2>1, <2>3, <3>4, <3>10, <3>11, <3>12, <3>13, ConsumerDelivers
  <2> QED BY <2>6, <2>7, <2>8, <2>9, <2>10
<1> QED BY <1>6, <1>7

-----------------------------------------------------------------------------
(* Transports come and go                                                   *)

LEMMA ConnectStep == FlowInv /\ Connect => FlowInv' /\ handed' = handed
<1> SUFFICES ASSUME FlowInv, Connect PROVE FlowInv' /\ handed' = handed
  OBVIOUS
<1>1. /\ side' = side /\ chan' = chan /\ up' = [x \in Sides |-> TRUE]
      /\ handed' = handed /\ abandoned' = abandoned /\ origin' = origin
      /\ transports' = transports + 1 /\ transports < MaxTransports
      /\ side[Client].phase = "negotiated" /\ \A x \in Sides : ~up[x]
  BY DEF Connect, history
<1>2. FlowTypeOK /\ LetGo /\ NextOK /\ HandshakeOK
  BY DEF FlowInv
<1>3. consumer' = consumer /\ provider' = provider
  BY <1>1 DEF consumer, provider
<1>4. /\ \A x \in Sides : chan[x] = <<>> /\ side[x].phase \notin Busy
      /\ side["consumer"] = consumer /\ side["provider"] = provider
  BY <1>1, <1>2, SidesHave DEF LetGo
<1>5. chan["consumer"] = <<>> /\ chan["provider"] = <<>> /\ provider.phase \notin Busy
  BY <1>4, TheSides
<1>6. FlowTypeOK'
  <2>1. transports + 1 \in 0 .. MaxTransports
    BY <1>1, <1>2, BoundsAssumption DEF FlowTypeOK
  <2>2. up' \in [Sides -> BOOLEAN]
    BY <1>1
  <2> QED BY <1>1, <1>2, <2>1, <2>2 DEF FlowTypeOK
<1>7. LetGo'
  <2>1. \A x \in Sides : up'[x]
    BY <1>1
  <2> QED BY <1>1, <1>2, <1>3, <2>1 DEF LetGo, Bound
<1>8. NextOK'
  BY <1>1, <1>2, <1>3 DEF NextOK
<1>9. LineOK'
  <2>1. provider.phase # "established"
    BY <1>5 DEF Busy
  <2>2. Ready(provider) = <<>>
    BY <2>1, SidesHave, ReadyIs
  <2>3. Numbered(Context(consumer), chan["consumer"] \o Ready(provider))
    BY <1>5, <2>2, NothingSent
  <2> QED BY <1>1, <1>3, <2>3 DEF LineOK
<1>10. HandshakeOK'
  <2>1. Without(chan["consumer"], "EstablishmentReject") /\ Without(chan["provider"], "Establish")
        /\ Lone(chan["provider"], "Establish") /\ Lone(chan["consumer"], "EstablishmentReject")
    BY <1>5, NothingSent
  <2>2. Calm'
    BY <1>1, <1>3, <1>5, <2>1 DEF Calm
  <2> QED BY <1>1, <1>3, <2>1, <2>2 DEF HandshakeOK
<1>11. Session(consumer, handed, abandoned, origin)'
  <2>1. Session(consumer, handed, abandoned, origin)
    BY SidesHave
  <2> QED BY <1>1, <1>3, <2>1
<1> QED BY <1>1, <1>6, <1>7, <1>8, <1>9, <1>10, <1>11 DEF FlowInv

\* The end of the transport is a handler that sends nothing.
Closes(x, u) ==
    /\ up[x] /\ side' = [side EXCEPT ![x] = u] /\ up' = [up EXCEPT ![x] = FALSE]
    /\ chan' = [chan EXCEPT ![x] = <<>>] /\ UNCHANGED <<transports, history>>
    /\ x = "consumer" => u.start = consumer.start
Shut(u) == [Result(u, <<>>) EXCEPT !.open = FALSE]
LEMMA ClosedIs ==
    ASSUME FlowInv, NEW x \in Sides, NEW u, Closes(x, u),
           NEW r, r = Shut(u)
    PROVE  Carry(x, r, chan[x], 0) /\ r.s = u /\ r.send = <<>> /\ ~r.open /\ r.accept = 0 /\ r.gone = {}
<1>1. r.s = u /\ r.send = <<>> /\ ~r.open /\ r.accept = 0 /\ r.gone = {} /\ r.blame = "none"
  BY ONLY r = Shut(u) DEF Shut, Result
<1>2. /\ chan \in [Sides -> Seq(Message)] /\ up \in [Sides -> BOOLEAN]
      /\ Other(x) \in Sides /\ Other(x) # x
  BY TheSides DEF FlowInv, FlowTypeOK
<1>3. PICK v \in Seq(Message) : v = chan[Other(x)]
  BY <1>2
<1>4. v \o r.send = v
  BY <1>1, ConcatEmptySeq
<1>5. chan' = [chan EXCEPT ![x] = IF r.open THEN chan[x] ELSE <<>>,
                           ![Other(x)] = IF up[Other(x)] THEN chan[Other(x)] \o r.send ELSE chan[Other(x)]]
  BY <1>1, <1>2, <1>3, <1>4 DEF Closes
<1>6. up' = [up EXCEPT ![x] = up[x] /\ r.open]
  BY <1>1, <1>2 DEF Closes
<1> QED BY <1>1, <1>2, <1>5, <1>6 DEF Carry, Closes, history

LEMMA ProviderCloses ==
    ASSUME FlowInv, TransportClosed("provider")
    PROVE  FlowInv' /\ handed' = handed
<1>1. provider \in Providers /\ side["provider"] = provider /\ ServingOK(provider)
  BY ProviderIs
<1>2. PICK u : u = IF Bound("provider") THEN Unbound("provider", ReleaseProvider(provider))
                   ELSE IF provider.phase \in {"establishing", "pending"}
                        THEN Unbound("provider", provider) ELSE provider
  OBVIOUS
<1>3. up["provider"] /\ Closes("provider", u)
  <2>1. side \in [consumer : Consumers, provider : Providers]
    BY DEF FlowInv, FlowTypeOK
  <2>2. Unbound("provider", provider) = [provider EXCEPT !.phase = "negotiated"]
    BY DEF Unbound
  <2> QED BY <1>1, <1>2, <2>1, <2>2 DEF TransportClosed, Release, Closes
<1>4. u \in Providers /\ u.phase \notin Busy /\ u.next = provider.next /\ ServingOK(u)
  <2>1. CASE Bound("provider") \/ provider.phase \in {"establishing", "pending"}
    <3>1. u \in {Unbound("provider", provider), Unbound("provider", ReleaseProvider(provider))}
      BY <1>2, <2>1
    <3>2. u \in Providers /\ u.phase = "negotiated" /\ u.next = provider.next /\ ServingOK(u)
      BY <1>1, <3>1, ProviderUnbinds
    <3> QED BY <3>2 DEF Busy
  <2>2. CASE ~Bound("provider") /\ provider.phase \notin {"establishing", "pending"}
    <3>1. u = provider
      BY <1>2, <2>2
    <3> QED BY <1>1, <2>2, <3>1 DEF Bound, Busy
  <2> QED BY <2>1, <2>2
<1>5. PICK r : r = Shut(u)
  OBVIOUS
<1>6. /\ Carry("provider", r, chan["provider"], 0) /\ r.s = u /\ r.send = <<>> /\ ~r.open
      /\ r.accept = 0 /\ r.gone = {}
  <2>1. PICK x \in Sides : x = "provider"
    BY TheSides
  <2>2. Closes(x, u)
    BY <1>3, <2>1
  <2>3. /\ Carry(x, r, chan[x], 0) /\ r.s = u /\ r.send = <<>> /\ ~r.open
        /\ r.accept = 0 /\ r.gone = {}
    BY ONLY FlowInv, <1>5, <2>2, ClosedIs, x \in Sides
  <2> QED BY <2>1, <2>3
<1>7. PICK send \in {<<>>, <<TerminateMsg("Error")>>} : send = <<>>
  OBVIOUS
<1>8. PICK unread : unread = chan["provider"]
  OBVIOUS
<1>9. Carry("provider", r, unread, 0) /\ r.send = send
  BY ONLY <1>6, <1>7, <1>8
<1> QED BY <1>3, <1>4, <1>6, <1>7, <1>8, <1>9, ProviderEnds

LEMMA ConsumerCloses ==
    ASSUME FlowInv, TransportClosed("consumer")
    PROVE  FlowInv' /\ handed' = handed
<1>1. /\ consumer \in Consumers /\ side["consumer"] = consumer /\ consumer.next <= provider.next
      /\ consumer.announced <= provider.next
      /\ Session(consumer, handed, abandoned, origin)
      /\ abandoned \in SUBSET Nat /\ origin \in Nat
      /\ consumer.phase = "closed" => ConsumerIsClient
      /\ {"established", "terminating", "closing", "pending"} = Busy
  BY ConsumerIs
<1>2. PICK phase \in Phases : phase = "negotiated"
  BY DEF Phases
<1>3. PICK announced \in Nat : announced = consumer.announced
  BY <1>1, ConsumerFields
<1>4. PICK u : u = IF Bound("consumer") THEN Unbound("consumer", ReleaseConsumer(consumer))
                   ELSE IF consumer.phase \in {"establishing", "pending"}
                        THEN Rephased(consumer, phase, announced) ELSE consumer
  OBVIOUS
<1>5. Bound("consumer") <=> consumer.phase \in {"established", "terminating", "closing"}
  BY <1>1 DEF Bound
<1>6. up["consumer"] /\ (u.start = consumer.start => Closes("consumer", u))
  <2>1. side \in [consumer : Consumers, provider : Providers]
    BY DEF FlowInv, FlowTypeOK
  <2>2. Rephased(consumer, phase, announced) = [consumer EXCEPT !.phase = "negotiated"]
    BY <1>1, <1>2, <1>3 DEF Rephased, Consumers
  <2> QED BY <1>1, <1>4, <2>1, <2>2 DEF TransportClosed, Release, Closes
<1>7. /\ u \in Consumers /\ Session(u, handed, abandoned, origin)
      /\ u.next = consumer.next /\ u.start = consumer.start /\ u.announced = consumer.announced
      /\ u.phase \in {"negotiated", "finalized", "closed"}
      /\ u.phase = "closed" => consumer.phase = "closed"
  <2>1. CASE Bound("consumer")
    <3>1. u = Unbound("consumer", ReleaseConsumer(consumer))
      BY <1>4, <2>1
    <3> QED BY <1>1, <3>1, UnboundKeeps
  <2>2. CASE ~Bound("consumer") /\ consumer.phase \in {"establishing", "pending"}
    <3>1. u = Rephased(consumer, phase, announced)
      BY <1>4, <2>2
    <3>2. phase \notin {"established", "terminating"} /\ consumer.phase \notin {"established", "terminating"}
      BY <1>2, <2>2
    <3>3. /\ u \in Consumers /\ Session(u, handed, abandoned, origin)
          /\ u.next = consumer.next /\ u.start = consumer.start /\ u.announced = announced
          /\ u.phase = phase
      <4>1. PICK s : s = consumer
        OBVIOUS
      <4>2. /\ s \in Consumers /\ Session(s, handed, abandoned, origin) /\ u = Rephased(s, phase, announced)
            /\ s.phase \notin {"established", "terminating"}
        BY <1>1, <3>1, <3>2, <4>1
      <4>3. /\ u \in Consumers /\ Session(u, handed, abandoned, origin)
            /\ u.next = s.next /\ u.start = s.start /\ u.announced = announced
            /\ u.phase = phase
        BY ONLY <1>1, <3>2, <4>2, PhaseKeeps, phase \in Phases, announced \in Nat
      <4> QED BY <4>1, <4>3
    <3> QED BY <1>2, <1>3, <3>3
  <2>3. CASE ~Bound("consumer") /\ consumer.phase \notin {"establishing", "pending"}
    <3>1. u = consumer
      BY <1>4, <2>3
    <3>2. consumer.phase \in Phases
      BY <1>1, ConsumerFields
    <3> QED BY <1>1, <1>5, <2>3, <3>1, <3>2 DEF Phases
  <2> QED BY <2>1, <2>2, <2>3
<1>8. PICK r : r = Shut(u)
  OBVIOUS
<1>9. /\ Carry("consumer", r, chan["consumer"], 0) /\ r.s = u /\ r.send = <<>> /\ ~r.open
      /\ r.accept = 0 /\ r.gone = {}
  <2>1. PICK x \in Sides : x = "consumer"
    BY TheSides
  <2>2. Closes(x, u)
    BY <1>6, <1>7, <2>1
  <2>3. /\ Carry(x, r, chan[x], 0) /\ r.s = u /\ r.send = <<>> /\ ~r.open
        /\ r.accept = 0 /\ r.gone = {}
    BY ONLY FlowInv, <1>8, <2>2, ClosedIs, x \in Sides
  <2> QED BY <2>1, <2>3
<1>10. r.send \in Seq(Replies)
  BY <1>9, ConsumerSends
<1>11. r.send \in Seq(Message) /\ Greets(r, chan["consumer"])
  BY <1>9, <1>10, RepliesAre, GreetsNone
<1>12. PICK begun : begun = origin
  OBVIOUS
<1>13. PICK gone : gone = abandoned
  OBVIOUS
<1>14. /\ begun = (IF consumer.start /\ ~r.s.start THEN r.s.next ELSE origin) /\ begun \in Nat
       /\ gone = abandoned \union r.gone /\ gone \in SUBSET Nat
       /\ Session(r.s, handed, gone, begun)
  BY <1>1, <1>7, <1>9, <1>12, <1>13
<1>15. /\ r.s.next <= provider.next /\ r.s.announced <= provider.next
       /\ r.s.phase \notin Busy /\ r.s.phase # "pending"
       /\ r.s.phase = "closed" => ConsumerIsClient
       /\ r.s.phase \notin {"established", "terminating", "closing"}
  BY <1>1, <1>7, <1>9
<1> QED BY <1>6, <1>7, <1>9, <1>11, <1>14, <1>15, ConsumerGoes

-----------------------------------------------------------------------------
(* The invariant holds                                                      *)

LEMMA FlowInvInit == Init => FlowInv
<1> SUFFICES ASSUME Init PROVE FlowInv
  OBVIOUS
<1>1. PICK s : s = NewConsumer
  OBVIOUS
<1>2. PICK p : p = NewProvider
  OBVIOUS
<1>3. /\ side = [consumer |-> s, provider |-> p] /\ consumer = s /\ provider = p
      /\ chan = [x \in Sides |-> <<>>] /\ up = [x \in Sides |-> FALSE] /\ transports = 0
      /\ handed = [n \in Numbers |-> <<>>] /\ abandoned = {} /\ origin = 0
  BY <1>1, <1>2 DEF Init, consumer, provider
<1>4. 1 \in 1 .. MaxSeq + 1 /\ MaxSeq \in Nat /\ 0 \in 0 .. MaxTransports /\ Numbers \subseteq Nat
  BY Constants, BoundsAssumption
<1>5. /\ s \in Consumers /\ s.phase = "negotiated" /\ s.next = 1 /\ s.start /\ s.missing = <<>>
      /\ s.runs = <<>> /\ s.request = NoRequest /\ s.replay = NoReplay
      /\ s.finished = NotFinished /\ s.announced = 0
  <2>1. "negotiated" \in Phases /\ 0 \in Stamps /\ <<>> \in Seq(Ranges)
    BY DEF Phases, Stamps
  <2> QED BY <1>1, <1>4, <2>1, None DEF NewConsumer, Consumers, NotFinished
<1>6. /\ p \in Providers /\ p.phase = "negotiated" /\ p.next = 1 /\ p.serving = NoService
  BY <1>2, <1>4 DEF NewProvider, Providers, Phases, NoService, Services
<1>7. FlowTypeOK
  <2>1. chan \in [Sides -> Seq(Message)]
    BY <1>3, NothingSent
  <2>2. up \in [Sides -> BOOLEAN]
    BY <1>3
  <2>3. handed \in Books
    BY <1>3 DEF Books
  <2>4. side \in [consumer : Consumers, provider : Providers]
    BY <1>3, <1>5, <1>6
  <2> QED BY <1>3, <1>4, <2>1, <2>2, <2>3, <2>4 DEF FlowTypeOK
<1>8. side["consumer"] = s /\ side["provider"] = p /\ \A x \in Sides : chan[x] = <<>> /\ ~up[x]
  BY <1>3
<1>9. LetGo
  <2>1. \A x \in Sides : side[x].phase = "negotiated"
    BY <1>5, <1>6, <1>8, TheSides
  <2> QED BY <1>3, <1>5, <1>8, <2>1 DEF LetGo, Busy, Bound
<1>10. NextOK
  <2>1. Reached(chan.consumer, provider.next)
    BY <1>8, TheSides, NothingSent
  <2>2. ServingOK(p)
    BY <1>6 DEF ServingOK, NoService
  <2> QED BY <1>3, <1>5, <1>6, <2>1, <2>2 DEF NextOK
<1>11. LineOK
  BY <1>8, TheSides DEF LineOK
<1>12. HandshakeOK
  <2>1. /\ Lone(chan["provider"], "Establish")
        /\ provider.phase \in Busy => Without(chan["provider"], "Establish")
    BY <1>8, TheSides, NothingSent
  <2>2. ~up["consumer"]
    BY <1>8, TheSides
  <2> QED BY <2>1, <2>2 DEF HandshakeOK
<1>13. Session(s, handed, abandoned, origin)
  <2>1. Len(s.missing) = 0 /\ Len(s.runs) = 0
    BY <1>5
  <2>2. GapsOK(s) /\ RunsOK(s)
    BY <1>5, <2>1, Constants DEF GapsOK, RunsOK
  <2>3. RequestOK(s) /\ StartOK(s, origin) /\ FinishOK(s)
    BY <1>3, <1>5, None DEF RequestOK, StartOK, FinishOK, NotFinished
  <2>4. BooksOK(s, handed, abandoned, origin)
    <3>1. \A n \in Numbers : handed[n] = <<>>
      BY <1>3
    <3>2. \A n : ~Missing(s, n)
      BY <2>1 DEF Missing
    <3>3. 1 .. Len(s.missing) = {}
      BY <2>1
    <3> QED BY <1>3, <1>5, <3>1, <3>2, <3>3 DEF BooksOK
  <2> QED BY <2>2, <2>3, <2>4 DEF Session
<1>14. Session(consumer, handed, abandoned, origin)
  BY <1>3, <1>13
<1> QED BY <1>7, <1>9, <1>10, <1>11, <1>12, <1>14 DEF FlowInv

\* A step keeps the invariant, and what was given up stays as it is.
Keeps == FlowInv' /\ \A n \in abandoned : handed'[n] = handed[n]

\* The handshake, whichever end is the client.
LEMMA HandshakeKeeps ==
    ASSUME FlowInv,
           \/ Establish \/ ReceiveEstablish \/ AcceptEstablishment \/ RejectEstablishment
           \/ ReceiveEstablishmentAck \/ ReceiveEstablishmentReject
    PROVE  Keeps
<1>1. FlowInv' /\ handed' = handed
  <2>1. CASE ConsumerIsClient
    <3>1. Client = "consumer" /\ Server = "provider"
      BY <2>1 DEF Client, Server, Other
    <3> QED BY <3>1, ConsumerEstablishes, ConsumerHearsAck, ConsumerHearsReject,
               ProviderTakesEstablish, ProviderAccepts, ProviderRejectsEstablish
  <2>2. CASE ~ConsumerIsClient
    <3>1. Client = "provider" /\ Server = "consumer"
      BY <2>2 DEF Client, Server, Other
    <3> QED BY <3>1, ProviderEstablishes, ProviderHearsAnswer,
               ConsumerTakesEstablish, ConsumerAccepts, ConsumerRejectsEstablish
  <2> QED BY <2>1, <2>2
<1> QED BY <1>1 DEF Keeps

\* What only the provider does.
LEMMA ProviderKeeps ==
    ASSUME FlowInv,
           \/ SendApplication \/ Heartbeat \/ RejectRequest \/ EndRetransmission \/ FinishSending
           \/ \E count \in 1 .. MaxRetransmitCount :
                 Retransmit(count) \/ \E written \in 0 .. count - 1 : RetransmitCut(count, written)
           \/ ReceiveRetransmitRequest \/ ReceiveFinishedReceiving
    PROVE  Keeps
<1>1. FlowInv' /\ handed' = handed
  <2>1. ASSUME NEW count \in 1 .. MaxRetransmitCount, Retransmit(count)
        PROVE  FlowInv' /\ handed' = handed
    BY <2>1, RetransmitStep
  <2>2. ASSUME NEW count \in 1 .. MaxRetransmitCount, NEW written \in 0 .. count - 1,
               RetransmitCut(count, written)
        PROVE  FlowInv' /\ handed' = handed
    BY <2>2, RetransmitCutStep
  <2> QED BY <2>1, <2>2, SendApplicationStep, HeartbeatStep, RejectRequestStep,
             EndRetransmissionStep, FinishSendingStep, ReceiveRetransmitRequestStep,
             ReceiveFinishedReceivingStep
<1> QED BY <1>1 DEF Keeps

\* What only the consumer does.
LEMMA ConsumerKeeps ==
    ASSUME FlowInv,
           \/ ReceiveSequence \/ ReceiveApplication \/ ReceiveRetransmission
           \/ ReceiveRetransmitReject \/ ReceiveFinishedSending \/ Stall
    PROVE  Keeps
<1>1. ReceiveApplication => Keeps
  BY ReceiveApplicationStep DEF Keeps
<1>2. ReceiveSequence \/ ReceiveRetransmission \/ ReceiveRetransmitReject
      \/ ReceiveFinishedSending \/ Stall => FlowInv' /\ handed' = handed
  BY ReceiveSequenceStep, ReceiveRetransmissionStep, ReceiveRetransmitRejectStep,
     ReceiveFinishedSendingStep, StallStep
<1> QED BY <1>1, <1>2 DEF Keeps

\* What both ends do.
LEMMA EitherKeeps ==
    ASSUME FlowInv, NEW x \in Sides,
           \/ TransportClosed(x) \/ HandshakeTimeout(x) \/ ReceiveTerminate(x)
           \/ Terminate(x) \/ TerminateOnError(x) \/ UnbindTimeout(x)
    PROVE  Keeps
<1>1. FlowInv' /\ handed' = handed
  <2>1. CASE x = "consumer"
    BY <2>1, ConsumerCloses, ConsumerHandshakeTimeout, ConsumerHearsTerminate,
       ConsumerTerminates, ConsumerGivesUp
  <2>2. CASE x = "provider"
    BY <2>2, ProviderCloses, ProviderHandshakeTimeout, ProviderHearsTerminate,
       ProviderTerminates, ProviderGivesUp
  <2> QED BY <2>1, <2>2, TheSides
<1> QED BY <1>1 DEF Keeps

LEMMA FlowInvNext == FlowInv /\ [Next]_vars => Keeps
<1> SUFFICES ASSUME FlowInv, [Next]_vars PROVE Keeps
  OBVIOUS
<1>1. CASE UNCHANGED vars
  BY <1>1 DEF Keeps, vars, FlowInv, FlowTypeOK, LetGo, NextOK, LineOK, HandshakeOK, Calm, Bound,
              consumer, provider
<1>2. CASE Connect
  BY <1>2, ConnectStep DEF Keeps
<1>3. CASE \/ Establish \/ ReceiveEstablish \/ AcceptEstablishment \/ RejectEstablishment
           \/ ReceiveEstablishmentAck \/ ReceiveEstablishmentReject
  BY <1>3, HandshakeKeeps
<1>4. CASE \/ SendApplication \/ Heartbeat \/ RejectRequest \/ EndRetransmission \/ FinishSending
           \/ \E count \in 1 .. MaxRetransmitCount :
                 Retransmit(count) \/ \E written \in 0 .. count - 1 : RetransmitCut(count, written)
           \/ ReceiveRetransmitRequest \/ ReceiveFinishedReceiving
  BY <1>4, ProviderKeeps
<1>5. CASE \/ ReceiveSequence \/ ReceiveApplication \/ ReceiveRetransmission
           \/ ReceiveRetransmitReject \/ ReceiveFinishedSending \/ Stall
  BY <1>5, ConsumerKeeps
<1>6. ASSUME NEW x \in Sides,
             \/ TransportClosed(x) \/ HandshakeTimeout(x) \/ ReceiveTerminate(x)
             \/ Terminate(x) \/ TerminateOnError(x) \/ UnbindTimeout(x)
      PROVE  Keeps
  BY <1>6, EitherKeeps
<1> QED BY <1>1, <1>2, <1>3, <1>4, <1>5, <1>6 DEF Next

LEMMA FlowInvHolds == Spec => []FlowInv
<1>1. FlowInv /\ [Next]_vars => FlowInv'
  BY FlowInvNext DEF Keeps
<1> QED BY <1>1, FlowInvInit, PTL DEF Spec

-----------------------------------------------------------------------------
(* The theorems                                                             *)

\* What both ends keep has its type: the gaps are ordered, do not touch, end
\* below the next expected number and number max_pending_gaps and one at most,
\* and a received run ends below the end of a gap (on_gap, insert_received_run).
THEOREM FlowTypeHolds == Spec => []TypeOK
<1>1. FlowInv => TypeOK
  <2> SUFFICES ASSUME FlowInv PROVE TypeOK
    OBVIOUS
  <2>1. /\ consumer \in Consumers /\ provider \in Providers
        /\ GapsOK(consumer) /\ RunsOK(consumer) /\ RequestOK(consumer)
    BY SidesHave DEF Session
  <2>2. consumer.phase \in Phases /\ provider.phase \in Phases \ {"finalized"}
    BY <2>1, ConsumerFields, ProviderFields
  <2>3. {consumer.next, provider.next} \subseteq 1 .. MaxSeq + 1
    BY <2>1 DEF Consumers, Providers
  <2>4. Len(consumer.missing) <= MaxPendingGaps + 1 /\ Len(consumer.runs) <= MaxRuns
    BY <2>1 DEF GapsOK, RunsOK
  <2>5. \A gap \in Gaps : 1 <= gap.from /\ gap.from < gap.end /\ gap.end <= consumer.next
    BY <2>1, ConsumerFields, SMTT(20) DEF Gaps, GapsOK
  <2>6. \A i \in 1 .. Len(consumer.missing) - 1 :
           consumer.missing[i].end < consumer.missing[i + 1].from
    <3>1. Len(consumer.missing) \in Nat
      BY <2>1, ConsumerFields
    <3>2. \A i \in 1 .. Len(consumer.missing) - 1 :
             i \in 1 .. Len(consumer.missing) /\ i + 1 \in 1 .. Len(consumer.missing) /\ i < i + 1
      BY <3>1
    <3> QED BY <2>1, <3>2 DEF GapsOK
  <2>7. \A run \in Runs : run.from < run.end /\ \E gap \in Gaps : run.end < gap.end
    <3>1. ASSUME NEW i \in 1 .. Len(consumer.runs)
          PROVE  /\ consumer.runs[i].from < consumer.runs[i].end
                 /\ \E gap \in Gaps : consumer.runs[i].end < gap.end
      <4>1. consumer.runs # <<>>
        BY <2>1, ConsumerFields, EmptySeq
      <4>2. /\ consumer.runs[i].from < consumer.runs[i].end
            /\ consumer.runs[i].end < consumer.missing[Len(consumer.missing)].end
            /\ consumer.missing # <<>>
        BY <2>1, <4>1 DEF RunsOK
      <4>3. consumer.missing[Len(consumer.missing)] \in Gaps
        BY <2>1, <4>2, ConsumerFields, EmptySeq DEF Gaps
      <4> QED BY <4>2, <4>3
    <3>2. DOMAIN consumer.runs = 1 .. Len(consumer.runs)
      BY <2>1, ConsumerFields
    <3> QED BY <3>1, <3>2 DEF Runs
  <2>8. consumer.replay # NoReplay => consumer.request # NoRequest
    BY <2>1 DEF RequestOK
  <2>9. up \in [Sides -> BOOLEAN] /\ transports \in 0 .. MaxTransports
    BY DEF FlowInv, FlowTypeOK
  <2> QED BY <2>2, <2>3, <2>4, <2>5, <2>6, <2>7, <2>8, <2>9 DEF TypeOK, Phases
<1> QED BY <1>1, FlowInvHolds, PTL

\* A message is delivered once at most, and under the number its sender gave
\* it, whatever is lost, cut short, repeated or widened on the way
\* (on_application, on_retransmission, allocate_outbound).
THEOREM DeliveredOnce == Spec => []ExactlyOnce
<1>1. FlowInv => ExactlyOnce
  BY DEF FlowInv, Session, BooksOK, ExactlyOnce
<1> QED BY <1>1, FlowInvHolds, PTL

\* A recorded gap names the same numbers in the session as in the property.
LEMMA MissingIsRecorded ==
    ASSUME FlowInv, NEW n \in Numbers
    PROVE  Missing(consumer, n) <=> Recorded(n)
<1>1. consumer \in Consumers /\ n \in Nat
  BY SidesHave, Constants
<1>2. \A i \in 1 .. Len(consumer.missing) :
         consumer.missing[i].from \in Nat /\ consumer.missing[i].end \in Nat
  BY <1>1, ConsumerFields
<1>3. DOMAIN consumer.missing = 1 .. Len(consumer.missing)
  BY <1>1, ConsumerFields
<1>4. \A i \in 1 .. Len(consumer.missing) :
         consumer.missing[i].from <= n /\ n < consumer.missing[i].end
         <=> n \in consumer.missing[i].from .. (consumer.missing[i].end - 1)
  BY <1>1, <1>2
<1> QED BY <1>3, <1>4 DEF Missing, Recorded, Within, Gaps

\* No number the consumer has passed is forgotten: it was delivered, reported
\* as abandoned, or is recorded as missing (on_gap, hold_refused_gap,
\* consume_missing, release_binding_state).
THEOREM NoneForgotten == Spec => []NothingForgotten
<1>1. FlowInv => NothingForgotten
  <2> SUFFICES ASSUME FlowInv, NEW n \in Numbers, origin # 0, n \in origin .. consumer.next - 1
               PROVE  Accounted(n) \/ Recorded(n)
    BY DEF NothingForgotten
  <2>1. origin <= n /\ n < consumer.next
    BY SidesHave
  <2>2. handed[n] # <<>> \/ n \in abandoned \/ Missing(consumer, n)
    BY <2>1 DEF FlowInv, Session, BooksOK
  <2> QED BY <2>2, MissingIsRecorded DEF Accounted
<1> QED BY <1>1, FlowInvHolds, PTL

\* A consumer that has answered FinishedSending has every message up to
\* LastSeqNo, or has reported it abandoned (maybe_finish_receiving).
THEOREM AnswerEarned == Spec => []AnswerIsEarned
<1>1. FlowInv => AnswerIsEarned
  <2> SUFFICES ASSUME FlowInv, consumer.finished.answered, NEW n \in Numbers,
                      n \in origin .. consumer.finished.end - 1
               PROVE  Accounted(n)
    BY DEF AnswerIsEarned
  <2>1. /\ StartOK(consumer, origin) /\ FinishOK(consumer) /\ BooksOK(consumer, handed, abandoned, origin)
        /\ consumer \in Consumers /\ origin \in Nat /\ consumer.next \in Nat
    BY SidesHave DEF Session
  <2>2. consumer.finished # NotFinished
    BY DEF NotFinished
  <2>3. consumer.finished.end = consumer.next /\ consumer.missing = <<>> /\ origin # 0
    BY <2>1, <2>2 DEF StartOK, FinishOK
  <2>4. origin <= n /\ n < consumer.next
    BY <2>1, <2>3
  <2>5. ~Missing(consumer, n)
    BY <2>3 DEF Missing
  <2> QED BY <2>1, <2>3, <2>4, <2>5 DEF BooksOK, Accounted
<1> QED BY <1>1, FlowInvHolds, PTL

\* A message that was reported abandoned is not delivered afterwards
\* (on_retransmit_reject, abandon_request).
THEOREM AbandonedStays == Spec => AbandonedIsFinal
<1>1. FlowInv /\ [Next]_vars => [\A n \in abandoned : handed'[n] = handed[n]]_vars
  BY FlowInvNext DEF Keeps
<1> QED BY <1>1, FlowInvHolds, PTL DEF Spec, AbandonedIsFinal
=============================================================================
