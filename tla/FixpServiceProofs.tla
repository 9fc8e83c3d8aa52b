------------------------- MODULE FixpServiceProofs -------------------------
(***************************************************************************)
(* Retransmission requests of a Recoverable flow are served one at a time,  *)
(* for every value of the constants: the consumer asks again only when the  *)
(* provider has nothing left to say of the request before.                  *)
(***************************************************************************)
EXTENDS FixpFlowProofs

-----------------------------------------------------------------------------
(* The request, the service and the answers on the way                      *)

Answer == {"Retransmission", "RetransmitReject"}
Rest(u) == \A i \in 1 .. Len(u) : u[i].kind \notin Answer
RestFrom(u, i) == \A j \in i .. Len(u) : u[j].kind \notin Answer
Unasked(w) == Without(w, "RetransmitRequest")
Idle(p, w) == p.serving = NoService /\ Unasked(w)

\* The provider serves one request, and none is on its way meanwhile.
OneAsked(p, w) ==
    /\ p.phase # "established" => p.serving = NoService
    /\ Lone(w, "RetransmitRequest")
    /\ p.serving # NoService => Unasked(w)

\* A batch is written whole, or is the last thing said of its request; so is
\* a refusal.
Full(u, i, count) == i + count - 1 <= Len(u) /\ Applications(u, i, i + count - 1)
Answered(p, u, w) ==
    /\ ~Rest(u) => Unasked(w)
    /\ \A i \in 1 .. Len(u) : u[i].kind = "RetransmitReject" =>
          p.serving = NoService /\ RestFrom(u, i + 1)
    /\ \A i \in 1 .. Len(u) : u[i].kind = "Retransmission" =>
          Full(u, i + 1, u[i].count) \/ (p.serving = NoService /\ RestFrom(u, i + 1))

\* Where the batch the consumer is in ends, and where its request does.
At(s) == s.request.from + s.request.delivered + s.replay.left
End(s) == s.request.from + s.request.count

\* A request that has not arrived is as it was sent, and nothing answers it.
UnderWay(s, u, w) ==
    ~Unasked(w) =>
        /\ Rest(u) /\ s.replay = NoReplay /\ s.request.delivered = 0 /\ ~s.request.interrupted
        /\ \A i \in 1 .. Len(w) : w[i].kind = "RetransmitRequest" =>
              w[i] = RequestMsg(s.request.stamp, s.request.from, s.request.count)

\* One that is being served was announced as far as the batches on the way go.
InService(s, p, u) ==
    p.serving # NoService =>
        /\ p.serving.stamp = s.request.stamp /\ p.serving.from = s.request.from
        /\ p.serving.count = s.request.count /\ p.serving.sent < p.serving.count
        /\ ~s.request.interrupted
        /\ At(s) <= s.request.from + p.serving.sent
        /\ \A i \in 1 .. Len(u) : u[i].kind = "Retransmission" =>
              u[i].next + u[i].count <= s.request.from + p.serving.sent
        /\ \/ s.request.from + p.serving.sent = At(s)
           \/ \E i \in 1 .. Len(u) : u[i].kind = "Retransmission"
                  /\ s.request.from + p.serving.sent = u[i].next + u[i].count

\* A batch that is cut short ends the service.
CutShort(s, p, u, w) ==
    /\ s.request.interrupted => Idle(p, w) /\ Rest(u)
    /\ s.replay # NoReplay => Full(u, 1, s.replay.left) \/ (p.serving = NoService /\ Rest(u))

\* The answers are to this request, the batches follow each other within it,
\* and only what is not announced is refused.
Chained(s, u) ==
    /\ \A i \in 1 .. Len(u) : u[i].kind \in Answer => u[i].stamp = s.request.stamp
    /\ \A i \in 1 .. Len(u) : u[i].kind = "Retransmission" =>
          /\ 1 <= u[i].count /\ At(s) <= u[i].next /\ u[i].next + u[i].count <= End(s)
          /\ \/ u[i].next = At(s)
             \/ \E j \in 1 .. Len(u) : j < i /\ u[j].kind = "Retransmission"
                                       /\ u[i].next = u[j].next + u[j].count
    /\ \A i, j \in 1 .. Len(u) :
          i < j /\ u[i].kind = "Retransmission" /\ u[j].kind = "Retransmission" =>
              u[i].next + u[i].count <= u[j].next
    /\ ~Without(u, "RetransmitReject") =>
          /\ At(s) < End(s)
          /\ \A i \in 1 .. Len(u) : u[i].kind = "Retransmission" => u[i].next + u[i].count < End(s)

Pending(s, p, u, w) ==
    /\ 1 <= s.request.count /\ UnderWay(s, u, w) /\ InService(s, p, u)
    /\ CutShort(s, p, u, w) /\ Chained(s, u)

\* `on' tells whether the consumer may still ask on this transport.
Served(s, p, u, w, on) ==
    /\ OneAsked(p, w) /\ Answered(p, u, w)
    /\ s.request # NoRequest => Pending(s, p, u, w)
    /\ on /\ s.request = NoRequest => Idle(p, w) /\ Rest(u)

Asking(s, holds) == holds /\ s.phase \notin {"closing", "finalized", "closed"}
ServiceInv ==
    Served(consumer, provider, chan["consumer"], chan["provider"], Asking(consumer, up["consumer"]))

-----------------------------------------------------------------------------
(* What happens to the lines                                                *)

\* The first message of a line goes.
LEMMA TailIs ==
    ASSUME NEW u \in Seq(Message), u # <<>>
    PROVE  /\ Len(u) \in Nat /\ Len(Tail(u)) \in Nat /\ Len(u) = Len(Tail(u)) + 1
           /\ Tail(u) \in Seq(Message) /\ Head(u) = u[1] /\ 1 \in 1 .. Len(u) /\ u[1] \in Message
           /\ \A i \in 1 .. Len(Tail(u)) : Tail(u)[i] = u[i + 1] /\ i + 1 \in 1 .. Len(u)
           /\ \A i \in 1 .. Len(u) : i = 1 \/ (i - 1 \in 1 .. Len(Tail(u)) /\ Tail(u)[i - 1] = u[i])
<1>1. /\ Len(u) \in Nat /\ Len(Tail(u)) \in Nat /\ Len(u) = Len(Tail(u)) + 1 /\ Head(u) = u[1]
      /\ Tail(u) \in Seq(Message) /\ 1 \in 1 .. Len(u)
      /\ \A i \in 1 .. Len(Tail(u)) : Tail(u)[i] = u[i + 1]
  BY HeadTailProperties, LenProperties, EmptySeq
<1>2. \A i \in 1 .. Len(u) : i = 1 \/ i - 1 \in 1 .. Len(Tail(u))
  BY <1>1
<1>3. u[1] \in Message
  BY <1>1, ElementOfSeq
<1>4. \A i \in 1 .. Len(u) : i - 1 \in 1 .. Len(Tail(u)) => Tail(u)[i - 1] = u[i]
  <2> SUFFICES ASSUME NEW i \in 1 .. Len(u), i - 1 \in 1 .. Len(Tail(u)) PROVE Tail(u)[i - 1] = u[i]
    OBVIOUS
  <2>1. (i - 1) + 1 = i
    OBVIOUS
  <2> QED BY <1>1, <2>1
<1> QED BY <1>1, <1>2, <1>3, <1>4

\* Messages are sent behind a line.
LEMMA BehindIs ==
    ASSUME NEW u \in Seq(Message), NEW v \in Seq(Message)
    PROVE  /\ Len(u) \in Nat /\ Len(v) \in Nat /\ Len(u \o v) = Len(u) + Len(v)
           /\ u \o v \in Seq(Message)
           /\ \A i \in 1 .. Len(u) : (u \o v)[i] = u[i] /\ i \in 1 .. Len(u \o v)
           /\ \A i \in 1 .. Len(v) : (u \o v)[Len(u) + i] = v[i] /\ Len(u) + i \in 1 .. Len(u \o v)
           /\ \A i \in 1 .. Len(u \o v) :
                 \/ i \in 1 .. Len(u) /\ (u \o v)[i] = u[i]
                 \/ i > Len(u) /\ i - Len(u) \in 1 .. Len(v) /\ (u \o v)[i] = v[i - Len(u)]
<1>1. Len(u) \in Nat /\ Len(v) \in Nat /\ Len(u \o v) = Len(u) + Len(v) /\ u \o v \in Seq(Message)
  BY ConcatProperties, LenProperties
<1>2. \A i \in 1 .. Len(u) + Len(v) : (u \o v)[i] = IF i <= Len(u) THEN u[i] ELSE v[i - Len(u)]
  BY <1>1, ConcatProperties
<1>3. \A i \in 1 .. Len(v) : /\ Len(u) + i \in 1 .. Len(u) + Len(v) /\ ~(Len(u) + i <= Len(u))
                             /\ (Len(u) + i) - Len(u) = i
  BY <1>1
<1>4. \A i \in 1 .. Len(u) : i \in 1 .. Len(u) + Len(v) /\ i <= Len(u)
  BY <1>1
<1>5. \A i \in 1 .. Len(u) + Len(v) : i \in 1 .. Len(u) \/ (i > Len(u) /\ i - Len(u) \in 1 .. Len(v))
  BY <1>1
<1>6. \A i \in 1 .. Len(v) : (u \o v)[Len(u) + i] = v[i]
  BY <1>2, <1>3
<1>7. \A i \in 1 .. Len(u) + Len(v) : i > Len(u) => (u \o v)[i] = v[i - Len(u)]
  BY <1>1, <1>2
<1>8. \A i \in 1 .. Len(u) : (u \o v)[i] = u[i]
  BY <1>2, <1>4
<1> QED BY <1>1, <1>3, <1>4, <1>5, <1>6, <1>7, <1>8

\* What a line does not have, it has not without its first message.
LEMMA RestIs ==
    ASSUME NEW u \in Seq(Message)
    PROVE  /\ Rest(u) <=> RestFrom(u, 1)
           /\ u # <<>> => /\ Rest(u) => Rest(Tail(u))
                          /\ Rest(Tail(u)) <=> RestFrom(u, 2)
                          /\ \A i \in 1 .. Len(Tail(u)) : RestFrom(Tail(u), i + 1) <=> RestFrom(u, i + 2)
                          /\ Head(u).kind \notin Answer /\ Rest(Tail(u)) => Rest(u)
<1>1. Rest(u) <=> RestFrom(u, 1)
  BY DEF Rest, RestFrom
<1>2. ASSUME u # <<>>, NEW i \in Nat
      PROVE  RestFrom(Tail(u), i + 1) <=> RestFrom(u, i + 2)
  <2>1. ASSUME RestFrom(Tail(u), i + 1), NEW j \in i + 2 .. Len(u) PROVE u[j].kind \notin Answer
    <3>1. j - 1 \in i + 1 .. Len(Tail(u)) /\ j \in 1 .. Len(u) /\ j # 1
      BY <1>2, TailIs
    <3> QED BY <1>2, <2>1, <3>1, TailIs DEF RestFrom
  <2>2. ASSUME RestFrom(u, i + 2), NEW j \in i + 1 .. Len(Tail(u)) PROVE Tail(u)[j].kind \notin Answer
    <3>1. j + 1 \in i + 2 .. Len(u) /\ j \in 1 .. Len(Tail(u))
      BY <1>2, TailIs
    <3> QED BY <1>2, <2>2, <3>1, TailIs DEF RestFrom
  <2> QED BY <2>1, <2>2 DEF RestFrom
<1>3. ASSUME u # <<>>
      PROVE  /\ \A j \in 1 .. Len(Tail(u)) : j \in Nat
             /\ RestFrom(Tail(u), 1) <=> RestFrom(u, 2)
             /\ RestFrom(u, 1) => RestFrom(u, 2)
             /\ Head(u).kind \notin Answer /\ RestFrom(u, 2) => RestFrom(u, 1)
  <2>1. RestFrom(Tail(u), 1) <=> RestFrom(u, 2)
    BY <1>2, <1>3
  <2>2. Head(u) = u[1] /\ Len(u) \in Nat
    BY <1>3, TailIs
  <2> QED BY <2>1, <2>2 DEF RestFrom
<1>4. u # <<>> => (Rest(Tail(u)) <=> RestFrom(Tail(u), 1))
  BY TailIs DEF Rest, RestFrom
<1> QED BY <1>1, <1>2, <1>3, <1>4

\* What is sent behind a line, and a batch of it.
LEMMA RestBehind ==
    ASSUME NEW u \in Seq(Message), NEW v \in Seq(Message)
    PROVE  /\ Rest(u \o v) <=> Rest(u) /\ Rest(v)
           /\ Rest(v) => \A i \in 1 .. Len(u) : RestFrom(u, i + 1) => RestFrom(u \o v, i + 1)
<1>1. /\ Rest(u) /\ Rest(v) => Rest(u \o v)
      /\ Rest(u \o v) => Rest(u)
  BY BehindIs DEF Rest
<1>2. Rest(u \o v) => Rest(v)
  <2> SUFFICES ASSUME Rest(u \o v), NEW i \in 1 .. Len(v) PROVE v[i].kind \notin Answer
    BY DEF Rest
  <2>1. (u \o v)[Len(u) + i] = v[i] /\ Len(u) + i \in 1 .. Len(u \o v)
    BY BehindIs
  <2> QED BY <2>1 DEF Rest
<1>3. ASSUME Rest(v), NEW i \in 1 .. Len(u), RestFrom(u, i + 1), NEW j \in i + 1 .. Len(u \o v)
      PROVE  (u \o v)[j].kind \notin Answer
  <2>1. j \in 1 .. Len(u \o v) /\ (j \in 1 .. Len(u) => j \in i + 1 .. Len(u))
    BY BehindIs
  <2> QED BY <1>3, <2>1, BehindIs DEF Rest, RestFrom
<1> QED BY <1>1, <1>2, <1>3 DEF RestFrom

\* A batch that is written whole stays so behind, before and within what is on
\* the line (retransmit).
LEMMA FullIs ==
    ASSUME NEW u \in Seq(Message), NEW i \in Nat \ {0}, NEW count \in Nat
    PROVE  /\ \A v \in Seq(Message) : Full(u, i, count) => Full(u \o v, i, count)
           /\ u # <<>> /\ i > 1 => (Full(u, i, count) => Full(Tail(u), i - 1, count))
           /\ u # <<>> /\ i = 1 /\ count > 0 =>
                 (Full(u, 1, count) => Head(u).kind = "Application" /\ Full(Tail(u), 1, count - 1))
           /\ \A v \in Seq(Message) : Full(v, i, count) => Full(u \o v, Len(u) + i, count)
<1>1. ASSUME NEW v \in Seq(Message), Full(u, i, count) PROVE Full(u \o v, i, count)
  <2>1. Len(u) \in Nat /\ Len(v) \in Nat /\ Len(u \o v) = Len(u) + Len(v)
    BY BehindIs
  <2>2. \A k \in i .. i + count - 1 : k \in 1 .. Len(u)
    BY <1>1, <2>1 DEF Full
  <2>3. \A k \in i .. i + count - 1 : (u \o v)[k] = u[k]
    BY <2>2, BehindIs
  <2> QED BY <1>1, <2>1, <2>3 DEF Full, Applications
<1>2. ASSUME u # <<>>, i > 1, Full(u, i, count) PROVE Full(Tail(u), i - 1, count)
  <2>1. Len(u) \in Nat /\ Len(Tail(u)) \in Nat /\ Len(u) = Len(Tail(u)) + 1
    BY <1>2, TailIs
  <2>2. \A k \in i - 1 .. (i - 1) + count - 1 : k \in 1 .. Len(Tail(u)) /\ k + 1 \in i .. i + count - 1
    BY <1>2, <2>1 DEF Full
  <2>3. \A k \in i - 1 .. (i - 1) + count - 1 : Tail(u)[k] = u[k + 1]
    BY <1>2, <2>2, TailIs
  <2>4. (i - 1) + count - 1 <= Len(Tail(u))
    BY <1>2, <2>1 DEF Full
  <2> QED BY <1>2, <2>2, <2>3, <2>4 DEF Full, Applications
<1>3. ASSUME u # <<>>, count > 0, Full(u, 1, count)
      PROVE  Head(u).kind = "Application" /\ Full(Tail(u), 1, count - 1)
  <2>1. Len(u) \in Nat /\ Len(Tail(u)) \in Nat /\ Len(u) = Len(Tail(u)) + 1 /\ Head(u) = u[1]
    BY <1>3, TailIs
  <2>2. \A k \in 1 .. 1 + (count - 1) - 1 : k \in 1 .. Len(Tail(u)) /\ k + 1 \in 1 .. 1 + count - 1
    BY <1>3, <2>1 DEF Full
  <2>3. \A k \in 1 .. 1 + (count - 1) - 1 : Tail(u)[k] = u[k + 1]
    BY <1>3, <2>2, TailIs
  <2>4. 1 + (count - 1) - 1 <= Len(Tail(u)) /\ 1 \in 1 .. 1 + count - 1
    BY <1>3, <2>1 DEF Full
  <2> QED BY <1>3, <2>1, <2>2, <2>3, <2>4 DEF Full, Applications
<1>4. ASSUME NEW v \in Seq(Message), Full(v, i, count) PROVE Full(u \o v, Len(u) + i, count)
  <2>1. Len(u) \in Nat /\ Len(v) \in Nat /\ Len(u \o v) = Len(u) + Len(v)
    BY BehindIs
  <2>2. \A k \in Len(u) + i .. Len(u) + i + count - 1 :
           k - Len(u) \in 1 .. Len(v) /\ k - Len(u) \in i .. i + count - 1 /\ Len(u) + (k - Len(u)) = k
    BY <1>4, <2>1 DEF Full
  <2>3. \A k \in Len(u) + i .. Len(u) + i + count - 1 : (u \o v)[k] = v[k - Len(u)]
    BY <2>1, <2>2, BehindIs
  <2>4. Len(u) + i + count - 1 <= Len(u \o v)
    BY <1>4, <2>1 DEF Full
  <2> QED BY <1>4, <2>2, <2>3, <2>4 DEF Full, Applications
<1> QED BY <1>1, <1>2, <1>3, <1>4

-----------------------------------------------------------------------------
(* The steps of the provider                                                *)

\* What the numbers of a consumer are.
LEMMA Places ==
    ASSUME NEW s \in Consumers
    PROVE  /\ At(s) \in Nat /\ End(s) \in Nat /\ s.request.from \in Nat /\ s.request.count \in Nat
           /\ s.request.delivered \in Nat /\ s.replay.left \in Nat /\ s.replay.next \in Nat
           /\ At(s) = s.request.from + s.request.delivered + s.replay.left
           /\ s.request \in Requests /\ s.replay \in [next : Nat, left : Nat]
<1>1. /\ s.request.from \in Nat /\ s.request.count \in Nat
      /\ s.request.delivered \in Nat /\ s.replay.left \in Nat /\ s.replay.next \in Nat
      /\ s.request \in Requests /\ s.replay \in [next : Nat, left : Nat]
  BY ConsumerFields
<1> QED BY <1>1 DEF At, End

\* What is sent behind the line answers nothing, and the service goes on, or
\* ends, and a request may be read.
LEMMA ProviderSays ==
    ASSUME NEW s \in Consumers, NEW p, NEW q, NEW u \in Seq(Message), NEW w \in Seq(Message), NEW on,
           Served(s, p, u, w, on),
           q.serving = NoService \/ (q.serving = p.serving /\ q.phase = "established"),
           NEW v \in Seq(Message), Rest(v),
           NEW left, left = w \/ (w # <<>> /\ left = Tail(w)) \/ left = <<>>
    PROVE  Served(s, q, u \o v, left, on)
<1>1. /\ Lone(left, "RetransmitRequest") /\ (Unasked(w) => Unasked(left))
      /\ \A i \in 1 .. Len(left) : left[i].kind = "RetransmitRequest" =>
            \E j \in 1 .. Len(w) : left[i] = w[j] /\ w[j].kind = "RetransmitRequest"
  <2>1. CASE left = w
    BY <2>1 DEF Served, OneAsked
  <2>2. CASE w # <<>> /\ left = Tail(w)
    BY <2>2, KindsLeft, TailIs DEF Served, OneAsked, Unasked
  <2>3. CASE left = <<>>
    BY <2>3, EmptySeq DEF Lone, Unasked, Without
  <2> QED BY <2>1, <2>2, <2>3
<1>2. q.serving # NoService => q.serving = p.serving /\ p.serving # NoService
  OBVIOUS
<1>3. OneAsked(q, left)
  BY <1>1, <1>2 DEF Served, OneAsked
<1>4. Idle(p, w) => Idle(q, left)
  BY <1>1, <1>2 DEF Idle
<1>5. Rest(u) <=> Rest(u \o v)
  BY RestBehind
<1>6. \A i \in 1 .. Len(u \o v) : (u \o v)[i].kind \in Answer => i \in 1 .. Len(u) /\ (u \o v)[i] = u[i]
  BY BehindIs DEF Rest
<1>7. \A i \in 1 .. Len(u) : (u \o v)[i] = u[i] /\ i \in 1 .. Len(u \o v) /\ i \in Nat /\ u[i] \in Message
  BY BehindIs, ElementOfSeq
<1>8. {"Retransmission", "RetransmitReject"} = Answer
  BY DEF Answer
<1>9. Answered(q, u \o v, left)
  <2>1. ~Rest(u \o v) => Unasked(left)
    BY <1>1, <1>5 DEF Served, Answered
  <2>2. ASSUME NEW i \in 1 .. Len(u \o v), (u \o v)[i].kind = "RetransmitReject"
        PROVE  q.serving = NoService /\ RestFrom(u \o v, i + 1)
    <3>1. i \in 1 .. Len(u) /\ u[i].kind = "RetransmitReject"
      BY <1>6, <1>8, <2>2
    <3>2. p.serving = NoService /\ RestFrom(u, i + 1)
      BY <3>1 DEF Served, Answered
    <3> QED BY <1>2, <3>1, <3>2, RestBehind
  <2>3. ASSUME NEW i \in 1 .. Len(u \o v), (u \o v)[i].kind = "Retransmission"
        PROVE  Full(u \o v, i + 1, (u \o v)[i].count) \/ (q.serving = NoService /\ RestFrom(u \o v, i + 1))
    <3>1. i \in 1 .. Len(u) /\ u[i].kind = "Retransmission" /\ (u \o v)[i] = u[i]
      BY <1>6, <1>8, <2>3
    <3>2. u[i].count \in Nat /\ i + 1 \in Nat \ {0}
      BY <1>7, <3>1, Fields
    <3>3. CASE Full(u, i + 1, u[i].count)
      BY <3>1, <3>2, <3>3, FullIs
    <3>4. CASE p.serving = NoService /\ RestFrom(u, i + 1)
      BY <1>2, <3>1, <3>4, RestBehind
    <3> QED BY <3>1, <3>3, <3>4 DEF Served, Answered
  <2> QED BY <2>1, <2>2, <2>3 DEF Answered
<1>10. ASSUME s.request # NoRequest PROVE Pending(s, q, u \o v, left)
  <2>1. Pending(s, p, u, w)
    BY <1>10 DEF Served
  <2>2. UnderWay(s, u \o v, left)
    <3> SUFFICES ASSUME ~Unasked(left) PROVE UnderWay(s, u \o v, left)
      BY DEF UnderWay
    <3>1. ~Unasked(w)
      BY <1>1
    <3> QED BY <1>1, <1>5, <2>1, <3>1 DEF UnderWay, Pending
  <2>3. InService(s, q, u \o v)
    <3> SUFFICES ASSUME q.serving # NoService, q.serving = p.serving PROVE InService(s, q, u \o v)
      BY <1>2 DEF InService
    <3>1. \A i \in 1 .. Len(u \o v) : (u \o v)[i].kind = "Retransmission" =>
             (u \o v)[i].next + (u \o v)[i].count <= s.request.from + p.serving.sent
      BY <1>6, <1>8, <2>1 DEF InService, Pending
    <3>2. \/ s.request.from + p.serving.sent = At(s)
          \/ \E i \in 1 .. Len(u \o v) : (u \o v)[i].kind = "Retransmission"
                 /\ s.request.from + p.serving.sent = (u \o v)[i].next + (u \o v)[i].count
      <4>1. CASE s.request.from + p.serving.sent = At(s)
        BY <4>1
      <4>2. CASE \E i \in 1 .. Len(u) : u[i].kind = "Retransmission"
                     /\ s.request.from + p.serving.sent = u[i].next + u[i].count
        BY <1>7, <4>2
      <4> QED BY <2>1, <4>1, <4>2 DEF InService, Pending
    <3> QED BY <2>1, <3>1, <3>2 DEF InService, Pending
  <2>4. CutShort(s, q, u \o v, left)
    <3>1. s.request.interrupted => Idle(q, left) /\ Rest(u \o v)
      BY <1>4, <1>5, <2>1 DEF Pending, CutShort
    <3>2. ASSUME s.replay # NoReplay
          PROVE  Full(u \o v, 1, s.replay.left) \/ (q.serving = NoService /\ Rest(u \o v))
      <4>1. CASE Full(u, 1, s.replay.left)
        BY <4>1, Places, FullIs
      <4>2. CASE p.serving = NoService /\ Rest(u)
        BY <1>2, <1>5, <4>2
      <4> QED BY <2>1, <3>2, <4>1, <4>2 DEF Pending, CutShort
    <3> QED BY <3>1, <3>2 DEF CutShort
  <2>5. Chained(s, u \o v)
    <3>1. \A i \in 1 .. Len(u \o v) : (u \o v)[i].kind \in Answer => (u \o v)[i].stamp = s.request.stamp
      BY <1>6, <2>1 DEF Pending, Chained
    <3>2. ASSUME NEW i \in 1 .. Len(u \o v), (u \o v)[i].kind = "Retransmission"
          PROVE  /\ 1 <= (u \o v)[i].count /\ At(s) <= (u \o v)[i].next
                 /\ (u \o v)[i].next + (u \o v)[i].count <= End(s)
                 /\ \/ (u \o v)[i].next = At(s)
                    \/ \E j \in 1 .. Len(u \o v) : j < i /\ (u \o v)[j].kind = "Retransmission"
                           /\ (u \o v)[i].next = (u \o v)[j].next + (u \o v)[j].count
      <4>1. i \in 1 .. Len(u) /\ (u \o v)[i] = u[i]
        BY <1>6, <1>8, <3>2
      <4>2. /\ 1 <= u[i].count /\ At(s) <= u[i].next /\ u[i].next + u[i].count <= End(s)
            /\ \/ u[i].next = At(s)
               \/ \E j \in 1 .. Len(u) : j < i /\ u[j].kind = "Retransmission"
                                         /\ u[i].next = u[j].next + u[j].count
        BY <2>1, <3>2, <4>1 DEF Pending, Chained
      <4> QED BY <1>7, <4>1, <4>2
    <3>3. \A i, j \in 1 .. Len(u \o v) :
             i < j /\ (u \o v)[i].kind = "Retransmission" /\ (u \o v)[j].kind = "Retransmission" =>
                 (u \o v)[i].next + (u \o v)[i].count <= (u \o v)[j].next
      BY <1>6, <1>8, <2>1 DEF Pending, Chained
    <3>4. ~Without(u \o v, "RetransmitReject") => ~Without(u, "RetransmitReject")
      BY <1>6, <1>8 DEF Without
    <3>5. ~Without(u, "RetransmitReject") =>
             /\ At(s) < End(s)
             /\ \A i \in 1 .. Len(u \o v) : (u \o v)[i].kind = "Retransmission" =>
                   (u \o v)[i].next + (u \o v)[i].count < End(s)
      BY <1>6, <1>8, <2>1 DEF Pending, Chained
    <3> QED BY <3>1, <3>2, <3>3, <3>4, <3>5 DEF Chained
  <2> QED BY <2>1, <2>2, <2>3, <2>4, <2>5 DEF Pending
<1>11. on /\ s.request = NoRequest => Idle(q, left) /\ Rest(u \o v)
  BY <1>4, <1>5 DEF Served
<1> QED BY <1>3, <1>9, <1>10, <1>11 DEF Served

\* A batch is announced where the last one ended; it is written whole, or the
\* service ends with it.
LEMMA ProviderBatches ==
    ASSUME NEW s \in Consumers, NEW p \in Providers, NEW q, NEW u \in Seq(Message),
           NEW w \in Seq(Message), NEW on, Served(s, p, u, w, on),
           p.serving # NoService, q.phase = "established",
           NEW count \in Nat \ {0}, count <= p.serving.count - p.serving.sent,
           \/ q.serving = NoService
           \/ /\ p.serving.sent + count < p.serving.count
              /\ q.serving = [p.serving EXCEPT !.sent = p.serving.sent + count],
           NEW v \in Seq(Message), v # <<>>,
           v[1] = Retransmission(p.serving.stamp, p.serving.from + p.serving.sent, count),
           \A i \in 2 .. Len(v) : v[i].kind \notin Answer,
           q.serving = NoService \/ Full(v, 2, count), Full(v, 2, count) \/ q.serving = NoService
    PROVE  Served(s, q, u \o v, w, on)
<1> DEFINE sent == p.serving.from + p.serving.sent
           x == u \o v
           k == Len(u) + 1
<1>1. /\ p.serving.from \in Nat /\ p.serving.sent \in Nat /\ p.serving.count \in Nat
      /\ p.serving.stamp \in Nat /\ p.serving \in Services
  BY DEF Providers, Services
<1>2. /\ v[1].kind = "Retransmission" /\ v[1].next = sent /\ v[1].count = count
      /\ v[1].stamp = p.serving.stamp /\ Len(v) \in Nat \ {0} /\ 1 \in 1 .. Len(v)
  BY EmptySeq, LenProperties DEF Retransmission
<1>3. {"Retransmission", "RetransmitReject"} = Answer
  BY DEF Answer
<1>4. k \in 1 .. Len(x) /\ x[k] = v[1] /\ Len(u) \in Nat /\ k \in Nat \ {0} /\ Len(x) \in Nat
  BY <1>2, BehindIs
<1>5. \A i \in 1 .. Len(x) : x[i].kind \in Answer => i = k \/ (i \in 1 .. Len(u) /\ x[i] = u[i])
  <2> SUFFICES ASSUME NEW i \in 1 .. Len(x), x[i].kind \in Answer, i \notin 1 .. Len(u)
               PROVE  i = k
    BY BehindIs
  <2>1. i > Len(u) /\ i - Len(u) \in 1 .. Len(v) /\ x[i] = v[i - Len(u)]
    BY BehindIs
  <2>2. i - Len(u) \notin 2 .. Len(v)
    BY <2>1
  <2> QED BY <1>4, <2>1, <2>2
<1>6. \A i \in 1 .. Len(u) : x[i] = u[i] /\ i \in 1 .. Len(x) /\ i # k /\ i < k /\ u[i] \in Message
  BY <1>4, BehindIs, ElementOfSeq
<1>7. Unasked(w) /\ OneAsked(q, w)
  BY DEF Served, OneAsked
<1>8. \A i \in 1 .. Len(u) : u[i].kind # "RetransmitReject"
  BY DEF Served, Answered
<1>9. \A i \in 1 .. Len(u) : u[i].kind = "Retransmission" => Full(u, i + 1, u[i].count)
  BY DEF Served, Answered
<1>10. \A i \in 1 .. Len(x) : x[i].kind # "RetransmitReject"
  BY <1>2, <1>3, <1>4, <1>5, <1>8
<1>11. Answered(q, x, w)
  <2>1. ASSUME NEW i \in 1 .. Len(x), x[i].kind = "Retransmission"
        PROVE  Full(x, i + 1, x[i].count) \/ (q.serving = NoService /\ RestFrom(x, i + 1))
    <3>1. CASE i \in 1 .. Len(u) /\ x[i] = u[i]
      <4>1. u[i].count \in Nat /\ i + 1 \in Nat \ {0}
        BY <1>6, <2>1, <3>1, Fields
      <4> QED BY <1>9, <2>1, <3>1, <4>1, FullIs
    <3>2. CASE i = k
      <4>1. CASE Full(v, 2, count)
        <5>1. Full(x, Len(u) + 2, count) /\ Len(u) + 2 = k + 1
          <6>1. 2 \in Nat \ {0} /\ Len(u) + 2 = k + 1
            BY <1>4
          <6>2. Full(v, 2, count) => Full(u \o v, Len(u) + 2, count)
            BY <6>1, FullIs
          <6> QED BY <4>1, <6>1, <6>2
        <5> QED BY <1>2, <1>4, <3>2, <5>1
      <4>2. CASE q.serving = NoService
        <5>1. \A j \in k + 1 .. Len(x) : j \in 1 .. Len(x) /\ j # k /\ j \notin 1 .. Len(u)
          BY <1>4
        <5> QED BY <1>5, <3>2, <4>2, <5>1 DEF RestFrom
      <4> QED BY <4>1, <4>2
    <3> QED BY <1>3, <1>5, <2>1, <3>1, <3>2
  <2> QED BY <1>7, <1>10, <2>1 DEF Answered
<1>12. ASSUME s.request # NoRequest PROVE Pending(s, q, x, w)
  <2>1. /\ Pending(s, p, u, w) /\ At(s) \in Nat /\ End(s) \in Nat
        /\ s.request.from \in Nat /\ s.request.count \in Nat /\ s.replay.left \in Nat
        /\ End(s) = s.request.from + s.request.count
    BY <1>12, Places DEF Served, End
  <2>2. /\ p.serving.stamp = s.request.stamp /\ p.serving.from = s.request.from
        /\ p.serving.count = s.request.count /\ ~s.request.interrupted
        /\ At(s) <= sent
        /\ \A i \in 1 .. Len(u) : u[i].kind = "Retransmission" => u[i].next + u[i].count <= sent
        /\ \/ sent = At(s)
           \/ \E i \in 1 .. Len(u) : u[i].kind = "Retransmission" /\ sent = u[i].next + u[i].count
    BY <2>1 DEF Pending, InService
  <2>3. sent \in Nat /\ sent + count <= End(s) /\ sent + count \in Nat
    <3>1. End(s) = p.serving.from + p.serving.count
      BY <2>1, <2>2
    <3>2. \A a, b, c \in Nat : count <= b - c => a + c \in Nat /\ a + c + count <= a + b
      OBVIOUS
    <3>3. p.serving.from \in Nat /\ p.serving.sent \in Nat /\ p.serving.count \in Nat
      BY <1>1
    <3>4. count <= p.serving.count - p.serving.sent
      OBVIOUS
    <3>5. /\ p.serving.from + p.serving.sent \in Nat
          /\ (p.serving.from + p.serving.sent) + count <= End(s)
      BY ONLY <3>1, <3>2, <3>3, <3>4
    <3>6. (p.serving.from + p.serving.sent) + count \in Nat
      BY <3>5
    <3> QED BY <3>5, <3>6
  <2>4. \A i \in 1 .. Len(u) : u[i].kind = "Retransmission" => u[i].next \in Nat /\ u[i].count \in Nat
    BY <1>6, Fields
  <2>5. UnderWay(s, x, w)
    BY <1>7 DEF UnderWay
  <2>6. InService(s, q, x)
    <3> SUFFICES ASSUME q.serving # NoService PROVE InService(s, q, x)
      BY DEF InService
    <3>1. /\ p.serving.sent + count < p.serving.count
          /\ q.serving = [p.serving EXCEPT !.sent = p.serving.sent + count]
      OBVIOUS
    <3>2. /\ q.serving.stamp = p.serving.stamp /\ q.serving.from = p.serving.from
          /\ q.serving.count = p.serving.count /\ q.serving.sent = p.serving.sent + count
      BY <1>1, <3>1 DEF Services
    <3>3. s.request.from + q.serving.sent = sent + count
      BY <1>1, <2>1, <2>2, <3>2
    <3>4. \A i \in 1 .. Len(x) : x[i].kind = "Retransmission" => x[i].next + x[i].count <= sent + count
      <4> SUFFICES ASSUME NEW i \in 1 .. Len(x), x[i].kind = "Retransmission"
                   PROVE  x[i].next + x[i].count <= sent + count
        OBVIOUS
      <4>1. CASE i = k
        BY <1>2, <1>4, <2>3, <4>1
      <4>2. CASE i \in 1 .. Len(u) /\ x[i] = u[i]
        BY <2>2, <2>3, <2>4, <4>2
      <4> QED BY <1>3, <1>5, <4>1, <4>2
    <3>5. At(s) <= sent + count
      BY <2>1, <2>2, <2>3
    <3>6. \E i \in 1 .. Len(x) : x[i].kind = "Retransmission" /\ sent + count = x[i].next + x[i].count
      BY <1>2, <1>4
    <3> QED BY <2>2, <3>1, <3>2, <3>3, <3>4, <3>5, <3>6 DEF InService
  <2>7. CutShort(s, q, x, w)
    <3>1. s.replay # NoReplay => Full(u, 1, s.replay.left)
      BY <2>1 DEF Pending, CutShort
    <3>2. s.replay # NoReplay => Full(x, 1, s.replay.left)
      <4>1. 1 \in Nat \ {0} /\ s.replay.left \in Nat
        BY <2>1
      <4>2. Full(u, 1, s.replay.left) => Full(u \o v, 1, s.replay.left)
        BY <4>1, FullIs
      <4> QED BY <3>1, <4>2
    <3> QED BY <2>2, <3>2 DEF CutShort
  <2>8. Chained(s, x)
    <3>1. \A i \in 1 .. Len(x) : x[i].kind \in Answer => x[i].stamp = s.request.stamp
      BY <1>2, <1>4, <1>5, <2>1, <2>2 DEF Pending, Chained
    <3>2. ASSUME NEW i \in 1 .. Len(x), x[i].kind = "Retransmission"
          PROVE  /\ 1 <= x[i].count /\ At(s) <= x[i].next /\ x[i].next + x[i].count <= End(s)
                 /\ \/ x[i].next = At(s)
                    \/ \E j \in 1 .. Len(x) : j < i /\ x[j].kind = "Retransmission"
                                              /\ x[i].next = x[j].next + x[j].count
      <4>1. CASE i = k
        <5>1. x[i].next = sent /\ x[i].count = count
          BY <1>2, <1>4, <4>1
        <5>2. \/ sent = At(s)
              \/ \E j \in 1 .. Len(x) : j < i /\ x[j].kind = "Retransmission"
                                        /\ sent = x[j].next + x[j].count
          BY <1>6, <2>2, <4>1
        <5>3. 1 <= x[i].count /\ At(s) <= x[i].next /\ x[i].next + x[i].count <= End(s)
          BY <2>2, <2>3, <5>1
        <5> QED BY <5>1, <5>2, <5>3
      <4>2. CASE i \in 1 .. Len(u) /\ x[i] = u[i]
        <5>1. /\ 1 <= u[i].count /\ At(s) <= u[i].next /\ u[i].next + u[i].count <= End(s)
              /\ \/ u[i].next = At(s)
                 \/ \E j \in 1 .. Len(u) : j < i /\ u[j].kind = "Retransmission"
                                           /\ u[i].next = u[j].next + u[j].count
          BY <2>1, <3>2, <4>2 DEF Pending, Chained
        <5> QED BY <1>6, <4>2, <5>1
      <4> QED BY <1>3, <1>5, <3>2, <4>1, <4>2
    <3>3. ASSUME NEW i \in 1 .. Len(x), NEW j \in 1 .. Len(x), i < j,
                 x[i].kind = "Retransmission", x[j].kind = "Retransmission"
          PROVE  x[i].next + x[i].count <= x[j].next
      <4>1. CASE j = k
        <5>1. i \in 1 .. Len(u) /\ x[i] = u[i]
          BY <1>3, <1>5, <3>3, <4>1
        <5> QED BY <1>2, <1>4, <2>2, <3>3, <4>1, <5>1
      <4>2. CASE j \in 1 .. Len(u) /\ x[j] = u[j]
        <5>1. i \in 1 .. Len(u) /\ x[i] = u[i]
          BY <1>4, <1>6, <3>3, <4>2
        <5> QED BY <2>1, <3>3, <4>2, <5>1 DEF Pending, Chained
      <4> QED BY <1>3, <1>5, <3>3, <4>1, <4>2
    <3>4. Without(x, "RetransmitReject")
      BY <1>10 DEF Without
    <3> QED BY <3>1, <3>2, <3>3, <3>4 DEF Chained
  <2> QED BY <2>1, <2>5, <2>6, <2>7, <2>8 DEF Pending
<1>13. on => s.request # NoRequest
  BY DEF Served, Idle
<1> QED BY <1>7, <1>11, <1>12, <1>13 DEF Served

\* What is in service, or asked for, is refused.
LEMMA ProviderRefuses ==
    ASSUME NEW s \in Consumers, NEW p \in Providers, NEW q, NEW u \in Seq(Message),
           NEW w \in Seq(Message), NEW on, Served(s, p, u, w, on),
           q.serving = NoService, NEW stamp \in Nat, NEW left,
           \/ p.serving # NoService /\ stamp = p.serving.stamp /\ left = w
           \/ /\ w # <<>> /\ left = Tail(w) /\ Head(w).kind = "RetransmitRequest"
              /\ stamp = Head(w).stamp
    PROVE  Served(s, q, u \o <<RejectMsg(stamp)>>, left, on)
<1> DEFINE m == RejectMsg(stamp)
           x == u \o <<m>>
           k == Len(u) + 1
<1>1. m \in Message /\ m.kind = "RetransmitReject" /\ m.stamp = stamp
  BY DEF RejectMsg, Message
<1>2. /\ <<m>> \in Seq(Message) /\ Len(<<m>>) = 1 /\ <<m>>[1] = m
  BY <1>1
<1>3. {"Retransmission", "RetransmitReject"} = Answer
  BY DEF Answer
<1>4. /\ k \in 1 .. Len(x) /\ x[k] = m /\ Len(u) \in Nat /\ Len(x) = k
      /\ \A i \in 1 .. Len(u) : x[i] = u[i] /\ i \in 1 .. Len(x) /\ i # k /\ i < k /\ u[i] \in Message
      /\ \A i \in 1 .. Len(x) : i = k \/ (i \in 1 .. Len(u) /\ x[i] = u[i])
  <2>1. /\ Len(u) \in Nat /\ Len(x) = Len(u) + 1 /\ x[Len(u) + 1] = m
        /\ \A i \in 1 .. Len(u) : x[i] = u[i]
    BY <1>2, BehindIs
  <2> QED BY <2>1, ElementOfSeq
<1>5. Unasked(left) /\ (p.serving # NoService \/ ~Unasked(w))
  <2>1. CASE p.serving # NoService /\ left = w
    BY <2>1 DEF Served, OneAsked
  <2>2. CASE w # <<>> /\ left = Tail(w) /\ Head(w).kind = "RetransmitRequest"
    BY <2>2, KindsLeft, TailIs DEF Served, OneAsked, Unasked, Without
  <2> QED BY <2>1, <2>2
<1>6. OneAsked(q, left)
  BY <1>5, NoneIsLone DEF OneAsked, Unasked
<1>7. \A i \in 1 .. Len(u) : u[i].kind # "RetransmitReject"
  BY <1>3, <1>5 DEF Served, Answered, Rest
<1>8. \A i \in 1 .. Len(u) : u[i].kind = "Retransmission" => Full(u, i + 1, u[i].count)
  BY <1>3, <1>5 DEF Served, Answered, Rest
<1>9. Answered(q, x, left)
  <2>1. ASSUME NEW i \in 1 .. Len(x), x[i].kind = "RetransmitReject" PROVE RestFrom(x, i + 1)
    BY <1>4, <1>7, <2>1 DEF RestFrom
  <2>2. ASSUME NEW i \in 1 .. Len(x), x[i].kind = "Retransmission" PROVE Full(x, i + 1, x[i].count)
    <3>1. i \in 1 .. Len(u) /\ x[i] = u[i]
      BY <1>1, <1>4, <2>2
    <3>2. u[i].count \in Nat /\ i + 1 \in Nat \ {0}
      BY <1>4, <2>2, <3>1, Fields
    <3> QED BY <1>2, <1>8, <2>2, <3>1, <3>2, FullIs
  <2> QED BY <1>5, <2>1, <2>2 DEF Answered
<1>10. ASSUME s.request # NoRequest PROVE Pending(s, q, x, left)
  <2>1. /\ Pending(s, p, u, w) /\ At(s) \in Nat /\ End(s) \in Nat
        /\ s.request.from \in Nat /\ s.request.count \in Nat /\ s.replay.left \in Nat
        /\ s.request.delivered \in Nat /\ End(s) = s.request.from + s.request.count
        /\ At(s) = s.request.from + s.request.delivered + s.replay.left
    BY <1>10, Places DEF Served, End
  <2>2. \A i \in 1 .. Len(u) : u[i].kind = "Retransmission" => u[i].next \in Nat /\ u[i].count \in Nat
    BY <1>4, Fields
  <2>3. /\ ~s.request.interrupted /\ stamp = s.request.stamp /\ At(s) < End(s)
        /\ \A i \in 1 .. Len(u) : u[i].kind = "Retransmission" => u[i].next + u[i].count < End(s)
    <3>1. CASE p.serving # NoService /\ stamp = p.serving.stamp
      <4>1. /\ p.serving.from = s.request.from /\ p.serving.count = s.request.count
            /\ p.serving.sent < p.serving.count /\ p.serving.sent \in Nat
            /\ ~s.request.interrupted /\ stamp = s.request.stamp
            /\ At(s) <= s.request.from + p.serving.sent
            /\ \A i \in 1 .. Len(u) : u[i].kind = "Retransmission" =>
                  u[i].next + u[i].count <= s.request.from + p.serving.sent
        BY <2>1, <3>1 DEF Pending, InService, Providers, Services
      <4>2. s.request.from + p.serving.sent < End(s) /\ s.request.from + p.serving.sent \in Nat
        <5>1. End(s) = s.request.from + p.serving.count /\ p.serving.count \in Nat
          BY <2>1, <4>1
        <5>2. \A a, b, c \in Nat : c < b => a + c < a + b /\ a + c \in Nat
          OBVIOUS
        <5>3. s.request.from \in Nat /\ p.serving.sent \in Nat /\ p.serving.sent < p.serving.count
          BY <2>1, <4>1
        <5> QED BY ONLY <5>1, <5>2, <5>3
      <4> QED BY <2>1, <2>2, <4>1, <4>2
    <3>2. CASE /\ w # <<>> /\ Head(w).kind = "RetransmitRequest" /\ stamp = Head(w).stamp
      <4>1. Head(w) = w[1] /\ 1 \in 1 .. Len(w)
        BY <3>2, TailIs
      <4>2. ~Unasked(w)
        BY <3>2, <4>1 DEF Unasked, Without
      <4>3. /\ Rest(u) /\ s.replay = NoReplay /\ s.request.delivered = 0 /\ ~s.request.interrupted
            /\ w[1] = RequestMsg(s.request.stamp, s.request.from, s.request.count)
        BY <2>1, <3>2, <4>1, <4>2 DEF Pending, UnderWay
      <4>4. stamp = s.request.stamp
        BY <3>2, <4>1, <4>3 DEF RequestMsg
      <4>5. 1 <= s.request.count
        BY <2>1 DEF Pending
      <4>6. At(s) < End(s)
        BY <2>1, <4>3, <4>5, None
      <4> QED BY <1>3, <4>3, <4>4, <4>6 DEF Rest
    <3> QED BY <3>1, <3>2
  <2>4. UnderWay(s, x, left) /\ InService(s, q, x)
    BY <1>5 DEF UnderWay, InService
  <2>5. CutShort(s, q, x, left)
    <3>1. s.replay # NoReplay => Full(u, 1, s.replay.left)
      <4> SUFFICES ASSUME s.replay # NoReplay PROVE Full(u, 1, s.replay.left)
        OBVIOUS
      <4>1. p.serving # NoService
        BY <1>5, <2>1 DEF Pending, UnderWay
      <4> QED BY <2>1, <4>1 DEF Pending, CutShort
    <3>2. s.replay # NoReplay => Full(x, 1, s.replay.left)
      <4>1. 1 \in Nat \ {0} /\ s.replay.left \in Nat
        BY <2>1
      <4>2. Full(u, 1, s.replay.left) => Full(u \o <<m>>, 1, s.replay.left)
        BY <1>2, <4>1, FullIs
      <4> QED BY <3>1, <4>2
    <3> QED BY <2>3, <3>2 DEF CutShort
  <2>6. Chained(s, x)
    <3>1. \A i \in 1 .. Len(x) : x[i].kind \in Answer => x[i].stamp = s.request.stamp
      BY <1>1, <1>4, <2>1, <2>3 DEF Pending, Chained
    <3>2. \A i \in 1 .. Len(x) : x[i].kind = "Retransmission" => i \in 1 .. Len(u) /\ x[i] = u[i]
      BY <1>1, <1>4
    <3>3. ASSUME NEW i \in 1 .. Len(x), x[i].kind = "Retransmission"
          PROVE  /\ 1 <= x[i].count /\ At(s) <= x[i].next /\ x[i].next + x[i].count <= End(s)
                 /\ \/ x[i].next = At(s)
                    \/ \E j \in 1 .. Len(x) : j < i /\ x[j].kind = "Retransmission"
                                              /\ x[i].next = x[j].next + x[j].count
      <4>1. i \in 1 .. Len(u) /\ x[i] = u[i]
        BY <3>2, <3>3
      <4>2. /\ 1 <= u[i].count /\ At(s) <= u[i].next /\ u[i].next + u[i].count <= End(s)
            /\ \/ u[i].next = At(s)
               \/ \E j \in 1 .. Len(u) : j < i /\ u[j].kind = "Retransmission"
                                         /\ u[i].next = u[j].next + u[j].count
        BY <2>1, <3>3, <4>1 DEF Pending, Chained
      <4> QED BY <1>4, <4>1, <4>2
    <3>4. \A i, j \in 1 .. Len(x) :
             i < j /\ x[i].kind = "Retransmission" /\ x[j].kind = "Retransmission" =>
                 x[i].next + x[i].count <= x[j].next
      BY <2>1, <3>2 DEF Pending, Chained
    <3>5. \A i \in 1 .. Len(x) : x[i].kind = "Retransmission" => x[i].next + x[i].count < End(s)
      BY <2>3, <3>2
    <3> QED BY <2>3, <3>1, <3>3, <3>4, <3>5 DEF Chained
  <2> QED BY <2>1, <2>4, <2>5, <2>6 DEF Pending
<1>11. on => s.request # NoRequest
  BY <1>5 DEF Served, Idle
<1> QED BY <1>6, <1>9, <1>10, <1>11 DEF Served

\* The request arrives and its service begins.
LEMMA ProviderServes ==
    ASSUME NEW s \in Consumers, NEW p, NEW q, NEW u \in Seq(Message),
           NEW w \in Seq(Message), NEW on, Served(s, p, u, w, on),
           w # <<>>, NEW m, m = Head(w), m.kind = "RetransmitRequest", 1 <= m.count,
           q.phase = "established",
           q.serving = [stamp |-> m.stamp, from |-> m.from, count |-> m.count, sent |-> 0]
    PROVE  Served(s, q, u, Tail(w), on)
<1>1. Head(w) = w[1] /\ 1 \in 1 .. Len(w) /\ w[1] \in Message
  BY TailIs
<1>2. ~Unasked(w) /\ Unasked(Tail(w)) /\ Rest(u)
  BY <1>1, KindsLeft DEF Served, OneAsked, Answered, Unasked, Without
<1>3. OneAsked(q, Tail(w))
  BY <1>2, NoneIsLone DEF OneAsked, Unasked
<1>4. Answered(q, u, Tail(w))
  BY <1>2 DEF Answered, Rest, Answer
<1>5. ASSUME s.request # NoRequest PROVE Pending(s, q, u, Tail(w))
  <2>1. /\ Pending(s, p, u, w) /\ At(s) \in Nat /\ s.request.from \in Nat /\ s.request.count \in Nat
        /\ At(s) = s.request.from + s.request.delivered + s.replay.left
    BY <1>5, Places DEF Served
  <2>2. /\ s.replay = NoReplay /\ s.request.delivered = 0 /\ ~s.request.interrupted
        /\ w[1] = RequestMsg(s.request.stamp, s.request.from, s.request.count)
    BY <1>1, <1>2, <2>1 DEF Pending, UnderWay
  <2>3. At(s) = s.request.from
    BY <2>1, <2>2, None
  <2>4. /\ q.serving.stamp = s.request.stamp /\ q.serving.from = s.request.from
        /\ q.serving.count = s.request.count /\ q.serving.sent = 0
    BY <1>1, <2>2 DEF RequestMsg
  <2>5. InService(s, q, u)
    <3>1. \A i \in 1 .. Len(u) : u[i].kind # "Retransmission"
      BY <1>2 DEF Rest, Answer
    <3>2. s.request.from + q.serving.sent = At(s) /\ q.serving.sent < q.serving.count
      BY <1>1, <2>1, <2>3, <2>4
    <3> QED BY <2>1, <2>2, <2>4, <3>1, <3>2 DEF InService
  <2>6. CutShort(s, q, u, Tail(w)) /\ UnderWay(s, u, Tail(w))
    BY <1>2, <2>2 DEF CutShort, UnderWay
  <2> QED BY <2>1, <2>5, <2>6 DEF Pending
<1>6. on => s.request # NoRequest
  BY <1>2 DEF Served, Idle
<1> QED BY <1>3, <1>4, <1>5, <1>6 DEF Served

-----------------------------------------------------------------------------
(* The steps of the consumer                                                *)

StillAnswered(p, u, w, left, x) ==
    /\ left \in Seq(Message) /\ OneAsked(p, x) /\ Answered(p, left, x)
    /\ Rest(u) => Rest(left)
    /\ Unasked(x) <=> Unasked(w)
    /\ \A i \in 1 .. Len(x) : x[i].kind = "RetransmitRequest" => i \in 1 .. Len(w) /\ x[i] = w[i]

\* The answers that are left when the first message is read, and when the
\* consumer sends what is no request.
LEMMA AnsweredLeft ==
    ASSUME NEW p, NEW u \in Seq(Message), NEW w \in Seq(Message), OneAsked(p, w), Answered(p, u, w),
           NEW left, left = u \/ (u # <<>> /\ left = Tail(u)) \/ left = <<>>,
           NEW v \in Seq(Message), Unasked(v), NEW x, x = w \/ x = w \o v
    PROVE  StillAnswered(p, u, w, left, x)
<1> USE DEF StillAnswered
<1>1. \A i \in 1 .. Len(w \o v) : (w \o v)[i].kind = "RetransmitRequest" => i \in 1 .. Len(w) /\ (w \o v)[i] = w[i]
  BY BehindIs DEF Unasked, Without
<1>2. \A i \in 1 .. Len(w) : (w \o v)[i] = w[i] /\ i \in 1 .. Len(w \o v)
  BY BehindIs
<1>3. \A i \in 1 .. Len(x) : x[i].kind = "RetransmitRequest" => i \in 1 .. Len(w) /\ x[i] = w[i]
  BY <1>1
<1>4. Unasked(x) <=> Unasked(w)
  BY <1>2, <1>3 DEF Unasked, Without
<1>5. Lone(x, "RetransmitRequest")
  BY <1>3 DEF OneAsked, Lone
<1>6. OneAsked(p, x)
  BY <1>4, <1>5 DEF OneAsked
<1>7. CASE left = u
  BY <1>3, <1>4, <1>6, <1>7 DEF Answered
<1>8. CASE left = <<>>
  <2>1. left \in Seq(Message) /\ Len(left) = 0
    BY <1>8, EmptySeq
  <2> QED BY <1>3, <1>4, <1>6, <2>1 DEF Answered, Rest
<1>9. CASE u # <<>> /\ left = Tail(u)
  <2>1. /\ left \in Seq(Message) /\ (Rest(u) => Rest(left)) /\ Len(left) \in Nat
        /\ \A i \in 1 .. Len(left) : left[i] = u[i + 1] /\ i + 1 \in 1 .. Len(u) /\ u[i + 1] \in Message
        /\ \A i \in 1 .. Len(left) : RestFrom(left, i + 1) <=> RestFrom(u, (i + 1) + 1)
    <3>1. \A i \in 1 .. Len(left) : i + 2 = (i + 1) + 1
      OBVIOUS
    <3> QED BY <1>9, <3>1, TailIs, RestIs, ElementOfSeq
  <2>2. ~Rest(left) => Unasked(x)
    BY <1>4, <2>1 DEF Answered
  <2>3. \A i \in 1 .. Len(left) : left[i].kind = "RetransmitReject" =>
           p.serving = NoService /\ RestFrom(left, i + 1)
    BY <2>1 DEF Answered
  <2>4. ASSUME NEW i \in 1 .. Len(left), left[i].kind = "Retransmission"
        PROVE  Full(left, i + 1, left[i].count) \/ (p.serving = NoService /\ RestFrom(left, i + 1))
    <3>1. u[i + 1].kind = "Retransmission" /\ left[i] = u[i + 1] /\ i + 1 \in 1 .. Len(u) /\ u[i + 1] \in Message
      BY <2>1, <2>4
    <3>2. \/ Full(u, (i + 1) + 1, u[i + 1].count)
          \/ p.serving = NoService /\ RestFrom(u, (i + 1) + 1)
      BY <3>1 DEF Answered
    <3>3. u[i + 1].count \in Nat
      BY <3>1, Fields
    <3>4. (i + 1) + 1 \in Nat \ {0} /\ (i + 1) + 1 > 1 /\ ((i + 1) + 1) - 1 = i + 1
      OBVIOUS
    <3>5. Full(u, (i + 1) + 1, u[i + 1].count) => Full(left, i + 1, u[i + 1].count)
      BY <1>9, <3>3, <3>4, FullIs
    <3> QED BY <2>1, <3>1, <3>2, <3>5
  <2> QED BY <1>3, <1>4, <1>6, <2>1, <2>2, <2>3, <2>4 DEF Answered
<1> QED BY <1>7, <1>8, <1>9

\* The consumer lets go of its request and asks no more on this transport.
LEMMA ConsumerStops ==
    ASSUME NEW s, NEW p, NEW u \in Seq(Message), NEW w \in Seq(Message), NEW on,
           Served(s, p, u, w, on), NEW t, t.request = NoRequest,
           NEW left, left = u \/ (u # <<>> /\ left = Tail(u)) \/ left = <<>>,
           NEW v \in Seq(Message), Unasked(v), NEW x, x = w \/ x = w \o v
    PROVE  Served(t, p, left, x, FALSE)
BY AnsweredLeft DEF Served, StillAnswered

\* The place in the request is the same, or one message further in a batch.
Keeping(s, t, p, u, left) ==
    /\ \/ left = u
       \/ /\ u # <<>> /\ left = Tail(u)
          /\ Head(u).kind # "Retransmission" \/ s.request = NoRequest
    /\ t.request = NoRequest <=> s.request = NoRequest
    /\ s.request # NoRequest =>
          /\ t.request.stamp = s.request.stamp /\ t.request.from = s.request.from
          /\ t.request.count = s.request.count /\ t.request.interrupted = s.request.interrupted
          /\ At(t) = At(s)
          /\ \/ t.replay = s.replay /\ t.request.delivered = s.request.delivered
             \/ s.replay # NoReplay
          /\ t.replay # NoReplay =>
                Full(left, 1, t.replay.left) \/ (p.serving = NoService /\ Rest(left))

\* The place in the request stays: nothing is read that answers it.
LEMMA ConsumerGoesOn ==
    ASSUME NEW s \in Consumers, NEW t \in Consumers, NEW p, NEW u \in Seq(Message),
           NEW w \in Seq(Message), NEW on, Served(s, p, u, w, on),
           NEW left, Keeping(s, t, p, u, left),
           NEW v \in Seq(Message), Unasked(v), NEW x, x = w \/ x = w \o v,
           NEW still, still => on
    PROVE  Served(t, p, left, x, still)
<1> USE DEF Keeping
<1>1. /\ OneAsked(p, x) /\ Answered(p, left, x) /\ left \in Seq(Message)
      /\ Rest(u) => Rest(left)
      /\ Unasked(x) <=> Unasked(w)
      /\ \A i \in 1 .. Len(x) : x[i].kind = "RetransmitRequest" => i \in 1 .. Len(w) /\ x[i] = w[i]
  <2>1. left = u \/ (u # <<>> /\ left = Tail(u)) \/ left = <<>>
    OBVIOUS
  <2>2. OneAsked(p, w) /\ Answered(p, u, w)
    BY DEF Served
  <2>3. StillAnswered(p, u, w, left, x)
    BY <2>1, <2>2, AnsweredLeft
  <2> QED BY <2>3 DEF StillAnswered
<1>2. Idle(p, w) => Idle(p, x)
  BY <1>1 DEF Idle
<1>3. ASSUME s.request # NoRequest PROVE Pending(t, p, left, x)
  <2>1. /\ Pending(s, p, u, w) /\ End(t) = End(s)
        /\ t.request.stamp = s.request.stamp /\ t.request.from = s.request.from
        /\ t.request.count = s.request.count /\ t.request.interrupted = s.request.interrupted
        /\ At(t) = At(s)
    BY <1>3 DEF Served, End
  <2>2. UnderWay(t, left, x)
    <3> SUFFICES ASSUME ~Unasked(x) PROVE UnderWay(t, left, x)
      BY DEF UnderWay
    <3>1. /\ Rest(u) /\ s.replay = NoReplay /\ s.request.delivered = 0 /\ ~s.request.interrupted
          /\ \A i \in 1 .. Len(w) : w[i].kind = "RetransmitRequest" =>
                w[i] = RequestMsg(s.request.stamp, s.request.from, s.request.count)
      BY <1>1, <2>1 DEF Pending, UnderWay
    <3>2. t.replay = NoReplay /\ t.request.delivered = 0
      BY <1>3, <3>1
    <3>3. \A i \in 1 .. Len(x) : x[i].kind = "RetransmitRequest" =>
             x[i] = RequestMsg(t.request.stamp, t.request.from, t.request.count)
      BY <1>1, <2>1, <3>1
    <3> QED BY <1>1, <2>1, <3>1, <3>2, <3>3 DEF UnderWay
  <2>3. t.request.interrupted => Idle(p, x) /\ Rest(left)
    BY <1>1, <1>2, <2>1 DEF Pending, CutShort
  <2>4. CutShort(t, p, left, x)
    BY <1>3, <2>3 DEF CutShort
  <2>5. CASE left = u
    <3>1. InService(t, p, left) /\ Chained(t, left)
      BY <2>1, <2>5 DEF Pending, InService, Chained
    <3> QED BY <2>1, <2>2, <2>4, <3>1 DEF Pending
  <2>6. CASE u # <<>> /\ left = Tail(u) /\ Head(u).kind # "Retransmission"
    <3>1. /\ \A i \in 1 .. Len(left) : left[i] = u[i + 1] /\ i + 1 \in 1 .. Len(u)
          /\ \A i \in 1 .. Len(u) : u[i].kind = "Retransmission" => i - 1 \in 1 .. Len(left) /\ left[i - 1] = u[i]
      BY <2>6, TailIs
    <3>2. InService(t, p, left)
      <4> SUFFICES ASSUME p.serving # NoService PROVE InService(t, p, left)
        BY DEF InService
      <4>1. InService(s, p, u)
        BY <2>1 DEF Pending
      <4>2. \A i \in 1 .. Len(left) : left[i].kind = "Retransmission" =>
               left[i].next + left[i].count <= s.request.from + p.serving.sent
        BY <3>1, <4>1 DEF InService
      <4>3. \/ s.request.from + p.serving.sent = At(s)
            \/ \E i \in 1 .. Len(left) : left[i].kind = "Retransmission"
                   /\ s.request.from + p.serving.sent = left[i].next + left[i].count
        BY <3>1, <4>1 DEF InService
      <4> QED BY <2>1, <4>1, <4>2, <4>3 DEF InService
    <3>3. Chained(t, left)
      <4>1. Chained(s, u)
        BY <2>1 DEF Pending
      <4>2. \A i \in 1 .. Len(left) : left[i].kind \in Answer => left[i].stamp = s.request.stamp
        BY <3>1, <4>1 DEF Chained
      <4>3. ASSUME NEW i \in 1 .. Len(left), left[i].kind = "Retransmission"
            PROVE  /\ 1 <= left[i].count /\ At(s) <= left[i].next
                   /\ left[i].next + left[i].count <= End(s)
                   /\ \/ left[i].next = At(s)
                      \/ \E j \in 1 .. Len(left) : j < i /\ left[j].kind = "Retransmission"
                                                   /\ left[i].next = left[j].next + left[j].count
        <5>1. left[i] = u[i + 1] /\ i + 1 \in 1 .. Len(u)
          BY <3>1
        <5>2. \/ u[i + 1].next = At(s)
              \/ \E j \in 1 .. Len(u) : j < i + 1 /\ u[j].kind = "Retransmission"
                                        /\ u[i + 1].next = u[j].next + u[j].count
          BY <4>1, <4>3, <5>1 DEF Chained
        <5>3. \A j \in 1 .. Len(u) : j < i + 1 => j - 1 < i
          BY TailIs, <2>6
        <5>4. \/ left[i].next = At(s)
              \/ \E j \in 1 .. Len(left) : j < i /\ left[j].kind = "Retransmission"
                                           /\ left[i].next = left[j].next + left[j].count
          <6>1. ASSUME NEW j \in 1 .. Len(u), j < i + 1, u[j].kind = "Retransmission",
                       u[i + 1].next = u[j].next + u[j].count
                PROVE  \E h \in 1 .. Len(left) : h < i /\ left[h].kind = "Retransmission"
                                           /\ left[i].next = left[h].next + left[h].count
            <7>1. j - 1 \in 1 .. Len(left) /\ left[j - 1] = u[j] /\ j - 1 < i
              BY <3>1, <5>3, <6>1
            <7> QED BY <5>1, <6>1, <7>1
          <6> QED BY <5>1, <5>2, <6>1
        <5> QED BY <4>1, <4>3, <5>1, <5>4 DEF Chained
      <4>4. ASSUME NEW i \in 1 .. Len(left), NEW j \in 1 .. Len(left), i < j,
                   left[i].kind = "Retransmission", left[j].kind = "Retransmission"
            PROVE  left[i].next + left[i].count <= left[j].next
        <5>1. i + 1 < j + 1
          BY <4>4
        <5>2. /\ left[i] = u[i + 1] /\ i + 1 \in 1 .. Len(u)
              /\ left[j] = u[j + 1] /\ j + 1 \in 1 .. Len(u)
          BY <3>1
        <5>3. u[i + 1].next + u[i + 1].count <= u[j + 1].next
          BY <4>1, <4>4, <5>1, <5>2 DEF Chained
        <5> QED BY <5>2, <5>3
      <4>5. ~Without(left, "RetransmitReject") => ~Without(u, "RetransmitReject")
        BY <3>1 DEF Without
      <4>6. ~Without(u, "RetransmitReject") =>
               /\ At(s) < End(s)
               /\ \A i \in 1 .. Len(left) : left[i].kind = "Retransmission" =>
                     left[i].next + left[i].count < End(s)
        BY <3>1, <4>1 DEF Chained
      <4> QED BY <2>1, <4>2, <4>3, <4>4, <4>5, <4>6 DEF Chained
    <3> QED BY <2>1, <2>2, <2>4, <3>2, <3>3 DEF Pending
  <2> QED BY <1>3, <2>5, <2>6
<1>4. still /\ s.request = NoRequest => Idle(p, x) /\ Rest(left)
  BY <1>1, <1>2 DEF Served
<1> QED BY <1>1, <1>3, <1>4 DEF Served

\* A batch begins where the last one ended.
LEMMA ConsumerBegins ==
    ASSUME NEW s \in Consumers, NEW t \in Consumers, NEW p \in Providers, NEW u \in Seq(Message),
           NEW w \in Seq(Message), NEW on, Served(s, p, u, w, on), u # <<>>,
           NEW m, m = Head(u), m.kind = "Retransmission",
           s.request # NoRequest, m.next = s.request.from + s.request.delivered,
           t.request # NoRequest, t.request.stamp = s.request.stamp, t.request.from = s.request.from,
           t.request.count = s.request.count, t.request.delivered = s.request.delivered,
           ~t.request.interrupted, t.replay.left = m.count, NEW still
    PROVE  Served(t, p, Tail(u), w, still)
<1> DEFINE left == Tail(u)
<1>1. /\ Len(u) \in Nat /\ Len(left) \in Nat /\ Len(u) = Len(left) + 1
      /\ left \in Seq(Message) /\ m = u[1] /\ 1 \in 1 .. Len(u) /\ m \in Message
      /\ \A i \in 1 .. Len(left) : left[i] = u[i + 1] /\ i + 1 \in 1 .. Len(u)
      /\ \A i \in 1 .. Len(u) : i = 1 \/ (i - 1 \in 1 .. Len(left) /\ left[i - 1] = u[i])
  BY TailIs
<1>2. m.next \in Nat /\ m.count \in Nat
  BY <1>1, Fields
<1>3. ~Rest(u)
  BY <1>1 DEF Rest, Answer
<1>4. OneAsked(p, w) /\ Answered(p, u, w) /\ Pending(s, p, u, w) /\ Unasked(w)
  BY <1>3 DEF Served, Answered
<1>5. Unasked(<<>>) /\ <<>> \in Seq(Message)
  BY EmptySeq DEF Unasked, Without
<1>6. Answered(p, left, w)
  <2>1. StillAnswered(p, u, w, left, w)
    BY <1>4, <1>5, AnsweredLeft
  <2> QED BY <2>1 DEF StillAnswered
<1>7. /\ At(s) \in Nat /\ End(s) \in Nat /\ At(t) = m.next + m.count /\ End(t) = End(s)
      /\ At(t) \in Nat /\ s.request.from \in Nat
  <2>1. /\ At(s) \in Nat /\ End(s) \in Nat /\ At(t) \in Nat /\ s.request.from \in Nat
        /\ At(t) = t.request.from + t.request.delivered + t.replay.left
    BY Places
  <2>2. At(t) = m.next + m.count
    BY <2>1
  <2> QED BY <2>1, <2>2 DEF End
<1>8. /\ \A i \in 1 .. Len(u) : u[i].kind \in Answer => u[i].stamp = s.request.stamp
      /\ \A i \in 1 .. Len(u) : u[i].kind = "Retransmission" =>
            /\ 1 <= u[i].count /\ At(s) <= u[i].next /\ u[i].next + u[i].count <= End(s)
            /\ \/ u[i].next = At(s)
               \/ \E j \in 1 .. Len(u) : j < i /\ u[j].kind = "Retransmission"
                                         /\ u[i].next = u[j].next + u[j].count
      /\ \A i, j \in 1 .. Len(u) :
            i < j /\ u[i].kind = "Retransmission" /\ u[j].kind = "Retransmission" =>
                u[i].next + u[i].count <= u[j].next
      /\ ~Without(u, "RetransmitReject") =>
            /\ At(s) < End(s)
            /\ \A i \in 1 .. Len(u) : u[i].kind = "Retransmission" => u[i].next + u[i].count < End(s)
  BY <1>4 DEF Pending, Chained
<1>9. /\ 1 <= m.count /\ At(s) <= m.next /\ m.next + m.count <= End(s)
      /\ s.request.from + s.request.delivered = At(s) /\ m.next = At(s)
  <2>1. 1 <= m.count /\ At(s) <= m.next /\ m.next + m.count <= End(s)
    BY <1>1, <1>8
  <2>2. m.next <= At(s)
    <3>1. /\ At(s) = s.request.from + s.request.delivered + s.replay.left
          /\ s.request.from \in Nat /\ s.request.delivered \in Nat /\ s.replay.left \in Nat
      BY Places
    <3>2. \A a, b, c \in Nat : a + b <= a + b + c
      OBVIOUS
    <3> QED BY <3>1, <3>2
  <2> QED BY <1>2, <1>7, <2>1, <2>2
<1>10. ASSUME NEW i \in 1 .. Len(u), i # 1, u[i].kind = "Retransmission"
       PROVE  /\ At(t) <= u[i].next /\ u[i].next \in Nat /\ u[i].count \in Nat /\ u[i].next # At(s)
              /\ \/ u[i].next = At(t)
                 \/ \E j \in 1 .. Len(u) : j < i /\ j # 1 /\ u[j].kind = "Retransmission"
                                           /\ u[i].next = u[j].next + u[j].count
  <2>1. u[i].next \in Nat /\ u[i].count \in Nat /\ 1 < i
    BY <1>1, <1>10, ElementOfSeq, Fields
  <2>2. At(t) <= u[i].next
    BY <1>1, <1>7, <1>8, <1>10, <2>1
  <2>3. u[i].next # At(s)
    BY <1>2, <1>7, <1>9, <2>1, <2>2
  <2>4. PICK j \in 1 .. Len(u) : j < i /\ u[j].kind = "Retransmission" /\ u[i].next = u[j].next + u[j].count
    BY <1>8, <1>10, <2>3
  <2> QED BY <1>1, <1>7, <2>1, <2>2, <2>3, <2>4
<1>11. UnderWay(t, left, w)
  BY <1>4 DEF UnderWay
<1>12. InService(t, p, left)
  <2> SUFFICES ASSUME p.serving # NoService PROVE InService(t, p, left)
    BY DEF InService
  <2>1. /\ p.serving.stamp = s.request.stamp /\ p.serving.from = s.request.from
        /\ p.serving.count = s.request.count /\ p.serving.sent < p.serving.count
        /\ \A i \in 1 .. Len(u) : u[i].kind = "Retransmission" =>
              u[i].next + u[i].count <= s.request.from + p.serving.sent
        /\ \/ s.request.from + p.serving.sent = At(s)
           \/ \E i \in 1 .. Len(u) : u[i].kind = "Retransmission"
                  /\ s.request.from + p.serving.sent = u[i].next + u[i].count
    BY <1>4 DEF Pending, InService
  <2>2. At(t) <= s.request.from + p.serving.sent
    BY <1>1, <1>7, <2>1
  <2>3. s.request.from + p.serving.sent # At(s)
    <3>1. p.serving.sent \in Nat
      BY DEF Providers, Services
    <3> QED BY <1>2, <1>7, <1>9, <2>2, <3>1
  <2>4. PICK i \in 1 .. Len(u) : u[i].kind = "Retransmission"
                  /\ s.request.from + p.serving.sent = u[i].next + u[i].count
    BY <2>1, <2>3
  <2>5. \/ s.request.from + p.serving.sent = At(t)
        \/ \E j \in 1 .. Len(left) : left[j].kind = "Retransmission"
                  /\ s.request.from + p.serving.sent = left[j].next + left[j].count
    BY <1>1, <1>7, <2>4
  <2>6. \A j \in 1 .. Len(left) : left[j].kind = "Retransmission" =>
              left[j].next + left[j].count <= s.request.from + p.serving.sent
    BY <1>1, <2>1
  <2> QED BY <2>1, <2>2, <2>5, <2>6 DEF InService
<1>13. CutShort(t, p, left, w)
  <2>1. Full(u, 2, m.count) \/ (p.serving = NoService /\ RestFrom(u, 2))
    <3>1. 1 + 1 = 2
      OBVIOUS
    <3> QED BY <1>1, <1>4, <3>1 DEF Answered
  <2>2. Full(u, 2, m.count) => Full(left, 1, m.count)
    <3>1. 2 \in Nat \ {0} /\ 2 > 1 /\ 2 - 1 = 1
      OBVIOUS
    <3> QED BY <1>2, <3>1, FullIs
  <2>3. RestFrom(u, 2) => Rest(left)
    BY RestIs
  <2> QED BY <2>1, <2>2, <2>3 DEF CutShort
<1>14. Chained(t, left)
  <2>1. \A i \in 1 .. Len(left) : left[i].kind \in Answer => left[i].stamp = s.request.stamp
    BY <1>1, <1>8
  <2>2. ASSUME NEW i \in 1 .. Len(left), left[i].kind = "Retransmission"
        PROVE  /\ 1 <= left[i].count /\ At(t) <= left[i].next /\ left[i].next + left[i].count <= End(s)
               /\ \/ left[i].next = At(t)
                  \/ \E j \in 1 .. Len(left) : j < i /\ left[j].kind = "Retransmission"
                                               /\ left[i].next = left[j].next + left[j].count
    <3>1. left[i] = u[i + 1] /\ i + 1 \in 1 .. Len(u) /\ i + 1 # 1
      BY <1>1
    <3>2. 1 <= u[i + 1].count /\ At(t) <= u[i + 1].next /\ u[i + 1].next + u[i + 1].count <= End(s)
      BY <1>8, <1>10, <2>2, <3>1
    <3>3. CASE u[i + 1].next = At(t)
      BY <3>1, <3>2, <3>3
    <3>4. ASSUME NEW j \in 1 .. Len(u), j < i + 1, j # 1, u[j].kind = "Retransmission",
                 u[i + 1].next = u[j].next + u[j].count
          PROVE  \E h \in 1 .. Len(left) : h < i /\ left[h].kind = "Retransmission"
                                               /\ left[i].next = left[h].next + left[h].count
      <4>1. j - 1 \in 1 .. Len(left) /\ left[j - 1] = u[j] /\ j - 1 < i
        BY <1>1, <3>4
      <4> QED BY <3>1, <3>4, <4>1
    <3> QED BY <1>10, <2>2, <3>1, <3>2, <3>3, <3>4
  <2>3. ASSUME NEW i \in 1 .. Len(left), NEW j \in 1 .. Len(left), i < j,
               left[i].kind = "Retransmission", left[j].kind = "Retransmission"
        PROVE  left[i].next + left[i].count <= left[j].next
    <3>1. i + 1 < j + 1
      BY <2>3
    <3> QED BY <1>1, <1>8, <2>3, <3>1
  <2>4. ~Without(left, "RetransmitReject") => ~Without(u, "RetransmitReject")
    BY <1>1 DEF Without
  <2>5. ~Without(u, "RetransmitReject") =>
           /\ At(t) < End(s)
           /\ \A i \in 1 .. Len(left) : left[i].kind = "Retransmission" =>
                 left[i].next + left[i].count < End(s)
    BY <1>1, <1>7, <1>8
  <2> QED BY <1>7, <2>1, <2>2, <2>3, <2>4, <2>5 DEF Chained
<1>15. 1 <= t.request.count
  BY <1>4 DEF Pending
<1> QED BY <1>4, <1>6, <1>11, <1>12, <1>13, <1>14, <1>15 DEF Served, Pending

\* A request as it is sent, or none.
Asks(t, v) ==
    /\ t.replay = NoReplay
    /\ \/ t.request = NoRequest /\ Unasked(v)
       \/ /\ 1 <= t.request.count /\ t.request.delivered = 0 /\ ~t.request.interrupted
          /\ Lone(v, "RetransmitRequest")
          /\ \A i \in 1 .. Len(v) : v[i].kind = "RetransmitRequest" =>
                v[i] = RequestMsg(t.request.stamp, t.request.from, t.request.count)

\* The consumer asks when nothing more is said of its last request.
LEMMA ConsumerAsks ==
    ASSUME NEW t \in Consumers, NEW p, NEW left \in Seq(Message), NEW w \in Seq(Message),
           Idle(p, w), Rest(left), NEW v \in Seq(Message), Asks(t, v),
           NEW x, x = w \/ x = w \o v, NEW still,
           still => (x = w \o v \/ t.request # NoRequest \/ Unasked(x))
    PROVE  Served(t, p, left, x, still)
<1>1. /\ Lone(x, "RetransmitRequest")
      /\ \A i \in 1 .. Len(x) : x[i].kind = "RetransmitRequest" =>
            \E j \in 1 .. Len(v) : x[i] = v[j] /\ v[j].kind = "RetransmitRequest"
      /\ Unasked(v) => Unasked(x)
  <2>1. Lone(v, "RetransmitRequest")
    BY NoneIsLone DEF Asks, Unasked
  <2>2. CASE x = w
    BY <2>2, NoneIsLone DEF Idle, Unasked, Without
  <2>3. CASE x = w \o v
    <3>1. Lone(x, "RetransmitRequest")
      BY <2>1, <2>3, OneBehind DEF Idle, Unasked
    <3>2. \A i \in 1 .. Len(x) : x[i].kind = "RetransmitRequest" =>
             i - Len(w) \in 1 .. Len(v) /\ x[i] = v[i - Len(w)]
      BY <2>3, BehindIs DEF Idle, Unasked, Without
    <3>3. Unasked(v) => Unasked(x)
      BY <2>3, KindsBehind DEF Idle, Unasked
    <3> QED BY <3>1, <3>2, <3>3
  <2> QED BY <2>2, <2>3
<1>2. OneAsked(p, x)
  BY <1>1 DEF OneAsked, Idle
<1>3. \A i \in 1 .. Len(left) : left[i].kind \notin {"Retransmission", "RetransmitReject"}
  BY DEF Rest, Answer
<1>4. Answered(p, left, x)
  BY <1>3 DEF Answered
<1>5. ASSUME t.request # NoRequest PROVE Pending(t, p, left, x)
  <2>1. /\ 1 <= t.request.count /\ t.request.delivered = 0 /\ ~t.request.interrupted
        /\ t.replay = NoReplay
        /\ \A i \in 1 .. Len(v) : v[i].kind = "RetransmitRequest" =>
              v[i] = RequestMsg(t.request.stamp, t.request.from, t.request.count)
    BY <1>5 DEF Asks
  <2>2. UnderWay(t, left, x)
    BY <1>1, <2>1 DEF UnderWay
  <2>3. InService(t, p, left) /\ CutShort(t, p, left, x)
    BY <2>1 DEF InService, CutShort, Idle
  <2>4. Chained(t, left)
    BY <1>3 DEF Chained, Rest, Without
  <2> QED BY <2>1, <2>2, <2>3, <2>4 DEF Pending
<1>6. t.request = NoRequest => Idle(p, x)
  <2> SUFFICES ASSUME t.request = NoRequest PROVE Idle(p, x)
    OBVIOUS
  <2>1. Unasked(v)
    BY None DEF Asks
  <2> QED BY <1>1, <2>1 DEF Idle
<1> QED BY <1>2, <1>4, <1>5, <1>6 DEF Served

\* A batch that something else follows before it is whole was cut short, and
\* the service has ended.
LEMMA CutMeansIdle ==
    ASSUME NEW s \in Consumers, NEW p, NEW u \in Seq(Message),
           NEW w \in Seq(Message), NEW on, Served(s, p, u, w, on), RequestOK(s),
           s.replay # NoReplay, u # <<>>, Head(u).kind # "Application"
    PROVE  Idle(p, w) /\ Rest(u) /\ Rest(Tail(u))
<1>1. s.request # NoRequest /\ 1 <= s.replay.left /\ s.replay.left \in Nat
  BY Places DEF RequestOK
<1>2. Pending(s, p, u, w)
  BY <1>1 DEF Served
<1>3. ~Full(u, 1, s.replay.left)
  <2>1. 1 \in Nat \ {0} /\ s.replay.left > 0
    BY <1>1
  <2> QED BY <1>1, <2>1, FullIs
<1>4. p.serving = NoService /\ Rest(u) /\ Unasked(w)
  BY <1>2, <1>3 DEF Pending, CutShort, UnderWay
<1> QED BY <1>4, RestIs DEF Idle

\* The batch is cut short: the request waits for the stall.
LEMMA ConsumerInterrupted ==
    ASSUME NEW s \in Consumers, NEW t \in Consumers, NEW p, NEW u \in Seq(Message),
           NEW w \in Seq(Message), NEW on, Served(s, p, u, w, on),
           s.request # NoRequest, Idle(p, w), NEW left \in Seq(Message), Rest(left),
           t.request # NoRequest, t.request.count = s.request.count, t.replay = NoReplay,
           NEW v \in Seq(Message), Unasked(v), NEW x, x = w \/ x = w \o v, NEW still
    PROVE  Served(t, p, left, x, still)
<1>1. Unasked(x)
  BY KindsBehind DEF Idle, Unasked
<1>2. OneAsked(p, x)
  BY <1>1, NoneIsLone DEF OneAsked, Idle, Unasked
<1>3. \A i \in 1 .. Len(left) : left[i].kind \notin {"Retransmission", "RetransmitReject"}
  BY DEF Rest, Answer
<1>4. Answered(p, left, x)
  BY <1>3 DEF Answered
<1>5. 1 <= t.request.count
  BY DEF Served, Pending
<1>6. UnderWay(t, left, x) /\ InService(t, p, left) /\ CutShort(t, p, left, x)
  BY <1>1 DEF UnderWay, InService, CutShort, Idle
<1>7. Chained(t, left)
  BY <1>3 DEF Chained, Rest, Without
<1> QED BY <1>2, <1>4, <1>5, <1>6, <1>7 DEF Served, Pending

\* A refusal is the last thing said of a request.
LEMMA RefusedMeansIdle ==
    ASSUME NEW s, NEW p, NEW u \in Seq(Message), NEW w, NEW on, Served(s, p, u, w, on),
           u # <<>>, Head(u).kind = "RetransmitReject"
    PROVE  Idle(p, w) /\ Rest(Tail(u))
<1>1. Head(u) = u[1] /\ 1 \in 1 .. Len(u)
  BY TailIs
<1>2. ~Rest(u)
  BY <1>1 DEF Rest, Answer
<1>3. Unasked(w) /\ p.serving = NoService /\ RestFrom(u, 1 + 1)
  BY <1>1, <1>2 DEF Served, Answered
<1>4. RestFrom(u, 2)
  <2>1. 1 + 1 = 2
    OBVIOUS
  <2> QED BY <1>3, <2>1
<1> QED BY <1>3, <1>4, RestIs DEF Idle

\* So is the batch that completes it.
LEMMA DeliveredMeansIdle ==
    ASSUME NEW s \in Consumers, NEW p \in Providers, NEW u \in Seq(Message),
           NEW w \in Seq(Message), NEW on, Served(s, p, u, w, on), RequestOK(s),
           s.replay # NoReplay, s.request.delivered + s.replay.left >= s.request.count
    PROVE  Idle(p, w) /\ Rest(u)
<1>1. /\ s.request # NoRequest /\ s.request.delivered + s.replay.left <= s.request.count
      /\ At(s) \in Nat /\ End(s) \in Nat /\ s.request.from \in Nat /\ s.request.count \in Nat
      /\ s.request.delivered \in Nat /\ s.replay.left \in Nat
      /\ At(s) = s.request.from + s.request.delivered + s.replay.left
      /\ End(s) = s.request.from + s.request.count
  BY Places DEF RequestOK, End
<1>2. At(s) = End(s)
  <2>1. s.request.delivered + s.replay.left = s.request.count
    BY <1>1
  <2> QED BY <1>1, <2>1
<1>3. Pending(s, p, u, w)
  BY <1>1 DEF Served
<1>4. Unasked(w)
  BY <1>3 DEF Pending, UnderWay
<1>5. p.serving = NoService
  <2> SUFFICES ASSUME p.serving # NoService PROVE FALSE
    OBVIOUS
  <2>1. /\ p.serving.count = s.request.count /\ p.serving.sent < p.serving.count
        /\ At(s) <= s.request.from + p.serving.sent /\ p.serving.sent \in Nat
    BY <1>3 DEF Pending, InService, Providers, Services
  <2>2. s.request.from + p.serving.sent < End(s)
    BY <1>1, <2>1
  <2> QED BY <1>1, <1>2, <2>1, <2>2
<1>6. \A i \in 1 .. Len(u) : u[i].kind # "Retransmission"
  <2> SUFFICES ASSUME NEW i \in 1 .. Len(u), u[i].kind = "Retransmission" PROVE FALSE
    OBVIOUS
  <2>1. u[i].next \in Nat /\ u[i].count \in Nat
    BY ElementOfSeq, Fields
  <2>2. 1 <= u[i].count /\ At(s) <= u[i].next /\ u[i].next + u[i].count <= End(s)
    BY <1>3 DEF Pending, Chained
  <2> QED BY <1>1, <1>2, <2>1, <2>2
<1>7. \A i \in 1 .. Len(u) : u[i].kind # "RetransmitReject"
  BY <1>1, <1>2, <1>3 DEF Pending, Chained, Without
<1> QED BY <1>4, <1>5, <1>6, <1>7 DEF Idle, Rest, Answer


-----------------------------------------------------------------------------
(* What the handlers of the consumer do to its request                      *)

Ends(r) == ~r.open /\ r.s.request = NoRequest /\ Unasked(r.send)
Same(s, r) == r.open /\ r.s.request = s.request /\ r.s.replay = s.replay /\ Unasked(r.send)
Outcome(s, r) ==
    \/ Ends(r) \/ Same(s, r)
    \/ r.open /\ s.request = NoRequest /\ s.replay = NoReplay /\ Asks(r.s, r.send)

\* What is no request.
LEMMA NoAsk ==
    /\ <<>> \in Seq(Message) /\ Unasked(<<>>)
    /\ \A m \in Message : m.kind # "RetransmitRequest" => <<m>> \in Seq(Message) /\ Unasked(<<m>>)
<1>1. <<>> \in Seq(Message) /\ Unasked(<<>>)
  BY EmptySeq DEF Unasked, Without
<1>2. ASSUME NEW m \in Message, m.kind # "RetransmitRequest"
      PROVE  <<m>> \in Seq(Message) /\ Unasked(<<m>>)
  <2>1. <<m>> \in Seq(Message) /\ Len(<<m>>) = 1 /\ <<m>>[1] = m
    OBVIOUS
  <2>2. \A i \in 1 .. Len(<<m>>) : i = 1
    BY <2>1
  <2> QED BY <1>2, <2>1, <2>2 DEF Unasked, Without
<1> QED BY <1>1, <1>2

\* fail: the request is let go of.
LEMMA FailEnds ==
    ASSUME NEW s \in Consumers, NEW books, NEW gone \in SUBSET Nat, NEW start \in Nat,
           Session(s, books, gone, start), NEW why,
           NEW r, r = FailWith("consumer", s, "Error", why)
    PROVE  Ends(r)
<1>1. PICK u : u = ReleaseConsumer(s)
  OBVIOUS
<1>2. u \in Consumers /\ u.request = NoRequest
  BY <1>1, ReleaseKeeps
<1>3. PICK t : t = Unbound("consumer", u)
  OBVIOUS
<1>4. t.request = NoRequest
  BY <1>2, <1>3 DEF Unbound, Consumers
<1>5. PICK send : send = IF s.phase = "established" THEN <<TerminateMsg("Error")>> ELSE <<>>
  OBVIOUS
<1>6. Unasked(send)
  <2>1. TerminateMsg("Error") \in Message /\ TerminateMsg("Error").kind # "RetransmitRequest"
    BY DEF TerminateMsg, Message, Codes
  <2> QED BY <1>5, <2>1, NoAsk
<1>7. r = [Result(t, send) EXCEPT !.open = FALSE, !.blame = why]
  BY <1>1, <1>3, <1>5 DEF FailWith, Release
<1>8. r.s = t /\ r.send = send /\ r.open = FALSE
  BY ONLY <1>7 DEF Result
<1> QED BY <1>4, <1>6, <1>8 DEF Ends

\* request_missing.
LEMMA RequestAsks ==
    ASSUME NEW s \in Consumers, GapsOK(s), RequestOK(s), NEW r, r = RequestMissing(s)
    PROVE  r.open /\ Outcome(s, r)
<1>1. CASE s.phase # "established" \/ s.request # NoRequest \/ s.missing = <<>>
  <2>1. r = Result(s, <<>>)
    BY <1>1 DEF RequestMissing
  <2>2. r.s = s /\ r.send = <<>> /\ r.open
    BY ONLY <2>1 DEF Result
  <2> QED BY <2>2, NoAsk DEF Outcome, Same
<1>2. CASE ~(s.phase # "established" \/ s.request # NoRequest \/ s.missing = <<>>)
  <2>1. PICK gap : gap = Head(s.missing)
    OBVIOUS
  <2>2. PICK count : count = Min({gap.end - gap.from, MaxRetransmitCount})
    OBVIOUS
  <2>3. PICK stamp : stamp = (s.stamp + 1) % Cardinality(Stamps)
    OBVIOUS
  <2>4. PICK request : request = [NoRequest EXCEPT !.stamp = stamp, !.from = gap.from, !.count = count]
    OBVIOUS
  <2>5. PICK t : t = [s EXCEPT !.stamp = stamp, !.request = request]
    OBVIOUS
  <2>6. PICK m : m = RequestMsg(stamp, gap.from, count)
    OBVIOUS
  <2>7. r = Result(t, <<m>>)
    BY <1>2, <2>1, <2>2, <2>3, <2>4, <2>5, <2>6, Zenon DEF RequestMissing
  <2>8. /\ gap.from \in Nat /\ gap.end \in Nat /\ gap.end - gap.from \in Nat \ {0}
    BY <1>2, <2>1, RangeFacts
  <2>9. count \in Nat /\ 1 <= count
    <3>1. count \in {gap.end - gap.from, MaxRetransmitCount}
      BY <2>2, <2>8, Constants, MinOfTwo
    <3> QED BY <2>8, <3>1, Constants
  <2>10. /\ request.stamp = stamp /\ request.from = gap.from /\ request.count = count
         /\ request.delivered = 0 /\ ~request.interrupted
    BY ONLY <2>4 DEF NoRequest
  <2>11. t.request = request /\ t.replay = s.replay
    BY <2>5 DEF Consumers
  <2>12. s.replay = NoReplay /\ s.request = NoRequest
    BY <1>2 DEF RequestOK
  <2>13. r.s = t /\ r.send = <<m>> /\ r.open
    BY ONLY <2>7 DEF Result
  <2>14. Len(<<m>>) = 1 /\ <<m>>[1] = m /\ \A i \in 1 .. Len(<<m>>) : i = 1
    OBVIOUS
  <2>15. Lone(<<m>>, "RetransmitRequest")
    BY ONLY <2>14 DEF Lone
  <2>16. Asks(t, <<m>>)
    BY ONLY <2>6, <2>9, <2>10, <2>11, <2>12, <2>14, <2>15 DEF Asks
  <2> QED BY <2>12, <2>13, <2>16 DEF Outcome
<1> QED BY <1>1, <1>2

\* maybe_finish_receiving.
LEMMA FinishIsSame ==
    ASSUME NEW s \in Consumers, NEW r, r = MaybeFinishReceiving(s)
    PROVE  Same(s, r)
<1>1. CASE \/ s.finished = NotFinished \/ s.finished.answered
           \/ s.phase # "established" \/ s.missing # <<>> \/ s.request # NoRequest
  <2>1. r = Result(s, <<>>)
    BY <1>1 DEF MaybeFinishReceiving
  <2>2. r.s = s /\ r.send = <<>> /\ r.open
    BY ONLY <2>1 DEF Result
  <2> QED BY <2>2, NoAsk DEF Same
<1>2. CASE ~(\/ s.finished = NotFinished \/ s.finished.answered
             \/ s.phase # "established" \/ s.missing # <<>> \/ s.request # NoRequest)
  <2>1. PICK t : t = [s EXCEPT !.finished = [s.finished EXCEPT !.answered = TRUE]]
    OBVIOUS
  <2>2. PICK m : m = [kind |-> "FinishedReceiving"]
    OBVIOUS
  <2>3. r = Result(t, <<m>>)
    BY <1>2, <2>1, <2>2, Zenon DEF MaybeFinishReceiving
  <2>4. t.request = s.request /\ t.replay = s.replay
    BY <2>1 DEF Consumers
  <2>5. r.s = t /\ r.send = <<m>> /\ r.open
    BY ONLY <2>3 DEF Result
  <2>6. m \in Message /\ m.kind # "RetransmitRequest"
    BY <2>2 DEF Message
  <2> QED BY <2>4, <2>5, <2>6, NoAsk DEF Same
<1> QED BY <1>1, <1>2

\* on_next_seq leaves the batch.
LEMMA CutIs ==
    ASSUME NEW s \in Consumers, RequestOK(s), NEW t, t = Cut(s)
    PROVE  /\ t.replay = NoReplay
           /\ s.replay = NoReplay => t.request = s.request
           /\ s.replay # NoReplay => t.request # NoRequest /\ t.request.count = s.request.count
                                     /\ s.request # NoRequest
<1>1. t.replay = NoReplay /\ t.request = IF s.replay # NoReplay /\ s.request # NoRequest
                          THEN [s.request EXCEPT !.interrupted = TRUE, !.reported = FALSE] ELSE s.request
  BY Zenon DEF Cut, Consumers
<1>2. s.request \in Requests
  BY ConsumerFields
<1>3. s.replay # NoReplay => s.request # NoRequest
  BY DEF RequestOK
<1>4. ASSUME s.replay # NoReplay, s.request # NoRequest
      PROVE  t.request # NoRequest /\ t.request.count = s.request.count
  <2>1. t.request = [s.request EXCEPT !.interrupted = TRUE, !.reported = FALSE]
    BY <1>1, <1>4
  <2>2. t.request.interrupted = TRUE /\ t.request.count = s.request.count
    BY <1>2, <2>1 DEF Requests
  <2> QED BY <2>2, None
<1> QED BY <1>1, <1>3, <1>4

\* on_gap.
LEMMA GapOutcome ==
    ASSUME NEW s \in Consumers, NEW books, NEW gone \in SUBSET Nat, NEW start \in Nat,
           Session(s, books, gone, start), ~s.start, s.finished = NotFinished,
           NEW next \in 1 .. MaxSeq + 1, s.next < next,
           NEW r, r = OnGap(s, next)
    PROVE  Outcome(s, r)
<1>1. PICK record : record = RecordGap(s, s.next, next)
  OBVIOUS
<1>2. PICK t : t = Moved(s, next)
  OBVIOUS
<1>3. /\ t \in Consumers /\ Session(t, books, gone, start)
      /\ t.request = s.request /\ t.replay = s.replay
  <2>1. /\ t \in Consumers /\ Session(t, books, gone, start)
        /\ t.next \in {s.next, next} /\ (~record.held => t.next = next)
        /\ t.phase = s.phase /\ t.start = s.start /\ t.announced = s.announced
        /\ t.request = s.request /\ t.replay = s.replay /\ t.finished = s.finished
    BY <1>1, <1>2, RecordKeeps
  <2> QED BY <2>1
<1>4. CASE record.held
  <2>1. r = FailWith("consumer", t, "Error", "too many gaps")
    BY <1>1, <1>2, <1>4, Zenon DEF OnGap, Moved, Violation
  <2>2. Ends(r)
    BY ONLY <1>3, <2>1, FailEnds, gone \in SUBSET Nat, start \in Nat
  <2> QED BY <2>2 DEF Outcome
<1>5. CASE ~record.held
  <2>1. r = RequestMissing(t)
    BY <1>1, <1>2, <1>5, Zenon DEF OnGap, Moved
  <2>2. GapsOK(t) /\ RequestOK(t)
    BY <1>3 DEF Session
  <2>3. Outcome(t, r)
    BY ONLY <1>3, <2>1, <2>2, RequestAsks
  <2> QED BY ONLY <1>3, <2>3 DEF Outcome, Same
<1> QED BY <1>4, <1>5

\* on_next_seq.
LEMMA NextSeqOutcome ==
    ASSUME NEW s \in Consumers, NEW books, NEW gone \in SUBSET Nat, NEW start \in Nat,
           Session(s, books, gone, start), s.phase \in {"established", "terminating"},
           NEW next \in 1 .. MaxSeq + 1, NEW r, r = OnNextSeq(s, next)
    PROVE  Outcome(Cut(s), r)
<1>1. PICK t : t = Cut(s)
  OBVIOUS
<1>2. PICK past : past = (s.finished # NotFinished /\ next > s.finished.end)
  OBVIOUS
<1>3. r = IF past THEN FailWith("consumer", s, "Error", "past LastSeqNo")
          ELSE IF s.start THEN Result([t EXCEPT !.start = FALSE, !.next = next], <<>>)
          ELSE IF next < s.next THEN FailWith("consumer", t, "Error", "NextSeqNo too low")
          ELSE IF next = s.next THEN Result(t, <<>>)
          ELSE IF next - s.next > MaxGapLen THEN FailWith("consumer", t, "Error", "gap too long")
          ELSE OnGap(t, next)
  BY <1>1, <1>2, Zenon DEF OnNextSeq, Cut, Violation
<1>4. /\ t \in Consumers /\ Session(t, books, gone, start)
      /\ t.next = s.next /\ t.start = s.start /\ t.finished = s.finished
  BY <1>1, CutKeeps
<1>5. s.next \in Nat /\ next \in Nat
  BY ConsumerFields, Constants
<1>6. CASE \E why : \/ r = FailWith("consumer", s, "Error", why)
                    \/ r = FailWith("consumer", t, "Error", why)
  <2>1. Ends(r)
    BY <1>4, <1>6, FailEnds
  <2> QED BY <2>1 DEF Outcome
<1>7. CASE r = Result([t EXCEPT !.start = FALSE, !.next = next], <<>>) \/ r = Result(t, <<>>)
  <2>1. PICK u : /\ u \in {t, [t EXCEPT !.start = FALSE, !.next = next]} /\ r = Result(u, <<>>)
    BY <1>7
  <2>2. u.request = t.request /\ u.replay = t.replay
    BY <1>4, <2>1 DEF Consumers
  <2>3. r.open /\ r.send = <<>> /\ r.s = u
    BY ONLY <2>1 DEF Result
  <2> QED BY <1>1, <2>2, <2>3, NoAsk DEF Outcome, Same
<1>8. CASE ~past /\ ~s.start /\ ~(next < s.next) /\ next # s.next /\ r = OnGap(t, next)
  <2>1. s.next < next /\ t.next < next
    BY <1>4, <1>5, <1>8
  <2>2. s.finished = NotFinished
    BY <1>2, <1>5, <1>8, <2>1 DEF Session, FinishOK
  <2>3. ~t.start /\ t.finished = NotFinished /\ r = OnGap(t, next)
    BY <1>4, <1>8, <2>2
  <2>4. Outcome(t, r)
    BY ONLY <1>4, <2>1, <2>3, GapOutcome, gone \in SUBSET Nat, start \in Nat, next \in 1 .. MaxSeq + 1
  <2> QED BY <1>1, <2>4
<1> QED BY <1>3, <1>6, <1>7, <1>8, Zenon

\* A handler that goes on with another.
LEMMA FollowedBy ==
    ASSUME NEW s, NEW r \in Results, Outcome(s, r), r.open, NEW u, u.request = r.s.request,
           u.replay = r.s.replay, NEW q \in Results, Outcome(u, q), q.open, NEW t, t = Then(r, q)
    PROVE  t.open /\ Outcome(s, t)
<1>1. t.send = r.send \o q.send /\ t.s = q.s /\ t.open
  <2>1. t = [q EXCEPT !.send = r.send \o q.send, !.gone = r.gone \union q.gone,
                      !.accept = IF q.accept = 0 THEN r.accept ELSE q.accept]
    BY Zenon DEF Then
  <2> QED BY <2>1 DEF Results
<1>2. r.send \in Seq(Message) /\ q.send \in Seq(Message)
  BY RepliesAre DEF Results
<1>3. /\ Unasked(r.send) /\ Unasked(q.send) => Unasked(t.send)
      /\ Lone(r.send, "RetransmitRequest") /\ Unasked(q.send) => Lone(t.send, "RetransmitRequest")
      /\ Unasked(r.send) /\ Lone(q.send, "RetransmitRequest") => Lone(t.send, "RetransmitRequest")
  BY <1>1, <1>2, KindsBehind, OneBehind DEF Unasked
<1>4. \A i \in 1 .. Len(t.send) : t.send[i].kind = "RetransmitRequest" =>
         \/ ~Unasked(r.send) /\ \E j \in 1 .. Len(r.send) : t.send[i] = r.send[j]
         \/ ~Unasked(q.send) /\ \E j \in 1 .. Len(q.send) : t.send[i] = q.send[j]
  <2> SUFFICES ASSUME NEW i \in 1 .. Len(t.send), t.send[i].kind = "RetransmitRequest"
               PROVE  \/ ~Unasked(r.send) /\ \E j \in 1 .. Len(r.send) : t.send[i] = r.send[j]
                      \/ ~Unasked(q.send) /\ \E j \in 1 .. Len(q.send) : t.send[i] = q.send[j]
    OBVIOUS
  <2>1. \/ i \in 1 .. Len(r.send) /\ t.send[i] = r.send[i]
        \/ i - Len(r.send) \in 1 .. Len(q.send) /\ t.send[i] = q.send[i - Len(r.send)]
    <3>1. PICK v \in Seq(Message), x \in Seq(Message) : v = r.send /\ x = q.send
      BY <1>2
    <3>2. i \in 1 .. Len(v \o x) /\ t.send = v \o x
      BY <1>1, <3>1
    <3>3. \A j \in 1 .. Len(v \o x) :
             \/ j \in 1 .. Len(v) /\ (v \o x)[j] = v[j]
             \/ j > Len(v) /\ j - Len(v) \in 1 .. Len(x) /\ (v \o x)[j] = x[j - Len(v)]
      BY ONLY v \in Seq(Message), x \in Seq(Message), BehindIs, Zenon
    <3> QED BY ONLY <3>1, <3>2, <3>3
  <2> QED BY <2>1 DEF Unasked, Without
<1>5. CASE Same(s, r) /\ Same(u, q)
  BY <1>1, <1>3, <1>5 DEF Outcome, Same
<1>6. CASE /\ s.request = NoRequest /\ s.replay = NoReplay /\ Unasked(r.send)
           /\ Asks(q.s, q.send)
  <2>1. CASE q.s.request = NoRequest /\ Unasked(q.send)
    BY <1>1, <1>3, <1>6, <2>1 DEF Asks, Outcome
  <2>2. CASE ~(q.s.request = NoRequest /\ Unasked(q.send))
    <3>1. /\ 1 <= q.s.request.count /\ q.s.request.delivered = 0 /\ ~q.s.request.interrupted
          /\ Lone(q.send, "RetransmitRequest") /\ q.s.replay = NoReplay
          /\ \A i \in 1 .. Len(q.send) : q.send[i].kind = "RetransmitRequest" =>
                q.send[i] = RequestMsg(q.s.request.stamp, q.s.request.from, q.s.request.count)
      BY <1>6, <2>2 DEF Asks
    <3>2. Lone(t.send, "RetransmitRequest")
      BY <1>3, <1>6, <3>1
    <3>3. \A i \in 1 .. Len(t.send) : t.send[i].kind = "RetransmitRequest" =>
             t.send[i] = RequestMsg(q.s.request.stamp, q.s.request.from, q.s.request.count)
      BY <1>4, <1>6, <3>1
    <3>4. Asks(t.s, t.send)
      BY <1>1, <3>1, <3>2, <3>3 DEF Asks
    <3> QED BY <1>1, <1>6, <3>4 DEF Outcome
  <2> QED BY <2>1, <2>2
<1>7. CASE /\ s.request = NoRequest /\ s.replay = NoReplay /\ Asks(r.s, r.send) /\ Same(u, q)
  <2>1. q.s.request = r.s.request /\ q.s.replay = r.s.replay /\ Unasked(q.send)
    BY <1>7 DEF Same
  <2>2. Asks(t.s, t.send)
    BY <1>1, <1>3, <1>4, <1>7, <2>1 DEF Asks
  <2> QED BY <1>1, <1>7, <2>2 DEF Outcome
<1>8. r.s.request = NoRequest /\ Asks(r.s, r.send) => Unasked(r.send)
  BY None DEF Asks
<1> QED BY <1>5, <1>6, <1>7, <1>8 DEF Outcome, Ends, Same

\* on_finished_sending: nothing, or what on_next_seq does.
LEMMA FinishedSendingOutcome ==
    ASSUME NEW s \in Consumers, NEW books, NEW gone \in SUBSET Nat, NEW start \in Nat,
           Session(s, books, gone, start), s.phase \in {"established", "terminating"}, ~s.start,
           NEW last \in Nat, last + 1 \in 1 .. MaxSeq + 1, NEW r, r = OnFinishedSending(s, last)
    PROVE  Same(s, r) \/ Outcome(Cut(s), r)
<1>1. CASE s.finished # NotFinished
  <2>1. r = Result(s, <<>>)
    BY <1>1 DEF OnFinishedSending
  <2>2. r.s = s /\ r.send = <<>> /\ r.open
    BY ONLY <2>1 DEF Result
  <2> QED BY <2>2, NoAsk DEF Same
<1>2. CASE s.finished = NotFinished /\ last + 1 < s.next
  <2>1. r = FailWith("consumer", s, "Error", "LastSeqNo too low")
    BY <1>2, Zenon DEF OnFinishedSending, Violation
  <2>2. Ends(r)
    BY <2>1, FailEnds
  <2> QED BY <2>2 DEF Outcome
<1>3. CASE s.finished = NotFinished /\ ~(last + 1 < s.next)
  <2>1. PICK end \in 1 .. MaxSeq + 1 : end = last + 1
    OBVIOUS
  <2>2. PICK p : p = OnNextSeq(s, end)
    OBVIOUS
  <2>3. PICK t : t = [p.s EXCEPT !.finished = [end |-> end, answered |-> FALSE]]
    OBVIOUS
  <2>4. PICK q : q = MaybeFinishReceiving(t)
    OBVIOUS
  <2>5. r = Then(p, q)
    BY <1>3, <2>1, <2>2, <2>3, <2>4, Zenon DEF OnFinishedSending
  <2>6. Outcome(Cut(s), p)
    BY <2>2, NextSeqOutcome
  <2>7. /\ Quiet(p) /\ Session(p.s, books, gone, start) /\ ~p.s.start
        /\ p.open => p.s.next = end
    <3>1. PICK begun : begun = IF s.start THEN end ELSE start
      OBVIOUS
    <3>2. begun = start
      BY <3>1
    <3>3. /\ Quiet(p) /\ Session(p.s, books, gone, begun)
          /\ p.s.next \in {s.next, end} /\ ~p.s.start /\ p.s.announced = s.announced
          /\ p.open => /\ p.s.next = end /\ p.s.phase = s.phase /\ p.s.replay = NoReplay
                       /\ p.s.finished = s.finished
      BY <2>2, <3>1, NextSeqKeeps
    <3> QED BY ONLY <3>2, <3>3
  <2>8. CASE ~p.open
    <3>1. r = p
      BY <2>5, <2>8 DEF Then
    <3> QED BY ONLY <2>6, <3>1
  <2>9. CASE p.open
    <3>1. PICK u \in Consumers : u = p.s
      BY <2>7 DEF Quiet, Results
    <3>2. end \in Nat
      BY Constants
    <3>3. Session(u, books, gone, start) /\ ~u.start /\ end = u.next
      BY ONLY <2>7, <2>9, <3>1
    <3>4. t = [u EXCEPT !.finished = [end |-> end, answered |-> FALSE]]
      BY ONLY <2>3, <3>1, Zenon
    <3>5. t \in Consumers /\ Session(t, books, gone, start)
      BY ONLY <3>1, <3>2, <3>3, <3>4, Finishing
    <3>6. t.request = p.s.request /\ t.replay = p.s.replay
      BY ONLY <3>1, <3>4 DEF Consumers
    <3>7. Quiet(q) /\ q.open
      BY ONLY <2>4, <3>5, FinishKeeps
    <3>8. Same(t, q)
      BY ONLY <2>4, <3>5, FinishIsSame
    <3>9. p \in Results /\ q \in Results /\ Outcome(t, q)
      BY ONLY <2>7, <3>7, <3>8 DEF Quiet, Outcome
    <3>10. Outcome(Cut(s), r)
      BY ONLY <2>5, <2>6, <2>9, <3>6, <3>7, <3>9, FollowedBy
    <3> QED BY <3>10
  <2> QED BY <2>8, <2>9
<1> QED BY <1>1, <1>2, <1>3

\* What a consumer without a request does is to ask, or nothing.
LEMMA OutcomeAsks ==
    ASSUME NEW s, s.request = NoRequest, s.replay = NoReplay, NEW r, r.open, Outcome(s, r)
    PROVE  Asks(r.s, r.send)
BY DEF Outcome, Ends, Same, Asks

\* on_established: the announced number is the next one, and what is missing
\* is asked for.
LEMMA EstablishedOutcome ==
    ASSUME NEW s \in Consumers, NEW books, NEW gone \in SUBSET Nat, NEW start \in Nat,
           Session(s, books, gone, start), s.phase = "established",
           s.request = NoRequest, s.replay = NoReplay,
           NEW next \in 1 .. MaxSeq + 1, NEW r, r = OnEstablished("consumer", s, next)
    PROVE  Ends(r) \/ (r.open /\ Asks(r.s, r.send))
<1>1. PICK p : p = OnNextSeq(s, next)
  OBVIOUS
<1>2. PICK q : q = RequestMissing(p.s)
  OBVIOUS
<1>3. PICK t : t = Then(p, q)
  OBVIOUS
<1>4. PICK f : f = MaybeFinishReceiving(t.s)
  OBVIOUS
<1>5. r = Then(t, f)
  BY <1>1, <1>2, <1>3, <1>4, Zenon DEF OnEstablished
<1>6. PICK begun : begun = IF s.start THEN next ELSE start
  OBVIOUS
<1>7. Quiet(p) /\ Session(p.s, books, gone, begun) /\ begun \in Nat
  <2>1. s.phase \in {"established", "terminating"}
    OBVIOUS
  <2>2. Quiet(p) /\ Session(p.s, books, gone, begun)
    BY ONLY <1>1, <1>6, <2>1, NextSeqKeeps, s \in Consumers, gone \in SUBSET Nat, start \in Nat,
            Session(s, books, gone, start), next \in 1 .. MaxSeq + 1
  <2>3. begun \in Nat
    BY <1>6, Constants
  <2> QED BY <2>2, <2>3
<1>8. Outcome(s, p)
  <2>1. s.phase \in {"established", "terminating"}
    OBVIOUS
  <2>2. Outcome(Cut(s), p)
    BY ONLY <1>1, <2>1, NextSeqOutcome, s \in Consumers, gone \in SUBSET Nat, start \in Nat,
            Session(s, books, gone, start), next \in 1 .. MaxSeq + 1
  <2>3. RequestOK(s)
    BY DEF Session
  <2>4. Cut(s).request = NoRequest /\ Cut(s).replay = NoReplay
    BY <2>3, CutIs
  <2> QED BY <2>2, <2>4 DEF Outcome, Same
<1>9. CASE ~p.open
  <2>1. t = p
    BY <1>3, <1>9 DEF Then
  <2>2. r = p
    BY <1>5, <1>9, <2>1 DEF Then
  <2> QED BY <1>8, <1>9, <2>2 DEF Outcome, Same
<1>10. CASE p.open
  <2>1. p \in Results /\ p.s \in Consumers
    BY <1>7 DEF Quiet, Results
  <2>2. PICK u \in Consumers : u = p.s
    BY <2>1
  <2>3. Session(u, books, gone, begun) /\ q = RequestMissing(u) /\ GapsOK(u) /\ RequestOK(u)
    BY <1>2, <1>7, <2>2 DEF Session
  <2>4. Quiet(q) /\ q.open /\ Session(q.s, books, gone, begun)
    BY ONLY <1>7, <2>2, <2>3, RequestKeeps, gone \in SUBSET Nat
  <2>5. Outcome(u, q)
    BY ONLY <2>2, <2>3, RequestAsks
  <2>6. q \in Results
    BY <2>4 DEF Quiet
  <2>7. t.open /\ Outcome(s, t)
    BY ONLY <1>3, <1>8, <1>10, <2>1, <2>2, <2>4, <2>5, <2>6, FollowedBy
  <2>8. Quiet(t) /\ t.s = q.s
    BY ONLY <1>3, <1>7, <1>10, <2>4, ThenIs
  <2>9. PICK v \in Consumers : v = t.s
    BY <2>8 DEF Quiet, Results
  <2>10. Session(v, books, gone, begun) /\ f = MaybeFinishReceiving(v)
    BY ONLY <1>4, <2>4, <2>8, <2>9
  <2>11. Quiet(f) /\ f.open
    BY ONLY <2>9, <2>10, FinishKeeps
  <2>12. Same(v, f)
    BY ONLY <2>9, <2>10, FinishIsSame
  <2>13. f \in Results /\ t \in Results /\ Outcome(v, f)
    BY ONLY <2>8, <2>11, <2>12 DEF Quiet, Outcome
  <2>14. r.open /\ Outcome(s, r)
    BY ONLY <1>5, <2>7, <2>9, <2>11, <2>13, FollowedBy
  <2> QED BY <2>14, OutcomeAsks
<1> QED BY <1>9, <1>10

\* consume_missing of what was delivered, or of all.
LEMMA SettledHas ==
    ASSUME NEW s \in Consumers, GapsOK(s), RunsOK(s), RequestOK(s),
           NEW k \in {s.request.delivered, s.request.count}, NEW t, t = Settled(s, k)
    PROVE  /\ t \in Consumers /\ GapsOK(t) /\ RequestOK(t)
           /\ t.request = NoRequest /\ t.replay = NoReplay
<1>1. PICK u : u = ConsumeMissing(s, k)
  OBVIOUS
<1>2. k \in Nat /\ s.request.delivered \in Nat /\ s.request.count \in Nat /\ s.request.from \in Nat
  BY ConsumerFields
<1>3. k # 0 => s.missing # <<>> /\ s.missing[1].from + k <= s.missing[1].end
  <2> SUFFICES ASSUME k # 0 PROVE s.missing # <<>> /\ s.missing[1].from + k <= s.missing[1].end
    OBVIOUS
  <2>1. s.request # NoRequest
    BY <1>2, None
  <2>2. /\ s.missing # <<>> /\ s.request.from = s.missing[1].from
        /\ s.request.from + s.request.count <= s.missing[1].end
        /\ s.request.delivered <= s.request.count
    BY <2>1 DEF RequestOK
  <2>3. s.missing[1].end \in Nat
    BY <2>2, RangeFacts
  <2> QED BY <1>2, <2>2, <2>3
<1>4. u \in Consumers /\ GapsOK(u)
  BY <1>1, <1>2, <1>3, ConsumeEffect DEF Consumed
<1>5. t = [u EXCEPT !.request = NoRequest, !.replay = NoReplay]
  BY <1>1, Zenon DEF Settled
<1>6. /\ t \in Consumers /\ t.request = NoRequest /\ t.replay = NoReplay
      /\ t.missing = u.missing /\ t.next = u.next
  BY <1>4, <1>5, None DEF Consumers
<1>7. GapsOK(t)
  BY <1>4, <1>6 DEF GapsOK
<1>8. RequestOK(t)
  BY <1>6, None DEF RequestOK
<1> QED BY <1>6, <1>7, <1>8

\* complete_outstanding: the next range is requested.
LEMMA SettleAsks ==
    ASSUME NEW s \in Consumers, GapsOK(s), RunsOK(s), RequestOK(s), NEW r, r = SettleRequest(s)
    PROVE  r.open /\ Asks(r.s, r.send)
<1>1. PICK k : k = s.request.count
  OBVIOUS
<1>2. PICK t : t = Settled(s, k)
  OBVIOUS
<1>3. t \in Consumers /\ GapsOK(t) /\ RequestOK(t) /\ t.request = NoRequest /\ t.replay = NoReplay
  BY <1>1, <1>2, SettledHas
<1>4. CASE t.missing = <<>>
  <2>1. r = MaybeFinishReceiving(t)
    BY <1>1, <1>2, <1>4, Zenon DEF SettleRequest, Settled
  <2>2. Same(t, r)
    BY ONLY <1>3, <2>1, FinishIsSame
  <2> QED BY <1>3, <2>2, OutcomeAsks DEF Outcome, Same
<1>5. CASE t.missing # <<>>
  <2>1. r = RequestMissing(t)
    BY <1>1, <1>2, <1>5, Zenon DEF SettleRequest, Settled
  <2>2. r.open /\ Outcome(t, r)
    BY ONLY <1>3, <2>1, RequestAsks
  <2> QED BY <1>3, <2>2, OutcomeAsks
<1> QED BY <1>4, <1>5

\* The place in the request is the same.
Alike(s, t) ==
    /\ t.replay = s.replay /\ (t.request = NoRequest <=> s.request = NoRequest)
    /\ t.request.stamp = s.request.stamp /\ t.request.from = s.request.from
    /\ t.request.count = s.request.count /\ t.request.delivered = s.request.delivered
    /\ t.request.interrupted = s.request.interrupted

\* on_stall: the binding ends, a request that was cut short is asked for
\* again, or the stall is reported.
LEMMA StallOutcome ==
    ASSUME NEW s \in Consumers, GapsOK(s), RunsOK(s), RequestOK(s), s.request # NoRequest,
           Policy # "ReRequestAfterBatch", Policy # "Terminate", NEW r, r = OnStall(s)
    PROVE  /\ r.open
           /\ \/ s.request.interrupted /\ Asks(r.s, r.send)
              \/ Unasked(r.send) /\ Alike(s, r.s)
<1>1. PICK k : k = s.request.delivered
  OBVIOUS
<1>2. CASE Policy = "ReRequestAfterContextSwitch" /\ s.request.interrupted
  <2>1. PICK t : t = Settled(s, k)
    OBVIOUS
  <2>2. r = RequestMissing(t)
    BY <1>1, <1>2, <2>1, Zenon DEF OnStall, Settled
  <2>3. t \in Consumers /\ GapsOK(t) /\ RequestOK(t) /\ t.request = NoRequest /\ t.replay = NoReplay
    BY <1>1, <2>1, SettledHas
  <2>4. r.open /\ Outcome(t, r)
    BY ONLY <2>2, <2>3, RequestAsks
  <2> QED BY <1>2, <2>3, <2>4, OutcomeAsks
<1>3. CASE ~(Policy = "ReRequestAfterContextSwitch" /\ s.request.interrupted)
  <2>1. PICK request : request = [s.request EXCEPT !.reported = TRUE]
    OBVIOUS
  <2>2. PICK t : t = [s EXCEPT !.request = request]
    OBVIOUS
  <2>3. r = Result(t, <<>>)
    BY <1>3, <2>1, <2>2, Zenon DEF OnStall
  <2>4. /\ request.from = s.request.from /\ request.count = s.request.count
        /\ request.delivered = s.request.delivered /\ request.stamp = s.request.stamp
        /\ request.interrupted = s.request.interrupted /\ request.reported = TRUE
    BY <2>1, ConsumerFields DEF Requests
  <2>5. t.request = request /\ t.replay = s.replay
    BY <2>2 DEF Consumers
  <2>6. request # NoRequest
    <3>1. NoRequest.reported = FALSE
      BY DEF NoRequest
    <3> QED BY <2>4, <3>1
  <2>7. r.open /\ r.s = t /\ r.send = <<>>
    BY ONLY <2>3 DEF Result
  <2> QED BY <2>4, <2>5, <2>6, <2>7, NoAsk DEF Alike
<1> QED BY <1>2, <1>3

-----------------------------------------------------------------------------
(* A step of either side                                                    *)

\* What a handler leaves behind.
LEMMA CarryIs ==
    ASSUME FlowInv, NEW x \in Sides, NEW r, NEW unread, NEW n, Carry(x, r, unread, n),
           NEW y, y = Other(x)
    PROVE  /\ side'[x] = r.s /\ side'[y] = side[y] /\ y \in Sides /\ y # x
           /\ up'[x] = (up[x] /\ r.open) /\ up'[y] = up[y]
           /\ chan'[x] = IF r.open THEN unread ELSE <<>>
           /\ chan'[y] = IF up[y] THEN chan[y] \o r.send ELSE chan[y]
<1>1. x \in {"consumer", "provider"} /\ y \in {"consumer", "provider"} /\ x # y
  BY TheSides
<1>2. /\ side \in [consumer : Consumers, provider : Providers] /\ chan \in [Sides -> Seq(Message)]
      /\ up \in [Sides -> BOOLEAN]
  BY DEF FlowInv, FlowTypeOK
<1>3. Sides = {"consumer", "provider"}
  BY TheSides
<1>4. side'[x] = r.s /\ side'[y] = side[y]
  BY <1>1, <1>2 DEF Carry
<1>5. up'[x] = (up[x] /\ r.open) /\ up'[y] = up[y]
  BY <1>1, <1>2, <1>3 DEF Carry
<1>6. /\ chan'[x] = IF r.open THEN unread ELSE <<>>
      /\ chan'[y] = IF up[y] THEN chan[y] \o r.send ELSE chan[y]
  BY <1>1, <1>2, <1>3 DEF Carry
<1> QED BY <1>1, <1>3, <1>4, <1>5, <1>6

\* A step of the consumer, and what it leaves to the provider.
LEMMA ConsumerMoves ==
    ASSUME FlowInv, up["consumer"], NEW r, NEW unread, NEW n, Carry("consumer", r, unread, n),
           \A x \in {chan["provider"], chan["provider"] \o r.send} :
              Served(r.s, provider, IF r.open THEN unread ELSE <<>>, x, Asking(r.s, r.open))
    PROVE  ServiceInv'
<1>1. /\ side'["consumer"] = r.s /\ side'["provider"] = side["provider"]
      /\ up'["consumer"] = (up["consumer"] /\ r.open)
      /\ chan'["consumer"] = IF r.open THEN unread ELSE <<>>
      /\ chan'["provider"] \in {chan["provider"], chan["provider"] \o r.send}
  <2>1. PICK y : y = Other("consumer")
    OBVIOUS
  <2>2. y = "provider" /\ "consumer" \in Sides
    BY <2>1, TheSides
  <2>3. PICK x \in Sides : x = "consumer"
    BY <2>2
  <2>4. Carry(x, r, unread, n) /\ y = Other(x)
    BY <2>1, <2>3
  <2>5. /\ side'[x] = r.s /\ side'[y] = side[y] /\ up'[x] = (up[x] /\ r.open)
        /\ chan'[x] = IF r.open THEN unread ELSE <<>>
        /\ chan'[y] = IF up[y] THEN chan[y] \o r.send ELSE chan[y]
    BY ONLY <2>4, FlowInv, CarryIs
  <2> QED BY ONLY <2>2, <2>3, <2>5
<1>2. consumer' = r.s /\ provider' = provider
  BY <1>1 DEF consumer, provider
<1>3. Asking(consumer', up'["consumer"]) <=> Asking(r.s, r.open)
  BY <1>1, <1>2 DEF Asking
<1>4. Served(r.s, provider, chan'["consumer"], chan'["provider"], Asking(r.s, r.open))
  BY <1>1
<1>5. PICK on : on = Asking(r.s, r.open)
  OBVIOUS
<1>6. Served(consumer', provider', chan'["consumer"], chan'["provider"], Asking(consumer', up'["consumer"]))
  BY <1>2, <1>3, <1>4 DEF Served
<1> QED BY <1>6 DEF ServiceInv

\* A step of the provider, and what it leaves to the consumer.
LEMMA ProviderMoves ==
    ASSUME FlowInv, up["provider"], NEW r, NEW unread, NEW n, Carry("provider", r, unread, n),
           Served(consumer, r.s, chan["consumer"] \o r.send, IF r.open THEN unread ELSE <<>>,
                  Asking(consumer, up["consumer"]))
    PROVE  ServiceInv'
<1>1. /\ side'["provider"] = r.s /\ side'["consumer"] = side["consumer"]
      /\ up'["consumer"] = up["consumer"]
      /\ chan'["provider"] = IF r.open THEN unread ELSE <<>>
      /\ chan'["consumer"] = IF up["consumer"] THEN chan["consumer"] \o r.send ELSE chan["consumer"]
  BY TheSides, CarryIs
<1>2. consumer' = consumer /\ provider' = r.s
  BY <1>1 DEF consumer, provider
<1>3. Asking(consumer', up'["consumer"]) <=> Asking(consumer, up["consumer"])
  BY <1>1, <1>2 DEF Asking
<1>4. CASE up["consumer"]
  BY <1>1, <1>2, <1>3, <1>4 DEF ServiceInv
<1>5. CASE ~up["consumer"]
  <2>1. chan["consumer"] = <<>> /\ consumer.phase \notin Busy /\ chan'["consumer"] = <<>>
    BY <1>1, <1>5, TheSides DEF FlowInv, LetGo, consumer
  <2>2. consumer.request = NoRequest
    BY <2>1 DEF FlowInv, Session, StartOK, Busy
  <2>3. OneAsked(provider', chan'["provider"])
    BY <1>1, <1>2 DEF Served
  <2>4. Answered(provider', chan'["consumer"], chan'["provider"])
    BY <2>1, EmptySeq DEF Answered, Rest
  <2>5. ~Asking(consumer', up'["consumer"])
    BY <1>1, <1>5 DEF Asking
  <2> QED BY <1>2, <2>2, <2>3, <2>4, <2>5 DEF ServiceInv, Served
<1> QED BY <1>4, <1>5

\* The sides and the lines as the invariants have them.
LEMMA ServedIs ==
    ASSUME FlowInv, ServiceInv
    PROVE  /\ consumer \in Consumers /\ provider \in Providers
           /\ side["consumer"] = consumer /\ side["provider"] = provider
           /\ chan["consumer"] \in Seq(Message) /\ chan["provider"] \in Seq(Message)
           /\ Session(consumer, handed, abandoned, origin) /\ abandoned \in SUBSET Nat /\ origin \in Nat
           /\ GapsOK(consumer) /\ RunsOK(consumer) /\ RequestOK(consumer)
           /\ consumer.phase \notin {"established", "terminating"} =>
                 consumer.request = NoRequest /\ consumer.replay = NoReplay
           /\ Served(consumer, provider, chan["consumer"], chan["provider"],
                     Asking(consumer, up["consumer"]))
BY SidesHave DEF ServiceInv, Session, StartOK

\* What a handler of the consumer has read.
Reads(u, left) == left = u \/ (u # <<>> /\ left = Tail(u))

\* The consumer lets go of its request.
LEMMA ConsumerLetsGo ==
    ASSUME FlowInv, ServiceInv, up["consumer"], NEW r, NEW unread, NEW n,
           Carry("consumer", r, unread, n), Reads(chan["consumer"], unread),
           r.s.request = NoRequest, r.send \in Seq(Message), Unasked(r.send),
           r.open => r.s.phase \in {"closing", "finalized", "closed"}
    PROVE  ServiceInv'
<1>1. ~Asking(r.s, r.open)
  BY DEF Asking
<1>2. ASSUME NEW x \in {chan["provider"], chan["provider"] \o r.send}
      PROVE  Served(r.s, provider, IF r.open THEN unread ELSE <<>>, x, Asking(r.s, r.open))
  <2>1. PICK left : left = IF r.open THEN unread ELSE <<>>
    OBVIOUS
  <2>2. \/ left = chan["consumer"] \/ (chan["consumer"] # <<>> /\ left = Tail(chan["consumer"])) \/ left = <<>>
    BY <2>1 DEF Reads
  <2>3. Served(r.s, provider, left, x, FALSE)
    <3>1. PICK u \in Seq(Message), w \in Seq(Message) :
             u = chan["consumer"] /\ w = chan["provider"]
      BY ServedIs
    <3>2. PICK v \in Seq(Message) : v = r.send
      OBVIOUS
    <3>6. PICK s, t, on : s = consumer /\ t = r.s /\ on = Asking(consumer, up["consumer"])
      OBVIOUS
    <3>7. Served(s, provider, u, w, on)
      BY <3>1, <3>6, ServedIs
    <3>3. \/ left = u \/ (u # <<>> /\ left = Tail(u)) \/ left = <<>>
      BY <2>2, <3>1
    <3>4. t.request = NoRequest /\ Unasked(v) /\ (x = w \/ x = w \o v)
      BY <1>2, <3>1, <3>2, <3>6
    <3>5. Served(t, provider, left, x, FALSE)
      BY ONLY <3>1, <3>2, <3>3, <3>4, <3>7, ConsumerStops
    <3> QED BY <3>5, <3>6
  <2> QED BY <1>1, <2>1, <2>3 DEF Served
<1> QED BY <1>2, ConsumerMoves

\* The consumer goes on, and its place in the request is the same.
LEMMA ConsumerStays ==
    ASSUME FlowInv, ServiceInv, up["consumer"], NEW r, NEW unread, NEW n,
           Carry("consumer", r, unread, n), Reads(chan["consumer"], unread),
           r.open, r.s \in Consumers, r.send \in Seq(Message), Unasked(r.send), Alike(consumer, r.s),
           \/ unread = chan["consumer"]
           \/ Head(chan["consumer"]).kind # "Retransmission"
              /\ (Head(chan["consumer"]).kind = "Application" => consumer.replay = NoReplay)
           \/ consumer.request = NoRequest,
           consumer.phase \in {"closing", "finalized", "closed"} =>
              r.s.phase \in {"closing", "finalized", "closed"}
    PROVE  ServiceInv'
<1>1. Asking(r.s, r.open) => Asking(consumer, up["consumer"])
  BY DEF Asking
<1>2. PICK u \in Seq(Message) : u = chan["consumer"]
  BY ServedIs
<1>3. At(r.s) = At(consumer)
  BY DEF Alike, At
<1>4. ASSUME consumer.request # NoRequest, r.s.replay # NoReplay
      PROVE  Full(unread, 1, r.s.replay.left) \/ (provider.serving = NoService /\ Rest(unread))
  <2>1. CASE unread = u
    <3>1. Pending(consumer, provider, u, chan["provider"])
      BY <1>2, <1>4, ServedIs DEF Served
    <3> QED BY <1>4, <2>1, <3>1 DEF Pending, CutShort, Alike
  <2>2. CASE unread # u
    <3>1. u # <<>> /\ unread = Tail(u) /\ Head(u).kind # "Application" /\ consumer.replay # NoReplay
      BY <1>2, <1>4, <2>2 DEF Reads, Alike
    <3>2. Idle(provider, chan["provider"]) /\ Rest(Tail(u))
      BY <1>2, <3>1, ServedIs, CutMeansIdle
    <3> QED BY <3>1, <3>2 DEF Idle
  <2> QED BY <2>1, <2>2
<1>5. ASSUME NEW x \in {chan["provider"], chan["provider"] \o r.send}
      PROVE  Served(r.s, provider, IF r.open THEN unread ELSE <<>>, x, Asking(r.s, r.open))
  <2>1. PICK s \in Consumers, w \in Seq(Message) : s = consumer /\ w = chan["provider"]
    BY ServedIs
  <2>2. Served(s, provider, u, w, Asking(consumer, up["consumer"]))
    BY <1>2, <2>1, ServedIs
  <2>3. PICK t \in Consumers, v \in Seq(Message) : t = r.s /\ v = r.send
    OBVIOUS
  <2>4. \/ unread = u
        \/ /\ u # <<>> /\ unread = Tail(u)
           /\ Head(u).kind # "Retransmission" \/ s.request = NoRequest
    BY <1>2, <2>1 DEF Reads
  <2>5. t.request = NoRequest <=> s.request = NoRequest
    BY <2>1, <2>3 DEF Alike
  <2>6. s.request # NoRequest =>
              /\ t.request.stamp = s.request.stamp /\ t.request.from = s.request.from
              /\ t.request.count = s.request.count /\ t.request.interrupted = s.request.interrupted
              /\ At(t) = At(s)
              /\ \/ t.replay = s.replay /\ t.request.delivered = s.request.delivered
                 \/ s.replay # NoReplay
              /\ t.replay # NoReplay =>
                    Full(unread, 1, t.replay.left) \/ (provider.serving = NoService /\ Rest(unread))
    BY <1>3, <1>4, <2>1, <2>3 DEF Alike
  <2>7. (x = w \/ x = w \o v) /\ Unasked(v)
    BY <1>5, <2>1, <2>3
  <2>8. PICK on, still : (on <=> Asking(consumer, up["consumer"])) /\ (still <=> Asking(r.s, r.open))
    OBVIOUS
  <2>9. Served(s, provider, u, w, on) /\ (still => on)
    BY <1>1, <2>2, <2>8 DEF Served
  <2>10. Served(t, provider, unread, x, still)
    <3>1. Keeping(s, t, provider, u, unread)
      BY ONLY <2>4, <2>5, <2>6 DEF Keeping
    <3> QED BY ONLY <1>2, <2>1, <2>3, <2>7, <2>9, <3>1, ConsumerGoesOn
  <2> QED BY <2>3, <2>8, <2>10 DEF Served
<1> QED BY <1>5, ConsumerMoves

\* Nothing more is said of the request: the consumer may ask again.
LEMMA ConsumerAsksAgain ==
    ASSUME FlowInv, ServiceInv, up["consumer"], NEW r, NEW unread \in Seq(Message), NEW n,
           Carry("consumer", r, unread, n), r.open, r.s \in Consumers, r.send \in Seq(Message),
           Asks(r.s, r.send), Idle(provider, chan["provider"]), Rest(unread)
    PROVE  ServiceInv'
<1>1. ASSUME NEW x \in {chan["provider"], chan["provider"] \o r.send}
      PROVE  Served(r.s, provider, IF r.open THEN unread ELSE <<>>, x, Asking(r.s, r.open))
  <2>1. x = chan["provider"] => Unasked(x)
    BY DEF Idle
  <2>2. Served(r.s, provider, unread, x, Asking(r.s, r.open))
    BY <1>1, <2>1, ServedIs, ConsumerAsks
  <2> QED BY <2>2
<1> QED BY <1>1, ConsumerMoves

-----------------------------------------------------------------------------
(* The steps of the consumer, one by one                                    *)

\* One that is not bound has no request and makes none.
LEMMA ConsumerUnbound ==
    ASSUME FlowInv, ServiceInv, up["consumer"], consumer.phase \notin {"established", "terminating"},
           NEW r, NEW unread, NEW n, Carry("consumer", r, unread, n), Reads(chan["consumer"], unread),
           r.s.request = NoRequest, r.s.replay = NoReplay, r.send \in Seq(Message), Unasked(r.send),
           r.open => /\ r.s \in Consumers
                     /\ consumer.phase \in {"closing", "finalized", "closed"} =>
                           r.s.phase \in {"closing", "finalized", "closed"}
    PROVE  ServiceInv'
<1>1. consumer.request = NoRequest /\ consumer.replay = NoReplay
  BY ServedIs
<1>2. CASE r.open
  <2>1. Alike(consumer, r.s)
    BY <1>1 DEF Alike
  <2> QED BY <1>1, <1>2, <2>1, ConsumerStays
<1>3. CASE ~r.open
  BY <1>3, ConsumerLetsGo
<1> QED BY <1>2, <1>3

\* A message that is not for it.
LEMMA ConsumerIgnored ==
    ASSUME FlowInv, ServiceInv, up["consumer"], chan["consumer"] # <<>>,
           consumer.phase \notin {"established", "terminating"},
           NEW handled, NEW r, r = OnPeer("consumer", handled),
           NEW n, Carry("consumer", r, Tail(chan["consumer"]), n)
    PROVE  ServiceInv'
<1>1. /\ consumer \in Consumers /\ side["consumer"] = consumer
      /\ consumer.request = NoRequest /\ consumer.replay = NoReplay
  BY ServedIs
<1>2. Reads(chan["consumer"], Tail(chan["consumer"]))
  BY DEF Reads
<1>3. CASE consumer.phase \in {"closing", "finalized", "closed"}
  <2>1. r = Result(consumer, <<>>)
    BY <1>1, <1>3 DEF OnPeer
  <2>2. r.s = consumer /\ r.send = <<>> /\ r.open
    BY <2>1, Queued
  <2> QED BY <1>1, <1>2, <1>3, <2>2, NoAsk, ConsumerUnbound
<1>4. CASE consumer.phase \notin {"closing", "finalized", "closed"}
  <2>1. PICK u : u = Unbound("consumer", consumer)
    OBVIOUS
  <2>2. r = [Result(u, <<>>) EXCEPT !.open = FALSE, !.blame = "not established"]
    BY <1>1, <1>4, <2>1 DEF OnPeer
  <2>3. r.s = u /\ r.send = <<>> /\ ~r.open
    BY ONLY <2>2 DEF Result
  <2>4. u.request = NoRequest /\ u.replay = NoReplay
    BY <1>1, <2>1 DEF Unbound, Consumers
  <2> QED BY <1>2, <2>3, <2>4, NoAsk, ConsumerUnbound
<1> QED BY <1>3, <1>4

\* A message that may cut a batch short, and let the consumer ask again.
LEMMA ConsumerReads ==
    ASSUME FlowInv, ServiceInv, up["consumer"], chan["consumer"] # <<>>,
           consumer.phase \in {"established", "terminating"},
           Head(chan["consumer"]).kind \notin {"Application", "Retransmission"},
           NEW r, NEW n, Carry("consumer", r, Tail(chan["consumer"]), n),
           r.s \in Consumers, r.send \in Seq(Message),
           Outcome(Cut(consumer), r) \/ Same(consumer, r)
    PROVE  ServiceInv'
<1>1. PICK u \in Seq(Message), w \in Seq(Message) : u = chan["consumer"] /\ w = chan["provider"]
  BY ServedIs
<1>2. /\ consumer \in Consumers /\ RequestOK(consumer)
      /\ Served(consumer, provider, u, w, Asking(consumer, up["consumer"]))
  BY <1>1, ServedIs
<1>3. Reads(chan["consumer"], Tail(chan["consumer"])) /\ Tail(u) \in Seq(Message)
  BY <1>1 DEF Reads
<1>4. PICK t : t = Cut(consumer)
  OBVIOUS
<1>5. /\ t.replay = NoReplay
      /\ consumer.replay = NoReplay => t.request = consumer.request
      /\ consumer.replay # NoReplay =>
            t.request # NoRequest /\ t.request.count = consumer.request.count
            /\ consumer.request # NoRequest
  BY <1>2, <1>4, CutIs
<1>6. CASE Ends(r)
  BY <1>3, <1>6, ConsumerLetsGo DEF Ends
<1>7. CASE Same(consumer, r)
  <2>1. Alike(consumer, r.s)
    BY <1>7 DEF Same, Alike
  <2> QED BY <1>3, <1>7, <2>1, ConsumerStays DEF Same
<1>8. CASE Outcome(t, r) /\ ~Ends(r) /\ consumer.replay # NoReplay
  <2>1. r.open /\ r.s.request = t.request /\ r.s.replay = NoReplay /\ Unasked(r.send)
    BY <1>5, <1>8 DEF Outcome, Same
  <2>2. Idle(provider, w) /\ Rest(Tail(u))
    BY <1>1, <1>2, <1>8, CutMeansIdle
  <2>3. ASSUME NEW x \in {chan["provider"], chan["provider"] \o r.send}
        PROVE  Served(r.s, provider, Tail(chan["consumer"]), x, Asking(r.s, r.open))
    <3>1. PICK s \in Consumers, q \in Consumers : s = consumer /\ q = r.s
      BY <1>2
    <3>2. PICK v \in Seq(Message), left \in Seq(Message) : v = r.send /\ left = Tail(u)
      BY <1>3
    <3>3. PICK on, still : (on <=> Asking(consumer, up["consumer"])) /\ (still <=> Asking(r.s, r.open))
      OBVIOUS
    <3>4. Served(s, provider, u, w, on)
      BY <1>2, <3>1, <3>3 DEF Served
    <3>5. /\ s.request # NoRequest /\ Rest(left) /\ q.request # NoRequest
          /\ q.request.count = s.request.count /\ q.replay = NoReplay /\ Unasked(v)
          /\ (x = w \/ x = w \o v)
      BY <1>1, <1>5, <1>8, <2>1, <2>2, <2>3, <3>1, <3>2
    <3>6. Served(q, provider, left, x, still)
      BY ONLY <1>1, <2>2, <3>1, <3>2, <3>4, <3>5, ConsumerInterrupted
    <3> QED BY <1>1, <3>1, <3>2, <3>3, <3>6 DEF Served
  <2> QED BY <2>1, <2>3, ConsumerMoves
<1>9. CASE Outcome(t, r) /\ ~Ends(r) /\ consumer.replay = NoReplay /\ consumer.request # NoRequest
  <2>1. Same(consumer, r)
    BY <1>5, <1>9 DEF Outcome, Same
  <2> QED BY <1>7, <2>1
<1>10. CASE Outcome(t, r) /\ ~Ends(r) /\ consumer.replay = NoReplay /\ consumer.request = NoRequest
  <2>1. r.open
    BY <1>10 DEF Outcome, Same
  <2>2. Asks(r.s, r.send)
    BY <1>5, <1>10, <2>1, OutcomeAsks
  <2>3. Asking(consumer, up["consumer"])
    BY DEF Asking
  <2>4. Idle(provider, w) /\ Rest(Tail(u))
    BY <1>1, <1>2, <1>10, <2>3, RestIs DEF Served
  <2> QED BY <1>1, <1>3, <2>1, <2>2, <2>4, ConsumerAsksAgain
<1> QED BY <1>4, <1>6, <1>7, <1>8, <1>9, <1>10

\* on_sequence.
LEMMA ServiceSequence == FlowInv /\ ServiceInv /\ ReceiveSequence => ServiceInv'
<1> SUFFICES ASSUME FlowInv, ServiceInv, ReceiveSequence PROVE ServiceInv'
  OBVIOUS
<1>1. PICK m : m = Head(chan["consumer"])
  OBVIOUS
<1>2. PICK next : next = m.next
  OBVIOUS
<1>3. PICK handled : handled = OnNextSeq(consumer, next)
  OBVIOUS
<1>4. PICK r : r = OnPeer("consumer", handled)
  OBVIOUS
<1>5. /\ up["consumer"] /\ chan["consumer"] # <<>> /\ m.kind = "Sequence"
      /\ Carry("consumer", r, Tail(chan["consumer"]), 0)
  BY <1>1, <1>2, <1>3, <1>4 DEF ReceiveSequence, Arrives, Hears
<1>6. CASE consumer.phase \notin {"established", "terminating"}
  BY <1>4, <1>5, <1>6, ConsumerIgnored
<1>7. CASE consumer.phase \in {"established", "terminating"}
  <2>1. /\ consumer \in Consumers /\ side["consumer"] = consumer
        /\ Session(consumer, handed, abandoned, origin)
        /\ abandoned \in SUBSET Nat /\ origin \in Nat
        /\ provider.next \in 1 .. MaxSeq + 1 /\ provider.next \in Nat /\ MaxSeq \in Nat
    BY <1>7, ConsumerIs
  <2>2. r = OnNextSeq(consumer, next)
    BY <1>3, <1>4, <1>7, <2>1 DEF OnPeer
  <2>3. next \in Nat /\ 1 <= next /\ next <= provider.next
    BY <1>1, <1>2, <1>5, HeadIs
  <2>4. next \in 1 .. MaxSeq + 1
    BY ONLY <2>1, <2>3
  <2>5. PICK begun : begun = IF consumer.start THEN next ELSE origin
    OBVIOUS
  <2>6. Quiet(r)
    BY <1>7, <2>1, <2>2, <2>4, <2>5, NextSeqKeeps
  <2>7. r.s \in Consumers /\ r.send \in Seq(Message)
    BY <2>6, RepliesAre DEF Quiet, Results
  <2>8. Outcome(Cut(consumer), r)
    BY <1>7, <2>1, <2>2, <2>4, NextSeqOutcome
  <2>9. Head(chan["consumer"]).kind \notin {"Application", "Retransmission"}
    BY <1>1, <1>5
  <2> QED BY <1>5, <1>7, <2>7, <2>8, <2>9, ConsumerReads
<1> QED BY <1>6, <1>7

\* on_finished_sending.
LEMMA ServiceFinishedSending == FlowInv /\ ServiceInv /\ ReceiveFinishedSending => ServiceInv'
<1> SUFFICES ASSUME FlowInv, ServiceInv, ReceiveFinishedSending PROVE ServiceInv'
  OBVIOUS
<1>1. PICK m : m = Head(chan["consumer"])
  OBVIOUS
<1>2. PICK last : last = m.last
  OBVIOUS
<1>3. PICK handled : handled = OnFinishedSending(consumer, last)
  OBVIOUS
<1>4. PICK r : r = OnPeer("consumer", handled)
  OBVIOUS
<1>5. /\ up["consumer"] /\ chan["consumer"] # <<>> /\ m.kind = "FinishedSending"
      /\ Carry("consumer", r, Tail(chan["consumer"]), 0)
  BY <1>1, <1>2, <1>3, <1>4 DEF ReceiveFinishedSending, Arrives, Hears
<1>6. CASE consumer.phase \notin {"established", "terminating"}
  BY <1>4, <1>5, <1>6, ConsumerIgnored
<1>7. CASE consumer.phase \in {"established", "terminating"}
  <2>1. /\ consumer \in Consumers /\ side["consumer"] = consumer
        /\ Session(consumer, handed, abandoned, origin) /\ ~consumer.start
        /\ abandoned \in SUBSET Nat /\ origin \in Nat
        /\ provider.next \in 1 .. MaxSeq + 1 /\ provider.next \in Nat /\ MaxSeq \in Nat
    BY <1>7, ConsumerIs
  <2>2. r = OnFinishedSending(consumer, last)
    BY <1>3, <1>4, <1>7, <2>1 DEF OnPeer
  <2>3. last \in Nat /\ last + 1 <= provider.next
    BY <1>1, <1>2, <1>5, HeadIs
  <2>4. last + 1 \in 1 .. MaxSeq + 1
    BY ONLY <2>1, <2>3
  <2>5. Quiet(r)
    BY <1>7, <2>1, <2>2, <2>3, <2>4, FinishedSendingKeeps
  <2>6. r.s \in Consumers /\ r.send \in Seq(Message)
    BY <2>5, RepliesAre DEF Quiet, Results
  <2>7. Same(consumer, r) \/ Outcome(Cut(consumer), r)
    BY <1>7, <2>1, <2>2, <2>3, <2>4, FinishedSendingOutcome
  <2>8. Head(chan["consumer"]).kind \notin {"Application", "Retransmission"}
    BY <1>1, <1>5
  <2> QED BY <1>5, <1>7, <2>6, <2>7, <2>8, ConsumerReads
<1> QED BY <1>6, <1>7

\* on_retransmission: the binding ends, or a batch begins.
Begins(s, m, r) ==
    /\ r.open /\ r.send = <<>> /\ s.request # NoRequest
    /\ m.next = s.request.from + s.request.delivered
    /\ r.s.request # NoRequest /\ r.s.request.stamp = s.request.stamp
    /\ r.s.request.from = s.request.from /\ r.s.request.count = s.request.count
    /\ r.s.request.delivered = s.request.delivered /\ ~r.s.request.interrupted
    /\ r.s.replay.left = m.count

\* A Retransmission either ends the session or begins the batch it announces
\* (on_retransmission).
LEMMA RetransmissionOutcome ==
    ASSUME NEW s \in Consumers, NEW books, NEW gone \in SUBSET Nat, NEW start \in Nat,
           Session(s, books, gone, start), NEW m, m.next \in Nat, m.count \in Nat,
           NEW r, r = OnRetransmission(s, m)
    PROVE  Ends(r) \/ Begins(s, m, r)
<1>1. CASE \/ s.request = NoRequest \/ m.stamp # s.request.stamp
           \/ m.next # s.request.from + s.request.delivered
           \/ m.count = 0 \/ m.count > s.request.count - s.request.delivered
  <2>1. PICK why : why = "Retransmission not asked for"
    OBVIOUS
  <2>2. r = FailWith("consumer", s, "Error", why)
    BY <1>1, <2>1 DEF OnRetransmission, Violation
  <2> QED BY <2>2, FailEnds
<1>2. CASE ~(\/ s.request = NoRequest \/ m.stamp # s.request.stamp
             \/ m.next # s.request.from + s.request.delivered
             \/ m.count = 0 \/ m.count > s.request.count - s.request.delivered)
  <2>1. PICK request : request = [s.request EXCEPT !.interrupted = FALSE, !.complete = FALSE,
                                                   !.reported = FALSE]
    OBVIOUS
  <2>2. PICK t : t = [s EXCEPT !.replay = [next |-> m.next, left |-> m.count], !.resume = TRUE,
                               !.request = request]
    OBVIOUS
  <2>3. r = Result(t, <<>>)
    BY <1>2, <2>1, <2>2, Zenon DEF OnRetransmission
  <2>4. r.s = t /\ r.send = <<>> /\ r.open
    BY <2>3, Queued
  <2>5. /\ request.stamp = s.request.stamp /\ request.from = s.request.from
        /\ request.count = s.request.count /\ request.delivered = s.request.delivered
        /\ ~request.interrupted
    BY <2>1, ConsumerFields DEF Requests
  <2>6. t.request = request /\ t.replay.left = m.count
    BY <2>2 DEF Consumers
  <2>7. s.request.count # 0
    BY <1>2, ConsumerFields
  <2>8. request # NoRequest
    BY <2>5, <2>7, None
  <2> QED BY <1>2, <2>4, <2>5, <2>6, <2>8 DEF Begins
<1> QED BY <1>1, <1>2

\* on_retransmit_reject: nothing, or the next range is requested.
LEMMA RejectOutcome ==
    ASSUME NEW s \in Consumers, NEW books, NEW gone \in SUBSET Nat, NEW start \in Nat,
           Session(s, books, gone, start), NEW m, NEW r, r = OnRetransmitReject(s, m)
    PROVE  Same(s, r) \/ (r.open /\ Asks(r.s, r.send))
<1>1. CASE s.request = NoRequest \/ m.stamp # s.request.stamp
  <2>1. r = Result(s, <<>>)
    BY <1>1 DEF OnRetransmitReject
  <2> QED BY <2>1, Queued, NoAsk DEF Same
<1>2. CASE ~(s.request = NoRequest \/ m.stamp # s.request.stamp)
  <2>1. PICK more : more = s.request.from .. (s.request.from + s.request.count - 1)
    OBVIOUS
  <2>2. PICK q : q = SettleRequest(s)
    OBVIOUS
  <2>3. r = [q EXCEPT !.gone = more]
    BY <1>2, <2>1, <2>2, Zenon DEF OnRetransmitReject
  <2>4. q.open /\ Asks(q.s, q.send)
    BY <2>2, SettleAsks DEF Session
  <2>5. q \in Results
    <3>1. PICK k : k = s.request.count
      OBVIOUS
    <3>2. SettledTo(s, k, books, s.request.from .. (s.request.from + k - 1))
      <4>1. s.request.from \in Nat /\ k \in Nat
        BY <3>1, ConsumerFields
      <4>2. \A n \in Numbers : n \in Nat
        BY Constants
      <4> QED BY <3>1, <4>1, <4>2 DEF SettledTo
    <3>3. PICK all : all = s.request.from .. (s.request.from + k - 1)
      OBVIOUS
    <3> QED BY <2>2, <3>1, <3>2, <3>3, SettleKeeps DEF Quiet
  <2>6. r.s = q.s /\ r.send = q.send /\ r.open = q.open
    BY ONLY <2>3, <2>5 DEF Results
  <2> QED BY <2>4, <2>6
<1> QED BY <1>1, <1>2

\* A message of a batch: the place in the request is one further.
Further(s, t) ==
    /\ t.request # NoRequest /\ t.request.stamp = s.request.stamp
    /\ t.request.from = s.request.from /\ t.request.count = s.request.count
    /\ t.request.interrupted = s.request.interrupted /\ At(t) = At(s)
    /\ t.replay # NoReplay => t.replay.left = s.replay.left - 1

\* on_application of a batch: it goes on, or the request is complete and the
\* next range is requested.
LEMMA ReplayedOutcome ==
    ASSUME NEW s \in Consumers, NEW books \in Books, NEW gone \in SUBSET Nat,
           NEW start \in Nat, Session(s, books, gone, start),
           s.phase \in {"established", "terminating"}, ~s.start, s.replay # NoReplay,
           NEW r, r = OnReplayed(s)
    PROVE  /\ r.open
           /\ \/ Asks(r.s, r.send) /\ s.request.delivered + s.replay.left >= s.request.count
              \/ Further(s, r.s) /\ r.send = <<>>
<1>0. PICK number : number = s.replay.next
  OBVIOUS
<1>1. PICK t : t = Onward(s)
  OBVIOUS
<1>2. PICK q : q = IF t.request.delivered >= t.request.count THEN SettleRequest(t)
                   ELSE Result(t, <<>>)
  OBVIOUS
<1>3. PICK runs : runs = Ahead(s.runs, number)
  OBVIOUS
<1>4. r = [q EXCEPT !.accept = IF runs # <<>> /\ Head(runs).from <= number THEN 0 ELSE number]
  BY <1>0, <1>1, <1>2, <1>3, Zenon DEF OnReplayed, Onward, Ahead
<1>5. PICK after : after = Taken(s, books)
  OBVIOUS
<1>6. /\ t \in Consumers /\ Session(t, after, gone, start)
      /\ t.request.count = s.request.count /\ t.request.delivered = s.request.delivered + 1
      /\ s.replay.left = 1 => t.replay = NoReplay
      /\ s.replay.left # 1 => t.replay # NoReplay /\ t.replay.left = s.replay.left - 1
      /\ s.request.delivered + s.replay.left <= s.request.count /\ 1 <= s.replay.left
  <2>1. t \in Consumers /\ Session(t, after, gone, start)
    BY <1>0, <1>1, <1>5, OnwardKeeps
  <2>2. /\ t.request.count = s.request.count /\ t.request.delivered = s.request.delivered + 1
        /\ s.replay.left = 1 => t.replay = NoReplay
        /\ s.replay.left # 1 => t.replay # NoReplay /\ t.replay.left = s.replay.left - 1
        /\ s.request.delivered + s.replay.left <= s.request.count /\ 1 <= s.replay.left
    BY <1>0, <1>1, <1>5, OnwardKeeps
  <2> QED BY ONLY <2>1, <2>2
<1>7. /\ s.replay.left \in Nat /\ s.request.delivered \in Nat /\ s.request.count \in Nat
      /\ s.request.from \in Nat
  BY ConsumerFields
<1>8. CASE t.request.delivered >= t.request.count
  <2>1. q = SettleRequest(t)
    BY <1>2, <1>8
  <2>2. q.open /\ Asks(q.s, q.send)
    BY <1>6, <2>1, SettleAsks DEF Session
  <2>3. q \in Results
    <3>1. PICK k : k = t.request.count
      OBVIOUS
    <3>2. PICK more : more = {}
      OBVIOUS
    <3>3. SettledTo(t, k, after, more)
      <4>1. k \in Nat /\ t.request.delivered \in Nat /\ t.request.from \in Nat /\ Numbers \subseteq Nat
        BY <1>6, <3>1, ConsumerFields, Constants
      <4>2. \A n \in Numbers : t.request.from <= n /\ n < t.request.from + k => Delivered(t, n)
        BY ONLY <1>8, <3>1, <4>1 DEF Delivered
      <4>3. \A n \in Numbers : Delivered(t, n) => after[n] # <<>>
        BY <1>6, DeliveredAre
      <4> QED BY <3>1, <3>2, <4>2, <4>3 DEF SettledTo
    <3> QED BY <1>6, <2>1, <3>1, <3>3, SettleKeeps DEF Quiet
  <2>4. r.s = q.s /\ r.send = q.send /\ r.open = q.open
    BY ONLY <1>4, <2>3 DEF Results
  <2>5. s.request.delivered + s.replay.left >= s.request.count
    BY ONLY <1>6, <1>7, <1>8
  <2> QED BY <2>2, <2>4, <2>5
<1>9. CASE ~(t.request.delivered >= t.request.count)
  <2>1. q = Result(t, <<>>)
    BY <1>2, <1>9
  <2>2. r.s = t /\ r.send = <<>> /\ r.open
    BY ONLY <1>4, <2>1 DEF Result
  <2>3. /\ t.request.stamp = s.request.stamp /\ t.request.from = s.request.from
        /\ t.request.interrupted = s.request.interrupted
    BY <1>1, ConsumerFields DEF Onward, Consumers, Requests
  <2>4. s.request.count # 0
    BY ONLY <1>6, <1>7
  <2>5. t.request # NoRequest
    BY <1>6, <2>4, None
  <2>6. At(t) = At(s)
    <3>1. CASE s.replay.left = 1
      <4>1. t.replay.left = 0
        BY <1>6, <3>1, None
      <4> QED BY ONLY <1>6, <1>7, <2>3, <3>1, <4>1 DEF At
    <3>2. CASE s.replay.left # 1
      BY ONLY <1>6, <1>7, <2>3, <3>2 DEF At
    <3> QED BY <3>1, <3>2
  <2> QED BY <1>6, <2>2, <2>3, <2>5, <2>6 DEF Further
<1> QED BY <1>8, <1>9

\* The invariant of the flow tells what a step leaves of the consumer.
LEMMA ConsumerAfter ==
    ASSUME FlowInv, FlowInv', NEW r, NEW unread, NEW n, Carry("consumer", r, unread, n)
    PROVE  r.s \in Consumers
<1>1. PICK x \in Sides : x = "consumer"
  BY TheSides
<1>2. side'[x] = r.s
  BY <1>1, CarryIs
<1>3. side' \in [consumer : Consumers, provider : Providers]
  BY DEF FlowInv, FlowTypeOK
<1> QED BY <1>1, <1>2, <1>3

\* on_retransmission.
LEMMA ServiceRetransmission == FlowInv /\ ServiceInv /\ ReceiveRetransmission => ServiceInv'
<1> SUFFICES ASSUME FlowInv, ServiceInv, ReceiveRetransmission PROVE ServiceInv'
  OBVIOUS
<1>1. PICK m : m = Head(chan["consumer"])
  OBVIOUS
<1>2. PICK handled : handled = OnRetransmission(consumer, m)
  OBVIOUS
<1>3. PICK r : r = OnPeer("consumer", handled)
  OBVIOUS
<1>4. /\ up["consumer"] /\ chan["consumer"] # <<>> /\ m.kind = "Retransmission"
      /\ Carry("consumer", r, Tail(chan["consumer"]), 0)
  BY <1>1, <1>2, <1>3 DEF ReceiveRetransmission, Arrives, Hears
<1>5. CASE consumer.phase \notin {"established", "terminating"}
  BY <1>3, <1>4, <1>5, ConsumerIgnored
<1>6. CASE consumer.phase \in {"established", "terminating"}
  <2>1. /\ consumer \in Consumers /\ side["consumer"] = consumer
        /\ Session(consumer, handed, abandoned, origin) /\ ~consumer.start
        /\ abandoned \in SUBSET Nat /\ origin \in Nat
    BY <1>6, ConsumerIs
  <2>2. r = OnRetransmission(consumer, m)
    BY <1>2, <1>3, <1>6, <2>1 DEF OnPeer
  <2>3. m.next \in Nat /\ m.count \in Nat
    BY <1>1, <1>4, HeadIs
  <2>4. Quiet(r)
    BY <1>6, <2>1, <2>2, <2>3, RetransmissionKeeps
  <2>5. r.s \in Consumers /\ r.send \in Seq(Message)
    BY <2>4, RepliesAre DEF Quiet, Results
  <2>6. Ends(r) \/ Begins(consumer, m, r)
    BY <2>1, <2>2, <2>3, RetransmissionOutcome
  <2>7. Reads(chan["consumer"], Tail(chan["consumer"]))
    BY <1>4 DEF Reads
  <2>8. CASE Ends(r)
    BY <1>4, <2>5, <2>7, <2>8, ConsumerLetsGo DEF Ends
  <2>9. CASE Begins(consumer, m, r)
    <3>1. PICK u \in Seq(Message), w \in Seq(Message) : u = chan["consumer"] /\ w = chan["provider"]
      BY ServedIs
    <3>2. PICK s \in Consumers, t \in Consumers : s = consumer /\ t = r.s
      BY <2>1, <2>5
    <3>3. PICK p \in Providers : p = provider
      BY ServedIs
    <3>4. PICK on, still : (on <=> Asking(consumer, up["consumer"])) /\ (still <=> Asking(r.s, r.open))
      OBVIOUS
    <3>5. Served(s, p, u, w, on)
      BY <3>1, <3>2, <3>3, <3>4, ServedIs DEF Served
    <3>6. Begins(s, m, r) /\ t = r.s /\ u # <<>> /\ m = Head(u) /\ m.kind = "Retransmission"
      BY <1>1, <1>4, <2>9, <3>1, <3>2
    <3>7. Served(t, p, Tail(u), w, still)
      <4>1. /\ s.request # NoRequest /\ m.next = s.request.from + s.request.delivered
            /\ t.request # NoRequest /\ t.request.stamp = s.request.stamp
            /\ t.request.from = s.request.from /\ t.request.count = s.request.count
            /\ t.request.delivered = s.request.delivered /\ ~t.request.interrupted
            /\ t.replay.left = m.count
        BY <3>6 DEF Begins
      <4> QED BY ONLY <3>1, <3>2, <3>3, <3>5, <3>6, <4>1, ConsumerBegins
    <3>8. r.open /\ w \o r.send = w
      BY <2>9, <3>1 DEF Begins
    <3>9. Served(r.s, provider, Tail(chan["consumer"]), chan["provider"], Asking(r.s, r.open))
      BY <3>1, <3>2, <3>3, <3>4, <3>7 DEF Served
    <3> QED BY <1>4, <3>1, <3>8, <3>9, ConsumerMoves
  <2> QED BY <2>6, <2>8, <2>9
<1> QED BY <1>5, <1>6

\* on_retransmit_reject.
LEMMA ServiceReject == FlowInv /\ ServiceInv /\ ReceiveRetransmitReject => ServiceInv'
<1> SUFFICES ASSUME FlowInv, ServiceInv, ReceiveRetransmitReject PROVE ServiceInv'
  OBVIOUS
<1>1. PICK m : m = Head(chan["consumer"])
  OBVIOUS
<1>2. PICK handled : handled = OnRetransmitReject(consumer, m)
  OBVIOUS
<1>3. PICK r : r = OnPeer("consumer", handled)
  OBVIOUS
<1>4. /\ up["consumer"] /\ chan["consumer"] # <<>> /\ m.kind = "RetransmitReject"
      /\ Carry("consumer", r, Tail(chan["consumer"]), 0)
  BY <1>1, <1>2, <1>3 DEF ReceiveRetransmitReject, Arrives, Hears
<1>5. CASE consumer.phase \notin {"established", "terminating"}
  BY <1>3, <1>4, <1>5, ConsumerIgnored
<1>6. CASE consumer.phase \in {"established", "terminating"}
  <2>1. /\ consumer \in Consumers /\ side["consumer"] = consumer
        /\ Session(consumer, handed, abandoned, origin) /\ ~consumer.start
        /\ abandoned \in SUBSET Nat /\ origin \in Nat
    BY <1>6, ConsumerIs
  <2>2. r = OnRetransmitReject(consumer, m)
    BY <1>2, <1>3, <1>6, <2>1 DEF OnPeer
  <2>3. r \in Results
    BY <2>1, <2>2, RejectKeeps
  <2>4. r.s \in Consumers /\ r.send \in Seq(Message)
    BY <2>3, RepliesAre DEF Results
  <2>5. Same(consumer, r) \/ (r.open /\ Asks(r.s, r.send))
    BY <2>1, <2>2, RejectOutcome
  <2>6. Reads(chan["consumer"], Tail(chan["consumer"]))
    BY <1>4 DEF Reads
  <2>7. CASE Same(consumer, r)
    <3>1. Alike(consumer, r.s)
      BY <2>7 DEF Same, Alike
    <3>2. Head(chan["consumer"]).kind \notin {"Retransmission", "Application"}
      BY <1>1, <1>4
    <3> QED BY <1>4, <1>6, <2>4, <2>6, <2>7, <3>1, <3>2, ConsumerStays DEF Same
  <2>8. CASE r.open /\ Asks(r.s, r.send)
    <3>1. PICK u \in Seq(Message), w \in Seq(Message) : u = chan["consumer"] /\ w = chan["provider"]
      BY ServedIs
    <3>2. PICK s : s = consumer
      OBVIOUS
    <3>3. PICK on : on <=> Asking(consumer, up["consumer"])
      OBVIOUS
    <3>4. Served(s, provider, u, w, on) /\ u # <<>> /\ Head(u).kind = "RetransmitReject"
      BY <1>1, <1>4, <3>1, <3>2, <3>3, ServedIs DEF Served
    <3>5. Idle(provider, w) /\ Rest(Tail(u))
      BY ONLY <3>1, <3>4, RefusedMeansIdle
    <3>6. Tail(chan["consumer"]) \in Seq(Message)
      BY <1>4, HeadIs
    <3> QED BY <1>4, <2>4, <2>8, <3>1, <3>5, <3>6, ConsumerAsksAgain
  <2> QED BY <2>5, <2>7, <2>8
<1> QED BY <1>5, <1>6

\* A message of the batch the consumer is in.
LEMMA ConsumerReplays ==
    ASSUME FlowInv, ServiceInv, up["consumer"], chan["consumer"] # <<>>,
           consumer.phase \in {"established", "terminating"}, consumer.replay # NoReplay,
           Head(chan["consumer"]).kind = "Application",
           NEW r, r = OnReplayed(consumer), NEW n, Carry("consumer", r, Tail(chan["consumer"]), n)
    PROVE  ServiceInv'
<1>1. /\ consumer \in Consumers /\ Session(consumer, handed, abandoned, origin) /\ ~consumer.start
      /\ abandoned \in SUBSET Nat /\ origin \in Nat /\ handed \in Books
  BY ConsumerIs, SidesHave
<1>2. PICK after : after = Taken(consumer, handed)
  OBVIOUS
<1>3. r \in Results
  BY <1>1, <1>2, ReplayedKeeps
<1>4. r.s \in Consumers /\ r.send \in Seq(Message)
  BY <1>3, RepliesAre DEF Results
<1>5. PICK u \in Seq(Message), w \in Seq(Message) : u = chan["consumer"] /\ w = chan["provider"]
  BY ServedIs
<1>6. PICK s \in Consumers, t \in Consumers : s = consumer /\ t = r.s
  BY <1>1, <1>4
<1>7. PICK p \in Providers : p = provider
  BY ServedIs
<1>8. PICK on, still : (on <=> Asking(consumer, up["consumer"])) /\ (still <=> Asking(r.s, r.open))
  OBVIOUS
<1>9. /\ Served(s, p, u, w, on) /\ RequestOK(s) /\ s.replay # NoReplay /\ u # <<>>
      /\ Head(u).kind = "Application" /\ s.request # NoRequest
  BY <1>5, <1>6, <1>7, <1>8, ServedIs DEF Served, RequestOK
<1>10. /\ r.open
       /\ \/ Asks(r.s, r.send) /\ s.request.delivered + s.replay.left >= s.request.count
          \/ Further(s, r.s) /\ r.send = <<>>
  BY <1>1, <1>6, ReplayedOutcome
<1>11. Tail(u) \in Seq(Message)
  BY <1>5, HeadIs
<1>12. CASE Asks(r.s, r.send) /\ s.request.delivered + s.replay.left >= s.request.count
  <2>1. Idle(p, w) /\ Rest(u)
    BY ONLY <1>5, <1>6, <1>7, <1>9, <1>12, DeliveredMeansIdle
  <2>2. Rest(Tail(u))
    BY <1>9, <2>1, RestIs
  <2> QED BY <1>4, <1>5, <1>7, <1>10, <1>11, <1>12, <2>1, <2>2, ConsumerAsksAgain
<1>13. CASE Further(s, r.s) /\ r.send = <<>>
  <2>1. Keeping(s, t, p, u, Tail(u))
    <3>1. ASSUME t.replay # NoReplay
          PROVE  Full(Tail(u), 1, t.replay.left) \/ (p.serving = NoService /\ Rest(Tail(u)))
      <4>1. Full(u, 1, s.replay.left) \/ (p.serving = NoService /\ Rest(u))
        BY <1>9 DEF Served, Pending, CutShort
      <4>2. PICK left \in Nat \ {0} : left = s.replay.left
        BY <1>9, ConsumerFields DEF RequestOK
      <4>3. t.replay.left = left - 1
        BY <1>6, <1>13, <3>1, <4>2 DEF Further
      <4>4. CASE Full(u, 1, left)
        <5>1. PICK one \in Nat \ {0} : one = 1
          OBVIOUS
        <5>2. left \in Nat /\ left > 0
          BY <4>2
        <5> QED BY <1>9, <4>3, <4>4, <5>1, <5>2, FullIs
      <4>5. CASE p.serving = NoService /\ Rest(u)
        BY <1>9, <4>5, RestIs
      <4> QED BY <4>1, <4>2, <4>4, <4>5
    <3> QED BY <1>6, <1>9, <1>13, <3>1 DEF Keeping, Further
  <2>2. PICK v \in Seq(Message) : v = <<>>
    BY NoAsk
  <2>3. Unasked(v) /\ (still => on)
    <3>1. Asking(consumer, up["consumer"])
      BY DEF Asking
    <3> QED BY <1>8, <2>2, <3>1, NoAsk
  <2>4. PICK left \in Seq(Message) : left = Tail(u)
    BY <1>11
  <2>5. ASSUME NEW x \in {chan["provider"], chan["provider"] \o r.send}
        PROVE  Served(r.s, provider, Tail(chan["consumer"]), x, Asking(r.s, r.open))
    <3>1. (x = w \/ x = w \o v) /\ Keeping(s, t, p, u, left)
      BY <1>5, <1>13, <2>1, <2>2, <2>4, <2>5
    <3>2. Served(t, p, left, x, still)
      BY ONLY <1>5, <1>6, <1>7, <1>9, <2>2, <2>3, <2>4, <3>1, ConsumerGoesOn
    <3> QED BY <1>5, <1>6, <1>7, <1>8, <2>4, <3>2 DEF Served
  <2> QED BY <1>10, <2>5, ConsumerMoves
<1> QED BY <1>10, <1>12, <1>13

\* on_application.
LEMMA ServiceApplication == FlowInv /\ ServiceInv /\ ReceiveApplication => ServiceInv'
<1> SUFFICES ASSUME FlowInv, ServiceInv, ReceiveApplication PROVE ServiceInv'
  OBVIOUS
<1>1. PICK m : m = Head(chan["consumer"])
  OBVIOUS
<1>2. PICK n : n = m.n
  OBVIOUS
<1>3. PICK handled : handled = OnApplication(consumer)
  OBVIOUS
<1>4. PICK r : r = OnPeer("consumer", handled)
  OBVIOUS
<1>5. /\ up["consumer"] /\ chan["consumer"] # <<>> /\ m.kind = "Application"
      /\ Carry("consumer", r, Tail(chan["consumer"]), n)
  BY <1>1, <1>2, <1>3, <1>4 DEF ReceiveApplication, Arrives
<1>6. CASE consumer.phase \notin {"established", "terminating"}
  BY <1>4, <1>5, <1>6, ConsumerIgnored
<1>7. CASE consumer.phase \in {"established", "terminating"}
  <2>1. /\ consumer \in Consumers /\ side["consumer"] = consumer
        /\ Session(consumer, handed, abandoned, origin)
        /\ abandoned \in SUBSET Nat /\ origin \in Nat
    BY <1>7, ConsumerIs
  <2>2. r = OnApplication(consumer)
    BY <1>3, <1>4, <1>7, <2>1 DEF OnPeer
  <2>3. Reads(chan["consumer"], Tail(chan["consumer"]))
    BY <1>5 DEF Reads
  <2>4. r.s \in Consumers
    <3>1. FlowInv'
      BY ReceiveApplicationStep
    <3> QED BY <1>5, <3>1, ConsumerAfter
  <2>5. ASSUME NEW why \in Verdicts, r = FailWith("consumer", consumer, "Error", why)
        PROVE  ServiceInv'
    <3>1. Quiet(r) /\ ~r.open
      BY <2>1, <2>5, FailKeeps
    <3>2. r.send \in Seq(Message)
      BY <3>1, RepliesAre DEF Quiet, Results
    <3>3. Ends(r)
      BY <2>1, <2>5, FailEnds
    <3> QED BY <1>5, <2>3, <3>2, <3>3, ConsumerLetsGo DEF Ends
  <2>6. CASE consumer.replay # NoReplay
    <3>1. r = OnReplayed(consumer)
      BY <2>2, <2>6 DEF OnApplication
    <3>2. Head(chan["consumer"]).kind = "Application"
      BY <1>1, <1>5
    <3> QED BY <1>5, <1>7, <2>6, <3>1, <3>2, ConsumerReplays
  <2>7. CASE consumer.replay = NoReplay /\ consumer.finished # NotFinished
    <3>1. PICK why \in Verdicts : why = "after FinishedSending"
      BY DEF Verdicts
    <3>2. r = FailWith("consumer", consumer, "Error", why)
      BY <2>2, <2>7, <3>1 DEF OnApplication, Violation
    <3> QED BY <2>5, <3>2
  <2>8. CASE consumer.replay = NoReplay /\ consumer.finished = NotFinished /\ consumer.resume
    <3>1. PICK why \in Verdicts : why = "no Sequence after a retransmission"
      BY DEF Verdicts
    <3>2. r = FailWith("consumer", consumer, "Error", why)
      BY <2>2, <2>8, <3>1 DEF OnApplication, Violation
    <3> QED BY <2>5, <3>2
  <2>9. CASE consumer.replay = NoReplay /\ consumer.finished = NotFinished /\ ~consumer.resume
    <3>1. PICK t : t = Counted(consumer)
      OBVIOUS
    <3>2. r = [Result(t, <<>>) EXCEPT !.accept = consumer.next]
      BY <2>2, <2>9, <3>1 DEF OnApplication, Counted
    <3>3. r.s = t /\ r.send = <<>> /\ r.open
      BY ONLY <3>2 DEF Result
    <3>4. t.request = consumer.request /\ t.replay = consumer.replay
      BY <2>1, <3>1 DEF Counted, Consumers
    <3>5. Alike(consumer, r.s)
      BY <3>3, <3>4 DEF Alike
    <3>6. Head(chan["consumer"]).kind # "Retransmission"
      BY <1>1, <1>5
    <3> QED BY <1>5, <1>7, <2>3, <2>4, <2>9, <3>3, <3>5, <3>6, NoAsk, ConsumerStays
  <2> QED BY <2>6, <2>7, <2>8, <2>9
<1> QED BY <1>6, <1>7

\* on_timeout of a request that stalls.
LEMMA ServiceStall ==
    Policy # "ReRequestAfterBatch" => (FlowInv /\ ServiceInv /\ Stall => ServiceInv')
<1> SUFFICES ASSUME Policy # "ReRequestAfterBatch", FlowInv, ServiceInv, Stall PROVE ServiceInv'
  OBVIOUS
<1>1. /\ consumer \in Consumers /\ side["consumer"] = consumer
      /\ Session(consumer, handed, abandoned, origin)
      /\ GapsOK(consumer) /\ RunsOK(consumer) /\ RequestOK(consumer)
      /\ abandoned \in SUBSET Nat /\ origin \in Nat /\ "established" \in Busy
  BY ConsumerIs, ServedIs
<1>2. PICK r : r = OnStall(consumer)
  OBVIOUS
<1>3. /\ consumer.phase = "established" /\ consumer.request # NoRequest
      /\ Carry("consumer", r, chan["consumer"], 0)
  BY <1>1, <1>2 DEF Stall, Established, Does
<1>4. up["consumer"]
  BY <1>1, <1>3, BoundHolds, TheSides
<1>5. Quiet(r)
  BY <1>1, <1>2, <1>3, StallKeeps
<1>6. r.s \in Consumers /\ r.send \in Seq(Message)
  BY <1>5, RepliesAre DEF Quiet, Results
<1>7. Reads(chan["consumer"], chan["consumer"])
  BY DEF Reads
<1>8. CASE Policy = "Terminate"
  <2>1. PICK why : why = "none"
    OBVIOUS
  <2>2. r = FailWith("consumer", consumer, "Error", why)
    BY <1>2, <1>8, <2>1 DEF OnStall
  <2>3. Ends(r)
    BY <1>1, <2>2, FailEnds
  <2> QED BY <1>3, <1>4, <1>6, <1>7, <2>3, ConsumerLetsGo DEF Ends
<1>9. CASE Policy # "Terminate"
  <2>1. /\ r.open
        /\ \/ consumer.request.interrupted /\ Asks(r.s, r.send)
           \/ Unasked(r.send) /\ Alike(consumer, r.s)
    BY <1>1, <1>2, <1>3, <1>9, StallOutcome
  <2>2. CASE consumer.request.interrupted /\ Asks(r.s, r.send)
    <3>1. Idle(provider, chan["provider"]) /\ Rest(chan["consumer"])
      BY <1>3, <2>2, ServedIs DEF Served, Pending, CutShort
    <3>2. chan["consumer"] \in Seq(Message)
      BY ServedIs
    <3> QED BY <1>3, <1>4, <1>6, <2>1, <2>2, <3>1, <3>2, ConsumerAsksAgain
  <2>3. CASE Unasked(r.send) /\ Alike(consumer, r.s)
    BY <1>3, <1>4, <1>6, <1>7, <2>1, <2>3, ConsumerStays
  <2> QED BY <2>1, <2>2, <2>3
<1> QED BY <1>8, <1>9

\* terminate.
LEMMA ServiceTerminates ==
    ASSUME FlowInv, ServiceInv, Terminate("consumer")
    PROVE  ServiceInv'
<1>1. /\ consumer \in Consumers /\ side["consumer"] = consumer /\ "established" \in Busy
  BY ConsumerIs
<1>2. PICK u : u = [consumer EXCEPT !.phase = "terminating"]
  OBVIOUS
<1>3. PICK send \in Seq(Replies) : send = <<TerminateMsg("Finished")>>
  BY ConsumerSends
<1>4. PICK r : r = Result(u, send)
  OBVIOUS
<1>5. consumer.phase = "established" /\ Carry("consumer", r, chan["consumer"], 0)
  BY <1>1, <1>2, <1>3, <1>4, TheSides DEF Terminate, Established, Does
<1>6. up["consumer"]
  BY <1>1, <1>5, BoundHolds, TheSides
<1>7. u \in Consumers /\ u.request = consumer.request /\ u.replay = consumer.replay
  BY <1>1, <1>2 DEF Consumers, Phases
<1>8. r.s = u /\ r.send = send /\ r.open
  BY <1>4, Queued
<1>9. Alike(consumer, r.s) /\ Reads(chan["consumer"], chan["consumer"])
  BY <1>7, <1>8 DEF Alike, Reads
<1>10. r.send \in Seq(Message) /\ Unasked(r.send)
  <2>1. TerminateMsg("Finished") \in Message /\ TerminateMsg("Finished").kind # "RetransmitRequest"
    BY DEF TerminateMsg, Message, Codes
  <2> QED BY <1>3, <1>8, <2>1, NoAsk
<1> QED BY <1>5, <1>6, <1>7, <1>8, <1>9, <1>10, ConsumerStays

\* release_binding_state and the end of the binding.
LEMMA UnboundAsksNot ==
    ASSUME NEW s \in Consumers, NEW books, NEW gone \in SUBSET Nat, NEW start \in Nat,
           Session(s, books, gone, start)
    PROVE  /\ Unbound("consumer", ReleaseConsumer(s)).request = NoRequest
           /\ Unbound("consumer", ReleaseConsumer(s)).replay = NoReplay
<1>1. PICK t : t = ReleaseConsumer(s)
  OBVIOUS
<1>2. t \in Consumers /\ t.request = NoRequest /\ t.replay = NoReplay
  BY <1>1, ReleaseKeeps
<1> QED BY <1>1, <1>2 DEF Unbound, Consumers

\* terminate with an error, and the timeout of a binding that is ending.
LEMMA ServiceGivesUp ==
    ASSUME FlowInv, ServiceInv, TerminateOnError("consumer") \/ UnbindTimeout("consumer")
    PROVE  ServiceInv'
<1>1. /\ consumer \in Consumers /\ side["consumer"] = consumer
      /\ Session(consumer, handed, abandoned, origin)
      /\ abandoned \in SUBSET Nat /\ origin \in Nat
      /\ {"established", "terminating", "closing", "pending"} = Busy
  BY ConsumerIs
<1>2. up["consumer"] /\ Reads(chan["consumer"], chan["consumer"])
  BY <1>1, BoundHolds, TheSides DEF TerminateOnError, UnbindTimeout, Established, Reads
<1>3. CASE TerminateOnError("consumer")
  <2>1. PICK why \in Verdicts : why = "none"
    BY DEF Verdicts
  <2>2. PICK r : r = FailWith("consumer", consumer, "Error", why)
    OBVIOUS
  <2>3. Carry("consumer", r, chan["consumer"], 0)
    BY <1>1, <1>3, <2>1, <2>2 DEF TerminateOnError, Does, Established
  <2>4. Quiet(r)
    BY <1>1, <2>2, FailKeeps
  <2>5. r.send \in Seq(Message)
    BY <2>4, RepliesAre DEF Quiet, Results
  <2>6. Ends(r)
    BY <1>1, <2>2, FailEnds
  <2> QED BY <1>2, <2>3, <2>5, <2>6, ConsumerLetsGo DEF Ends
<1>4. CASE UnbindTimeout("consumer")
  <2>1. PICK u : u = Unbound("consumer", ReleaseConsumer(consumer))
    OBVIOUS
  <2>2. PICK r : r = [Result(u, <<>>) EXCEPT !.open = FALSE]
    OBVIOUS
  <2>3. Carry("consumer", r, chan["consumer"], 0)
    BY <1>1, <1>4, <2>1, <2>2 DEF UnbindTimeout, Does, Release
  <2>4. r.s = u /\ r.send = <<>> /\ ~r.open
    BY ONLY <2>2 DEF Result
  <2>5. u.request = NoRequest
    BY <1>1, <2>1, UnboundAsksNot
  <2> QED BY <1>2, <2>3, <2>4, <2>5, NoAsk, ConsumerLetsGo
<1> QED BY <1>3, <1>4

\* on_terminate.
LEMMA ServiceHearsTerminate ==
    ASSUME FlowInv, ServiceInv, ReceiveTerminate("consumer")
    PROVE  ServiceInv'
<1>1. /\ consumer \in Consumers /\ side["consumer"] = consumer
      /\ Session(consumer, handed, abandoned, origin)
      /\ abandoned \in SUBSET Nat /\ origin \in Nat
  BY ConsumerIs
<1>2. up["consumer"] /\ chan["consumer"] # <<>> /\ Reads(chan["consumer"], Tail(chan["consumer"]))
  BY DEF ReceiveTerminate, Arrives, Reads
<1>3. CASE consumer.phase \in {"negotiated", "establishing", "pending"}
  <2>1. PICK u : u = Unbound("consumer", consumer)
    OBVIOUS
  <2>2. PICK r : r = [Result(u, <<>>) EXCEPT !.open = FALSE]
    OBVIOUS
  <2>3. Carry("consumer", r, Tail(chan["consumer"]), 0)
    BY <1>1, <1>3, <2>1, <2>2 DEF ReceiveTerminate, Hears
  <2>4. r.s = u /\ r.send = <<>> /\ ~r.open
    BY ONLY <2>2 DEF Result
  <2>5. u.request = NoRequest
    <3>1. consumer.request = NoRequest
      BY <1>3, ServedIs
    <3> QED BY <1>1, <2>1, <3>1 DEF Unbound, Consumers
  <2> QED BY <1>2, <2>3, <2>4, <2>5, NoAsk, ConsumerLetsGo
<1>4. CASE consumer.phase \notin {"negotiated", "establishing", "pending"}
  <2>1. PICK m : m = Head(chan["consumer"])
    OBVIOUS
  <2>2. PICK handled : handled = OnTerminate("consumer", consumer, m)
    OBVIOUS
  <2>3. PICK r : r = OnPeer("consumer", handled)
    OBVIOUS
  <2>4. Carry("consumer", r, Tail(chan["consumer"]), 0)
    BY <1>1, <1>4, <2>1, <2>2, <2>3 DEF ReceiveTerminate, Hears
  <2>5. CASE consumer.phase \notin {"established", "terminating"}
    BY <1>2, <2>3, <2>4, <2>5, ConsumerIgnored
  <2>6. CASE consumer.phase \in {"established", "terminating"}
    <3>1. r = OnTerminate("consumer", consumer, m)
      BY <1>1, <2>2, <2>3, <2>6 DEF OnPeer
    <3>2. PICK c : c = ReleaseConsumer(consumer)
      OBVIOUS
    <3>3. c \in Consumers /\ c.request = NoRequest /\ c.replay = NoReplay
      BY <1>1, <3>2, ReleaseKeeps
    <3>4. PICK t : t = [c EXCEPT !.finalized = @ \/ (consumer.finished.answered /\ m.code = "Finished")]
      OBVIOUS
    <3>5. t.request = NoRequest /\ t.replay = NoReplay
      BY <3>3, <3>4 DEF Consumers
    <3>6. CASE consumer.phase = "terminating"
      <4>1. r = [Result(Unbound("consumer", t), <<>>) EXCEPT !.open = FALSE]
        BY <3>1, <3>2, <3>4, <3>6 DEF OnTerminate, Release
      <4>2. r.s = Unbound("consumer", t) /\ r.send = <<>> /\ ~r.open
        BY ONLY <4>1 DEF Result
      <4>3. Unbound("consumer", t).request = NoRequest
        BY <3>3, <3>4, <3>5 DEF Unbound, Consumers
      <4> QED BY <1>2, <2>4, <4>2, <4>3, NoAsk, ConsumerLetsGo
    <3>7. CASE consumer.phase # "terminating"
      <4>1. r = Result([t EXCEPT !.phase = "closing"], <<TerminateMsg("Finished")>>)
        BY <3>1, <3>2, <3>4, <3>7 DEF OnTerminate, Release
      <4>2. r.s = [t EXCEPT !.phase = "closing"] /\ r.send = <<TerminateMsg("Finished")>> /\ r.open
        BY ONLY <4>1 DEF Result
      <4>3. r.s.request = NoRequest /\ r.s.phase = "closing"
        BY <3>3, <3>4, <3>5, <4>2 DEF Consumers
      <4>4. r.send \in Seq(Message) /\ Unasked(r.send)
        <5>1. /\ TerminateMsg("Finished") \in Message
              /\ TerminateMsg("Finished").kind # "RetransmitRequest"
          BY DEF TerminateMsg, Message, Codes
        <5> QED BY <4>2, <5>1, NoAsk
      <4> QED BY <1>2, <2>4, <4>3, <4>4, ConsumerLetsGo
    <3> QED BY <3>6, <3>7
  <2> QED BY <2>5, <2>6
<1> QED BY <1>3, <1>4

\* on_transport_closed.
LEMMA ServiceConsumerCloses ==
    ASSUME FlowInv, ServiceInv, TransportClosed("consumer")
    PROVE  ServiceInv'
<1>1. /\ consumer \in Consumers /\ side["consumer"] = consumer
      /\ Session(consumer, handed, abandoned, origin)
      /\ abandoned \in SUBSET Nat /\ origin \in Nat
  BY ConsumerIs
<1>2. PICK u : u = IF Bound("consumer") THEN Unbound("consumer", ReleaseConsumer(consumer))
                   ELSE IF consumer.phase \in {"establishing", "pending"}
                        THEN [consumer EXCEPT !.phase = "negotiated"] ELSE consumer
  OBVIOUS
<1>3. Bound("consumer") <=> consumer.phase \in {"established", "terminating", "closing"}
  BY <1>1 DEF Bound
<1>4. up["consumer"] /\ (u.start = consumer.start => Closes("consumer", u))
  <2>1. side \in [consumer : Consumers, provider : Providers]
    BY DEF FlowInv, FlowTypeOK
  <2> QED BY <1>1, <1>2, <2>1 DEF TransportClosed, Release, Closes
<1>5. u.start = consumer.start /\ u.request = NoRequest
  <2>1. CASE Bound("consumer")
    <3>1. u = Unbound("consumer", ReleaseConsumer(consumer))
      BY <1>2, <2>1
    <3>2. u.start = consumer.start
      BY <1>1, <3>1, UnboundKeeps
    <3> QED BY <1>1, <3>1, <3>2, UnboundAsksNot
  <2>2. CASE ~Bound("consumer")
    <3>1. consumer.request = NoRequest
      BY <1>3, <2>2, ServedIs
    <3> QED BY <1>1, <1>2, <2>2, <3>1 DEF Consumers
  <2> QED BY <2>1, <2>2
<1>6. PICK r : r = Shut(u)
  OBVIOUS
<1>7. Carry("consumer", r, chan["consumer"], 0) /\ r.s = u /\ r.send = <<>> /\ ~r.open
  <2>1. PICK x \in Sides : x = "consumer"
    BY TheSides
  <2>2. Closes(x, u)
    BY <1>4, <1>5, <2>1
  <2>3. Carry(x, r, chan[x], 0) /\ r.s = u /\ r.send = <<>> /\ ~r.open
    BY ONLY FlowInv, <1>6, <2>2, ClosedIs, x \in Sides
  <2> QED BY <2>1, <2>3
<1>8. Reads(chan["consumer"], chan["consumer"])
  BY DEF Reads
<1> QED BY <1>4, <1>5, <1>7, <1>8, NoAsk, ConsumerLetsGo

\* handle_timeout while no session is bound.
LEMMA ServiceConsumerTimeout ==
    ASSUME FlowInv, ServiceInv, HandshakeTimeout("consumer")
    PROVE  ServiceInv'
<1>1. consumer \in Consumers /\ side["consumer"] = consumer
  BY ConsumerIs
<1>2. PICK u : u = Unbound("consumer", [consumer EXCEPT !.announced = 0])
  OBVIOUS
<1>3. PICK send : send = IF consumer.phase = "pending" THEN <<EstablishReject("Unspecified")>> ELSE <<>>
  OBVIOUS
<1>4. PICK r : r = [Result(u, send) EXCEPT !.open = FALSE]
  OBVIOUS
<1>5. /\ up["consumer"] /\ consumer.phase \in {"establishing", "negotiated", "pending"}
      /\ Carry("consumer", r, chan["consumer"], 0)
  BY <1>1, <1>2, <1>3, <1>4 DEF HandshakeTimeout, Does
<1>6. r.s = u /\ r.send = send /\ ~r.open
  BY ONLY <1>4 DEF Result
<1>7. u.request = NoRequest
  <2>1. consumer.request = NoRequest
    BY <1>5, ServedIs
  <2> QED BY <1>1, <1>2, <2>1 DEF Unbound, Consumers
<1>8. send \in Seq(Message) /\ Unasked(send)
  <2>1. /\ EstablishReject("Unspecified") \in Message
        /\ EstablishReject("Unspecified").kind # "RetransmitRequest"
    BY DEF EstablishReject, Message, Codes
  <2> QED BY <1>3, <2>1, NoAsk
<1>9. Reads(chan["consumer"], chan["consumer"])
  BY DEF Reads
<1> QED BY <1>5, <1>6, <1>7, <1>8, <1>9, ConsumerLetsGo

\* A message of the handshake that the consumer takes no notice of.
LEMMA ConsumerPassesOn ==
    ASSUME FlowInv, ServiceInv, up["consumer"], chan["consumer"] # <<>>,
           Head(chan["consumer"]).kind \notin {"Application", "Retransmission"},
           NEW r, r = Result(consumer, <<>>), Carry("consumer", r, Tail(chan["consumer"]), 0)
    PROVE  ServiceInv'
<1>1. r.s = consumer /\ r.send = <<>> /\ r.open
  BY Queued
<1>2. Alike(consumer, r.s)
  BY <1>1 DEF Alike
<1>3. Reads(chan["consumer"], Tail(chan["consumer"]))
  BY DEF Reads
<1> QED BY <1>1, <1>2, <1>3, NoAsk, ServedIs, ConsumerStays

\* establish, by a consumer that is the client.
LEMMA ServiceEstablishes ==
    ASSUME FlowInv, ServiceInv, Client = "consumer", Establish
    PROVE  ServiceInv'
<1>1. consumer \in Consumers /\ side["consumer"] = consumer
  BY ConsumerIs
<1>2. PICK m : m = [kind |-> "Establish", next |-> 0]
  OBVIOUS
<1>3. PICK r : r = Result([consumer EXCEPT !.phase = "establishing"], <<m>>)
  OBVIOUS
<1>4. up["consumer"] /\ consumer.phase = "negotiated" /\ Carry("consumer", r, chan["consumer"], 0)
  BY <1>1, <1>2, <1>3 DEF Establish, Does, AnnouncedNextSeq
<1>5. r.s = [consumer EXCEPT !.phase = "establishing"] /\ r.send = <<m>> /\ r.open
  BY <1>3, Queued
<1>6. r.s \in Consumers /\ r.s.request = NoRequest /\ r.s.replay = NoReplay
  <2>1. consumer.request = NoRequest /\ consumer.replay = NoReplay
    BY <1>4, ServedIs
  <2> QED BY <1>1, <1>5, <2>1 DEF Consumers, Phases
<1>7. r.send \in Seq(Message) /\ Unasked(r.send)
  <2>1. m \in Message /\ m.kind # "RetransmitRequest"
    BY <1>2 DEF Message
  <2> QED BY <1>5, <2>1, NoAsk
<1>8. Reads(chan["consumer"], chan["consumer"])
  BY DEF Reads
<1> QED BY <1>4, <1>5, <1>6, <1>7, <1>8, ConsumerUnbound

\* A consumer that is bound: nothing is said of a request, and it may ask.
LEMMA ConsumerBound ==
    ASSUME FlowInv, ServiceInv, up["consumer"],
           consumer.phase \in {"negotiated", "establishing", "pending"},
           NEW r, NEW unread \in Seq(Message), Reads(chan["consumer"], unread),
           Carry("consumer", r, unread, 0), r.s \in Consumers, r.send \in Seq(Message),
           Ends(r) \/ (r.open /\ Asks(r.s, r.send))
    PROVE  ServiceInv'
<1>1. CASE Ends(r)
  BY <1>1, ConsumerLetsGo DEF Ends
<1>2. CASE r.open /\ Asks(r.s, r.send)
  <2>1. consumer.request = NoRequest /\ Asking(consumer, up["consumer"])
    BY ServedIs DEF Asking
  <2>2. Idle(provider, chan["provider"]) /\ Rest(chan["consumer"])
    BY <2>1, ServedIs DEF Served
  <2>3. Rest(unread)
    BY <2>2, ServedIs, RestIs DEF Reads
  <2> QED BY <1>2, <2>2, <2>3, ConsumerAsksAgain
<1> QED BY <1>1, <1>2

\* bind and on_established of the consumer.
LEMMA BoundOutcome ==
    ASSUME FlowInv, NEW next \in Nat, 1 <= next, next <= provider.next,
           NEW u, u = Bind("consumer", consumer), NEW q, q = OnEstablished("consumer", u, next)
    PROVE  /\ u \in Consumers /\ u.request = NoRequest /\ u.replay = NoReplay
           /\ Quiet(q) /\ (Ends(q) \/ (q.open /\ Asks(q.s, q.send)))
<1>1. /\ consumer \in Consumers /\ Session(consumer, handed, abandoned, origin)
      /\ abandoned \in SUBSET Nat /\ origin \in Nat
      /\ provider.next \in 1 .. MaxSeq + 1 /\ provider.next \in Nat /\ MaxSeq \in Nat
  BY ConsumerIs
<1>2. /\ u \in Consumers /\ Session(u, handed, abandoned, origin) /\ u.phase = "established"
  BY <1>1, BindKeeps
<1>3. u.request = NoRequest /\ u.replay = NoReplay
  <2>1. PICK t : t = ReleaseConsumer(consumer)
    OBVIOUS
  <2>2. t \in Consumers /\ t.request = NoRequest /\ t.replay = NoReplay
    BY <1>1, <2>1, ReleaseKeeps
  <2>3. u = [t EXCEPT !.phase = "established", !.announced = 0]
    BY <2>1 DEF Bind, Release
  <2> QED BY <2>2, <2>3 DEF Consumers
<1>4. next \in 1 .. MaxSeq + 1
  BY ONLY <1>1, next \in Nat, 1 <= next, next <= provider.next
<1>5. PICK begun : begun = IF u.start THEN next ELSE origin
  OBVIOUS
<1>6. Quiet(q)
  BY <1>1, <1>2, <1>4, <1>5, EstablishedKeeps
<1>7. Ends(q) \/ (q.open /\ Asks(q.s, q.send))
  BY <1>1, <1>2, <1>3, <1>4, EstablishedOutcome
<1> QED BY <1>2, <1>3, <1>6, <1>7

\* accept_establishment of the consumer.
LEMMA ServiceAccepts ==
    ASSUME FlowInv, ServiceInv, Server = "consumer", AcceptEstablishment
    PROVE  ServiceInv'
<1>1. /\ consumer \in Consumers /\ side["consumer"] = consumer
      /\ consumer.announced <= provider.next
      /\ consumer.phase = "pending" => 1 <= consumer.announced
  BY ConsumerIs
<1>2. PICK u : u = Bind("consumer", consumer)
  OBVIOUS
<1>3. PICK ack : ack = [kind |-> "EstablishmentAck", next |-> 0]
  OBVIOUS
<1>4. PICK b : b = Result(u, <<ack>>)
  OBVIOUS
<1>5. PICK next \in Nat : next = consumer.announced
  BY <1>1, ConsumerFields
<1>6. PICK q : q = OnEstablished("consumer", u, next)
  OBVIOUS
<1>7. PICK r : r = Then(b, q)
  OBVIOUS
<1>8. up["consumer"] /\ consumer.phase = "pending" /\ Carry("consumer", r, chan["consumer"], 0)
  <2>1. b.s = u
    BY <1>4, Queued
  <2>2. b = Result(Bind(Server, side[Server]),
                   <<[kind |-> "EstablishmentAck", next |-> AnnouncedNextSeq(Server)]>>)
    BY <1>1, <1>2, <1>3, <1>4 DEF AnnouncedNextSeq
  <2>3. /\ up[Server] /\ side[Server].phase = "pending"
        /\ Does(Server, Then(b, OnEstablished(Server, b.s, side[Server].announced)))
    BY <2>2, Zenon DEF AcceptEstablishment
  <2> QED BY <1>1, <1>5, <1>6, <1>7, <2>1, <2>3 DEF Does
<1>9. /\ u \in Consumers /\ u.request = NoRequest /\ u.replay = NoReplay
      /\ Quiet(q) /\ (Ends(q) \/ (q.open /\ Asks(q.s, q.send)))
  <2>1. 1 <= next /\ next <= provider.next
    BY <1>1, <1>5, <1>8
  <2> QED BY <1>2, <1>6, <2>1, BoundOutcome
<1>10. ack \in Replies /\ <<ack>> \in Seq(Replies) /\ <<ack>> \in Seq(Message) /\ Unasked(<<ack>>)
  <2>1. ack \in Replies /\ ack \in Message /\ ack.kind # "RetransmitRequest"
    BY <1>3 DEF Replies, Message
  <2> QED BY <2>1, NoAsk
<1>11. Quiet(b) /\ b.open /\ b.s = u /\ b.send = <<ack>>
  <2>1. PICK send \in Seq(Replies) : send = <<ack>>
    BY <1>10
  <2>2. b = Result(u, send)
    BY <1>4, <2>1
  <2> QED BY ONLY <1>9, <2>1, <2>2, u \in Consumers, Stays
<1>12. q \in Results /\ q.s \in Consumers /\ q.send \in Seq(Message) /\ b \in Results
  BY <1>9, <1>11, RepliesAre DEF Quiet, Results
<1>13. Quiet(r) /\ r.s = q.s /\ (q.open => r.open) /\ (~q.open => ~r.open)
  BY <1>7, <1>9, <1>11, ThenIs
<1>14. r.s \in Consumers /\ r.send \in Seq(Message)
  BY <1>13, RepliesAre DEF Quiet, Results
<1>15. Ends(r) \/ (r.open /\ Asks(r.s, r.send))
  <2>1. CASE Ends(q)
    <3>1. r.send = <<ack>> \o q.send
      <4>1. r = [q EXCEPT !.send = b.send \o @, !.gone = b.gone \union @,
                          !.accept = IF @ = 0 THEN b.accept ELSE @]
        BY <1>7, <1>11 DEF Then
      <4> QED BY ONLY <1>11, <1>12, <4>1 DEF Results
    <3>2. Unasked(r.send)
      BY <1>10, <1>12, <2>1, <3>1, KindsBehind DEF Ends, Unasked
    <3> QED BY <1>13, <2>1, <3>2 DEF Ends
  <2>2. CASE q.open /\ Asks(q.s, q.send)
    <3>1. Same(u, b) /\ Outcome(u, b)
      BY <1>10, <1>11 DEF Same, Outcome
    <3>2. Outcome(u, q)
      BY <1>9, <2>2 DEF Outcome
    <3>3. r.open /\ Outcome(u, r)
      BY <1>7, <1>11, <1>12, <2>2, <3>1, <3>2, FollowedBy
    <3> QED BY <1>9, <3>3, OutcomeAsks
  <2> QED BY <1>9, <2>1, <2>2
<1>16. Reads(chan["consumer"], chan["consumer"]) /\ chan["consumer"] \in Seq(Message)
  BY ServedIs DEF Reads
<1> QED BY <1>8, <1>14, <1>15, <1>16, ConsumerBound

\* on_establishment_ack.
LEMMA ServiceHearsAck ==
    ASSUME FlowInv, ServiceInv, Client = "consumer", ReceiveEstablishmentAck
    PROVE  ServiceInv'
<1>1. consumer \in Consumers /\ side["consumer"] = consumer
  BY ConsumerIs
<1>2. PICK m : m = Head(chan["consumer"])
  OBVIOUS
<1>3. PICK r : r = OnAck(consumer, m)
  OBVIOUS
<1>4. /\ up["consumer"] /\ chan["consumer"] # <<>> /\ m.kind = "EstablishmentAck"
      /\ Carry("consumer", r, Tail(chan["consumer"]), 0)
  BY <1>1, <1>2, <1>3 DEF ReceiveEstablishmentAck, Arrives, Hears
<1>5. Reads(chan["consumer"], Tail(chan["consumer"])) /\ Tail(chan["consumer"]) \in Seq(Message)
  BY <1>4, HeadIs DEF Reads
<1>6. CASE consumer.phase # "establishing"
  <2>1. r = Result(consumer, <<>>)
    BY <1>3, <1>6 DEF OnAck
  <2> QED BY <1>2, <1>4, <2>1, ConsumerPassesOn
<1>7. CASE consumer.phase = "establishing"
  <2>1. PICK next \in Nat : next = m.next /\ 1 <= next /\ next <= provider.next
    BY <1>2, <1>4, HeadIs
  <2>2. PICK u : u = Bind("consumer", consumer)
    OBVIOUS
  <2>3. r = OnEstablished("consumer", u, next)
    BY <1>3, <1>7, <2>1, <2>2 DEF OnAck
  <2>4. Quiet(r) /\ (Ends(r) \/ (r.open /\ Asks(r.s, r.send)))
    BY <2>1, <2>2, <2>3, BoundOutcome
  <2>5. r.s \in Consumers /\ r.send \in Seq(Message)
    BY <2>4, RepliesAre DEF Quiet, Results
  <2> QED BY <1>4, <1>5, <1>7, <2>4, <2>5, ConsumerBound
<1> QED BY <1>6, <1>7

\* on_establishment_reject.
LEMMA ServiceHearsReject ==
    ASSUME FlowInv, ServiceInv, Client = "consumer", ReceiveEstablishmentReject
    PROVE  ServiceInv'
<1>1. consumer \in Consumers /\ side["consumer"] = consumer
  BY ConsumerIs
<1>2. PICK m : m = Head(chan["consumer"])
  OBVIOUS
<1>3. PICK r : r = OnReject(consumer, m)
  OBVIOUS
<1>4. /\ up["consumer"] /\ chan["consumer"] # <<>> /\ m.kind = "EstablishmentReject"
      /\ Carry("consumer", r, Tail(chan["consumer"]), 0)
  BY <1>1, <1>2, <1>3 DEF ReceiveEstablishmentReject, Arrives, Hears
<1>5. CASE consumer.phase # "establishing"
  <2>1. r = Result(consumer, <<>>)
    BY <1>3, <1>5 DEF OnReject
  <2> QED BY <1>2, <1>4, <2>1, ConsumerPassesOn
<1>6. CASE consumer.phase = "establishing"
  <2>1. PICK phase \in {"closed", "negotiated"} :
           phase = IF m.code = "Unnegotiated" THEN "closed" ELSE "negotiated"
    OBVIOUS
  <2>2. r = Result([consumer EXCEPT !.phase = phase], <<>>)
    BY <1>3, <1>6, <2>1 DEF OnReject
  <2>3. r.s = [consumer EXCEPT !.phase = phase] /\ r.send = <<>> /\ r.open
    BY <2>2, Queued
  <2>4. consumer.request = NoRequest /\ consumer.replay = NoReplay
    BY <1>6, ServedIs
  <2>5. r.s \in Consumers /\ r.s.request = NoRequest /\ r.s.replay = NoReplay
    BY <1>1, <2>1, <2>3, <2>4 DEF Consumers, Phases
  <2>6. Reads(chan["consumer"], Tail(chan["consumer"]))
    BY <1>4 DEF Reads
  <2>7. consumer.phase \notin {"established", "terminating", "closing", "finalized", "closed"}
    BY <1>6
  <2> QED BY <1>4, <2>3, <2>5, <2>6, <2>7, NoAsk, ConsumerUnbound
<1> QED BY <1>5, <1>6

\* reject_establishment of the consumer.
LEMMA ServiceRejects ==
    ASSUME FlowInv, ServiceInv, Server = "consumer", RejectEstablishment
    PROVE  ServiceInv'
<1>1. consumer \in Consumers /\ side["consumer"] = consumer
  BY ConsumerIs
<1>2. PICK u : u = [consumer EXCEPT !.phase = "negotiated", !.announced = 0]
  OBVIOUS
<1>3. PICK r : r = Result(u, <<EstablishReject("Unspecified")>>)
  OBVIOUS
<1>4. up["consumer"] /\ consumer.phase = "pending" /\ Carry("consumer", r, chan["consumer"], 0)
  BY <1>1, <1>2, <1>3 DEF RejectEstablishment, Does
<1>5. r.s = u /\ r.send = <<EstablishReject("Unspecified")>> /\ r.open
  BY <1>3, Queued
<1>6. u \in Consumers /\ u.request = NoRequest /\ u.replay = NoReplay
  <2>1. consumer.request = NoRequest /\ consumer.replay = NoReplay
    BY <1>4, ServedIs
  <2> QED BY <1>1, <1>2, <2>1 DEF Consumers, Phases
<1>7. r.send \in Seq(Message) /\ Unasked(r.send)
  <2>1. /\ EstablishReject("Unspecified") \in Message
        /\ EstablishReject("Unspecified").kind # "RetransmitRequest"
    BY DEF EstablishReject, Message, Codes
  <2> QED BY <1>5, <2>1, NoAsk
<1>8. Reads(chan["consumer"], chan["consumer"])
  BY DEF Reads
<1> QED BY <1>4, <1>5, <1>6, <1>7, <1>8, ConsumerUnbound

\* on_establish, by a consumer that is the server.
LEMMA ServiceTakesEstablish ==
    ASSUME FlowInv, ServiceInv, Server = "consumer", ReceiveEstablish
    PROVE  ServiceInv'
<1>1. consumer \in Consumers /\ side["consumer"] = consumer
  BY ConsumerIs
<1>2. PICK m : m = Head(chan["consumer"])
  OBVIOUS
<1>3. PICK r : r = OnEstablish(consumer, m)
  OBVIOUS
<1>4. PICK unread : unread = Tail(chan["consumer"])
  OBVIOUS
<1>5. /\ up["consumer"] /\ chan["consumer"] # <<>> /\ m.kind = "Establish"
      /\ Carry("consumer", r, unread, 0)
  BY <1>1, <1>2, <1>3, <1>4 DEF ReceiveEstablish, Arrives, Hears
<1>6. Reads(chan["consumer"], unread)
  BY <1>4, <1>5 DEF Reads
<1>7. Bound("consumer") <=> consumer.phase \in {"established", "terminating", "closing"}
  BY <1>1 DEF Bound
<1>8. \A code \in Codes : <<EstablishReject(code)>> \in Seq(Message) /\ Unasked(<<EstablishReject(code)>>)
  <2>1. \A code \in Codes : /\ EstablishReject(code) \in Message
                            /\ EstablishReject(code).kind # "RetransmitRequest"
    BY DEF EstablishReject, Message
  <2> QED BY <2>1, NoAsk
<1>9. {"Unnegotiated", "AlreadyEstablished", "Unspecified"} \subseteq Codes
  BY DEF Codes
<1>10. consumer.phase \notin {"established", "terminating"} =>
          consumer.request = NoRequest /\ consumer.replay = NoReplay
  BY ServedIs
<1>11. CASE consumer.phase = "finalized"
  <2>1. r = [Result(consumer, <<EstablishReject("Unnegotiated")>>)
                EXCEPT !.open = FALSE, !.blame = "finalized"]
    BY <1>3, <1>11 DEF OnEstablish
  <2>2. r.s = consumer /\ r.send = <<EstablishReject("Unnegotiated")>> /\ ~r.open
    BY ONLY <2>1 DEF Result
  <2> QED BY <1>5, <1>6, <1>8, <1>9, <1>10, <1>11, <2>2, ConsumerLetsGo
<1>12. CASE consumer.phase = "established"
  <2>1. r = Result(consumer, <<EstablishReject("AlreadyEstablished")>>)
    BY <1>3, <1>12 DEF OnEstablish
  <2>2. r.s = consumer /\ r.send = <<EstablishReject("AlreadyEstablished")>> /\ r.open
    BY <2>1, Queued
  <2>3. Alike(consumer, r.s) /\ Head(chan["consumer"]).kind \notin {"Retransmission", "Application"}
    BY <1>2, <1>5, <2>2 DEF Alike
  <2>4. r.send \in Seq(Message) /\ Unasked(r.send)
    BY <1>8, <1>9, <2>2
  <2> QED BY <1>1, <1>5, <1>6, <1>12, <2>2, <2>3, <2>4, ConsumerStays
<1>13. CASE consumer.phase \in {"terminating", "closing"}
  <2>1. r = Result(consumer, <<>>)
    BY <1>3, <1>7, <1>13 DEF OnEstablish
  <2> QED BY <1>2, <1>4, <1>5, <2>1, ConsumerPassesOn
<1>14. CASE consumer.phase = "pending"
  <2>1. PICK u : u = Unbound("consumer", consumer)
    OBVIOUS
  <2>2. r = [Result(u, <<>>) EXCEPT !.open = FALSE, !.blame = "Establish pending"]
    BY <1>3, <1>7, <1>14, <2>1 DEF OnEstablish
  <2>3. r.s = u /\ r.send = <<>> /\ ~r.open
    BY ONLY <2>2 DEF Result
  <2>4. u.request = NoRequest
    BY <1>1, <1>10, <1>14, <2>1 DEF Unbound, Consumers
  <2> QED BY <1>5, <1>6, <2>3, <2>4, NoAsk, ConsumerLetsGo
<1>15. CASE consumer.phase \in {"negotiated", "establishing", "closed"}
  <2>1. CASE ~consumer.start /\ m.next < consumer.next
    <3>1. r = [Result(consumer, <<EstablishReject("Unspecified")>>)
                  EXCEPT !.blame = "Establish too low"]
      BY <1>3, <1>7, <1>15, <2>1 DEF OnEstablish
    <3>2. r.s = consumer /\ r.send = <<EstablishReject("Unspecified")>> /\ r.open
      BY ONLY <3>1 DEF Result
    <3> QED BY <1>1, <1>5, <1>6, <1>8, <1>9, <1>10, <1>15, <3>2, ConsumerUnbound
  <2>2. CASE ~(~consumer.start /\ m.next < consumer.next)
    <3>1. r = Result([consumer EXCEPT !.phase = "pending", !.announced = m.next], <<>>)
      BY <1>3, <1>7, <1>15, <2>2 DEF OnEstablish
    <3>2. /\ r.s = [consumer EXCEPT !.phase = "pending", !.announced = m.next] /\ r.send = <<>>
          /\ r.open
      BY <3>1, Queued
    <3>3. m.next \in Nat
      BY <1>2, <1>5, HeadIs
    <3>4. r.s \in Consumers /\ r.s.request = NoRequest /\ r.s.replay = NoReplay
      BY <1>1, <1>10, <1>15, <3>2, <3>3 DEF Consumers, Phases
    <3>5. consumer.phase # "closed"
      BY TheSides, ConsumerIs DEF Client
    <3>6. consumer.phase \notin {"established", "terminating", "closing", "finalized", "closed"}
      BY <1>15, <3>5
    <3> QED BY <1>5, <1>6, <3>2, <3>4, <3>6, NoAsk, ConsumerUnbound
  <2> QED BY <2>1, <2>2
<1> QED BY <1>1, <1>11, <1>12, <1>13, <1>14, <1>15, ConsumerFields DEF Phases

-----------------------------------------------------------------------------
(* The steps of the provider, one by one                                    *)

\* What answers no request.
LEMMA NoAnswer ==
    /\ <<>> \in Seq(Message) /\ Rest(<<>>)
    /\ \A m \in Message : m.kind \notin Answer => <<m>> \in Seq(Message) /\ Rest(<<m>>)
<1>1. <<>> \in Seq(Message) /\ Rest(<<>>)
  BY DEF Rest
<1>2. ASSUME NEW m \in Message, m.kind \notin Answer
      PROVE  <<m>> \in Seq(Message) /\ Rest(<<m>>)
  <2>1. <<m>> \in Seq(Message) /\ Len(<<m>>) = 1 /\ <<m>>[1] = m
    OBVIOUS
  <2> QED BY <1>2, <2>1 DEF Rest
<1> QED BY <1>1, <1>2

\* The provider says what answers no request, and goes on with the service or
\* ends it.
LEMMA ProviderSpeaks ==
    ASSUME FlowInv, ServiceInv, up["provider"], NEW r, NEW unread, NEW n,
           Carry("provider", r, unread, n), Reads(chan["provider"], unread),
           r.send \in Seq(Message), Rest(r.send),
           r.s.serving = NoService \/ (r.s.serving = provider.serving /\ r.s.phase = "established")
    PROVE  ServiceInv'
<1>1. PICK s \in Consumers, u \in Seq(Message), w \in Seq(Message) :
         s = consumer /\ u = chan["consumer"] /\ w = chan["provider"]
  BY ServedIs
<1>2. PICK on : on <=> Asking(consumer, up["consumer"])
  OBVIOUS
<1>3. PICK p, q : p = provider /\ q = r.s
  OBVIOUS
<1>4. Served(s, p, u, w, on)
  BY <1>1, <1>2, <1>3, ServedIs DEF Served
<1>5. PICK left : left = IF r.open THEN unread ELSE <<>>
  OBVIOUS
<1>6. left = w \/ (w # <<>> /\ left = Tail(w)) \/ left = <<>>
  BY <1>1, <1>5 DEF Reads
<1>7. PICK v \in Seq(Message) : v = r.send
  OBVIOUS
<1>8. Rest(v) /\ (q.serving = NoService \/ (q.serving = p.serving /\ q.phase = "established"))
  BY <1>3, <1>7
<1>9. Served(s, q, u \o v, left, on)
  BY ONLY <1>1, <1>4, <1>6, <1>7, <1>8, ProviderSays
<1>10. Served(consumer, r.s, chan["consumer"] \o r.send, IF r.open THEN unread ELSE <<>>,
              Asking(consumer, up["consumer"]))
  BY <1>1, <1>2, <1>3, <1>5, <1>7, <1>9 DEF Served
<1> QED BY <1>10, ProviderMoves

\* What a provider is while no request is in service.
LEMMA ServesNone ==
    ASSUME FlowInv, ServiceInv
    PROVE  /\ provider \in Providers /\ side["provider"] = provider /\ provider.next \in Nat
           /\ provider.phase # "established" => provider.serving = NoService
           /\ "established" \in Busy /\ (up["provider"] \/ provider.phase \notin Busy)
           /\ \A unread : unread = chan["provider"] => Reads(chan["provider"], unread)
BY ProviderIs, ServedIs, BoundHolds, TheSides DEF Served, OneAsked, Reads

\* send_application.
LEMMA ServiceSends == FlowInv /\ ServiceInv /\ SendApplication => ServiceInv'
<1> SUFFICES ASSUME FlowInv, ServiceInv, SendApplication PROVE ServiceInv'
  OBVIOUS
<1> PICK p : p = provider
  OBVIOUS
<1>1. /\ p \in Providers /\ p = provider /\ side["provider"] = p /\ p.next \in Nat
      /\ p.phase = "established" => up["provider"]
  BY ServesNone
<1>2. PICK u : u = [p EXCEPT !.implicit = TRUE, !.next = p.next + 1]
  OBVIOUS
<1>3. PICK first : first = IF p.implicit THEN <<>> ELSE <<SequenceMsg(p.next)>>
  OBVIOUS
<1>4. PICK send : send = first \o <<Application(p.next)>>
  OBVIOUS
<1>5. PICK r : r = Result(u, send)
  OBVIOUS
<1>6. r = Allocated(provider)
  BY <1>1, <1>2, <1>3, <1>4, <1>5 DEF Allocated
<1>7. p.phase = "established" /\ Carry("provider", r, chan["provider"], 0)
  BY <1>1, <1>6 DEF SendApplication, MaySend, Established, Does
<1>8. r.s = u /\ r.send = send /\ u.serving = p.serving /\ u.phase = "established"
  BY <1>1, <1>2, <1>5, <1>7, Queued DEF Providers
<1>9. /\ Application(p.next) \in Message /\ Application(p.next).kind \notin Answer
      /\ SequenceMsg(p.next) \in Message /\ SequenceMsg(p.next).kind \notin Answer
  BY <1>1 DEF Application, SequenceMsg, Message, Answer
<1>10. first \in Seq(Message) /\ Rest(first) /\ <<Application(p.next)>> \in Seq(Message)
       /\ Rest(<<Application(p.next)>>)
  BY <1>3, <1>9, NoAnswer
<1>11. send \in Seq(Message) /\ Rest(send)
  BY <1>4, <1>10, RestBehind, ConcatProperties
<1>12. Reads(chan["provider"], chan["provider"])
  BY DEF Reads
<1> QED BY <1>1, <1>7, <1>8, <1>11, <1>12, ProviderSpeaks

\* One message that answers no request, from a provider that is established
\* or has no request in service.
LEMMA ProviderSaysOne ==
    ASSUME FlowInv, ServiceInv, up["provider"], NEW unread, Reads(chan["provider"], unread),
           NEW u, u.serving = NoService \/ (u.serving = provider.serving /\ u.phase = "established"),
           NEW send, send = <<>> \/ \E m \in Message : m.kind \notin Answer /\ send = <<m>>,
           NEW r, r.s = u, r.send = send, Carry("provider", r, unread, 0)
    PROVE  ServiceInv'
<1>1. send \in Seq(Message) /\ Rest(send)
  BY NoAnswer
<1> QED BY <1>1, ProviderSpeaks

\* heartbeat.
LEMMA ServiceHeartbeat == FlowInv /\ ServiceInv /\ Heartbeat => ServiceInv'
<1> SUFFICES ASSUME FlowInv, ServiceInv, Heartbeat PROVE ServiceInv'
  OBVIOUS
<1>1. /\ provider \in Providers /\ side["provider"] = provider /\ provider.next \in Nat
      /\ provider.phase = "established" => up["provider"]
  BY ServesNone
<1>2. PICK u : u = [provider EXCEPT !.implicit = TRUE]
  OBVIOUS
<1>3. PICK m : m = SequenceMsg(provider.next)
  OBVIOUS
<1>4. PICK r : r = Result(u, <<m>>)
  OBVIOUS
<1>5. provider.phase = "established" /\ Carry("provider", r, chan["provider"], 0)
  BY <1>1, <1>2, <1>3, <1>4 DEF Heartbeat, MaySend, Established, Does
<1>6. u.serving = provider.serving /\ u.phase = "established" /\ r.s = u /\ r.send = <<m>>
  BY <1>1, <1>2, <1>4, <1>5, Queued DEF Providers
<1>7. m \in Message /\ m.kind \notin Answer
  BY <1>1, <1>3 DEF SequenceMsg, Message, Answer
<1>8. Reads(chan["provider"], chan["provider"])
  BY DEF Reads
<1> QED BY <1>1, <1>5, <1>6, <1>7, <1>8, ProviderSaysOne

\* The flow is ended by its sender.
LEMMA ServiceFinishes == FlowInv /\ ServiceInv /\ FinishSending => ServiceInv'
<1> SUFFICES ASSUME FlowInv, ServiceInv, FinishSending PROVE ServiceInv'
  OBVIOUS
<1>1. /\ provider \in Providers /\ side["provider"] = provider /\ provider.next \in Nat
      /\ provider.phase = "established" => up["provider"]
  BY ServesNone
<1>2. PICK u : u = [provider EXCEPT !.ended = TRUE, !.implicit = FALSE]
  OBVIOUS
<1>3. PICK m : m = [kind |-> "FinishedSending", last |-> provider.next - 1]
  OBVIOUS
<1>4. PICK r : r = Result(u, <<m>>)
  OBVIOUS
<1>5. provider.phase = "established" /\ Carry("provider", r, chan["provider"], 0)
  BY <1>1, <1>2, <1>3, <1>4 DEF FinishSending, MaySend, Established, Does
<1>6. u.serving = provider.serving /\ u.phase = "established" /\ r.s = u /\ r.send = <<m>>
  BY <1>1, <1>2, <1>4, <1>5, Queued DEF Providers
<1>7. m \in Message /\ m.kind \notin Answer
  <2>1. 1 <= provider.next
    BY ProviderIs
  <2>2. provider.next - 1 \in Nat
    BY ONLY <1>1, <2>1
  <2> QED BY <1>3, <2>2 DEF Message, Answer
<1>8. Reads(chan["provider"], chan["provider"])
  BY DEF Reads
<1> QED BY <1>1, <1>5, <1>6, <1>7, <1>8, ProviderSaysOne

\* end_retransmission.
LEMMA ServiceEnds == FlowInv /\ ServiceInv /\ EndRetransmission => ServiceInv'
<1> SUFFICES ASSUME FlowInv, ServiceInv, EndRetransmission PROVE ServiceInv'
  OBVIOUS
<1>1. /\ provider \in Providers /\ side["provider"] = provider
      /\ provider.phase = "established" => up["provider"]
  BY ServesNone
<1>2. PICK u : u = [provider EXCEPT !.serving = NoService]
  OBVIOUS
<1>3. PICK r : r = Result(u, <<>>)
  OBVIOUS
<1>4. provider.phase = "established" /\ Carry("provider", r, chan["provider"], 0)
  BY <1>1, <1>2, <1>3 DEF EndRetransmission, Established, Does
<1>5. u.serving = NoService /\ r.s = u /\ r.send = <<>>
  BY <1>1, <1>2, <1>3, Queued DEF Providers
<1>6. Reads(chan["provider"], chan["provider"])
  BY DEF Reads
<1> QED BY <1>1, <1>4, <1>5, <1>6, ProviderSaysOne

\* A batch, as it is written.
LEMMA BatchIs ==
    ASSUME NEW p \in Providers, NEW count \in Nat \ {0}, NEW written \in 0 .. count,
           NEW r, r = Batch(p, count, written)
    PROVE  /\ r.open /\ r.s.phase = p.phase
           /\ r.send \in Seq(Message) /\ r.send # <<>> /\ Len(r.send) = written + 1
           /\ r.send[1] = Retransmission(p.serving.stamp, p.serving.from + p.serving.sent, count)
           /\ \A i \in 2 .. Len(r.send) : r.send[i].kind = "Application"
           /\ \/ r.s.serving = NoService
              \/ /\ p.serving.sent + count < p.serving.count
                 /\ r.s.serving = [p.serving EXCEPT !.sent = p.serving.sent + count]
<1>1. /\ p.serving.stamp \in Nat /\ p.serving.from \in Nat
      /\ p.serving.count \in Nat /\ p.serving.sent \in Nat /\ p.serving \in Services
  BY ProviderFields
<1>2. PICK from \in Nat : from = p.serving.from + p.serving.sent
  BY <1>1
<1>3. PICK head : head = <<Retransmission(p.serving.stamp, from, count)>>
  OBVIOUS
<1>4. PICK body : body = [i \in 1 .. written |-> Application(from + i - 1)]
  OBVIOUS
<1>5. PICK serving : serving = IF p.serving.sent + count >= p.serving.count THEN NoService
                               ELSE [p.serving EXCEPT !.sent = p.serving.sent + count]
  OBVIOUS
<1>6. PICK u : u = [p EXCEPT !.implicit = FALSE, !.serving = serving]
  OBVIOUS
<1>7. PICK send : send = head \o body
  OBVIOUS
<1>8. r = Result(u, send)
  BY <1>2, <1>3, <1>4, <1>5, <1>6, <1>7 DEF Batch
<1>9. r.s = u /\ r.send = send /\ r.open /\ u.phase = p.phase /\ u.serving = serving
  BY <1>6, <1>8, Queued DEF Providers
<1>10. /\ serving = NoService
       \/ /\ p.serving.sent + count < p.serving.count
          /\ serving = [p.serving EXCEPT !.sent = p.serving.sent + count]
  BY <1>1, <1>5
<1>11. /\ head \in Seq(Message) /\ Len(head) = 1
       /\ head[1] = Retransmission(p.serving.stamp, from, count)
  BY <1>1, <1>3 DEF Retransmission, Message
<1>12. /\ body \in Seq(Message) /\ Len(body) = written
       /\ \A i \in 1 .. written : body[i].kind = "Application"
  <2>1. \A i \in 1 .. written : from + i - 1 \in Nat
    OBVIOUS
  <2>2. \A i \in 1 .. written : Application(from + i - 1) \in Message
                                /\ Application(from + i - 1).kind = "Application"
    BY <2>1 DEF Application, Message
  <2>3. written \in Nat /\ \A i \in 1 .. written : Application(from + i - 1) \in Message
    <3>1. written \in Nat
      OBVIOUS
    <3> QED BY <2>2, <3>1
  <2>4. body \in Seq(Message) /\ Len(body) = written
    BY ONLY <1>4, <2>3
  <2>5. \A i \in 1 .. written : body[i] = Application(from + i - 1)
    BY <1>4
  <2> QED BY <2>2, <2>4, <2>5
<1>13. /\ Len(send) = written + 1 /\ send \in Seq(Message)
       /\ \A i \in 1 .. Len(head) : send[i] = head[i]
       /\ \A i \in 1 .. Len(send) :
             \/ i \in 1 .. Len(head) /\ send[i] = head[i]
             \/ i > Len(head) /\ i - Len(head) \in 1 .. Len(body) /\ send[i] = body[i - Len(head)]
  <2>1. PICK f \in Seq(Message), g \in Seq(Message) : f = head /\ g = body
    BY <1>11, <1>12
  <2>2. written \in Nat
    OBVIOUS
  <2>3. /\ Len(f \o g) = Len(f) + Len(g) /\ f \o g \in Seq(Message)
        /\ \A i \in 1 .. Len(f) : (f \o g)[i] = f[i]
        /\ \A i \in 1 .. Len(f \o g) :
              \/ i \in 1 .. Len(f) /\ (f \o g)[i] = f[i]
              \/ i > Len(f) /\ i - Len(f) \in 1 .. Len(g) /\ (f \o g)[i] = g[i - Len(f)]
    BY BehindIs
  <2>4. send = f \o g /\ Len(f) = 1 /\ Len(g) = written
    BY <1>7, <1>11, <1>12, <2>1
  <2>5. Len(f) + Len(g) = written + 1
    BY ONLY <2>2, <2>4
  <2> QED BY <2>1, <2>3, <2>4, <2>5
<1>14. send[1] = head[1] /\ send # <<>>
  BY <1>11, <1>13
<1>15. \A i \in 2 .. Len(send) : send[i].kind = "Application"
  <2>1. ASSUME NEW i \in 2 .. Len(send) PROVE send[i].kind = "Application"
    <3>1. i \in 1 .. Len(send) /\ ~(i \in 1 .. Len(head))
      BY <1>11, <1>13
    <3>2. i - Len(head) \in 1 .. written /\ send[i] = body[i - Len(head)]
      BY <1>12, <1>13, <3>1
    <3> QED BY <1>12, <3>2
  <2> QED BY <2>1
<1> QED BY <1>2, <1>9, <1>10, <1>11, <1>13, <1>14, <1>15

\* A batch of the request in service, and what the provider is after it.
LEMMA ProviderWrites ==
    ASSUME FlowInv, ServiceInv, provider.phase = "established", provider.serving # NoService,
           NEW count \in Nat \ {0}, count <= provider.serving.count - provider.serving.sent,
           NEW r, NEW n, Carry("provider", r, chan["provider"], n), r.open, r.s.phase = "established",
           r.send \in Seq(Message), r.send # <<>>,
           r.send[1] = Retransmission(provider.serving.stamp,
                                      provider.serving.from + provider.serving.sent, count),
           \A i \in 2 .. Len(r.send) : r.send[i].kind \notin Answer,
           \/ r.s.serving = NoService
           \/ /\ provider.serving.sent + count < provider.serving.count
              /\ r.s.serving = [provider.serving EXCEPT !.sent = provider.serving.sent + count],
           Full(r.send, 2, count) \/ r.s.serving = NoService
    PROVE  ServiceInv'
<1>1. PICK s \in Consumers, u \in Seq(Message), w \in Seq(Message) :
         s = consumer /\ u = chan["consumer"] /\ w = chan["provider"]
  BY ServedIs
<1>2. PICK on : on <=> Asking(consumer, up["consumer"])
  OBVIOUS
<1>p. PICK p \in Providers : p = provider
  BY ServedIs
<1>q. PICK q : q = r.s
  OBVIOUS
<1>3. p = provider /\ q = r.s
  BY <1>p, <1>q
<1>4. Served(s, p, u, w, on)
  BY <1>1, <1>2, <1>3, ServedIs DEF Served
<1>5. PICK v \in Seq(Message) : v = r.send
  OBVIOUS
<1>6. /\ p.serving # NoService /\ q.phase = "established"
      /\ count <= p.serving.count - p.serving.sent
      /\ \/ q.serving = NoService
         \/ /\ p.serving.sent + count < p.serving.count
            /\ q.serving = [p.serving EXCEPT !.sent = p.serving.sent + count]
      /\ v # <<>> /\ v[1] = Retransmission(p.serving.stamp, p.serving.from + p.serving.sent, count)
      /\ \A i \in 2 .. Len(v) : v[i].kind \notin Answer
      /\ q.serving = NoService \/ Full(v, 2, count)
  BY <1>3, <1>5
<1>7. Served(s, q, u \o v, w, on)
  BY ONLY <1>1, <1>3, <1>4, <1>5, <1>6, count \in Nat \ {0}, ProviderBatches, SMTT(60)
<1>8. Served(consumer, r.s, chan["consumer"] \o r.send, IF r.open THEN chan["provider"] ELSE <<>>,
             Asking(consumer, up["consumer"]))
  BY <1>1, <1>2, <1>3, <1>5, <1>7 DEF Served
<1> QED BY <1>8, ServesNone, ProviderMoves

\* retransmit, and what its driver writes behind the header.
LEMMA ServiceBatch ==
    ASSUME FlowInv, ServiceInv, NEW count \in 1 .. MaxRetransmitCount, Retransmit(count)
    PROVE  ServiceInv'
<1>1. provider \in Providers /\ side["provider"] = provider
  BY ServesNone
<1>2. PICK r : r = Batch(provider, count, count)
  OBVIOUS
<1>3. /\ provider.phase = "established" /\ provider.serving # NoService
      /\ count <= provider.serving.count - provider.serving.sent
      /\ Carry("provider", r, chan["provider"], 0)
  BY <1>1, <1>2 DEF Retransmit, Established, Does
<1>4. count \in Nat \ {0} /\ count \in 0 .. count
  BY Constants
<1>5. /\ r.open /\ r.s.phase = provider.phase
      /\ r.send \in Seq(Message) /\ r.send # <<>> /\ Len(r.send) = count + 1
      /\ r.send[1] = Retransmission(provider.serving.stamp,
                                    provider.serving.from + provider.serving.sent, count)
      /\ \A i \in 2 .. Len(r.send) : r.send[i].kind = "Application"
      /\ \/ r.s.serving = NoService
         \/ /\ provider.serving.sent + count < provider.serving.count
            /\ r.s.serving = [provider.serving EXCEPT !.sent = provider.serving.sent + count]
  BY <1>1, <1>2, <1>4, BatchIs
<1>6. Full(r.send, 2, count)
  BY <1>4, <1>5 DEF Full, Applications
<1>7. \A i \in 2 .. Len(r.send) : r.send[i].kind \notin Answer
  BY <1>5 DEF Answer
<1> QED BY <1>3, <1>4, <1>5, <1>6, <1>7, ProviderWrites

\* A batch that is cut short: the context changes and the service ends.
LEMMA ServiceCut ==
    ASSUME FlowInv, ServiceInv, NEW count \in 1 .. MaxRetransmitCount, NEW written \in 0 .. count - 1,
           RetransmitCut(count, written)
    PROVE  ServiceInv'
<1>1. provider \in Providers /\ side["provider"] = provider /\ provider.next \in Nat
  BY ServesNone
<1>2. PICK b : b = Batch(provider, count, written)
  OBVIOUS
<1>3. PICK u : u = [b.s EXCEPT !.serving = NoService, !.implicit = TRUE]
  OBVIOUS
<1>4. PICK last : last = SequenceMsg(provider.next)
  OBVIOUS
<1>5. PICK send : send = Append(b.send, last)
  OBVIOUS
<1>6. PICK r : r = Result(u, send)
  OBVIOUS
<1>7. /\ provider.phase = "established" /\ provider.serving # NoService
      /\ count <= provider.serving.count - provider.serving.sent
      /\ Carry("provider", r, chan["provider"], 0)
  BY <1>1, <1>2, <1>3, <1>4, <1>5, <1>6 DEF RetransmitCut, Established, Does
<1>8. count \in Nat \ {0} /\ count \in Nat /\ written \in 0 .. count
  BY Constants
<1>9. /\ b.s.phase = provider.phase
      /\ b.send \in Seq(Message) /\ b.send # <<>> /\ Len(b.send) = written + 1
      /\ b.send[1] = Retransmission(provider.serving.stamp,
                                    provider.serving.from + provider.serving.sent, count)
      /\ \A i \in 2 .. Len(b.send) : b.send[i].kind = "Application"
  <2>1. /\ b.open /\ b.s.phase = provider.phase
        /\ b.send \in Seq(Message) /\ b.send # <<>> /\ Len(b.send) = written + 1
        /\ b.send[1] = Retransmission(provider.serving.stamp,
                                      provider.serving.from + provider.serving.sent, count)
        /\ \A i \in 2 .. Len(b.send) : b.send[i].kind = "Application"
        /\ \/ b.s.serving = NoService
           \/ /\ provider.serving.sent + count < provider.serving.count
              /\ b.s.serving = [provider.serving EXCEPT !.sent = provider.serving.sent + count]
    BY <1>1, <1>2, <1>8, BatchIs
  <2> QED BY <2>1
<1>10. b.s \in Providers
  <2>1. ServingOK(provider)
    BY ProviderIs
  <2> QED BY <1>1, <1>2, <1>7, <1>8, <2>1, BatchKeeps
<1>11. r.s = u /\ r.send = send /\ r.open /\ u.serving = NoService /\ u.phase = "established"
  BY <1>3, <1>6, <1>7, <1>9, <1>10, Queued DEF Providers
<1>12. last \in Message /\ last.kind \notin Answer
  BY <1>1, <1>4 DEF SequenceMsg, Message, Answer
<1>13. /\ send \in Seq(Message) /\ Len(send) = written + 2 /\ send[1] = b.send[1]
       /\ \A i \in 1 .. Len(send) : send[i] = IF i = written + 2 THEN last ELSE b.send[i]
  BY <1>5, <1>8, <1>9, <1>12
<1>14. \A i \in 2 .. Len(send) : send[i].kind \notin Answer
  <2>1. ASSUME NEW i \in 2 .. Len(send) PROVE send[i].kind \notin Answer
    <3>1. CASE i = written + 2
      BY <1>8, <1>12, <1>13, <3>1
    <3>2. CASE i # written + 2
      <4>1. i \in 2 .. Len(b.send) /\ send[i] = b.send[i]
        BY <1>8, <1>9, <1>13, <3>2
      <4> QED BY <1>9, <4>1 DEF Answer
    <3> QED BY <3>1, <3>2
  <2> QED BY <2>1
<1>15. send # <<>>
  BY <1>8, <1>13
<1> QED BY <1>7, <1>8, <1>9, <1>11, <1>13, <1>14, <1>15, ProviderWrites

\* The provider refuses the request in service, or the one that arrives.
LEMMA ProviderDeclines ==
    ASSUME FlowInv, ServiceInv, up["provider"], NEW stamp \in Nat, NEW unread, NEW r,
           Carry("provider", r, unread, 0), r.open, r.s.serving = NoService,
           r.send = <<RejectMsg(stamp)>>,
           \/ provider.serving # NoService /\ stamp = provider.serving.stamp /\ unread = chan["provider"]
           \/ /\ chan["provider"] # <<>> /\ unread = Tail(chan["provider"])
              /\ Head(chan["provider"]).kind = "RetransmitRequest"
              /\ stamp = Head(chan["provider"]).stamp
    PROVE  ServiceInv'
<1>1. PICK s \in Consumers, u \in Seq(Message), w \in Seq(Message) :
         s = consumer /\ u = chan["consumer"] /\ w = chan["provider"]
  BY ServedIs
<1>2. PICK on : on <=> Asking(consumer, up["consumer"])
  OBVIOUS
<1>p. PICK p \in Providers : p = provider
  BY ServedIs
<1>q. PICK q : q = r.s
  OBVIOUS
<1>3. p = provider /\ q = r.s
  BY <1>p, <1>q
<1>4. Served(s, p, u, w, on)
  BY <1>1, <1>2, <1>3, ServedIs DEF Served
<1>5. q.serving = NoService
  BY <1>3
<1>6. \/ p.serving # NoService /\ stamp = p.serving.stamp /\ unread = w
      \/ /\ w # <<>> /\ unread = Tail(w) /\ Head(w).kind = "RetransmitRequest"
         /\ stamp = Head(w).stamp
  BY <1>1, <1>3
<1>7. Served(s, q, u \o <<RejectMsg(stamp)>>, unread, on)
  BY ONLY <1>1, <1>3, <1>4, <1>5, <1>6, stamp \in Nat, ProviderRefuses
<1>8. Served(consumer, r.s, chan["consumer"] \o r.send, IF r.open THEN unread ELSE <<>>,
             Asking(consumer, up["consumer"]))
  BY <1>1, <1>2, <1>3, <1>7 DEF Served
<1> QED BY <1>8, ProviderMoves

\* reject_retransmit_request.
LEMMA ServiceDeclines == FlowInv /\ ServiceInv /\ RejectRequest => ServiceInv'
<1> SUFFICES ASSUME FlowInv, ServiceInv, RejectRequest PROVE ServiceInv'
  OBVIOUS
<1>1. /\ provider \in Providers /\ side["provider"] = provider
      /\ provider.phase = "established" => up["provider"]
  BY ServesNone
<1>2. PICK u : u = [provider EXCEPT !.serving = NoService, !.implicit = FALSE]
  OBVIOUS
<1>3. PICK stamp \in Nat : stamp = provider.serving.stamp
  BY <1>1, ProviderFields
<1>4. PICK r : r = Result(u, <<RejectMsg(stamp)>>)
  OBVIOUS
<1>5. /\ provider.phase = "established" /\ provider.serving # NoService
      /\ Carry("provider", r, chan["provider"], 0)
  BY <1>1, <1>2, <1>3, <1>4 DEF RejectRequest, Established, Does
<1>6. r.s = u /\ r.send = <<RejectMsg(stamp)>> /\ r.open /\ u.serving = NoService
  BY <1>1, <1>2, <1>4, Queued DEF Providers
<1> QED BY <1>1, <1>3, <1>5, <1>6, ProviderDeclines

\* A message that arrives before the provider is bound, or after.
LEMMA ProviderPasses ==
    ASSUME FlowInv, ServiceInv, up["provider"], chan["provider"] # <<>>,
           provider.phase \notin {"established", "terminating"},
           NEW handled, NEW r, r = OnPeer("provider", handled),
           Carry("provider", r, Tail(chan["provider"]), 0)
    PROVE  ServiceInv'
<1>1. /\ provider \in Providers /\ side["provider"] = provider /\ provider.serving = NoService
  BY ServesNone
<1>2. Reads(chan["provider"], Tail(chan["provider"]))
  BY DEF Reads
<1>3. CASE provider.phase \in {"closing", "finalized", "closed"}
  <2>1. r = Result(provider, <<>>)
    BY <1>1, <1>3 DEF OnPeer
  <2>2. r.s = provider /\ r.send = <<>>
    BY <2>1, Queued
  <2> QED BY <1>1, <1>2, <2>2, ProviderSaysOne
<1>4. CASE provider.phase \notin {"closing", "finalized", "closed"}
  <2>1. PICK u : u = Unbound("provider", provider)
    OBVIOUS
  <2>2. r = [Result(u, <<>>) EXCEPT !.open = FALSE, !.blame = "not established"]
    BY <1>1, <1>4, <2>1 DEF OnPeer
  <2>3. r.s = u /\ r.send = <<>>
    BY ONLY <2>2 DEF Result
  <2>4. u.serving = NoService
    BY <1>1, <2>1 DEF Unbound, Providers
  <2> QED BY <1>2, <2>3, <2>4, ProviderSaysOne
<1> QED BY <1>3, <1>4

\* fail and unbound of the provider: the service ends.
LEMMA UnboundServesNot ==
    ASSUME NEW p \in Providers
    PROVE  /\ Unbound("provider", ReleaseProvider(p)).serving = NoService
           /\ p.serving = NoService => Unbound("provider", p).serving = NoService
<1>1. PICK t : t = ReleaseProvider(p)
  OBVIOUS
<1>2. t \in Providers /\ t.serving = NoService
  BY <1>1, None DEF ReleaseProvider, Providers
<1>3. ASSUME NEW q \in Providers, q.serving = NoService
      PROVE  Unbound("provider", q).serving = NoService
  BY <1>3 DEF Unbound, Providers
<1> QED BY <1>1, <1>2, <1>3

\* A provider that fails a message it read serves nothing any more (fail).
LEMMA ProviderFailsService ==
    ASSUME FlowInv, ServiceInv, up["provider"], NEW why,
           NEW r, r = FailWith("provider", provider, "Error", why),
           NEW unread, Reads(chan["provider"], unread), Carry("provider", r, unread, 0)
    PROVE  ServiceInv'
<1>1. PICK u : u = Unbound("provider", ReleaseProvider(provider))
  OBVIOUS
<1>2. PICK send : send = IF provider.phase = "established" THEN <<TerminateMsg("Error")>> ELSE <<>>
  OBVIOUS
<1>3. r = [Result(u, send) EXCEPT !.open = FALSE, !.blame = why]
  BY <1>1, <1>2, TheSides DEF FailWith, Release
<1>4. r.s = u /\ r.send = send
  BY ONLY <1>3 DEF Result
<1>5. u.serving = NoService
  BY <1>1, ServesNone, UnboundServesNot
<1>6. TerminateMsg("Error") \in Message /\ TerminateMsg("Error").kind \notin Answer
  BY DEF TerminateMsg, Message, Codes, Answer
<1>7. send = <<>> \/ \E m \in Message : m.kind \notin Answer /\ send = <<m>>
  BY <1>2, <1>6
<1> QED BY <1>4, <1>5, <1>7, ProviderSaysOne

\* on_retransmit_request: it is served, refused, or one too many.
LEMMA ServiceTakesRequest == FlowInv /\ ServiceInv /\ ReceiveRetransmitRequest => ServiceInv'
<1> SUFFICES ASSUME FlowInv, ServiceInv, ReceiveRetransmitRequest PROVE ServiceInv'
  OBVIOUS
<1>1. provider \in Providers /\ side["provider"] = provider
  BY ServesNone
<1>2. PICK m : m = Head(chan["provider"])
  OBVIOUS
<1>3. PICK handled : handled = OnRetransmitRequest(provider, m)
  OBVIOUS
<1>4. PICK r : r = OnPeer("provider", handled)
  OBVIOUS
<1>5. /\ up["provider"] /\ chan["provider"] # <<>> /\ m.kind = "RetransmitRequest"
      /\ Carry("provider", r, Tail(chan["provider"]), 0)
  BY <1>2, <1>3, <1>4 DEF ReceiveRetransmitRequest, Arrives, Hears
<1>6. m.stamp \in Nat /\ m.from \in Nat /\ m.count \in Nat
  <2>1. m \in Message
    BY <1>2, <1>5, SidesHave
  <2> QED BY <1>5, <2>1, Fields
<1>7. Reads(chan["provider"], Tail(chan["provider"]))
  BY <1>5 DEF Reads
<1>8. CASE provider.phase \notin {"established", "terminating"}
  BY <1>4, <1>5, <1>8, ProviderPasses
<1>9. CASE provider.phase = "terminating"
  <2>1. r = Result(provider, <<>>)
    BY <1>1, <1>3, <1>4, <1>9 DEF OnPeer, OnRetransmitRequest
  <2>2. r.s = provider /\ r.send = <<>>
    BY <2>1, Queued
  <2>3. provider.serving = NoService
    BY <1>9, ServesNone
  <2> QED BY <1>5, <1>7, <2>2, <2>3, ProviderSaysOne
<1>10. CASE provider.phase = "established"
  <2>1. r = handled
    BY <1>1, <1>4, <1>10 DEF OnPeer
  <2>2. CASE provider.serving # NoService
    <3>1. PICK why : why = "request in progress"
      OBVIOUS
    <3>2. r = FailWith("provider", provider, "Error", why)
      BY <1>3, <1>10, <2>1, <2>2, <3>1 DEF OnRetransmitRequest
    <3> QED BY <1>5, <1>7, <3>2, ProviderFailsService
  <2>3. CASE /\ provider.serving = NoService
             /\ \/ m.count \notin 1 .. MaxRetransmitCount \/ m.from < 1
                \/ m.from + m.count > provider.next
    <3>1. PICK u : u = [provider EXCEPT !.implicit = FALSE]
      OBVIOUS
    <3>2. PICK stamp \in Nat : stamp = m.stamp
      BY <1>6
    <3>3. r = Result(u, <<RejectMsg(stamp)>>)
      BY <1>3, <1>10, <2>1, <2>3, <3>1, <3>2 DEF OnRetransmitRequest
    <3>4. r.s = u /\ r.send = <<RejectMsg(stamp)>> /\ r.open /\ u.serving = NoService
      BY <1>1, <2>3, <3>1, <3>3, Queued DEF Providers
    <3> QED BY <1>2, <1>5, <3>2, <3>4, ProviderDeclines
  <2>4. CASE /\ provider.serving = NoService /\ m.count \in 1 .. MaxRetransmitCount
             /\ ~(m.from < 1) /\ ~(m.from + m.count > provider.next)
    <3>1. PICK serving : serving = [stamp |-> m.stamp, from |-> m.from, count |-> m.count, sent |-> 0]
      OBVIOUS
    <3>2. PICK u : u = [provider EXCEPT !.serving = serving]
      OBVIOUS
    <3>3. r = Result(u, <<>>)
      BY <1>3, <1>10, <2>1, <2>4, <3>1, <3>2 DEF OnRetransmitRequest
    <3>4. r.s = u /\ r.send = <<>> /\ r.open /\ u.serving = serving /\ u.phase = "established"
      BY <1>1, <1>10, <3>2, <3>3, Queued DEF Providers
    <3>5. PICK s \in Consumers, x \in Seq(Message), w \in Seq(Message) :
             s = consumer /\ x = chan["consumer"] /\ w = chan["provider"]
      BY ServedIs
    <3>6. PICK on : on <=> Asking(consumer, up["consumer"])
      OBVIOUS
    <3>7. PICK p : p = provider
      OBVIOUS
    <3>8. Served(s, p, x, w, on)
      BY <3>5, <3>6, <3>7, ServedIs DEF Served
    <3>9. w # <<>> /\ m = Head(w) /\ m.kind = "RetransmitRequest" /\ 1 <= m.count
      BY <1>2, <1>5, <2>4, <3>5, Constants
    <3>10. Served(s, u, x, Tail(w), on)
      BY ONLY <3>1, <3>4, <3>5, <3>8, <3>9, ProviderServes
    <3>11. x \o r.send = x
      BY <3>4, <3>5, ConcatEmptySeq
    <3>12. Served(consumer, r.s, chan["consumer"] \o r.send,
                  IF r.open THEN Tail(chan["provider"]) ELSE <<>>, Asking(consumer, up["consumer"]))
      BY <3>4, <3>5, <3>6, <3>10, <3>11 DEF Served
    <3> QED BY <1>5, <3>12, ProviderMoves
  <2> QED BY <2>2, <2>3, <2>4
<1> QED BY <1>8, <1>9, <1>10

\* on_finished_receiving: the service is what it was.
LEMMA ServiceFinishedReceiving == FlowInv /\ ServiceInv /\ ReceiveFinishedReceiving => ServiceInv'
<1> SUFFICES ASSUME FlowInv, ServiceInv, ReceiveFinishedReceiving PROVE ServiceInv'
  OBVIOUS
<1>1. /\ provider \in Providers
      /\ provider.serving = NoService \/ provider.phase = "established"
  BY ServesNone
<1>2. PICK u : u = [provider EXCEPT !.answered = TRUE]
  OBVIOUS
<1>3. PICK r : r = Result(u, <<>>)
  OBVIOUS
<1>4. /\ up["provider"] /\ chan["provider"] # <<>>
      /\ Carry("provider", r, Tail(chan["provider"]), 0)
  BY <1>2, <1>3 DEF ReceiveFinishedReceiving, Arrives, Hears
<1>5. Reads(chan["provider"], Tail(chan["provider"]))
  BY <1>4 DEF Reads
<1>6. u.serving = provider.serving /\ u.phase = provider.phase
  BY <1>1, <1>2 DEF Providers
<1>7. r.s = u /\ r.send = <<>>
  BY <1>3, Queued
<1> QED BY <1>1, <1>4, <1>5, <1>6, <1>7, ProviderSaysOne

\* terminate with Finished: the service ends with the binding.
LEMMA ServiceProviderTerminates ==
    ASSUME FlowInv, ServiceInv, Terminate("provider")
    PROVE  ServiceInv'
<1>1. /\ provider \in Providers /\ side["provider"] = provider
      /\ provider.phase = "established" => up["provider"]
  BY ServesNone
<1>2. PICK u : u = ReleaseProvider([provider EXCEPT !.phase = "terminating"])
  OBVIOUS
<1>3. PICK m : m = TerminateMsg("Finished")
  OBVIOUS
<1>4. PICK r : r = Result(u, <<m>>)
  OBVIOUS
<1>5. provider.phase = "established" /\ Carry("provider", r, chan["provider"], 0)
  BY <1>1, <1>2, <1>3, <1>4 DEF Terminate, Established, Does
<1>6. u.serving = NoService /\ r.s = u /\ r.send = <<m>>
  BY <1>1, <1>2, <1>4, Queued DEF Providers, ReleaseProvider
<1>7. m \in Message /\ m.kind \notin Answer
  BY <1>3 DEF TerminateMsg, Message, Codes, Answer
<1>8. Reads(chan["provider"], chan["provider"])
  BY DEF Reads
<1> QED BY <1>1, <1>5, <1>6, <1>7, <1>8, ProviderSaysOne

\* terminate with an error code, on_timeout of a silent or an ending binding.
LEMMA ServiceProviderGivesUp ==
    ASSUME FlowInv, ServiceInv, TerminateOnError("provider") \/ UnbindTimeout("provider")
    PROVE  ServiceInv'
<1>1. provider \in Providers /\ side["provider"] = provider
  BY ServesNone
<1>2. up["provider"]
  BY <1>1, ServesNone DEF TerminateOnError, UnbindTimeout, Established, Busy
<1>3. Reads(chan["provider"], chan["provider"])
  BY DEF Reads
<1>4. CASE TerminateOnError("provider")
  <2>1. PICK why : why = "none"
    OBVIOUS
  <2>2. PICK r : r = FailWith("provider", provider, "Error", why)
    OBVIOUS
  <2>3. Carry("provider", r, chan["provider"], 0)
    BY <1>1, <1>4, <2>1, <2>2 DEF TerminateOnError, Does
  <2> QED BY <1>2, <1>3, <2>2, <2>3, ProviderFailsService
<1>5. CASE UnbindTimeout("provider")
  <2>1. PICK u : u = Unbound("provider", ReleaseProvider(provider))
    OBVIOUS
  <2>2. PICK r : r = [Result(u, <<>>) EXCEPT !.open = FALSE]
    OBVIOUS
  <2>3. Carry("provider", r, chan["provider"], 0)
    BY <1>1, <1>5, <2>1, <2>2, TheSides DEF UnbindTimeout, Does, Release
  <2>4. r.s = u /\ r.send = <<>>
    BY ONLY <2>2 DEF Result
  <2>5. u.serving = NoService
    BY <1>1, <2>1, UnboundServesNot
  <2> QED BY <1>2, <1>3, <2>3, <2>4, <2>5, ProviderSaysOne
<1> QED BY <1>4, <1>5

\* on_terminate, at the provider.
LEMMA ServiceProviderHearsTerminate ==
    ASSUME FlowInv, ServiceInv, ReceiveTerminate("provider")
    PROVE  ServiceInv'
<1>1. provider \in Providers /\ side["provider"] = provider
  BY ServesNone
<1>2. up["provider"] /\ chan["provider"] # <<>>
  BY DEF ReceiveTerminate, Arrives
<1>3. Reads(chan["provider"], Tail(chan["provider"]))
  BY <1>2 DEF Reads
<1>4. CASE provider.phase \in {"negotiated", "establishing", "pending"}
  <2>1. PICK u : u = Unbound("provider", provider)
    OBVIOUS
  <2>2. PICK r : r = [Result(u, <<>>) EXCEPT !.open = FALSE]
    OBVIOUS
  <2>3. Carry("provider", r, Tail(chan["provider"]), 0)
    BY <1>1, <1>4, <2>1, <2>2 DEF ReceiveTerminate, Hears
  <2>4. r.s = u /\ r.send = <<>>
    BY ONLY <2>2 DEF Result
  <2>5. u.serving = NoService
    BY <1>1, <1>4, <2>1, ServesNone, UnboundServesNot
  <2> QED BY <1>2, <1>3, <2>3, <2>4, <2>5, ProviderSaysOne
<1>5. CASE provider.phase \notin {"negotiated", "establishing", "pending"}
  <2>1. PICK handled : handled = OnTerminate("provider", provider, Head(chan["provider"]))
    OBVIOUS
  <2>2. PICK r : r = OnPeer("provider", handled)
    OBVIOUS
  <2>3. Carry("provider", r, Tail(chan["provider"]), 0)
    BY <1>1, <1>5, <2>1, <2>2 DEF ReceiveTerminate, Hears
  <2>4. PICK t : t = ReleaseProvider(provider)
    OBVIOUS
  <2>5. t \in Providers /\ t.serving = NoService
    BY <1>1, <2>4, None DEF Providers, ReleaseProvider
  <2>6. CASE provider.phase \notin {"established", "terminating"}
    BY <1>2, <2>2, <2>3, <2>6, ProviderPasses
  <2>7. CASE provider.phase = "terminating"
    <3>1. PICK u : u = Unbound("provider", t)
      OBVIOUS
    <3>2. r = [Result(u, <<>>) EXCEPT !.open = FALSE]
      BY <1>1, <2>1, <2>2, <2>4, <2>7, <3>1, TheSides DEF OnPeer, OnTerminate, Release
    <3>3. r.s = u /\ r.send = <<>>
      BY ONLY <3>2 DEF Result
    <3>4. u.serving = NoService
      BY <2>5, <3>1, UnboundServesNot
    <3> QED BY <1>2, <1>3, <2>3, <3>3, <3>4, ProviderSaysOne
  <2>8. CASE provider.phase = "established"
    <3>1. PICK u : u = [t EXCEPT !.phase = "closing"]
      OBVIOUS
    <3>2. PICK m : m = TerminateMsg("Finished")
      OBVIOUS
    <3>3. r = Result(u, <<m>>)
      BY <1>1, <2>1, <2>2, <2>4, <2>8, <3>1, <3>2, TheSides DEF OnPeer, OnTerminate, Release
    <3>4. u.serving = NoService /\ r.s = u /\ r.send = <<m>>
      BY <2>5, <3>1, <3>3, Queued DEF Providers
    <3>5. m \in Message /\ m.kind \notin Answer
      BY <3>2 DEF TerminateMsg, Message, Codes, Answer
    <3> QED BY <1>2, <1>3, <2>3, <3>4, <3>5, ProviderSaysOne
  <2> QED BY <2>6, <2>7, <2>8
<1> QED BY <1>4, <1>5

\* on_transport_closed, at the provider.
LEMMA ServiceProviderCloses ==
    ASSUME FlowInv, ServiceInv, TransportClosed("provider")
    PROVE  ServiceInv'
<1>1. provider \in Providers /\ side["provider"] = provider
  BY ServesNone
<1>2. PICK u : u = IF Bound("provider") THEN Unbound("provider", ReleaseProvider(provider))
                   ELSE IF provider.phase \in {"establishing", "pending"}
                        THEN Unbound("provider", provider) ELSE provider
  OBVIOUS
<1>3. up["provider"] /\ Closes("provider", u)
  <2>1. side \in [consumer : Consumers, provider : Providers]
    BY DEF FlowInv, FlowTypeOK
  <2>2. Unbound("provider", provider) = [provider EXCEPT !.phase = "negotiated"]
    BY DEF Unbound
  <2> QED BY <1>1, <1>2, <2>1, <2>2 DEF TransportClosed, Release, Closes
<1>4. u.serving = NoService
  <2>1. ~Bound("provider") => provider.serving = NoService
    BY <1>1, ServesNone DEF Bound
  <2> QED BY <1>1, <1>2, <2>1, UnboundServesNot
<1>5. PICK r : r = Shut(u)
  OBVIOUS
<1>6. Carry("provider", r, chan["provider"], 0) /\ r.s = u /\ r.send = <<>>
  <2>1. PICK x \in Sides : x = "provider"
    BY TheSides
  <2>2. Closes(x, u)
    BY <1>3, <2>1
  <2>3. Carry(x, r, chan[x], 0) /\ r.s = u /\ r.send = <<>>
    BY ONLY FlowInv, <1>5, <2>2, ClosedIs, x \in Sides
  <2> QED BY <2>1, <2>3
<1>7. Reads(chan["provider"], chan["provider"])
  BY DEF Reads
<1> QED BY <1>3, <1>4, <1>6, <1>7, ProviderSaysOne

\* handle_timeout of a provider that is not bound.
LEMMA ServiceProviderTimeout ==
    ASSUME FlowInv, ServiceInv, HandshakeTimeout("provider")
    PROVE  ServiceInv'
<1>1. provider \in Providers /\ side["provider"] = provider
  BY ServesNone
<1>2. PICK p : p = [provider EXCEPT !.announced = 0]
  OBVIOUS
<1>3. PICK u : u = Unbound("provider", p)
  OBVIOUS
<1>4. PICK send : send = IF provider.phase = "pending" THEN <<EstablishReject("Unspecified")>> ELSE <<>>
  OBVIOUS
<1>5. PICK r : r = [Result(u, send) EXCEPT !.open = FALSE]
  OBVIOUS
<1>6. up["provider"] /\ provider.phase # "established" /\ Carry("provider", r, chan["provider"], 0)
  BY <1>1, <1>2, <1>3, <1>4, <1>5 DEF HandshakeTimeout, Does
<1>7. p \in Providers /\ p.serving = NoService
  BY <1>1, <1>2, <1>6, ServesNone DEF Providers
<1>8. u.serving = NoService
  BY <1>3, <1>7, UnboundServesNot
<1>9. r.s = u /\ r.send = send
  BY ONLY <1>5 DEF Result
<1>10. /\ EstablishReject("Unspecified") \in Message
       /\ EstablishReject("Unspecified").kind \notin Answer
  BY DEF EstablishReject, Message, Codes, Answer
<1>11. send = <<>> \/ \E m \in Message : m.kind \notin Answer /\ send = <<m>>
  BY <1>4, <1>10
<1>12. Reads(chan["provider"], chan["provider"])
  BY DEF Reads
<1> QED BY <1>6, <1>8, <1>9, <1>11, <1>12, ProviderSaysOne

-----------------------------------------------------------------------------
(* The handshake, at the provider                                           *)

\* establish, by a provider that is the client.
LEMMA ServiceProviderEstablishes ==
    ASSUME FlowInv, ServiceInv, Client = "provider", Establish
    PROVE  ServiceInv'
<1>1. /\ provider \in Providers /\ side["provider"] = provider /\ provider.next \in Nat
      /\ provider.phase # "established" => provider.serving = NoService
  BY ServesNone
<1>2. PICK u : u = [provider EXCEPT !.phase = "establishing"]
  OBVIOUS
<1>3. PICK m : m = [kind |-> "Establish", next |-> provider.next]
  OBVIOUS
<1>4. PICK r : r = Result(u, <<m>>)
  OBVIOUS
<1>5. up["provider"] /\ provider.phase = "negotiated" /\ Carry("provider", r, chan["provider"], 0)
  BY <1>1, <1>2, <1>3, <1>4 DEF Establish, Does, AnnouncedNextSeq
<1>6. u.serving = NoService /\ r.s = u /\ r.send = <<m>>
  BY <1>1, <1>2, <1>4, <1>5, Queued DEF Providers
<1>7. m \in Message /\ m.kind \notin Answer
  BY <1>1, <1>3 DEF Message, Answer
<1>8. Reads(chan["provider"], chan["provider"])
  BY DEF Reads
<1> QED BY <1>5, <1>6, <1>7, <1>8, ProviderSaysOne

\* on_establish, by a provider that is the server.
LEMMA ServiceProviderTakes ==
    ASSUME FlowInv, ServiceInv, Server = "provider", ReceiveEstablish
    PROVE  ServiceInv'
<1>1. /\ provider \in Providers /\ side["provider"] = provider
      /\ provider.phase # "established" => provider.serving = NoService
  BY ServesNone
<1>2. PICK m : m = Head(chan["provider"])
  OBVIOUS
<1>3. PICK r : r = OnEstablish(provider, m)
  OBVIOUS
<1>4. /\ up["provider"] /\ chan["provider"] # <<>> /\ m.kind = "Establish"
      /\ Carry("provider", r, Tail(chan["provider"]), 0)
  BY <1>1, <1>2, <1>3 DEF ReceiveEstablish, Arrives, Hears
<1>5. Reads(chan["provider"], Tail(chan["provider"]))
  BY <1>4 DEF Reads
<1>6. \A code \in Codes : EstablishReject(code) \in Message /\ EstablishReject(code).kind \notin Answer
  BY DEF EstablishReject, Message, Answer
<1>7. "AlreadyEstablished" \in Codes
  BY DEF Codes
<1>8. Bound("provider") <=> provider.phase \in {"established", "terminating", "closing"}
  BY <1>1 DEF Bound
<1>9. CASE provider.phase = "established"
  <2>1. r = Result(provider, <<EstablishReject("AlreadyEstablished")>>)
    BY <1>3, <1>9 DEF OnEstablish
  <2>2. r.s = provider /\ r.send = <<EstablishReject("AlreadyEstablished")>>
    BY <2>1, Queued
  <2>3. PICK e \in Message : e = EstablishReject("AlreadyEstablished") /\ e.kind \notin Answer
    BY <1>6, <1>7
  <2> QED BY <1>4, <1>5, <1>9, <2>2, <2>3, ProviderSaysOne
<1>10. CASE provider.phase \in {"terminating", "closing"}
  <2>1. r = Result(provider, <<>>)
    BY <1>3, <1>8, <1>10 DEF OnEstablish
  <2>2. r.s = provider /\ r.send = <<>>
    BY <2>1, Queued
  <2> QED BY <1>1, <1>4, <1>5, <1>10, <2>2, ProviderSaysOne
<1>11. CASE provider.phase = "pending"
  <2>1. PICK u : u = Unbound("provider", provider)
    OBVIOUS
  <2>2. r = [Result(u, <<>>) EXCEPT !.open = FALSE, !.blame = "Establish pending"]
    BY <1>3, <1>8, <1>11, <2>1 DEF OnEstablish
  <2>3. r.s = u /\ r.send = <<>>
    BY ONLY <2>2 DEF Result
  <2>4. u.serving = NoService
    BY <1>1, <1>11, <2>1, UnboundServesNot
  <2> QED BY <1>4, <1>5, <2>3, <2>4, ProviderSaysOne
<1>12. CASE provider.phase \in {"negotiated", "establishing", "closed"}
  <2>1. PICK u : u = [provider EXCEPT !.phase = "pending", !.announced = m.next]
    OBVIOUS
  <2>2. r = Result(u, <<>>)
    <3>1. Server # "consumer"
      BY TheSides
    <3> QED BY <1>3, <1>8, <1>12, <2>1, <3>1 DEF OnEstablish
  <2>3. u.serving = NoService /\ r.s = u /\ r.send = <<>>
    BY <1>1, <1>12, <2>1, <2>2, Queued DEF Providers
  <2> QED BY <1>4, <1>5, <2>3, ProviderSaysOne
<1>13. provider.phase \in Phases \ {"finalized"}
  BY <1>1, ProviderFields
<1> QED BY <1>9, <1>10, <1>11, <1>12, <1>13 DEF Phases

\* bind of the provider: no request is in service.
LEMMA BoundServesNot ==
    ASSUME NEW p \in Providers
    PROVE  Bind("provider", p).serving = NoService
<1>1. PICK t : t = ReleaseProvider(p)
  OBVIOUS
<1>2. t \in Providers /\ t.serving = NoService
  BY <1>1, None DEF Providers, ReleaseProvider
<1>3. Bind("provider", p) = [[t EXCEPT !.phase = "established", !.announced = 0] EXCEPT !.implicit = FALSE]
  BY <1>1, TheSides DEF Bind, Release
<1> QED BY <1>2, <1>3 DEF Providers

\* accept_establishment of the provider.
LEMMA ServiceProviderAccepts ==
    ASSUME FlowInv, ServiceInv, Server = "provider", AcceptEstablishment
    PROVE  ServiceInv'
<1>1. provider \in Providers /\ side["provider"] = provider /\ provider.next \in Nat
  BY ServesNone
<1>2. PICK u : u = Bind("provider", provider)
  OBVIOUS
<1>3. PICK m : m = [kind |-> "EstablishmentAck", next |-> provider.next]
  OBVIOUS
<1>4. PICK send \in Seq(Message) : send = <<m>>
  <2>1. m \in Message
    BY <1>1, <1>3 DEF Message
  <2>2. <<m>> \in Seq(Message)
    BY <2>1
  <2> QED BY <2>2
<1>5. PICK b : b = Result(u, send)
  OBVIOUS
<1>6. PICK q : q = Result(u, <<>>)
  OBVIOUS
<1>7. PICK r : r = Then(b, q)
  OBVIOUS
<1>8. up["provider"] /\ Carry("provider", r, chan["provider"], 0)
  <2>1. b.s = u
    BY <1>5, Queued
  <2>2. OnEstablished("provider", b.s, provider.announced) = q
    BY <1>6, <2>1 DEF OnEstablished
  <2>3. b = Result(Bind(Server, side[Server]),
                   <<[kind |-> "EstablishmentAck", next |-> AnnouncedNextSeq(Server)]>>)
    BY <1>1, <1>2, <1>3, <1>4, <1>5 DEF AnnouncedNextSeq
  <2>4. /\ up[Server] /\ side[Server].phase = "pending"
        /\ Does(Server, Then(b, OnEstablished(Server, b.s, side[Server].announced)))
    BY <2>3, Zenon DEF AcceptEstablishment
  <2> QED BY <1>1, <1>7, <2>2, <2>4 DEF Does
<1>9. r.s = u /\ r.send = send
  <2>1. send \o <<>> = send
    BY ConcatEmptySeq
  <2>2. /\ b.open /\ b.send = send /\ b.gone = {} /\ b.accept = 0
        /\ q = [s |-> u, send |-> <<>>, open |-> TRUE, accept |-> 0, gone |-> {}, blame |-> "none"]
    BY <1>5, <1>6 DEF Result
  <2>3. r = [q EXCEPT !.send = b.send \o @, !.gone = b.gone \union @,
                      !.accept = IF @ = 0 THEN b.accept ELSE @]
    BY <1>7, <2>2 DEF Then
  <2> QED BY <2>1, <2>2, <2>3
<1>10. m \in Message /\ m.kind \notin Answer
  BY <1>1, <1>3 DEF Message, Answer
<1>11. u.serving = NoService
  BY <1>1, <1>2, BoundServesNot
<1>12. Reads(chan["provider"], chan["provider"])
  BY DEF Reads
<1> QED BY <1>4, <1>8, <1>9, <1>10, <1>11, <1>12, ProviderSaysOne

\* reject_establishment of the provider.
LEMMA ServiceProviderRejects ==
    ASSUME FlowInv, ServiceInv, Server = "provider", RejectEstablishment
    PROVE  ServiceInv'
<1>1. /\ provider \in Providers /\ side["provider"] = provider
      /\ provider.phase # "established" => provider.serving = NoService
  BY ServesNone
<1>2. PICK u : u = [provider EXCEPT !.phase = "negotiated", !.announced = 0]
  OBVIOUS
<1>3. PICK m : m = EstablishReject("Unspecified")
  OBVIOUS
<1>4. PICK r : r = Result(u, <<m>>)
  OBVIOUS
<1>5. up["provider"] /\ provider.phase = "pending" /\ Carry("provider", r, chan["provider"], 0)
  BY <1>1, <1>2, <1>3, <1>4 DEF RejectEstablishment, Does
<1>6. u.serving = NoService /\ r.s = u /\ r.send = <<m>>
  BY <1>1, <1>2, <1>4, <1>5, Queued DEF Providers
<1>7. m \in Message /\ m.kind \notin Answer
  BY <1>3 DEF EstablishReject, Message, Codes, Answer
<1>8. Reads(chan["provider"], chan["provider"])
  BY DEF Reads
<1> QED BY <1>5, <1>6, <1>7, <1>8, ProviderSaysOne

\* on_establishment_ack and on_establishment_reject, by a provider that is the
\* client.
LEMMA ServiceProviderHearsAnswer ==
    ASSUME FlowInv, ServiceInv, Client = "provider",
           ReceiveEstablishmentAck \/ ReceiveEstablishmentReject
    PROVE  ServiceInv'
<1>1. /\ provider \in Providers /\ side["provider"] = provider
      /\ provider.phase # "established" => provider.serving = NoService
  BY ServesNone
<1>2. up["provider"] /\ chan["provider"] # <<>>
  BY DEF ReceiveEstablishmentAck, ReceiveEstablishmentReject, Arrives
<1>3. \E u : /\ u.serving = NoService \/ (u.serving = provider.serving /\ u.phase = "established")
             /\ Carry("provider", Result(u, <<>>), Tail(chan["provider"]), 0)
  <2>1. CASE provider.phase # "establishing"
    <3>1. Carry("provider", Result(provider, <<>>), Tail(chan["provider"]), 0)
      BY <1>1, <2>1 DEF ReceiveEstablishmentAck, ReceiveEstablishmentReject, OnAck, OnReject, Hears
    <3> QED BY <1>1, <3>1
  <2>2. CASE provider.phase = "establishing" /\ ReceiveEstablishmentAck
    <3>1. PICK u : u = Bind("provider", provider)
      OBVIOUS
    <3>2. Carry("provider", Result(u, <<>>), Tail(chan["provider"]), 0)
      BY <1>1, <2>2, <3>1 DEF ReceiveEstablishmentAck, OnAck, OnEstablished, Hears
    <3>3. u.serving = NoService
      BY <1>1, <3>1, BoundServesNot
    <3> QED BY <3>2, <3>3
  <2>3. CASE provider.phase = "establishing" /\ ReceiveEstablishmentReject
    <3>1. PICK phase \in {"closed", "negotiated"} :
             phase = IF Head(chan["provider"]).code = "Unnegotiated" THEN "closed" ELSE "negotiated"
      OBVIOUS
    <3>2. PICK u : u = [provider EXCEPT !.phase = phase]
      OBVIOUS
    <3>3. Carry("provider", Result(u, <<>>), Tail(chan["provider"]), 0)
      BY <1>1, <2>3, <3>1, <3>2 DEF ReceiveEstablishmentReject, OnReject, Hears
    <3>4. u.serving = NoService
      BY <1>1, <2>3, <3>2 DEF Providers
    <3> QED BY <3>3, <3>4
  <2> QED BY <2>1, <2>2, <2>3
<1>4. PICK u : /\ u.serving = NoService \/ (u.serving = provider.serving /\ u.phase = "established")
               /\ Carry("provider", Result(u, <<>>), Tail(chan["provider"]), 0)
  BY <1>3
<1>5. PICK r : r = Result(u, <<>>)
  OBVIOUS
<1>6. r.s = u /\ r.send = <<>>
  BY <1>5, Queued
<1>7. Reads(chan["provider"], Tail(chan["provider"]))
  BY <1>2 DEF Reads
<1> QED BY <1>2, <1>4, <1>5, <1>6, <1>7, ProviderSaysOne

-----------------------------------------------------------------------------
(* The invariant holds                                                      *)

\* A new transport, with nothing under way on it.
LEMMA ServiceConnects == FlowInv /\ ServiceInv /\ Connect => ServiceInv'
<1> SUFFICES ASSUME FlowInv, ServiceInv, Connect PROVE ServiceInv'
  OBVIOUS
<1>1. side' = side /\ chan' = chan /\ \A x \in Sides : ~up[x]
  BY DEF Connect, history
<1>2. consumer' = consumer /\ provider' = provider
  BY <1>1 DEF consumer, provider
<1>3. LetGo /\ "consumer" \in Sides /\ "provider" \in Sides
  BY TheSides DEF FlowInv
<1>4. chan["consumer"] = <<>> /\ chan["provider"] = <<>> /\ consumer.phase \notin Busy
      /\ provider.phase \notin Busy
  BY <1>1, <1>3, SidesHave DEF LetGo
<1>5. provider.serving = NoService /\ consumer.request = NoRequest
  BY <1>4, ServesNone, ServedIs DEF Busy
<1>6. Rest(<<>>) /\ Unasked(<<>>)
  BY NoAnswer, NoAsk
<1>7. OneAsked(provider, chan["provider"])
  BY ServedIs DEF Served
<1>8. Answered(provider, chan["consumer"], chan["provider"])
  BY ServedIs DEF Served
<1>9. Idle(provider, chan["provider"]) /\ Rest(chan["consumer"])
  BY <1>4, <1>5, <1>6 DEF Idle
<1> QED BY <1>1, <1>2, <1>5, <1>7, <1>8, <1>9 DEF ServiceInv, Served

\* Nothing is asked and nothing served.
LEMMA ServiceInit == Init => ServiceInv
<1> SUFFICES ASSUME Init PROVE ServiceInv
  OBVIOUS
<1>1. consumer = NewConsumer /\ provider = NewProvider
  BY DEF Init, consumer, provider
<1>2. chan["consumer"] = <<>> /\ chan["provider"] = <<>>
  BY TheSides DEF Init
<1>3. provider.serving = NoService /\ consumer.request = NoRequest
  BY <1>1 DEF NewConsumer, NewProvider
<1>4. Rest(<<>>) /\ Unasked(<<>>)
  BY NoAnswer, NoAsk
<1>5. OneAsked(provider, <<>>)
  <2>1. Lone(<<>>, "RetransmitRequest")
    BY NothingSent
  <2> QED BY <1>3, <1>4, <2>1 DEF OneAsked
<1>6. Answered(provider, <<>>, <<>>)
  <2>1. Len(<<>>) = 0
    OBVIOUS
  <2> QED BY <1>3, <1>4, <2>1 DEF Answered
<1> QED BY <1>2, <1>3, <1>4, <1>5, <1>6 DEF ServiceInv, Served, Idle

\* The handshake, whichever end is the client (establish, on_handshake).
LEMMA ServiceHandshake ==
    ASSUME FlowInv, ServiceInv,
           \/ Establish \/ ReceiveEstablish \/ AcceptEstablishment \/ RejectEstablishment
           \/ ReceiveEstablishmentAck \/ ReceiveEstablishmentReject
    PROVE  ServiceInv'
<1>1. CASE ConsumerIsClient
  <2>1. Client = "consumer" /\ Server = "provider"
    BY <1>1 DEF Client, Server, Other
  <2> QED BY <2>1, ServiceEstablishes, ServiceHearsAck, ServiceHearsReject,
             ServiceProviderTakes, ServiceProviderAccepts, ServiceProviderRejects
<1>2. CASE ~ConsumerIsClient
  <2>1. Client = "provider" /\ Server = "consumer"
    BY <1>2 DEF Client, Server, Other
  <2> QED BY <2>1, ServiceProviderEstablishes, ServiceProviderHearsAnswer,
             ServiceTakesEstablish, ServiceAccepts, ServiceRejects
<1> QED BY <1>1, <1>2

\* What either end may do to the session by itself, or a transport to both
\* (on_transport_closed, terminate, on_timeout).
LEMMA ServiceEither ==
    ASSUME FlowInv, ServiceInv, NEW x \in Sides,
           \/ TransportClosed(x) \/ HandshakeTimeout(x) \/ ReceiveTerminate(x)
           \/ Terminate(x) \/ TerminateOnError(x) \/ UnbindTimeout(x)
    PROVE  ServiceInv'
<1>1. CASE x = "consumer"
  BY <1>1, ServiceConsumerCloses, ServiceConsumerTimeout, ServiceHearsTerminate,
     ServiceTerminates, ServiceGivesUp
<1>2. CASE x = "provider"
  BY <1>2, ServiceProviderCloses, ServiceProviderTimeout, ServiceProviderHearsTerminate,
     ServiceProviderTerminates, ServiceProviderGivesUp
<1> QED BY <1>1, <1>2, TheSides

\* Every step keeps the chain of request, service and answers, when a stall
\* does not ask again behind a batch that may go on.
LEMMA ServiceNext ==
    ASSUME Policy # "ReRequestAfterBatch", FlowInv, ServiceInv, [Next]_vars
    PROVE  ServiceInv'
<1>1. CASE UNCHANGED vars
  BY <1>1 DEF vars, ServiceInv, consumer, provider, Asking
<1>2. CASE Connect
  BY <1>2, ServiceConnects
<1>3. CASE \/ Establish \/ ReceiveEstablish \/ AcceptEstablishment \/ RejectEstablishment
           \/ ReceiveEstablishmentAck \/ ReceiveEstablishmentReject
  BY <1>3, ServiceHandshake
<1>4. CASE \/ SendApplication \/ Heartbeat \/ RejectRequest \/ EndRetransmission \/ FinishSending
           \/ ReceiveRetransmitRequest \/ ReceiveFinishedReceiving
  BY <1>4, ServiceSends, ServiceHeartbeat, ServiceDeclines, ServiceEnds, ServiceFinishes,
     ServiceTakesRequest, ServiceFinishedReceiving
<1>5. ASSUME NEW count \in 1 .. MaxRetransmitCount, Retransmit(count)
      PROVE  ServiceInv'
  BY <1>5, ServiceBatch
<1>6. ASSUME NEW count \in 1 .. MaxRetransmitCount, NEW written \in 0 .. count - 1,
             RetransmitCut(count, written)
      PROVE  ServiceInv'
  BY <1>6, ServiceCut
<1>7. CASE \/ ReceiveSequence \/ ReceiveApplication \/ ReceiveRetransmission
           \/ ReceiveRetransmitReject \/ ReceiveFinishedSending \/ Stall
  BY <1>7, ServiceSequence, ServiceApplication, ServiceRetransmission, ServiceReject,
     ServiceFinishedSending, ServiceStall
<1>8. ASSUME NEW x \in Sides,
             \/ TransportClosed(x) \/ HandshakeTimeout(x) \/ ReceiveTerminate(x)
             \/ Terminate(x) \/ TerminateOnError(x) \/ UnbindTimeout(x)
      PROVE  ServiceInv'
  BY <1>8, ServiceEither
<1> QED BY <1>1, <1>2, <1>3, <1>4, <1>5, <1>6, <1>7, <1>8 DEF Next

\* A request reaches a provider that has served the one before: across
\* batches, refusals, stalls and new transports a consumer asks again only when
\* nothing more is said of its last request (request_missing, on_stall,
\* on_retransmit_request).  A stall of ReRequestAfterBatch asks behind a batch
\* that may not be the last, so that policy is left out.
THEOREM ServesOneAtATime ==
    ASSUME Policy # "ReRequestAfterBatch"
    PROVE  Spec => []OneRequestInService
<1>1. FlowInv /\ ServiceInv => OneRequestInService
  <2> SUFFICES ASSUME FlowInv, ServiceInv, provider.serving # NoService,
                      NEW i \in DOMAIN chan.provider
               PROVE  chan.provider[i].kind # "RetransmitRequest"
    BY DEF OneRequestInService
  <2>1. Unasked(chan["provider"]) /\ chan["provider"] \in Seq(Message)
    BY ServedIs DEF Served, OneAsked
  <2>2. DOMAIN chan["provider"] = 1 .. Len(chan["provider"])
    BY <2>1
  <2> QED BY <2>1, <2>2 DEF Unasked, Without
<1>2. Init => FlowInv /\ ServiceInv
  BY FlowInvInit, ServiceInit
<1>3. FlowInv /\ ServiceInv /\ [Next]_vars => FlowInv' /\ ServiceInv'
  BY FlowInvNext, ServiceNext DEF Keeps
<1> QED BY <1>1, <1>2, <1>3, PTL DEF Spec

=============================================================================
