------------------------- MODULE FixpAccordProofs --------------------------
(***************************************************************************)
(* Neither end of a Recoverable flow, driven as the engine drives it, is    *)
(* ever accused of a protocol violation by the other, for every value of    *)
(* the constants but two kinds: NoEndIsAccused, at the end, says which.     *)
(*                                                                          *)
(* AccordInv is what makes each check of the session pass.  NumbersInv: the *)
(* numbers announced on the line rise, from what the consumer expects, and  *)
(* whoever says or heard that the flow ended knows where.  ResumesInv:      *)
(* behind a batch no application message comes without a header.  GreetInv: *)
(* how far the two roles are in the handshake, against what is on the way   *)
(* between them.  That one request is served at a time is ServiceInv, of    *)
(* FixpServiceProofs.                                                       *)
(***************************************************************************)
EXTENDS FixpServiceProofs

-----------------------------------------------------------------------------
(* Neither end provokes the other                                           *)

\* What a message announces, and the number it leaves the reader at.
Says(m) == m.kind \in {"Sequence", "Establish", "EstablishmentAck", "FinishedSending"}
Said(m) == IF m.kind = "FinishedSending" THEN m.last + 1 ELSE m.next
Height(m) == IF Says(m) THEN Said(m) ELSE IF m.kind = "Application" THEN m.n + 1 ELSE 0

\* Announced numbers rise along the line, and from what the consumer expects.
Rising(u) == \A i, j \in 1 .. Len(u) : i < j /\ Says(u[j]) => Height(u[i]) <= Said(u[j])
Above(u, k) == \A i \in 1 .. Len(u) : Says(u[i]) => k <= Said(u[i])
Expects(s) == IF s.phase = "pending" THEN s.announced ELSE s.next
InStep(s, u) == s.next <= Expects(s) /\ Rising(u) /\ Above(u, Expects(s))

\* Who says or heard that the flow ended knows where, and only a consumer
\* that answered it is finalized.
Ended(p, end) == p.ended /\ end = p.next
Concludes(s, p, u) ==
    /\ p.ended => Finishes
    /\ \A i \in 1 .. Len(u) : u[i].kind = "FinishedSending" => Ended(p, u[i].last + 1)
    /\ s.finished # NotFinished => Ended(p, s.finished.end)
    /\ s.phase = "finalized" => s.finalized
    /\ s.finalized => s.finished.answered

\* Behind a batch no message comes without a header.
Resumes(s, x) ==
    s.phase \in {"established", "terminating"} /\ s.resume /\ s.replay = NoReplay
    => Numbered(Unknown, x)

\* What only a bound session may be told.
Talk == {"Sequence", "Application", "Retransmission", "RetransmitReject", "FinishedSending",
         "RetransmitRequest"}
Silent(u) == \A i \in 1 .. Len(u) : u[i].kind \notin Talk
Greeted(u) ==
    \A i \in 1 .. Len(u) : u[i].kind \in Talk =>
        \E j \in 1 .. Len(u) : j < i /\ u[j].kind = "EstablishmentAck"
Binds == {"established", "terminating", "closing"}

\* The client in phase `c' and the server in phase `d', while they hold the
\* transport, what is on its way `to' the server and back `fro'.
Waits(d, to) == d \notin Busy /\ Without(to, "Establish")
Greeting(c, d, cup, sup, to, fro) ==
    /\ c # "pending" /\ d \notin {"establishing", "closed"}
    /\ Lone(to, "Establish") /\ (d \in Busy => Without(to, "Establish"))
    /\ cup /\ c = "negotiated" =>
          /\ Waits(d, to) /\ Silent(fro)
          /\ Without(fro, "EstablishmentReject") /\ Without(fro, "EstablishmentAck")
    /\ cup /\ c = "establishing" =>
          /\ Lone(fro, "EstablishmentReject") /\ Greeted(fro)
          /\ Without(fro, "EstablishmentReject") \/ (Waits(d, to) /\ Without(fro, "EstablishmentAck"))
          /\ d \in Binds => ~Without(fro, "EstablishmentAck")
    /\ sup /\ d \in {"negotiated", "pending"} =>
          c \notin Binds /\ Silent(to) /\ Silent(fro) /\ Without(fro, "EstablishmentAck")

NumbersInv ==
    InStep(consumer, chan["consumer"]) /\ Concludes(consumer, provider, chan["consumer"])
ResumesInv == Resumes(consumer, chan["consumer"] \o Ready(provider))
GreetInv ==
    Greeting(side[Client].phase, side[Server].phase, up[Client], up[Server],
             chan[Server], chan[Client])
AccordInv == NumbersInv /\ ResumesInv /\ GreetInv

-----------------------------------------------------------------------------
(* The announced numbers, and the end of the flow                           *)

\* Numbers are natural, and an announcement leaves the reader at its number.
LEMMA Heights ==
    ASSUME NEW m \in Message
    PROVE  Height(m) \in Nat /\ (Says(m) => Said(m) \in Nat /\ Height(m) = Said(m))
<1>1. CASE Says(m)
  BY <1>1, Fields DEF Says, Said, Height
<1>2. CASE ~Says(m) /\ m.kind = "Application"
  BY <1>2, Fields DEF Height
<1>3. CASE ~Says(m) /\ m.kind # "Application"
  BY <1>3 DEF Height
<1> QED BY <1>1, <1>2, <1>3

\* Nothing is higher than what the provider has reached.
LEMMA HeightReached ==
    ASSUME NEW u \in Seq(Message), NEW k \in Nat, Reached(u, k), NEW i \in 1 .. Len(u)
    PROVE  Height(u[i]) <= k /\ u[i] \in Message
<1>1. u[i] \in Message
  BY ElementOfSeq
<1>2. CASE u[i].kind \in {"Sequence", "Establish", "EstablishmentAck"}
  <2>1. Says(u[i]) /\ u[i].kind # "FinishedSending"
    BY <1>2 DEF Says
  <2>2. u[i].next <= k
    BY <1>2 DEF Reached
  <2> QED BY <1>1, <2>1, <2>2 DEF Height, Said
<1>3. CASE u[i].kind = "FinishedSending"
  <2>1. Says(u[i]) /\ u[i].last + 1 <= k
    BY <1>3 DEF Says, Reached
  <2> QED BY <1>1, <1>3, <2>1 DEF Height, Said
<1>4. CASE u[i].kind = "Application"
  <2>1. ~Says(u[i]) /\ u[i].n < k /\ u[i].n \in Nat
    BY <1>1, <1>4, Fields DEF Says, Reached
  <2> QED BY <1>1, <1>4, <2>1 DEF Height
<1>5. CASE ~Says(u[i]) /\ u[i].kind # "Application"
  BY <1>1, <1>5 DEF Height
<1> QED BY <1>2, <1>3, <1>4, <1>5 DEF Says

\* What is announced behind a line is not below what is on it.
LEMMA RisesBehind ==
    ASSUME NEW u \in Seq(Message), NEW v \in Seq(Message), NEW k \in Nat, NEW low \in Nat,
           Rising(u), Above(u, low), low <= k, Reached(u, k), Rising(v), Above(v, k)
    PROVE  Rising(u \o v) /\ Above(u \o v, low)
<1> DEFINE x == u \o v
<1>1. ASSUME NEW i \in 1 .. Len(x), NEW j \in 1 .. Len(x), i < j, Says(x[j])
      PROVE  Height(x[i]) <= Said(x[j])
  <2>1. CASE j \in 1 .. Len(u)
    <3>1. i \in 1 .. Len(u) /\ x[i] = u[i] /\ x[j] = u[j]
      BY <1>1, <2>1, BehindIs
    <3> QED BY <1>1, <2>1, <3>1 DEF Rising
  <2>2. CASE j \notin 1 .. Len(u)
    <3>1. j > Len(u) /\ j - Len(u) \in 1 .. Len(v) /\ x[j] = v[j - Len(u)]
      BY <1>1, <2>2, BehindIs
    <3>2. k <= Said(x[j]) /\ Said(x[j]) \in Nat
      BY <1>1, <3>1, Heights, ElementOfSeq DEF Above
    <3>3. CASE i \in 1 .. Len(u)
      <4>1. x[i] = u[i] /\ Height(u[i]) <= k /\ Height(u[i]) \in Nat
        BY <3>3, BehindIs, HeightReached, Heights
      <4> QED BY <3>2, <4>1
    <3>4. CASE i \notin 1 .. Len(u)
      <4>1. i > Len(u) /\ i - Len(u) \in 1 .. Len(v) /\ x[i] = v[i - Len(u)]
        BY <1>1, <3>4, BehindIs
      <4>2. i - Len(u) < j - Len(u)
        BY <1>1, <3>1, <4>1, BehindIs
      <4> QED BY <1>1, <3>1, <4>1, <4>2 DEF Rising
    <3> QED BY <3>3, <3>4
  <2> QED BY <2>1, <2>2
<1>2. ASSUME NEW i \in 1 .. Len(x), Says(x[i])
      PROVE  low <= Said(x[i])
  <2>1. CASE i \in 1 .. Len(u)
    <3>1. x[i] = u[i]
      BY <2>1, BehindIs
    <3> QED BY <1>2, <2>1, <3>1 DEF Above
  <2>2. CASE i \notin 1 .. Len(u)
    <3>1. i - Len(u) \in 1 .. Len(v) /\ x[i] = v[i - Len(u)]
      BY <1>2, <2>2, BehindIs
    <3>2. k <= Said(x[i]) /\ Said(x[i]) \in Nat
      BY <1>2, <3>1, Heights, ElementOfSeq DEF Above
    <3> QED BY <3>2
  <2> QED BY <2>1, <2>2
<1> QED BY <1>1, <1>2 DEF Rising, Above

\* What is left of a line once it is read to, and of one that is dropped.
LEMMA RisesLeft ==
    ASSUME NEW u \in Seq(Message), NEW low \in Nat, Rising(u), Above(u, low), NEW k \in Nat
    PROVE  /\ k <= low => Above(u, k)
           /\ u # <<>> => Rising(Tail(u))
           /\ u # <<>> /\ (k <= low \/ k <= Height(Head(u))) => Above(Tail(u), k)
           /\ Rising(<<>>) /\ Above(<<>>, k)
<1>1. k <= low => Above(u, k)
  <2> SUFFICES ASSUME k <= low, NEW i \in 1 .. Len(u), Says(u[i]) PROVE k <= Said(u[i])
    BY DEF Above
  <2>1. low <= Said(u[i]) /\ Said(u[i]) \in Nat
    BY Heights, ElementOfSeq DEF Above
  <2> QED BY <2>1
<1>2. ASSUME u # <<>> PROVE Rising(Tail(u))
  <2> SUFFICES ASSUME NEW i \in 1 .. Len(Tail(u)), NEW j \in 1 .. Len(Tail(u)), i < j, Says(Tail(u)[j])
               PROVE  Height(Tail(u)[i]) <= Said(Tail(u)[j])
    BY DEF Rising
  <2>1. /\ i + 1 \in 1 .. Len(u) /\ j + 1 \in 1 .. Len(u) /\ i + 1 < j + 1
        /\ Tail(u)[i] = u[i + 1] /\ Tail(u)[j] = u[j + 1]
    BY <1>2, TailIs
  <2> QED BY <2>1 DEF Rising
<1>3. ASSUME u # <<>>, k <= low \/ k <= Height(Head(u)) PROVE Above(Tail(u), k)
  <2> SUFFICES ASSUME NEW i \in 1 .. Len(Tail(u)), Says(Tail(u)[i]) PROVE k <= Said(Tail(u)[i])
    BY DEF Above
  <2>1. /\ i + 1 \in 1 .. Len(u) /\ Tail(u)[i] = u[i + 1] /\ 1 \in 1 .. Len(u) /\ 1 < i + 1
        /\ Head(u) = u[1] /\ u[1] \in Message
    BY <1>3, TailIs
  <2>2. /\ low <= Said(u[i + 1]) /\ Said(u[i + 1]) \in Nat
        /\ Height(u[1]) <= Said(u[i + 1]) /\ Height(u[1]) \in Nat
    BY <2>1, Heights, ElementOfSeq DEF Above, Rising
  <2> QED BY <1>3, <2>1, <2>2
<1>4. Rising(<<>>) /\ Above(<<>>, k)
  BY DEF Rising, Above
<1> QED BY <1>1, <1>2, <1>3, <1>4

\* Only a pending consumer expects another number than its next (on_establish).
LEMMA ExpectsIs ==
    ASSUME NEW s \in Consumers
    PROVE  Expects(s) \in Nat /\ s.next \in Nat /\ (s.phase # "pending" => Expects(s) = s.next)
BY ConsumerFields DEF Expects

\* The provider announces what it sends next.
LEMMA InStepBehind ==
    ASSUME NEW s \in Consumers, NEW u \in Seq(Message), InStep(s, u),
           NEW k \in Nat, Expects(s) <= k, Reached(u, k),
           NEW v \in Seq(Message), Rising(v), Above(v, k)
    PROVE  InStep(s, u \o v)
BY ExpectsIs, RisesBehind DEF InStep

\* The consumer reads, and expects no more than it has read.
LEMMA InStepLeft ==
    ASSUME NEW s \in Consumers, NEW t \in Consumers, NEW u \in Seq(Message), InStep(s, u),
           t.next <= Expects(t), NEW left,
           \/ left = <<>>
           \/ left = u /\ Expects(t) <= Expects(s)
           \/ /\ u # <<>> /\ left = Tail(u)
              /\ Expects(t) <= Expects(s) \/ Expects(t) <= Height(Head(u))
    PROVE  InStep(t, left)
<1>1. Expects(s) \in Nat /\ Expects(t) \in Nat
  BY ExpectsIs
<1> QED BY <1>1, RisesLeft DEF InStep

\* The end of the flow, as the provider goes on and as the consumer does.
LEMMA ConcludesBehind ==
    ASSUME NEW s, NEW p, NEW q, NEW u \in Seq(Message), Concludes(s, p, u),
           q.ended => Finishes, p.ended => q.ended /\ q.next = p.next,
           NEW v \in Seq(Message),
           \A i \in 1 .. Len(v) : v[i].kind = "FinishedSending" => Ended(q, v[i].last + 1)
    PROVE  Concludes(s, q, u \o v)
<1>1. \A end : Ended(p, end) => Ended(q, end)
  BY DEF Ended
<1>2. ASSUME NEW i \in 1 .. Len(u \o v), (u \o v)[i].kind = "FinishedSending"
      PROVE  Ended(q, (u \o v)[i].last + 1)
  <2>1. CASE i \in 1 .. Len(u)
    BY <1>1, <1>2, <2>1, BehindIs DEF Concludes
  <2>2. CASE i \notin 1 .. Len(u)
    BY <1>2, <2>2, BehindIs
  <2> QED BY <2>1, <2>2
<1> QED BY <1>1, <1>2 DEF Concludes

\* What the consumer reads of the line, or lets go with it, ends no other flow.
LEMMA ConcludesLeft ==
    ASSUME NEW s, NEW t, NEW p, NEW u \in Seq(Message), Concludes(s, p, u),
           t.finished # NotFinished => Ended(p, t.finished.end),
           t.phase = "finalized" => t.finalized, t.finalized => t.finished.answered,
           NEW left, left \in {u, <<>>} \/ (u # <<>> /\ left = Tail(u))
    PROVE  Concludes(t, p, left)
<1>1. ASSUME NEW i \in 1 .. Len(left), left[i].kind = "FinishedSending"
      PROVE  Ended(p, left[i].last + 1)
  <2>1. CASE u # <<>> /\ left = Tail(u)
    <3>1. i + 1 \in 1 .. Len(u) /\ left[i] = u[i + 1]
      BY <1>1, <2>1, TailIs
    <3> QED BY <1>1, <3>1 DEF Concludes
  <2>2. CASE left = u
    BY <1>1, <2>2 DEF Concludes
  <2>3. CASE left = <<>>
    BY <1>1, <2>3
  <2> QED BY <2>1, <2>2, <2>3
<1> QED BY <1>1 DEF Concludes

-----------------------------------------------------------------------------
(* The handshake                                                            *)

\* The messages of the handshake, and a line that has none.
Shakes == {"Establish", "EstablishmentAck", "EstablishmentReject"}
Plain(v) == \A i \in 1 .. Len(v) : v[i].kind \notin Shakes

\* What is silent stays so, and a session message behind an Ack is one.
LEMMA SilentIs ==
    ASSUME NEW u \in Seq(Message)
    PROVE  /\ Silent(<<>>) /\ Plain(<<>>)
           /\ u # <<>> => (Silent(u) => Silent(Tail(u)))
           /\ \A v \in Seq(Message) : Silent(u) /\ Silent(v) => Silent(u \o v)
           /\ \A v \in Seq(Message) : Plain(u) /\ Plain(v) => Plain(u \o v)
<1>1. Silent(<<>>) /\ Plain(<<>>)
  BY EmptySeq DEF Silent, Plain
<1>2. u # <<>> => (Silent(u) => Silent(Tail(u)))
  BY TailIs DEF Silent
<1>3. ASSUME NEW v \in Seq(Message), Silent(u), Silent(v) PROVE Silent(u \o v)
  <2> SUFFICES ASSUME NEW i \in 1 .. Len(u \o v) PROVE (u \o v)[i].kind \notin Talk
    BY DEF Silent
  <2>1. CASE i \in 1 .. Len(u) /\ (u \o v)[i] = u[i]
    BY <1>3, <2>1 DEF Silent
  <2>2. CASE i - Len(u) \in 1 .. Len(v) /\ (u \o v)[i] = v[i - Len(u)]
    BY <1>3, <2>2 DEF Silent
  <2> QED BY <2>1, <2>2, BehindIs
<1>4. ASSUME NEW v \in Seq(Message), Plain(u), Plain(v) PROVE Plain(u \o v)
  <2> SUFFICES ASSUME NEW i \in 1 .. Len(u \o v) PROVE (u \o v)[i].kind \notin Shakes
    BY DEF Plain
  <2>1. CASE i \in 1 .. Len(u) /\ (u \o v)[i] = u[i]
    BY <1>4, <2>1 DEF Plain
  <2>2. CASE i - Len(u) \in 1 .. Len(v) /\ (u \o v)[i] = v[i - Len(u)]
    BY <1>4, <2>2 DEF Plain
  <2> QED BY <2>1, <2>2, BehindIs
<1> QED BY <1>1, <1>2, <1>3, <1>4

\* What is of no handshake is none of its messages.
LEMMA PlainHas ==
    ASSUME NEW v, Plain(v)
    PROVE  Without(v, "Establish") /\ Without(v, "EstablishmentAck") /\ Without(v, "EstablishmentReject")
BY DEF Plain, Without, Shakes

\* A line whose session messages are behind an Ack, read to and written to.
LEMMA GreetedIs ==
    ASSUME NEW u \in Seq(Message), Greeted(u)
    PROVE  /\ u # <<>> /\ Head(u).kind # "EstablishmentAck" => Greeted(Tail(u))
           /\ u # <<>> => Head(u).kind \notin Talk
           /\ Without(u, "EstablishmentAck") => Silent(u)
           /\ \A v \in Seq(Message) : Silent(v) \/ ~Without(u, "EstablishmentAck") => Greeted(u \o v)
<1>1. ASSUME u # <<>>, Head(u).kind # "EstablishmentAck" PROVE Greeted(Tail(u))
  <2> SUFFICES ASSUME NEW i \in 1 .. Len(Tail(u)), Tail(u)[i].kind \in Talk
               PROVE  \E j \in 1 .. Len(Tail(u)) : j < i /\ Tail(u)[j].kind = "EstablishmentAck"
    BY DEF Greeted
  <2>1. i + 1 \in 1 .. Len(u) /\ u[i + 1].kind \in Talk
    BY <1>1, TailIs
  <2>2. PICK k \in 1 .. Len(u) : k < i + 1 /\ u[k].kind = "EstablishmentAck"
    BY <2>1 DEF Greeted
  <2>3. k # 1
    BY <1>1, <2>2, TailIs
  <2>4. k - 1 \in 1 .. Len(Tail(u)) /\ Tail(u)[k - 1] = u[k]
    BY <1>1, <2>3, TailIs
  <2>5. k - 1 < i
    BY <2>2
  <2> QED BY <2>2, <2>4, <2>5
<1>2. ASSUME u # <<>> PROVE Head(u).kind \notin Talk
  <2>1. Head(u) = u[1] /\ 1 \in 1 .. Len(u) /\ \A j \in 1 .. Len(u) : ~(j < 1)
    BY <1>2, TailIs
  <2> QED BY <2>1 DEF Greeted
<1>3. Without(u, "EstablishmentAck") => Silent(u)
  BY DEF Greeted, Without, Silent
<1>4. ASSUME NEW v \in Seq(Message), Silent(v) \/ ~Without(u, "EstablishmentAck") PROVE Greeted(u \o v)
  <2> SUFFICES ASSUME NEW i \in 1 .. Len(u \o v), (u \o v)[i].kind \in Talk
               PROVE  \E j \in 1 .. Len(u \o v) : j < i /\ (u \o v)[j].kind = "EstablishmentAck"
    BY DEF Greeted
  <2>1. CASE i \in 1 .. Len(u) /\ (u \o v)[i] = u[i]
    <3>1. PICK j \in 1 .. Len(u) : j < i /\ u[j].kind = "EstablishmentAck"
      BY <2>1 DEF Greeted
    <3> QED BY <3>1, BehindIs
  <2>2. CASE i > Len(u) /\ i - Len(u) \in 1 .. Len(v) /\ (u \o v)[i] = v[i - Len(u)]
    <3>1. ~Silent(v)
      BY <2>2 DEF Silent
    <3>2. PICK j \in 1 .. Len(u) : u[j].kind = "EstablishmentAck"
      BY <1>4, <3>1 DEF Without
    <3>3. j \in 1 .. Len(u \o v) /\ (u \o v)[j] = u[j] /\ Len(u) \in Nat
      BY BehindIs
    <3>4. j < i
      BY <2>2, <3>3
    <3> QED BY <3>2, <3>3, <3>4
  <2> QED BY <2>1, <2>2, BehindIs
<1> QED BY <1>1, <1>2, <1>3, <1>4

\* What is left of a line, what may be behind it, and what a client says that
\* is not bound.
Sent(u, v, into) == into \in {u, u \o v}
Remains(u, left) == left \in {u, <<>>} \/ (u # <<>> /\ left = Tail(u))
Speaks(c, fro, b, send) ==
    \/ c \in Binds
    \/ fro # <<>> /\ Head(fro).kind = "EstablishmentAck"
    \/ b \notin Binds /\ Silent(send)

\* A message that is not on a line is not on what is left of it.
LEMMA KindRemains ==
    ASSUME NEW u \in Seq(Message), NEW kind, Without(u, kind), NEW left, Remains(u, left)
    PROVE  Without(left, kind) /\ Lone(left, kind)
<1>1. CASE left = u
  BY <1>1, NoneIsLone
<1>2. CASE left = <<>>
  BY <1>2, NothingSent
<1>3. CASE u # <<>> /\ left = Tail(u)
  <2>1. Without(left, kind) /\ left \in Seq(Message)
    BY <1>3, KindsLeft
  <2> QED BY <2>1, NoneIsLone
<1> QED BY <1>1, <1>2, <1>3 DEF Remains

\* The client goes on, past the handshake or off the transport.
LEMMA ClientGoes ==
    ASSUME NEW c, NEW d, NEW cup, NEW sup, NEW to \in Seq(Message), NEW fro \in Seq(Message),
           Greeting(c, d, cup, sup, to, fro),
           NEW b, b # "pending", NEW bup, ~bup \/ b \notin {"negotiated", "establishing"},
           NEW send \in Seq(Message), Without(send, "Establish"),
           NEW into, Sent(to, send, into),
           NEW left, Remains(fro, left), Speaks(c, fro, b, send)
    PROVE  Greeting(b, d, bup, sup, into, left)
<1>1. Lone(into, "Establish") /\ (d \in Busy => Without(into, "Establish"))
  BY KindsBehind DEF Greeting, Sent
<1>2. ASSUME sup, d \in {"negotiated", "pending"}
      PROVE  b \notin Binds /\ Silent(into) /\ Silent(left) /\ Without(left, "EstablishmentAck")
  <2>1. c \notin Binds /\ Silent(to) /\ Silent(fro) /\ Without(fro, "EstablishmentAck")
    BY <1>2 DEF Greeting
  <2>2. ~(fro # <<>> /\ Head(fro).kind = "EstablishmentAck")
    BY <2>1, TailIs DEF Without
  <2>3. Silent(left) /\ Without(left, "EstablishmentAck")
    <3>1. Silent(left)
      BY <2>1, SilentIs DEF Remains
    <3>2. Without(left, "EstablishmentAck")
      BY ONLY <2>1, fro \in Seq(Message), Remains(fro, left), KindRemains
    <3> QED BY <3>1, <3>2
  <2> QED BY <2>1, <2>2, <2>3, SilentIs DEF Speaks, Sent
<1> QED BY <1>1, <1>2 DEF Greeting

\* It reads what belongs to no session.
LEMMA ClientReads ==
    ASSUME NEW c, NEW d, NEW cup, NEW sup, NEW to \in Seq(Message), NEW fro \in Seq(Message),
           Greeting(c, d, cup, sup, to, fro), fro # <<>>, Head(fro).kind # "EstablishmentAck"
    PROVE  Greeting(c, d, cup, sup, to, Tail(fro))
<1>1. Without(fro, "EstablishmentAck") <=> Without(Tail(fro), "EstablishmentAck")
  <2>1. Without(Tail(fro), "EstablishmentAck") => Without(fro, "EstablishmentAck")
    BY TailIs DEF Without
  <2> QED BY <2>1, KindsLeft
<1>2. /\ Silent(fro) => Silent(Tail(fro))
      /\ Greeted(fro) => Greeted(Tail(fro))
      /\ Lone(fro, "EstablishmentReject") => Lone(Tail(fro), "EstablishmentReject")
      /\ Without(fro, "EstablishmentReject") => Without(Tail(fro), "EstablishmentReject")
  BY SilentIs, KindsLeft, GreetedIs
<1> QED BY <1>1, <1>2 DEF Greeting

\* establish: the last one was answered, and nothing of it is left.
LEMMA ClientEstablishes ==
    ASSUME NEW d, NEW sup, NEW to \in Seq(Message), NEW fro \in Seq(Message),
           Greeting("negotiated", d, TRUE, sup, to, fro),
           NEW m \in Message, m.kind = "Establish", NEW into, into \in {to, to \o <<m>>}
    PROVE  Greeting("establishing", d, TRUE, sup, into, fro)
<1>1. <<m>> \in Seq(Message) /\ Lone(<<m>>, "Establish") /\ Silent(<<m>>)
  <2>1. Len(<<m>>) = 1 /\ <<m>>[1] = m /\ \A i \in 1 .. Len(<<m>>) : i = 1
    OBVIOUS
  <2> QED BY <2>1 DEF Lone, Silent, Talk
<1>2. /\ d \notin Busy /\ Without(to, "Establish") /\ Silent(fro)
      /\ Without(fro, "EstablishmentReject") /\ Without(fro, "EstablishmentAck")
      /\ d \notin {"establishing", "closed"}
  BY DEF Greeting, Waits
<1>3. Lone(into, "Establish")
  BY <1>1, <1>2, OneBehind, NoneIsLone
<1>4. d \notin Binds
  BY <1>2 DEF Busy, Binds
<1>5. Greeted(fro) /\ Lone(fro, "EstablishmentReject")
  BY <1>2, NoneIsLone DEF Greeted, Silent
<1>6. Silent(to) => Silent(into)
  BY <1>1, SilentIs
<1> QED BY <1>2, <1>3, <1>4, <1>5, <1>6 DEF Greeting, Binds

\* on_establishment_reject: the server waits again.
LEMMA ClientRejected ==
    ASSUME NEW d, NEW sup, NEW to \in Seq(Message), NEW fro \in Seq(Message),
           Greeting("establishing", d, TRUE, sup, to, fro), fro # <<>>,
           Head(fro).kind = "EstablishmentReject", NEW b \in {"negotiated", "closed"}
    PROVE  Greeting(b, d, TRUE, sup, to, Tail(fro))
<1>1. ~Without(fro, "EstablishmentReject")
  BY TailIs DEF Without
<1>2. /\ Lone(fro, "EstablishmentReject") /\ Greeted(fro)
      /\ Waits(d, to) /\ Without(fro, "EstablishmentAck")
  BY <1>1 DEF Greeting
<1>3. Without(Tail(fro), "EstablishmentReject") /\ Without(Tail(fro), "EstablishmentAck")
  BY <1>2, KindsLeft
<1>4. Silent(fro) /\ Silent(Tail(fro))
  BY <1>2, GreetedIs, SilentIs
<1> QED BY <1>2, <1>3, <1>4 DEF Greeting, Binds

\* A server that is bound, or holds the transport no more.
Holds(b, bup) == b \notin {"establishing", "closed"} /\ (b \in Binds \/ (~bup /\ b \notin Busy))

\* A bound server goes on, or off the transport.
LEMMA ServerGoes ==
    ASSUME NEW c, NEW d \in Binds, NEW cup, NEW to \in Seq(Message), NEW fro \in Seq(Message),
           Greeting(c, d, cup, TRUE, to, fro),
           NEW b, NEW bup, Holds(b, bup),
           NEW send \in Seq(Message), Plain(send),
           NEW into, Sent(fro, send, into),
           NEW left, Remains(to, left)
    PROVE  Greeting(c, b, cup, bup, left, into)
<1>1. d \in Busy /\ c # "pending" /\ Without(to, "Establish")
  BY DEF Binds, Busy, Greeting
<1>2. Without(left, "Establish") /\ Lone(left, "Establish")
  BY ONLY <1>1, to \in Seq(Message), Remains(to, left), KindRemains
<1>3. ~(cup /\ c = "negotiated")
  BY <1>1 DEF Greeting, Waits
<1>4. ASSUME cup, c = "establishing"
      PROVE  /\ Lone(into, "EstablishmentReject") /\ Greeted(into)
             /\ Without(into, "EstablishmentReject") /\ ~Without(into, "EstablishmentAck")
  <2>1. /\ Greeted(fro) /\ Without(fro, "EstablishmentReject") /\ ~Without(fro, "EstablishmentAck")
    BY <1>1, <1>4 DEF Greeting, Waits
  <2>2. Greeted(into)
    BY <2>1, GreetedIs DEF Sent
  <2>3. Without(into, "EstablishmentReject")
    BY <2>1, PlainHas, KindsBehind DEF Sent
  <2>4. ~Without(into, "EstablishmentAck")
    BY <2>1, BehindIs DEF Without, Sent
  <2> QED BY <2>2, <2>3, <2>4, NoneIsLone
<1>5. ~(bup /\ b \in {"negotiated", "pending"})
  BY DEF Binds, Holds
<1> QED BY <1>1, <1>2, <1>3, <1>4, <1>5 DEF Greeting, Holds

\* A server that is not bound passes a message over, or lets go of the transport.
LEMMA ServerPasses ==
    ASSUME NEW c, NEW d, NEW cup, NEW to \in Seq(Message), NEW fro \in Seq(Message),
           Greeting(c, d, cup, TRUE, to, fro), d \notin Binds, NEW b, NEW bup, NEW left,
           \/ b = d /\ bup = TRUE /\ to # <<>> /\ left = Tail(to)
           \/ b \notin Busy \cup {"establishing", "closed"} /\ ~bup /\ left = <<>>
    PROVE  Greeting(c, b, cup, bup, left, fro)
<1>1. /\ Without(to, "Establish") => Without(left, "Establish")
      /\ Lone(left, "Establish") /\ (Silent(to) => Silent(left))
  <2>1. Lone(to, "Establish")
    BY DEF Greeting
  <2>2. CASE to # <<>> /\ left = Tail(to)
    BY <2>1, <2>2, KindsLeft, SilentIs
  <2>3. CASE left = <<>>
    BY <2>3, NothingSent, SilentIs
  <2> QED BY <2>2, <2>3
<1>2. b \in Busy => d \in Busy
  BY DEF Greeting
<1>3. b \notin Binds
  BY DEF Binds, Busy
<1>4. b \notin {"establishing", "closed"}
  BY DEF Greeting
<1>5. bup => b = d
  OBVIOUS
<1> QED BY <1>1, <1>2, <1>3, <1>4, <1>5 DEF Greeting, Waits

\* on_establish: the client asked once, and was refused nothing since.
LEMMA ServerTakes ==
    ASSUME NEW c, NEW cup, NEW to \in Seq(Message), NEW fro \in Seq(Message),
           Greeting(c, "negotiated", cup, TRUE, to, fro), to # <<>>, Head(to).kind = "Establish"
    PROVE  Greeting(c, "pending", cup, TRUE, Tail(to), fro)
<1>1. ~Without(to, "Establish") /\ Lone(to, "Establish")
  BY TailIs DEF Without, Greeting
<1>2. Without(Tail(to), "Establish") /\ Lone(Tail(to), "Establish")
  BY <1>1, KindsLeft
<1>3. Silent(to) => Silent(Tail(to))
  BY SilentIs
<1> QED BY <1>1, <1>2, <1>3 DEF Greeting, Waits, Binds

\* A server that is not bound, and what it says then.
Lapses(b, bup) == b \notin Busy \cup {"establishing", "closed"} /\ (b = "negotiated" \/ ~bup)
Rejects(say) == \E m \in Message : m.kind = "EstablishmentReject" /\ say = <<m>>

\* reject_establishment, and the handshake that took too long.
LEMMA ServerRejects ==
    ASSUME NEW c, NEW cup, NEW to \in Seq(Message), NEW fro \in Seq(Message),
           Greeting(c, "pending", cup, TRUE, to, fro),
           NEW b, NEW bup, Lapses(b, bup), NEW say, Rejects(say), NEW into, Sent(fro, say, into),
           NEW left, Remains(to, left)
    PROVE  Greeting(c, b, cup, bup, left, into)
<1> PICK m \in Message : m.kind = "EstablishmentReject" /\ say = <<m>>
  BY DEF Rejects
<1>1. /\ c # "pending" /\ Without(to, "Establish") /\ c \notin Binds /\ Silent(to) /\ Silent(fro)
      /\ Without(fro, "EstablishmentAck")
  BY DEF Greeting, Busy
<1>2. /\ <<m>> \in Seq(Message) /\ Lone(<<m>>, "EstablishmentReject") /\ Silent(<<m>>)
      /\ Without(<<m>>, "EstablishmentAck")
  <2>1. Len(<<m>>) = 1 /\ <<m>>[1] = m /\ \A i \in 1 .. Len(<<m>>) : i = 1
    OBVIOUS
  <2> QED BY <2>1 DEF Lone, Silent, Talk, Without
<1>3. /\ Without(left, "Establish") /\ Lone(left, "Establish") /\ Silent(left)
      /\ Silent(into) /\ Without(into, "EstablishmentAck")
  <2>1. Without(left, "Establish") /\ Lone(left, "Establish") /\ Silent(left)
    <3>1. CASE left = to
      BY <1>1, <3>1, NoneIsLone
    <3>2. CASE left = <<>>
      BY <3>2, SilentIs, NothingSent
    <3>3. CASE to # <<>> /\ left = Tail(to)
      BY <1>1, <3>3, SilentIs, KindsLeft, NoneIsLone
    <3> QED BY <3>1, <3>2, <3>3 DEF Remains
  <2>2. Silent(fro \o <<m>>) /\ Without(fro \o <<m>>, "EstablishmentAck")
    BY <1>1, <1>2, SilentIs, KindsBehind
  <2> QED BY <1>1, <2>1, <2>2 DEF Sent
<1>4. ~(cup /\ c = "negotiated")
  BY DEF Greeting, Waits, Busy
<1>5. ASSUME cup, c = "establishing" PROVE Lone(into, "EstablishmentReject") /\ Greeted(into)
  <2>1. Without(fro, "EstablishmentReject")
    BY <1>5 DEF Greeting, Waits, Busy
  <2>2. Lone(into, "EstablishmentReject")
    BY <1>2, <2>1, OneBehind, NoneIsLone DEF Sent
  <2>3. Greeted(into)
    BY <1>3 DEF Greeted, Silent
  <2> QED BY <2>2, <2>3
<1>6. b \notin Binds
  BY DEF Binds, Busy, Lapses
<1> QED BY <1>1, <1>3, <1>4, <1>5, <1>6 DEF Greeting, Waits, Lapses

\* What a line holds once `v' is sent to an end that still listens.
Given(listens, u, v, into) == into = IF listens THEN u \o v ELSE u
Acks(say) ==
    \E m \in Message, send \in Seq(Message) :
        m.kind = "EstablishmentAck" /\ Plain(send) /\ say = <<m>> \o send

\* accept_establishment: the Ack goes out, and what the session says behind it.
LEMMA ServerAccepts ==
    ASSUME NEW c, NEW cup, NEW to \in Seq(Message), NEW fro \in Seq(Message),
           Greeting(c, "pending", cup, TRUE, to, fro),
           NEW b, NEW bup, Holds(b, bup),
           NEW say, Acks(say), NEW into, Given(cup, fro, say, into),
           NEW left, Remains(to, left)
    PROVE  Greeting(c, b, cup, bup, left, into)
<1>1. c # "pending" /\ Without(to, "Establish") /\ Silent(fro)
  BY DEF Greeting, Busy
<1>2. Without(left, "Establish") /\ Lone(left, "Establish")
  BY ONLY <1>1, to \in Seq(Message), Remains(to, left), KindRemains
<1>3. ~(cup /\ c = "negotiated")
  BY DEF Greeting, Waits, Busy
<1>4. ASSUME cup, c = "establishing"
      PROVE  /\ Lone(into, "EstablishmentReject") /\ Greeted(into)
             /\ Without(into, "EstablishmentReject") /\ ~Without(into, "EstablishmentAck")
  <2>1. Without(fro, "EstablishmentReject")
    BY <1>4 DEF Greeting, Waits, Busy
  <2> PICK m \in Message, send \in Seq(Message) :
          m.kind = "EstablishmentAck" /\ Plain(send) /\ say = <<m>> \o send
    BY DEF Acks
  <2>2. <<m>> \in Seq(Message) /\ Len(<<m>>) = 1 /\ <<m>>[1] = m /\ \A i \in 1 .. Len(<<m>>) : i = 1
    OBVIOUS
  <2>3. Silent(<<m>>) /\ Without(<<m>>, "EstablishmentReject") /\ ~Without(<<m>>, "EstablishmentAck")
    BY <2>2 DEF Silent, Talk, Without
  <2>4. PICK u \in Seq(Message) : u = fro \o <<m>>
    <3>1. fro \o <<m>> \in Seq(Message)
      BY <2>2, BehindIs
    <3> QED BY <3>1
  <2>5. u \o send = into
    <3>1. PICK w \in Seq(Message) : w = <<m>>
      BY <2>2
    <3>2. (fro \o w) \o send = fro \o (w \o send)
      BY ConcatAssociative, SMTT(20)
    <3> QED BY <1>4, <2>4, <3>1, <3>2 DEF Given
  <2>6. Greeted(u) /\ ~Without(u, "EstablishmentAck")
    <3>1. Greeted(fro)
      BY <1>1 DEF Greeted, Silent
    <3>2. Greeted(u)
      BY <2>2, <2>3, <2>4, <3>1, GreetedIs
    <3>3. u[Len(fro) + 1] = m /\ Len(fro) + 1 \in 1 .. Len(u)
      BY <2>2, <2>4, BehindIs
    <3> QED BY <3>2, <3>3 DEF Without
  <2>7. Greeted(into) /\ ~Without(into, "EstablishmentAck")
    <3>1. Greeted(u \o send)
      BY <2>6, GreetedIs
    <3>2. ~Without(u \o send, "EstablishmentAck")
      BY <2>6, BehindIs DEF Without
    <3> QED BY <2>5, <3>1, <3>2
  <2>8. Without(into, "EstablishmentReject")
    BY <2>1, <2>2, <2>3, <2>4, <2>5, PlainHas, KindsBehind
  <2> QED BY <2>7, <2>8, NoneIsLone
<1>5. ~(bup /\ b \in {"negotiated", "pending"})
  BY DEF Binds, Busy, Holds
<1> QED BY <1>1, <1>2, <1>3, <1>4, <1>5 DEF Greeting, Holds

\* What a step of the client leaves of the handshake, and one of the server.
LEMMA GreetsClient ==
    ASSUME FlowInv, NEW r, NEW unread, NEW n, Carry(Client, r, unread, n),
           \A into \in {chan[Server], chan[Server] \o r.send} :
              Greeting(r.s.phase, side[Server].phase, r.open, up[Server], into,
                       IF r.open THEN unread ELSE <<>>),
           up[Client]
    PROVE  GreetInv'
<1>1. PICK x \in Sides, y \in Sides : x = Client /\ y = Server /\ y = Other(x)
  BY TheSides DEF Server
<1>2. Carry(x, r, unread, n)
  BY <1>1
<1>3. /\ side'[x] = r.s /\ side'[y] = side[y]
      /\ up'[x] = (up[x] /\ r.open) /\ up'[y] = up[y]
      /\ chan'[x] = IF r.open THEN unread ELSE <<>>
      /\ chan'[y] = IF up[y] THEN chan[y] \o r.send ELSE chan[y]
  BY ONLY FlowInv, <1>1, <1>2, CarryIs
<1>4. chan'[y] \in {chan[Server], chan[Server] \o r.send}
  BY <1>1, <1>3
<1>5. Greeting(r.s.phase, side[Server].phase, r.open, up[Server], chan'[y],
               IF r.open THEN unread ELSE <<>>)
  BY <1>4
<1>6. up'[x] <=> r.open
  BY <1>1, <1>3
<1>7. Greeting(side'[x].phase, side'[y].phase, up'[x], up'[y], chan'[y], chan'[x])
  BY <1>1, <1>3, <1>5, <1>6 DEF Greeting
<1> QED BY <1>1, <1>7 DEF GreetInv

\* A step of the server.
LEMMA GreetsServer ==
    ASSUME FlowInv, NEW r, NEW unread, NEW n, Carry(Server, r, unread, n), up[Server],
           Greeting(side[Client].phase, r.s.phase, up[Client], r.open,
                    IF r.open THEN unread ELSE <<>>,
                    IF up[Client] THEN chan[Client] \o r.send ELSE chan[Client])
    PROVE  GreetInv'
<1>1. PICK x \in Sides, y \in Sides : x = Server /\ y = Client /\ y = Other(x)
  BY TheSides DEF Server
<1>2. Carry(x, r, unread, n)
  BY <1>1
<1>3. /\ side'[x] = r.s /\ side'[y] = side[y]
      /\ up'[x] = (up[x] /\ r.open) /\ up'[y] = up[y]
      /\ chan'[x] = IF r.open THEN unread ELSE <<>>
      /\ chan'[y] = IF up[y] THEN chan[y] \o r.send ELSE chan[y]
  BY ONLY FlowInv, <1>1, <1>2, CarryIs
<1>4. up'[x] <=> r.open
  BY <1>1, <1>3
<1>5. Greeting(side'[y].phase, side'[x].phase, up'[y], up'[x], chan'[x], chan'[y])
  BY <1>1, <1>3, <1>4 DEF Greeting
<1> QED BY <1>1, <1>5 DEF GreetInv

\* The handshake as the invariants have it.
LEMMA GreetIs ==
    ASSUME FlowInv, GreetInv
    PROVE  /\ chan[Client] \in Seq(Message) /\ chan[Server] \in Seq(Message)
           /\ up[Client] \in BOOLEAN /\ up[Server] \in BOOLEAN
           /\ Greeting(side[Client].phase, side[Server].phase, up[Client], up[Server],
                       chan[Server], chan[Client])
           /\ side[Client].phase # "pending" /\ side[Server].phase \notin {"establishing", "closed"}
BY TheSides DEF FlowInv, FlowTypeOK, GreetInv, Greeting

\* Either side has one of the roles (FixpClient, FixpServer).
LEMMA SideIs == \A x \in Sides : x = Client \/ x = Server
BY TheSides

\* A bound side goes on, or lets go of the transport.
LEMMA BoundGreets ==
    ASSUME FlowInv, GreetInv, NEW x \in Sides, side[x].phase \in Binds,
           NEW r, NEW unread, NEW n, Carry(x, r, unread, n), Reads(chan[x], unread),
           r.send \in Seq(Message), Plain(r.send), r.open => r.s.phase \in Binds,
           ~r.open => r.s.phase \in {"negotiated", "finalized"}
    PROVE  GreetInv'
<1>1. up[x]
  BY BoundHolds DEF Binds, Busy
<1>2. PICK v \in Seq(Message) : v = r.send
  OBVIOUS
<1>3. PICK left : left = IF r.open THEN unread ELSE <<>>
  OBVIOUS
<1>4. Remains(chan[x], left)
  BY <1>3 DEF Reads, Remains
<1>5. PICK b, bup : b = r.s.phase /\ bup \in BOOLEAN /\ (bup <=> r.open)
  OBVIOUS
<1>6. CASE x = Client
  <2>1. PICK c, d, cup, sup : c = side[Client].phase /\ d = side[Server].phase
                              /\ cup = up[Client] /\ sup = up[Server]
    OBVIOUS
  <2>2. PICK to \in Seq(Message), fro \in Seq(Message) : to = chan[Server] /\ fro = chan[Client]
    BY GreetIs
  <2>3. Greeting(c, d, cup, sup, to, fro) /\ c \in Binds
    BY <1>6, <2>1, <2>2, GreetIs
  <2>4. b # "pending" /\ (~bup \/ b \notin {"negotiated", "establishing"})
    BY <1>5 DEF Binds
  <2>5. Without(v, "Establish")
    BY <1>2, PlainHas
  <2>6. Remains(fro, left)
    BY <1>4, <1>6, <2>2
  <2>7. ASSUME NEW into \in {chan[Server], chan[Server] \o r.send}
        PROVE  Greeting(b, d, bup, sup, into, left)
    <3>1. Sent(to, v, into)
      BY <1>2, <2>2, <2>7 DEF Sent
    <3>2. Speaks(c, fro, b, v)
      BY <2>3 DEF Speaks
    <3>3. v \in Seq(Message) /\ to \in Seq(Message) /\ fro \in Seq(Message)
      BY <1>2, <2>2
    <3> QED BY ONLY <2>3, <2>4, <2>5, <2>6, <3>1, <3>2, <3>3, ClientGoes
  <2>8. ASSUME NEW into \in {chan[Server], chan[Server] \o r.send}
        PROVE  Greeting(r.s.phase, side[Server].phase, r.open, up[Server], into, left)
    BY <1>5, <2>1, <2>7 DEF Greeting
  <2> QED BY <1>1, <1>3, <1>6, <2>8, GreetsClient
<1>7. CASE x = Server
  <2>1. PICK c, cup : c = side[Client].phase /\ cup = up[Client]
    OBVIOUS
  <2>2. PICK d \in Binds : d = side[Server].phase
    BY <1>7
  <2>3. PICK to \in Seq(Message), fro \in Seq(Message) : to = chan[Server] /\ fro = chan[Client]
    BY GreetIs
  <2>4. Greeting(c, d, cup, TRUE, to, fro)
    <3>1. up[Server] = TRUE
      BY <1>1, <1>7, GreetIs
    <3> QED BY <2>1, <2>2, <2>3, <3>1, GreetIs
  <2>5. Holds(b, bup)
    BY <1>5 DEF Binds, Busy, Holds
  <2>6. Remains(to, left)
    BY <1>4, <1>7, <2>3
  <2>7. PICK into : into = IF up[Client] THEN chan[Client] \o r.send ELSE chan[Client]
    OBVIOUS
  <2>8. Sent(fro, v, into)
    BY <1>2, <2>3, <2>7 DEF Sent
  <2>9. Greeting(c, b, cup, bup, left, into)
    <3>1. Plain(v) /\ v \in Seq(Message) /\ to \in Seq(Message) /\ fro \in Seq(Message)
      BY <1>2, <2>3
    <3>2. d \in Binds
      OBVIOUS
    <3> QED BY ONLY <2>4, <2>5, <2>6, <2>8, <3>1, <3>2, ServerGoes
  <2>10. Greeting(side[Client].phase, r.s.phase, up[Client], r.open, left, into)
    BY <1>5, <2>1, <2>9 DEF Greeting
  <2> QED BY <1>1, <1>3, <1>7, <2>7, <2>10, GreetsServer
<1> QED BY <1>6, <1>7, SideIs

\* A side that is not bound passes a message over, or lets go of the transport.
LEMMA UnboundGreets ==
    ASSUME FlowInv, GreetInv, NEW x \in Sides, up[x], side[x].phase \notin Binds,
           NEW r, NEW unread, NEW n, Carry(x, r, unread, n), r.send = <<>>,
           \/ /\ r.open /\ r.s.phase = side[x].phase /\ chan[x] # <<>> /\ unread = Tail(chan[x])
              /\ Head(chan[x]).kind # "EstablishmentAck"
           \/ /\ ~r.open /\ r.s.phase \in {"negotiated", "finalized", "closed"}
              /\ r.s.phase = "closed" => side[x].phase = "closed"
    PROVE  GreetInv'
<1>1. PICK left : left = IF r.open THEN unread ELSE <<>>
  OBVIOUS
<1>2. PICK b, bup : b = r.s.phase /\ bup \in BOOLEAN /\ (bup <=> r.open)
  OBVIOUS
<1>3. PICK to \in Seq(Message), fro \in Seq(Message) : to = chan[Server] /\ fro = chan[Client]
  BY GreetIs
<1>4. \A u \in Seq(Message) : u \o <<>> = u
  BY EmptySeq
<1>5. CASE x = Client
  <2>1. PICK c, d, cup, sup : c = side[Client].phase /\ d = side[Server].phase
                              /\ cup = up[Client] /\ sup = up[Server]
    OBVIOUS
  <2>2. Greeting(c, d, cup, sup, to, fro) /\ cup = TRUE
    BY <1>3, <1>5, <2>1, GreetIs
  <2>3. Greeting(b, d, bup, sup, to, left)
    <3>1. CASE r.open
      <4>1. b = c /\ bup = cup /\ fro # <<>> /\ left = Tail(fro) /\ Head(fro).kind # "EstablishmentAck"
        BY <1>1, <1>2, <1>3, <1>5, <2>1, <2>2, <3>1
      <4> QED BY <2>2, <4>1, ClientReads
    <3>2. CASE ~r.open
      <4>1. b \notin Binds /\ b # "pending" /\ ~bup
        BY <1>2, <3>2 DEF Binds
      <4>2. left = <<>> /\ Silent(<<>>) /\ Without(<<>>, "Establish") /\ <<>> \in Seq(Message)
        BY <1>1, <3>2, SilentIs, NothingSent
      <4>3. PICK v \in Seq(Message) : v = <<>>
        BY <4>2
      <4>4. Remains(fro, left) /\ Speaks(c, fro, b, v) /\ Sent(to, v, to)
        BY <4>1, <4>2, <4>3 DEF Remains, Speaks, Sent
      <4> QED BY ONLY <1>3, <2>2, <4>1, <4>2, <4>3, <4>4, ClientGoes
    <3> QED BY <3>1, <3>2
  <2>4. Greeting(r.s.phase, side[Server].phase, r.open, up[Server], to, left)
    BY <1>2, <2>1, <2>3 DEF Greeting
  <2> QED BY <1>1, <1>3, <1>4, <1>5, <2>4, GreetsClient
<1>6. CASE x = Server
  <2>1. PICK c, d, cup : c = side[Client].phase /\ d = side[Server].phase /\ cup = up[Client]
    OBVIOUS
  <2>2. Greeting(c, d, cup, TRUE, to, fro) /\ d \notin Binds
    <3>1. up[Server] = TRUE
      BY <1>6, GreetIs
    <3> QED BY <1>3, <1>6, <2>1, <3>1, GreetIs
  <2>3. \/ b = d /\ bup = TRUE /\ to # <<>> /\ left = Tail(to)
        \/ b \notin Busy \cup {"establishing", "closed"} /\ ~bup /\ left = <<>>
    <3>1. d # "closed"
      BY <2>1, GreetIs
    <3> QED BY <1>1, <1>2, <1>3, <1>6, <2>1, <3>1 DEF Busy
  <2>4. Greeting(c, b, cup, bup, left, fro)
    BY ONLY <1>3, <2>2, <2>3, ServerPasses
  <2>5. Greeting(side[Client].phase, r.s.phase, up[Client], r.open, left, fro)
    BY <1>2, <2>1, <2>4 DEF Greeting
  <2> QED BY <1>1, <1>3, <1>4, <1>6, <2>5, GreetsServer
<1> QED BY <1>5, <1>6, SideIs

\* A new transport is clear.
LEMMA GreetsNew ==
    ASSUME FlowInv, GreetInv, Connect
    PROVE  GreetInv'
<1>1. /\ ~up[Client] /\ ~up[Server] /\ side[Client].phase = "negotiated"
      /\ side' = side /\ chan' = chan /\ up' = [x \in Sides |-> TRUE]
  BY TheSides DEF Connect
<1>2. chan[Client] = <<>> /\ chan[Server] = <<>> /\ side[Server].phase \notin Busy
  BY <1>1, TheSides DEF FlowInv, LetGo
<1>3. Silent(<<>>) /\ \A kind : Without(<<>>, kind) /\ Lone(<<>>, kind)
  BY SilentIs, NothingSent
<1>4. PICK d : d = side[Server].phase
  OBVIOUS
<1>5. d \notin {"establishing", "closed"} /\ d \notin Busy /\ d \notin Binds
  BY <1>2, <1>4, GreetIs DEF Busy, Binds
<1>6. Greeting("negotiated", d, TRUE, TRUE, <<>>, <<>>)
  BY <1>3, <1>5 DEF Greeting, Waits, Binds
<1>7. up'[Client] = TRUE /\ up'[Server] = TRUE
  BY <1>1, TheSides
<1>8. Greeting(side'[Client].phase, side'[Server].phase, up'[Client], up'[Server],
               chan'[Server], chan'[Client])
  BY <1>1, <1>2, <1>4, <1>6, <1>7
<1> QED BY <1>8 DEF GreetInv, Client, Server, Other

\* establish.
LEMMA GreetsAsks ==
    ASSUME FlowInv, GreetInv, up[Client], side[Client].phase = "negotiated",
           NEW r, Carry(Client, r, chan[Client], 0), r.s.phase = "establishing", r.open,
           NEW m \in Message, m.kind = "Establish", r.send = <<m>>
    PROVE  GreetInv'
<1>1. PICK to \in Seq(Message), fro \in Seq(Message) : to = chan[Server] /\ fro = chan[Client]
  BY GreetIs
<1>2. PICK d, sup : d = side[Server].phase /\ sup = up[Server]
  OBVIOUS
<1>3. Greeting("negotiated", d, TRUE, sup, to, fro)
  <2>1. up[Client] = TRUE
    BY GreetIs
  <2> QED BY <1>1, <1>2, <2>1, GreetIs
<1>4. ASSUME NEW into \in {chan[Server], chan[Server] \o r.send}
      PROVE  Greeting("establishing", d, TRUE, sup, into, fro)
  BY <1>1, <1>3, <1>4, ClientEstablishes
<1>5. \A into \in {chan[Server], chan[Server] \o r.send} :
         Greeting(r.s.phase, side[Server].phase, r.open, up[Server], into,
                  IF r.open THEN chan[Client] ELSE <<>>)
  BY <1>1, <1>2, <1>4 DEF Greeting
<1> QED BY <1>5, GreetsClient

\* on_establishment_reject.
LEMMA GreetsRejected ==
    ASSUME FlowInv, GreetInv, up[Client], side[Client].phase = "establishing",
           chan[Client] # <<>>, Head(chan[Client]).kind = "EstablishmentReject",
           NEW r, Carry(Client, r, Tail(chan[Client]), 0), r.s.phase \in {"negotiated", "closed"},
           r.open, r.send = <<>>
    PROVE  GreetInv'
<1>1. PICK to \in Seq(Message), fro \in Seq(Message) : to = chan[Server] /\ fro = chan[Client]
  BY GreetIs
<1>2. PICK d, sup : d = side[Server].phase /\ sup = up[Server]
  OBVIOUS
<1>3. Greeting("establishing", d, TRUE, sup, to, fro)
  <2>1. up[Client] = TRUE
    BY GreetIs
  <2> QED BY <1>1, <1>2, <2>1, GreetIs
<1>4. PICK b \in {"negotiated", "closed"} : b = r.s.phase
  OBVIOUS
<1>5. Greeting(b, d, TRUE, sup, to, Tail(fro))
  BY <1>1, <1>3, ClientRejected
<1>6. to \o <<>> = to
  BY EmptySeq
<1>7. \A into \in {chan[Server], chan[Server] \o r.send} :
         Greeting(r.s.phase, side[Server].phase, r.open, up[Server], into,
                  IF r.open THEN Tail(chan[Client]) ELSE <<>>)
  BY <1>1, <1>2, <1>4, <1>5, <1>6 DEF Greeting
<1> QED BY <1>7, GreetsClient

\* on_establishment_ack.
LEMMA GreetsAcked ==
    ASSUME FlowInv, GreetInv, up[Client],
           chan[Client] # <<>>, Head(chan[Client]).kind = "EstablishmentAck",
           NEW r, Carry(Client, r, Tail(chan[Client]), 0), r.send \in Seq(Message), Plain(r.send),
           r.s.phase # "pending", r.open => r.s.phase \notin {"negotiated", "establishing"}
    PROVE  GreetInv'
<1>1. PICK to \in Seq(Message), fro \in Seq(Message) : to = chan[Server] /\ fro = chan[Client]
  BY GreetIs
<1>2. PICK c, d, cup, sup : c = side[Client].phase /\ d = side[Server].phase
                            /\ cup = up[Client] /\ sup = up[Server]
  OBVIOUS
<1>3. Greeting(c, d, cup, sup, to, fro)
  BY <1>1, <1>2, GreetIs
<1>4. PICK b, bup : b = r.s.phase /\ bup \in BOOLEAN /\ (bup <=> r.open)
  OBVIOUS
<1>5. PICK send \in Seq(Message) : send = r.send
  OBVIOUS
<1>6. PICK left : left = IF r.open THEN Tail(chan[Client]) ELSE <<>>
  OBVIOUS
<1>7. Remains(fro, left) /\ Speaks(c, fro, b, send)
  BY <1>1, <1>6 DEF Remains, Speaks
<1>8. Without(send, "Establish") /\ b # "pending" /\ (~bup \/ b \notin {"negotiated", "establishing"})
  BY <1>4, <1>5, PlainHas
<1>9. ASSUME NEW into \in {chan[Server], chan[Server] \o r.send}
      PROVE  Greeting(b, d, bup, sup, into, left)
  <2>1. Sent(to, send, into)
    BY <1>1, <1>5, <1>9 DEF Sent
  <2>2. to \in Seq(Message) /\ fro \in Seq(Message) /\ send \in Seq(Message)
    OBVIOUS
  <2> QED BY ONLY <1>3, <1>7, <1>8, <2>1, <2>2, ClientGoes
<1>10. \A into \in {chan[Server], chan[Server] \o r.send} :
          Greeting(r.s.phase, side[Server].phase, r.open, up[Server], into, left)
  BY <1>2, <1>4, <1>9 DEF Greeting
<1> QED BY <1>6, <1>10, GreetsClient

\* on_establish.
LEMMA GreetsTakes ==
    ASSUME FlowInv, GreetInv, up[Server], side[Server].phase = "negotiated",
           chan[Server] # <<>>, Head(chan[Server]).kind = "Establish",
           NEW r, Carry(Server, r, Tail(chan[Server]), 0), r.s.phase = "pending", r.open, r.send = <<>>
    PROVE  GreetInv'
<1>1. PICK to \in Seq(Message), fro \in Seq(Message) : to = chan[Server] /\ fro = chan[Client]
  BY GreetIs
<1>2. PICK c, cup : c = side[Client].phase /\ cup = up[Client]
  OBVIOUS
<1>3. Greeting(c, "negotiated", cup, TRUE, to, fro)
  <2>1. up[Server] = TRUE
    BY GreetIs
  <2> QED BY <1>1, <1>2, <2>1, GreetIs
<1>4. Greeting(c, "pending", cup, TRUE, Tail(to), fro)
  BY <1>1, <1>3, ServerTakes
<1>5. fro \o <<>> = fro
  BY EmptySeq
<1>6. Greeting(side[Client].phase, r.s.phase, up[Client], r.open,
               IF r.open THEN Tail(chan[Server]) ELSE <<>>,
               IF up[Client] THEN chan[Client] \o r.send ELSE chan[Client])
  BY <1>1, <1>2, <1>4, <1>5 DEF Greeting
<1> QED BY <1>6, GreetsServer

\* reject_establishment, and the timeout of the handshake.
LEMMA GreetsRefuses ==
    ASSUME FlowInv, GreetInv, up[Server], side[Server].phase = "pending",
           NEW r, Carry(Server, r, chan[Server], 0), Rejects(r.send),
           r.s.phase \in {"negotiated", "finalized"},
           r.open => r.s.phase = "negotiated"
    PROVE  GreetInv'
<1>1. PICK to \in Seq(Message), fro \in Seq(Message) : to = chan[Server] /\ fro = chan[Client]
  BY GreetIs
<1>2. PICK c, cup : c = side[Client].phase /\ cup = up[Client]
  OBVIOUS
<1>3. Greeting(c, "pending", cup, TRUE, to, fro)
  <2>1. up[Server] = TRUE
    BY GreetIs
  <2> QED BY <1>1, <1>2, <2>1, GreetIs
<1>4. PICK b, bup : b = r.s.phase /\ bup \in BOOLEAN /\ (bup <=> r.open)
  OBVIOUS
<1>5. Lapses(b, bup)
  BY <1>4 DEF Busy, Lapses
<1>6. PICK into : into = IF up[Client] THEN chan[Client] \o r.send ELSE chan[Client]
  OBVIOUS
<1>7. PICK left : left = IF r.open THEN chan[Server] ELSE <<>>
  OBVIOUS
<1>8. PICK say : say = r.send /\ Rejects(say) /\ Sent(fro, say, into) /\ Remains(to, left)
  BY <1>1, <1>6, <1>7 DEF Sent, Remains
<1>9. Greeting(c, b, cup, bup, left, into)
  <2>1. to \in Seq(Message) /\ fro \in Seq(Message)
    OBVIOUS
  <2> QED BY ONLY <1>3, <1>5, <1>8, <2>1, ServerRejects
<1>10. Greeting(side[Client].phase, r.s.phase, up[Client], r.open, left, into)
  BY <1>2, <1>4, <1>9 DEF Greeting
<1> QED BY <1>6, <1>7, <1>10, GreetsServer

\* accept_establishment.
LEMMA GreetsAccepts ==
    ASSUME FlowInv, GreetInv, up[Server], side[Server].phase = "pending",
           NEW r, Carry(Server, r, chan[Server], 0), Acks(r.send),
           Holds(r.s.phase, r.open)
    PROVE  GreetInv'
<1>1. PICK to \in Seq(Message), fro \in Seq(Message) : to = chan[Server] /\ fro = chan[Client]
  BY GreetIs
<1>2. PICK c, cup : c = side[Client].phase /\ cup = up[Client]
  OBVIOUS
<1>3. Greeting(c, "pending", cup, TRUE, to, fro)
  <2>1. up[Server] = TRUE
    BY GreetIs
  <2> QED BY <1>1, <1>2, <2>1, GreetIs
<1>4. PICK b, bup : b = r.s.phase /\ bup \in BOOLEAN /\ (bup <=> r.open)
  OBVIOUS
<1>5. Holds(b, bup)
  BY <1>4 DEF Holds
<1>6. PICK into : into = IF up[Client] THEN chan[Client] \o r.send ELSE chan[Client]
  OBVIOUS
<1>7. PICK left : left = IF r.open THEN chan[Server] ELSE <<>>
  OBVIOUS
<1>8. PICK say : say = r.send /\ Acks(say) /\ Given(cup, fro, say, into) /\ Remains(to, left)
  BY <1>1, <1>2, <1>6, <1>7 DEF Given, Remains
<1>9. Greeting(c, b, cup, bup, left, into)
  <2>1. to \in Seq(Message) /\ fro \in Seq(Message)
    OBVIOUS
  <2> QED BY ONLY <1>3, <1>5, <1>8, <2>1, ServerAccepts
<1>10. Greeting(side[Client].phase, r.s.phase, up[Client], r.open, left, into)
  BY <1>2, <1>4, <1>9 DEF Greeting
<1> QED BY <1>6, <1>7, <1>10, GreetsServer

\* What only a bound session is told reaches no other.
LEMMA TalkIsBound ==
    ASSUME FlowInv, GreetInv, NEW x \in Sides, up[x], chan[x] # <<>>, Head(chan[x]).kind \in Talk
    PROVE  side[x].phase \notin {"negotiated", "establishing", "pending"}
<1>1. chan[x] \in Seq(Message)
  BY SideIs, GreetIs
<1>2. ~Silent(chan[x]) /\ ~Greeted(chan[x])
  BY <1>1, TailIs, GreetedIs DEF Silent
<1>3. CASE x = Client
  BY <1>2, <1>3, GreetIs DEF Greeting
<1>4. CASE x = Server
  BY <1>2, <1>4, GreetIs DEF Greeting
<1> QED BY <1>3, <1>4, SideIs

-----------------------------------------------------------------------------
(* What a handler leaves of the end of the flow, and whom it accuses        *)

\* The consumer's own limits accuse nobody (on_gap).  A handler that is Tame
\* ends no flow, answers none twice and resumes no batch; one that Utters says
\* nothing of a handshake.
Limits == {"none", "too many gaps", "gap too long"}
Tame(s, t) ==
    /\ t.finished # NotFinished => s.finished # NotFinished /\ t.finished.end = s.finished.end
    /\ s.finished.answered => t.finished.answered
    /\ t.finalized = s.finalized
    /\ t.resume => s.resume
    /\ t.phase = "finalized" => s.phase = "finalized" \/ t.finalized
Utters(r) == r.send \in Seq(Message) /\ Plain(r.send) /\ r.blame \in Limits
Mild(s, r) == Tame(s, r.s) /\ Utters(r)

\* Handlers compose.
LEMMA TameIs ==
    ASSUME NEW s, NEW t, Tame(s, t)
    PROVE  Tame(s, s) /\ \A u : Tame(t, u) => Tame(s, u)
BY DEF Tame

\* What does not touch the end of the flow.
LEMMA TameSame ==
    ASSUME NEW s, NEW t, t.finished = s.finished, t.finalized = s.finalized,
           t.resume = s.resume \/ t.resume = FALSE, t.phase = s.phase \/ t.phase # "finalized"
    PROVE  Tame(s, t)
BY DEF Tame

\* One message that belongs to no handshake.
LEMMA PlainOne ==
    /\ <<>> \in Seq(Message) /\ Plain(<<>>)
    /\ \A m \in Message : m.kind \notin Shakes => <<m>> \in Seq(Message) /\ Plain(<<m>>)
<1>1. <<>> \in Seq(Message) /\ Plain(<<>>)
  BY EmptySeq DEF Plain
<1>2. ASSUME NEW m \in Message, m.kind \notin Shakes
      PROVE  <<m>> \in Seq(Message) /\ Plain(<<m>>)
  <2>1. <<m>> \in Seq(Message) /\ Len(<<m>>) = 1 /\ <<m>>[1] = m /\ \A i \in 1 .. Len(<<m>>) : i = 1
    OBVIOUS
  <2> QED BY <1>2, <2>1 DEF Plain
<1> QED BY <1>1, <1>2

\* A handler that stays bound.
LEMMA MildResult ==
    ASSUME NEW s, NEW u, Tame(s, u), NEW send,
           send = <<>> \/ \E m \in Message : m.kind \notin Shakes /\ send = <<m>>,
           NEW r, r = Result(u, send)
    PROVE  Mild(s, r) /\ r.open /\ r.s = u
<1>1. r.s = u /\ r.send = send /\ r.open /\ r.blame = "none"
  BY ONLY r = Result(u, send) DEF Result
<1>2. send \in Seq(Message) /\ Plain(send)
  BY PlainOne
<1> QED BY <1>1, <1>2 DEF Mild, Utters, Limits

\* consume_missing touches what is missing.
LEMMA ConsumeTouches ==
    ASSUME NEW s \in Consumers, NEW k, NEW t, t = ConsumeMissing(s, k)
    PROVE  /\ t.finished = s.finished /\ t.finalized = s.finalized /\ t.resume = s.resume
           /\ t.phase = s.phase
<1>1. CASE t = s
  BY <1>1
<1>2. CASE \E missing : t = [s EXCEPT !.missing = missing]
  BY <1>2 DEF Consumers
<1>3. CASE \E missing, runs : t = [s EXCEPT !.missing = missing, !.runs = runs]
  BY <1>3 DEF Consumers
<1> QED BY <1>1, <1>2, <1>3, Zenon DEF ConsumeMissing

\* Settling a range keeps what was said of the end of the flow.
LEMMA SettledTame ==
    ASSUME NEW s \in Consumers, NEW books, NEW gone \in SUBSET Nat, NEW start \in Nat,
           Session(s, books, gone, start), NEW k \in {s.request.delivered, s.request.count},
           NEW t, t = Settled(s, k)
    PROVE  Tame(s, t) /\ t \in Consumers /\ t.phase = s.phase
<1>1. PICK u : u = ConsumeMissing(s, k)
  OBVIOUS
<1>2. /\ u.finished = s.finished /\ u.finalized = s.finalized /\ u.resume = s.resume
      /\ u.phase = s.phase
  BY <1>1, ConsumeTouches
<1>3. t = [u EXCEPT !.request = NoRequest, !.replay = NoReplay]
  BY <1>1, Zenon DEF Settled
<1>4. u \in Consumers
  <2>1. k \in Nat /\ s.request.delivered \in Nat /\ s.request.count \in Nat /\ s.request.from \in Nat
    BY ConsumerFields
  <2>2. k # 0 => s.missing # <<>> /\ s.missing[1].from + k <= s.missing[1].end
    <3> SUFFICES ASSUME k # 0 PROVE s.missing # <<>> /\ s.missing[1].from + k <= s.missing[1].end
      OBVIOUS
    <3>1. s.request # NoRequest
      BY <2>1, None
    <3>2. /\ s.missing # <<>> /\ s.request.from = s.missing[1].from
          /\ s.request.from + s.request.count <= s.missing[1].end
          /\ s.request.delivered <= s.request.count
      BY <3>1 DEF Session, RequestOK
    <3>3. s.missing[1].end \in Nat
      BY <3>2, RangeFacts DEF Session
    <3> QED BY <2>1, <3>2, <3>3
  <2> QED BY <1>1, <2>1, <2>2, ConsumeEffect DEF Consumed, Session
<1>5. t.finished = u.finished /\ t.finalized = u.finalized /\ t.resume = u.resume /\ t.phase = u.phase
  BY <1>3, <1>4 DEF Consumers
<1>6. t \in Consumers
  BY <1>3, <1>4, None DEF Consumers
<1> QED BY <1>2, <1>5, <1>6, TameSame

\* release_binding_state, and the end of the binding.
LEMMA UnboundTame ==
    ASSUME NEW s \in Consumers, NEW books, NEW gone \in SUBSET Nat, NEW start \in Nat,
           Session(s, books, gone, start)
    PROVE  /\ Tame(s, ReleaseConsumer(s)) /\ ReleaseConsumer(s).resume = FALSE
           /\ ReleaseConsumer(s).phase = s.phase
           /\ Tame(s, Unbound("consumer", ReleaseConsumer(s))) /\ Tame(s, Unbound("consumer", s))
<1>1. PICK t : t = Settled(s, s.request.delivered)
  OBVIOUS
<1>2. Tame(s, t) /\ t \in Consumers /\ t.phase = s.phase
  BY <1>1, SettledTame
<1>3. PICK u : u = ReleaseConsumer(s)
  OBVIOUS
<1>4. PICK c : c = ConsumeMissing(s, s.request.delivered)
  OBVIOUS
<1>5. t = [c EXCEPT !.request = NoRequest, !.replay = NoReplay]
  BY <1>1, <1>4, Zenon DEF Settled
<1>6. u = [c EXCEPT !.request = NoRequest, !.replay = NoReplay, !.resume = FALSE]
  BY <1>3, <1>4, Zenon DEF ReleaseConsumer
<1>7. u \in Consumers
  BY <1>3, ReleaseKeeps
<1>8. /\ c.finished = s.finished /\ c.finalized = s.finalized /\ c.resume = s.resume
      /\ c.phase = s.phase
  BY <1>4, ConsumeTouches
<1>9. /\ u.finished = c.finished /\ u.finalized = c.finalized /\ u.resume = FALSE
      /\ u.phase = c.phase
  BY ONLY <1>6, <1>7 DEF Consumers
<1>10. Tame(s, u)
  BY <1>8, <1>9, TameSame
<1>11. ASSUME NEW v \in Consumers PROVE Tame(v, Unbound("consumer", v))
  <2>1. PICK w : w = Unbound("consumer", v)
    OBVIOUS
  <2>2. w = [v EXCEPT !.phase = IF v.finalized THEN "finalized" ELSE "negotiated"]
    BY <2>1 DEF Unbound
  <2>3. /\ w.finished = v.finished /\ w.finalized = v.finalized /\ w.resume = v.resume
        /\ w.phase = IF v.finalized THEN "finalized" ELSE "negotiated"
    BY <2>2 DEF Consumers
  <2> QED BY <2>1, <2>3 DEF Tame
<1> QED BY <1>3, <1>7, <1>8, <1>9, <1>10, <1>11, TameIs

\* fail: a limit of the configuration ends the binding.
LEMMA FailMild ==
    ASSUME NEW s \in Consumers, NEW books, NEW gone \in SUBSET Nat, NEW start \in Nat,
           Session(s, books, gone, start), NEW why \in Limits,
           NEW r, r = FailWith("consumer", s, "Error", why)
    PROVE  Mild(s, r) /\ ~r.open
<1>1. PICK t : t = Unbound("consumer", ReleaseConsumer(s))
  OBVIOUS
<1>2. Tame(s, t)
  BY <1>1, UnboundTame
<1>3. PICK send : send = IF s.phase = "established" THEN <<TerminateMsg("Error")>> ELSE <<>>
  OBVIOUS
<1>4. send \in Seq(Message) /\ Plain(send)
  <2>1. TerminateMsg("Error") \in Message /\ TerminateMsg("Error").kind \notin Shakes
    BY DEF TerminateMsg, Message, Codes, Shakes
  <2> QED BY <1>3, <2>1, PlainOne
<1>5. r = [Result(t, send) EXCEPT !.open = FALSE, !.blame = why]
  BY <1>1, <1>3 DEF FailWith, Release
<1>6. r.s = t /\ r.send = send /\ r.open = FALSE /\ r.blame = why
  BY ONLY <1>5 DEF Result
<1> QED BY <1>2, <1>4, <1>6 DEF Mild, Utters

\* request_missing.
LEMMA RequestMild ==
    ASSUME NEW s \in Consumers, NEW books, NEW gone \in SUBSET Nat, NEW start \in Nat,
           Session(s, books, gone, start), NEW r, r = RequestMissing(s)
    PROVE  Mild(s, r) /\ r.open
<1>1. CASE s.phase # "established" \/ s.request # NoRequest \/ s.missing = <<>>
  <2>1. r = Result(s, <<>>) /\ Tame(s, s)
    BY <1>1 DEF RequestMissing, Tame
  <2> QED BY <2>1, MildResult
<1>2. CASE ~(s.phase # "established" \/ s.request # NoRequest \/ s.missing = <<>>)
  <2>1. PICK stamp, from, count, request, t :
           /\ t = [s EXCEPT !.stamp = stamp, !.request = request]
           /\ r = Result(t, <<RequestMsg(stamp, from, count)>>)
    BY <1>2, Zenon DEF RequestMissing
  <2>2. Tame(s, t)
    <3>1. t.finished = s.finished /\ t.finalized = s.finalized /\ t.resume = s.resume /\ t.phase = s.phase
      BY <2>1 DEF Consumers
    <3> QED BY <3>1, TameSame
  <2>3. PICK m : m = RequestMsg(stamp, from, count)
    OBVIOUS
  <2>4. r.s = t /\ r.send = <<m>> /\ r.open /\ r.blame = "none"
    BY ONLY <2>1, <2>3 DEF Result
  <2>5. r.send \in Seq(Message)
    <3>1. Quiet(r)
      BY RequestKeeps
    <3>2. r.send \in Seq(Replies)
      BY <3>1 DEF Quiet, Results
    <3> QED BY <3>2, RepliesAre
  <2>6. m.kind = "RetransmitRequest" /\ Len(<<m>>) = 1 /\ <<m>>[1] = m /\ \A i \in 1 .. Len(<<m>>) : i = 1
    BY <2>3 DEF RequestMsg
  <2>7. Plain(<<m>>)
    BY ONLY <2>6 DEF Plain, Shakes
  <2> QED BY <2>2, <2>4, <2>5, <2>7 DEF Mild, Utters, Limits
<1> QED BY <1>1, <1>2

\* maybe_finish_receiving.
LEMMA FinishMild ==
    ASSUME NEW s \in Consumers, NEW r, r = MaybeFinishReceiving(s)
    PROVE  Mild(s, r) /\ r.open
<1>1. CASE \/ s.finished = NotFinished \/ s.finished.answered
           \/ s.phase # "established" \/ s.missing # <<>> \/ s.request # NoRequest
  <2>1. r = Result(s, <<>>) /\ Tame(s, s)
    BY <1>1 DEF MaybeFinishReceiving, Tame
  <2> QED BY <2>1, MildResult
<1>2. CASE ~(\/ s.finished = NotFinished \/ s.finished.answered
             \/ s.phase # "established" \/ s.missing # <<>> \/ s.request # NoRequest)
  <2>1. PICK t : t = [s EXCEPT !.finished = [s.finished EXCEPT !.answered = TRUE]]
    OBVIOUS
  <2>2. PICK m : m = [kind |-> "FinishedReceiving"]
    OBVIOUS
  <2>3. r = Result(t, <<m>>)
    BY <1>2, <2>1, <2>2, Zenon DEF MaybeFinishReceiving
  <2>4. t.finalized = s.finalized /\ t.resume = s.resume /\ t.phase = s.phase
    BY <2>1 DEF Consumers
  <2>5. t.finished.end = s.finished.end /\ t.finished.answered = TRUE
    <3>1. t.finished = [s.finished EXCEPT !.answered = TRUE]
      BY <2>1 DEF Consumers
    <3> QED BY <3>1, ConsumerFields
  <2>6. Tame(s, t)
    BY <1>2, <2>4, <2>5 DEF Tame
  <2>7. m \in Message /\ m.kind \notin Shakes
    BY <2>2 DEF Message, Shakes
  <2> QED BY <2>3, <2>6, <2>7, MildResult
<1> QED BY <1>1, <1>2

\* A handler that calls another.
LEMMA ThenMild ==
    ASSUME NEW s, NEW r \in Results, r.open, Mild(s, r), NEW u, Tame(s, u),
           NEW q \in Results, Mild(u, q), NEW t, t = Then(r, q)
    PROVE  Mild(s, t) /\ t.s = q.s /\ (t.open <=> q.open)
<1>1. t.send = r.send \o q.send /\ t.s = q.s /\ t.open = q.open /\ t.blame = q.blame
  <2>1. t = [q EXCEPT !.send = r.send \o q.send, !.gone = r.gone \union q.gone,
                      !.accept = IF q.accept = 0 THEN r.accept ELSE q.accept]
    BY Zenon DEF Then
  <2> QED BY <2>1 DEF Results
<1>2. t.send \in Seq(Message) /\ Plain(t.send)
  <2>1. /\ r.send \in Seq(Message) /\ Plain(r.send)
        /\ q.send \in Seq(Message) /\ Plain(q.send)
    BY DEF Mild, Utters
  <2>2. r.send \o q.send \in Seq(Message) /\ Plain(r.send \o q.send)
    BY ONLY <2>1, SilentIs, BehindIs
  <2> QED BY <1>1, <2>2
<1> QED BY <1>1, <1>2, TameIs DEF Mild, Utters

\* record_gap touches what is missing.
LEMMA MovedTame ==
    ASSUME NEW s \in Consumers, NEW next \in Nat, NEW t, t = Moved(s, next)
    PROVE  Tame(s, t)
<1>1. PICK u : u = RecordGap(s, s.next, next).s
  OBVIOUS
<1>2. \/ u = s
      \/ \E missing : u = [s EXCEPT !.missing = missing]
      \/ \E missing, runs : u = [s EXCEPT !.missing = missing, !.runs = runs]
  <2>1. PICK first : first = [s EXCEPT !.missing[Len(s.missing)].end = next]
    OBVIOUS
  <2>2. PICK second : second = [s EXCEPT !.missing = Append(@, [from |-> s.next, end |-> next])]
    OBVIOUS
  <2>3. PICK third : third = [s EXCEPT !.missing[Len(s.missing)].end = Max({@, next}),
                              !.runs = IF Last(s.missing).end < s.next
                                       THEN Append(@, [from |-> Last(s.missing).end, end |-> s.next])
                                       ELSE @]
    OBVIOUS
  <2>4. u \in {s, first, second, third}
    BY <1>1, <2>1, <2>2, <2>3, Zenon DEF RecordGap
  <2>5. \E missing : first = [s EXCEPT !.missing = missing]
    BY <2>1
  <2>6. \E missing : second = [s EXCEPT !.missing = missing]
    BY <2>2
  <2>7. \E missing, runs : third = [s EXCEPT !.missing = missing, !.runs = runs]
    BY <2>3
  <2> QED BY <2>4, <2>5, <2>6, <2>7
<1>3. t = u \/ t = [u EXCEPT !.next = next]
  BY <1>1, Zenon DEF Moved
<1>4. /\ u.finished = s.finished /\ u.finalized = s.finalized /\ u.resume = s.resume
      /\ u.phase = s.phase /\ t.finished = u.finished /\ t.finalized = u.finalized
      /\ t.resume = u.resume /\ t.phase = u.phase
  BY <1>2, <1>3 DEF Consumers
<1> QED BY <1>4, TameSame

\* on_gap.
LEMMA GapMild ==
    ASSUME NEW s \in Consumers, NEW books, NEW gone \in SUBSET Nat, NEW start \in Nat,
           Session(s, books, gone, start), ~s.start, s.finished = NotFinished,
           NEW next \in 1 .. MaxSeq + 1, s.next < next,
           NEW r, r = OnGap(s, next)
    PROVE  Mild(s, r)
<1>1. PICK record : record = RecordGap(s, s.next, next)
  OBVIOUS
<1>2. PICK t : t = Moved(s, next)
  OBVIOUS
<1>3. t \in Consumers /\ Session(t, books, gone, start)
  BY <1>1, <1>2, RecordKeeps
<1>4. Tame(s, t)
  BY <1>2, MovedTame, Constants
<1>5. CASE record.held
  <2>1. PICK why \in Limits : why = "too many gaps"
    BY DEF Limits
  <2>2. r = FailWith("consumer", t, "Error", why)
    BY <1>1, <1>2, <1>5, <2>1, Zenon DEF OnGap, Moved, Violation
  <2>3. Mild(t, r)
    BY ONLY <1>3, <2>2, FailMild, gone \in SUBSET Nat, start \in Nat
  <2> QED BY <1>4, <2>3, TameIs DEF Mild
<1>6. CASE ~record.held
  <2>1. r = RequestMissing(t)
    BY <1>1, <1>2, <1>6, Zenon DEF OnGap, Moved
  <2>2. Mild(t, r)
    BY ONLY <1>3, <2>1, RequestMild, gone \in SUBSET Nat, start \in Nat
  <2> QED BY <1>4, <2>2, TameIs DEF Mild
<1> QED BY <1>5, <1>6

\* A batch that is cut by a number no longer resumes (on_next_seq).
LEMMA CutTame ==
    ASSUME NEW s \in Consumers
    PROVE  Tame(s, Cut(s)) /\ Cut(s).resume = FALSE
<1>1. PICK t, request : /\ t = Cut(s)
                        /\ t = [s EXCEPT !.resume = FALSE, !.replay = NoReplay, !.request = request]
  BY Zenon DEF Cut
<1>2. /\ t.finished = s.finished /\ t.finalized = s.finalized /\ t.resume = FALSE
      /\ t.phase = s.phase
  BY <1>1 DEF Consumers
<1> QED BY <1>1, <1>2, TameSame

\* What a consumer that numbers its flow may be told to come next.
Allows(s, next) ==
    /\ s.finished # NotFinished => next <= s.finished.end
    /\ s.start \/ s.next <= next

\* on_next_seq, of a number that is not below what is expected.
LEMMA NextSeqMild ==
    ASSUME NEW s \in Consumers, NEW books, NEW gone \in SUBSET Nat, NEW start \in Nat,
           Session(s, books, gone, start), s.phase \in {"established", "terminating"},
           NEW next \in 1 .. MaxSeq + 1, Allows(s, next), NEW r, r = OnNextSeq(s, next)
    PROVE  Mild(s, r) /\ r.s.resume = FALSE
<1>1. PICK t : t = Cut(s)
  OBVIOUS
<1>2. s.next \in Nat /\ next \in Nat /\ s.finished.end \in Nat /\ s.start \in BOOLEAN
  BY ConsumerFields, Constants
<1>3. PICK u : u = [t EXCEPT !.start = FALSE, !.next = next]
  OBVIOUS
<1>4. ~(s.finished # NotFinished /\ next > s.finished.end) /\ (~s.start => ~(next < s.next))
  BY <1>2 DEF Allows
<1>5. r = IF s.start THEN Result(u, <<>>)
          ELSE IF next = s.next THEN Result(t, <<>>)
          ELSE IF next - s.next > MaxGapLen THEN FailWith("consumer", t, "Error", "gap too long")
          ELSE OnGap(t, next)
  BY <1>1, <1>3, <1>4, Zenon DEF OnNextSeq, Cut, Violation
<1>6. /\ t \in Consumers /\ Session(t, books, gone, start)
      /\ t.next = s.next /\ t.start = s.start /\ t.finished = s.finished
  BY <1>1, CutKeeps
<1>7. Tame(s, t) /\ t.resume = FALSE
  BY <1>1, CutTame
<1>8. Mild(t, r)
  <2>1. CASE \E v \in {t, u} : r = Result(v, <<>>)
    <3>1. PICK v \in {t, u} : r = Result(v, <<>>)
      BY <2>1
    <3>2. Tame(t, v)
      <4>1. v.finished = t.finished /\ v.finalized = t.finalized /\ v.resume = t.resume /\ v.phase = t.phase
        BY <1>3, <1>6, <3>1 DEF Consumers
      <4> QED BY <4>1, TameSame
    <3> QED BY <3>1, <3>2, MildResult
  <2>2. CASE r = FailWith("consumer", t, "Error", "gap too long")
    <3>1. PICK why \in Limits : why = "gap too long"
      BY DEF Limits
    <3> QED BY <1>6, <2>2, <3>1, FailMild
  <2>3. CASE ~s.start /\ next # s.next /\ r = OnGap(t, next)
    <3>1. s.next < next /\ t.next < next
      BY <1>2, <1>4, <1>6, <2>3
    <3>2. s.finished = NotFinished
      BY <1>2, <3>1 DEF Session, FinishOK, Allows
    <3>3. ~t.start /\ t.finished = NotFinished /\ r = OnGap(t, next)
      BY <1>6, <2>3, <3>2
    <3> QED BY ONLY <1>6, <3>1, <3>3, GapMild, gone \in SUBSET Nat, start \in Nat, next \in 1 .. MaxSeq + 1
  <2> QED BY <1>5, <2>1, <2>2, <2>3, Zenon
<1>9. r.s.resume = FALSE
  <2>1. r.s \in Consumers
    <3>1. PICK begun : begun = IF s.start THEN next ELSE start
      OBVIOUS
    <3>2. Quiet(r)
      BY <3>1, NextSeqKeeps
    <3> QED BY <3>2 DEF Quiet, Results
  <2>2. r.s.resume \in BOOLEAN
    BY <2>1, ConsumerFields
  <2> QED BY <1>7, <1>8, <2>2 DEF Mild, Tame
<1> QED BY <1>7, <1>8, <1>9, TameIs DEF Mild

\* on_established.
LEMMA EstablishedMild ==
    ASSUME NEW s \in Consumers, NEW books, NEW gone \in SUBSET Nat, NEW start \in Nat,
           Session(s, books, gone, start), s.phase = "established",
           NEW next \in 1 .. MaxSeq + 1, Allows(s, next), NEW r, r = OnEstablished("consumer", s, next)
    PROVE  Mild(s, r)
<1>1. PICK p : p = OnNextSeq(s, next)
  OBVIOUS
<1>2. PICK q : q = RequestMissing(p.s)
  OBVIOUS
<1>3. PICK t : t = Then(p, q)
  OBVIOUS
<1>4. PICK f : f = MaybeFinishReceiving(t.s)
  OBVIOUS
<1>5. r = Then(t, f)
  BY <1>1, <1>2, <1>3, <1>4, Zenon DEF OnEstablished
<1>6. PICK begun : begun = IF s.start THEN next ELSE start
  OBVIOUS
<1>7. s.phase \in {"established", "terminating"}
  OBVIOUS
<1>8. Quiet(p) /\ Session(p.s, books, gone, begun) /\ begun \in Nat
  <2>1. Quiet(p) /\ Session(p.s, books, gone, begun)
    BY ONLY <1>1, <1>6, <1>7, NextSeqKeeps, s \in Consumers, gone \in SUBSET Nat, start \in Nat,
            Session(s, books, gone, start), next \in 1 .. MaxSeq + 1
  <2>2. begun \in Nat
    BY <1>6, Constants
  <2> QED BY <2>1, <2>2
<1>9. Mild(s, p)
  BY ONLY <1>1, <1>7, NextSeqMild, s \in Consumers, gone \in SUBSET Nat, start \in Nat,
          Session(s, books, gone, start), next \in 1 .. MaxSeq + 1, Allows(s, next)
<1>10. CASE ~p.open
  <2>1. t = p
    BY <1>3, <1>10 DEF Then
  <2>2. r = p
    BY <1>5, <1>10, <2>1 DEF Then
  <2> QED BY <1>9, <2>2
<1>11. CASE p.open
  <2>1. p \in Results /\ p.s \in Consumers
    BY <1>8 DEF Quiet, Results
  <2>2. PICK u \in Consumers : u = p.s
    BY <2>1
  <2>3. Session(u, books, gone, begun) /\ q = RequestMissing(u)
    BY <1>2, <1>8, <2>2
  <2>4. Quiet(q) /\ q.open /\ Session(q.s, books, gone, begun)
    BY ONLY <1>8, <2>2, <2>3, RequestKeeps, gone \in SUBSET Nat
  <2>5. Mild(u, q)
    BY ONLY <1>8, <2>2, <2>3, RequestMild, gone \in SUBSET Nat
  <2>6. Tame(s, u) /\ q \in Results
    BY <1>9, <2>2, <2>4 DEF Mild, Quiet
  <2>7. Mild(s, t) /\ t.s = q.s /\ t.open
    BY ONLY <1>3, <1>9, <1>11, <2>1, <2>4, <2>5, <2>6, ThenMild
  <2>8. Quiet(t)
    BY ONLY <1>3, <1>8, <1>11, <2>4, ThenIs
  <2>9. PICK v \in Consumers : v = t.s
    BY <2>8 DEF Quiet, Results
  <2>10. Session(v, books, gone, begun) /\ f = MaybeFinishReceiving(v)
    BY ONLY <1>4, <2>4, <2>7, <2>9
  <2>11. Quiet(f)
    BY ONLY <2>9, <2>10, FinishKeeps
  <2>12. Mild(v, f)
    BY ONLY <2>9, <2>10, FinishMild
  <2>13. f \in Results /\ t \in Results /\ Tame(s, v)
    BY <2>7, <2>8, <2>9, <2>11 DEF Quiet, Mild
  <2> QED BY ONLY <1>5, <2>7, <2>12, <2>13, ThenMild
<1> QED BY <1>10, <1>11

\* What the end of the flow becomes when it is announced.
Learns(s, t, end) ==
    /\ t.finished # NotFinished =>
          t.finished.end = end \/ (s.finished # NotFinished /\ t.finished.end = s.finished.end)
    /\ s.finished.answered => t.finished.answered
    /\ t.finalized = s.finalized
    /\ t.phase = "finalized" => s.phase = "finalized" \/ t.finalized

\* on_finished_sending, of an end that is not below what is expected.
LEMMA FinishedSendingMild ==
    ASSUME NEW s \in Consumers, NEW books, NEW gone \in SUBSET Nat, NEW start \in Nat,
           Session(s, books, gone, start), s.phase \in {"established", "terminating"}, ~s.start,
           NEW end \in 1 .. MaxSeq + 1, s.next <= end,
           NEW r, r = OnFinishedSending(s, end - 1)
    PROVE  Learns(s, r.s, end) /\ Utters(r)
<1>1. CASE s.finished # NotFinished
  <2>1. r = Result(s, <<>>)
    BY <1>1 DEF OnFinishedSending
  <2>2. Mild(s, r) /\ r.s = s
    <3>1. Tame(s, s)
      BY DEF Tame
    <3> QED BY <2>1, <3>1, MildResult
  <2> QED BY <1>1, <2>2 DEF Mild, Learns
<1>2. CASE s.finished = NotFinished
  <2>1. end \in Nat /\ s.next \in Nat /\ (end - 1) + 1 = end
    BY Constants, ConsumerFields
  <2>2. PICK p : p = OnNextSeq(s, end)
    OBVIOUS
  <2>3. PICK t : t = [p.s EXCEPT !.finished = [end |-> end, answered |-> FALSE]]
    OBVIOUS
  <2>4. PICK q : q = MaybeFinishReceiving(t)
    OBVIOUS
  <2>5. r = Then(p, q)
    <3>1. ~((end - 1) + 1 < s.next)
      BY <2>1
    <3> QED BY <1>2, <2>1, <2>2, <2>3, <2>4, <3>1, Zenon DEF OnFinishedSending
  <2>6. Mild(s, p)
    <3>1. Allows(s, end)
      BY <1>2 DEF Allows
    <3> QED BY <2>2, <3>1, NextSeqMild
  <2>7. Quiet(p) /\ Session(p.s, books, gone, start) /\ ~p.s.start /\ (p.open => p.s.next = end)
    <3>1. PICK begun : begun = IF s.start THEN end ELSE start
      OBVIOUS
    <3>2. begun = start
      BY <3>1
    <3>3. /\ Quiet(p) /\ Session(p.s, books, gone, begun) /\ ~p.s.start
          /\ p.open => p.s.next = end
      BY <2>2, <3>1, NextSeqKeeps
    <3> QED BY ONLY <3>2, <3>3
  <2>8. CASE ~p.open
    <3>1. r = p
      BY <2>5, <2>8 DEF Then
    <3> QED BY <2>6, <3>1 DEF Mild, Tame, Learns
  <2>9. CASE p.open
    <3>1. PICK u \in Consumers : u = p.s
      BY <2>7 DEF Quiet, Results
    <3>2. Session(u, books, gone, start) /\ ~u.start /\ end = u.next
      BY ONLY <2>7, <2>9, <3>1
    <3>3. t = [u EXCEPT !.finished = [end |-> end, answered |-> FALSE]]
      BY ONLY <2>3, <3>1, Zenon
    <3>4. t \in Consumers /\ Session(t, books, gone, start)
      BY ONLY <2>1, <3>1, <3>2, <3>3, Finishing
    <3>5. /\ t.finished = [end |-> end, answered |-> FALSE] /\ t.finalized = u.finalized
          /\ t.phase = u.phase
      BY ONLY <3>1, <3>3 DEF Consumers
    <3>6. Quiet(q) /\ q.open /\ Mild(t, q)
      BY ONLY <2>4, <3>4, FinishKeeps, FinishMild
    <3>7. p \in Results /\ q \in Results
      BY ONLY <2>7, <3>6 DEF Quiet
    <3>8. r.send = p.send \o q.send /\ r.s = q.s /\ r.blame = q.blame
      <4>1. r = [q EXCEPT !.send = p.send \o q.send, !.gone = p.gone \union q.gone,
                          !.accept = IF q.accept = 0 THEN p.accept ELSE q.accept]
        BY <2>5, <2>9, Zenon DEF Then
      <4> QED BY <3>7, <4>1 DEF Results
    <3>9. r.send \in Seq(Message) /\ Plain(r.send)
      <4>1. /\ p.send \in Seq(Message) /\ Plain(p.send)
            /\ q.send \in Seq(Message) /\ Plain(q.send)
        BY <2>6, <3>6 DEF Mild, Utters
      <4>2. p.send \o q.send \in Seq(Message) /\ Plain(p.send \o q.send)
        BY ONLY <4>1, SilentIs, BehindIs
      <4> QED BY <3>8, <4>2
    <3>10. Utters(r)
      BY <3>6, <3>8, <3>9 DEF Mild, Utters
    <3>11. s.finished.answered = FALSE /\ s.finalized = u.finalized /\ (u.phase = "finalized" => s.phase = "finalized" \/ u.finalized)
      BY <1>2, <2>6, <3>1, None DEF Mild, Tame
    <3>12. q.s.finished # NotFinished => q.s.finished.end = end
      BY <3>5, <3>6 DEF Mild, Tame
    <3>13. Learns(s, r.s, end)
      BY <3>5, <3>6, <3>8, <3>11, <3>12 DEF Mild, Tame, Learns
    <3> QED BY <3>10, <3>13
  <2> QED BY <2>8, <2>9
<1> QED BY <1>1, <1>2

\* complete_outstanding.
LEMMA SettleMild ==
    ASSUME NEW s \in Consumers, NEW books, NEW gone \in SUBSET Nat, NEW start \in Nat,
           Session(s, books, gone, start), NEW more, NEW k, k = s.request.count,
           SettledTo(s, k, books, more), NEW r, r = SettleRequest(s)
    PROVE  Mild(s, r)
<1>1. PICK t : t = Settled(s, k)
  OBVIOUS
<1>2. s \in Consumers /\ Session(s, books, gone, start) /\ gone \in SUBSET Nat /\ start \in Nat
  OBVIOUS
<1>3. t \in Consumers /\ Session(t, books, gone \union more, start)
  <2>1. Session(t, books, gone \union more, start)
    BY ONLY <1>1, <1>2, SettledTo(s, k, books, more), Settles
  <2>2. t \in Consumers
    BY ONLY <1>1, <1>2, SettledTo(s, k, books, more), Settles
  <2> QED BY <2>1, <2>2
<1>4. Tame(s, t)
  <2>1. k \in {s.request.delivered, s.request.count}
    OBVIOUS
  <2> QED BY ONLY <1>1, <1>2, <2>1, SettledTame
<1>5. gone \union more \in SUBSET Nat
  BY DEF SettledTo
<1>6. CASE t.missing = <<>>
  <2>1. r = MaybeFinishReceiving(t)
    BY <1>1, <1>6, Zenon DEF SettleRequest, Settled
  <2>2. Mild(t, r)
    BY ONLY <1>3, <2>1, FinishMild
  <2> QED BY <1>4, <2>2, TameIs DEF Mild
<1>7. CASE t.missing # <<>>
  <2>1. r = RequestMissing(t)
    BY <1>1, <1>7, Zenon DEF SettleRequest, Settled
  <2>2. Mild(t, r)
    BY ONLY <1>2, <1>3, <1>5, <2>1, RequestMild
  <2> QED BY <1>4, <2>2, TameIs DEF Mild
<1> QED BY <1>6, <1>7

\* on_retransmit_reject.
LEMMA RejectMild ==
    ASSUME NEW s \in Consumers, NEW books, NEW gone \in SUBSET Nat, NEW start \in Nat,
           Session(s, books, gone, start), NEW m, NEW r, r = OnRetransmitReject(s, m)
    PROVE  Mild(s, r)
<1>1. CASE s.request = NoRequest \/ m.stamp # s.request.stamp
  <2>1. r = Result(s, <<>>)
    BY <1>1 DEF OnRetransmitReject
  <2>2. Tame(s, s)
    BY DEF Tame
  <2> QED BY <2>1, <2>2, MildResult
<1>2. CASE ~(s.request = NoRequest \/ m.stamp # s.request.stamp)
  <2>1. PICK k : k = s.request.count
    OBVIOUS
  <2>2. PICK more : more = s.request.from .. (s.request.from + k - 1)
    OBVIOUS
  <2>3. PICK q : q = SettleRequest(s)
    OBVIOUS
  <2>4. r = [q EXCEPT !.gone = more]
    BY <1>2, <2>1, <2>2, <2>3, Zenon DEF OnRetransmitReject
  <2>5. SettledTo(s, k, books, more)
    <3>1. s.request.from \in Nat /\ k \in Nat
      BY <2>1, ConsumerFields
    <3>2. \A n \in Numbers : n \in Nat
      BY Constants
    <3>3. \A n \in more : n \in Nat /\ s.request.from <= n /\ n < s.request.from + k
      BY ONLY <2>2, <3>1
    <3>4. \A n \in Nat : s.request.from <= n /\ n < s.request.from + k => n \in more
      BY ONLY <2>2, <3>1
    <3>5. k \in {s.request.delivered, s.request.count} /\ more \in SUBSET Nat
      BY <2>1, <3>3
    <3> QED BY ONLY <3>2, <3>3, <3>4, <3>5 DEF SettledTo
  <2>6. Mild(s, q) /\ q \in Results
    BY <2>1, <2>3, <2>5, SettleMild, SettleKeeps DEF Quiet
  <2>7. r.s = q.s /\ r.send = q.send /\ r.blame = q.blame
    BY ONLY <2>4, <2>6 DEF Results
  <2> QED BY <2>6, <2>7 DEF Mild, Utters
<1> QED BY <1>1, <1>2

\* on_application of a batch.
LEMMA ReplayedMild ==
    ASSUME NEW s \in Consumers, NEW books \in Books, NEW gone \in SUBSET Nat,
           NEW start \in Nat, Session(s, books, gone, start),
           s.phase \in {"established", "terminating"}, ~s.start, s.replay # NoReplay,
           NEW r, r = OnReplayed(s)
    PROVE  Mild(s, r)
<1>0. PICK number : number = s.replay.next
  OBVIOUS
<1>1. PICK t : t = Onward(s)
  OBVIOUS
<1>2. PICK q : q = IF t.request.delivered >= t.request.count THEN SettleRequest(t)
                   ELSE Result(t, <<>>)
  OBVIOUS
<1>3. PICK runs : runs = Ahead(s.runs, number)
  OBVIOUS
<1>4. r = [q EXCEPT !.accept = IF runs # <<>> /\ Head(runs).from <= number THEN 0 ELSE number]
  BY <1>0, <1>1, <1>2, <1>3, Zenon DEF OnReplayed, Onward, Ahead
<1>5. PICK after : after = Taken(s, books)
  OBVIOUS
<1>6. t \in Consumers /\ Session(t, after, gone, start)
  BY <1>0, <1>1, <1>5, OnwardKeeps
<1>7. Tame(s, t)
  <2>1. PICK after_runs, replay, request :
           t = [s EXCEPT !.runs = after_runs, !.replay = replay, !.request = request]
    BY <1>1, Zenon DEF Onward
  <2>2. t.finished = s.finished /\ t.finalized = s.finalized /\ t.resume = s.resume /\ t.phase = s.phase
    BY <2>1 DEF Consumers
  <2> QED BY <2>2, TameSame
<1>8. Mild(t, q) /\ r.s = q.s /\ r.send = q.send /\ r.blame = q.blame
  <2>1. CASE t.request.delivered >= t.request.count
    <3>1. PICK k : k = t.request.count
      OBVIOUS
    <3>2. PICK more : more = {}
      OBVIOUS
    <3>3. q = SettleRequest(t)
      BY <1>2, <2>1
    <3>4. SettledTo(t, k, after, more)
      <4>1. k \in Nat /\ t.request.delivered \in Nat /\ t.request.from \in Nat /\ Numbers \subseteq Nat
        BY <1>6, <3>1, ConsumerFields, Constants
      <4>2. \A n \in Numbers : t.request.from <= n /\ n < t.request.from + k => Delivered(t, n)
        BY ONLY <2>1, <3>1, <4>1 DEF Delivered
      <4>3. \A n \in Numbers : Delivered(t, n) => after[n] # <<>>
        BY <1>6, DeliveredAre
      <4> QED BY <3>1, <3>2, <4>2, <4>3 DEF SettledTo
    <3>5. Mild(t, q)
      BY ONLY <1>6, <3>1, <3>3, <3>4, SettleMild, gone \in SUBSET Nat, start \in Nat
    <3>6. q \in Results
      BY <1>6, <3>1, <3>3, <3>4, SettleKeeps DEF Quiet
    <3>7. r.s = q.s /\ r.send = q.send /\ r.blame = q.blame
      BY ONLY <1>4, <3>6 DEF Results
    <3> QED BY <3>5, <3>7
  <2>2. CASE ~(t.request.delivered >= t.request.count)
    <3>1. q = Result(t, <<>>) /\ Tame(t, t)
      BY <1>2, <2>2 DEF Tame
    <3>2. r.s = q.s /\ r.send = q.send /\ r.blame = q.blame
      BY ONLY <1>4, <3>1 DEF Result
    <3> QED BY <3>1, <3>2, MildResult
  <2> QED BY <2>1, <2>2
<1> QED BY <1>7, <1>8, TameIs DEF Mild, Utters

\* on_stall.
LEMMA StallMild ==
    ASSUME NEW s \in Consumers, NEW books, NEW gone \in SUBSET Nat, NEW start \in Nat,
           Session(s, books, gone, start), NEW r, r = OnStall(s)
    PROVE  Mild(s, r)
<1>1. PICK again : again <=> \/ Policy = "ReRequestAfterContextSwitch" /\ s.request.interrupted
                             \/ /\ Policy = "ReRequestAfterBatch"
                                /\ s.request.interrupted \/ s.request.complete
  OBVIOUS
<1>2. PICK k : k = s.request.delivered
  OBVIOUS
<1>3. CASE Policy = "Terminate"
  <2>1. PICK why \in Limits : why = "none"
    BY DEF Limits
  <2>2. r = FailWith("consumer", s, "Error", why)
    BY <1>3, <2>1, Zenon DEF OnStall
  <2> QED BY <2>2, FailMild
<1>4. CASE Policy # "Terminate" /\ again
  <2>1. PICK t : t = Settled(s, k)
    OBVIOUS
  <2>2. r = RequestMissing(t)
    BY <1>1, <1>2, <1>4, <2>1, Zenon DEF OnStall, Settled
  <2>3. PICK more : more = {}
    OBVIOUS
  <2>4. SettledTo(s, k, books, more)
    BY <1>2, <2>3, DeliveredAre DEF Delivered, SettledTo
  <2>5. s \in Consumers /\ Session(s, books, gone, start) /\ gone \in SUBSET Nat /\ start \in Nat
    OBVIOUS
  <2>6. Session(t, books, gone, start)
    <3>1. Session(t, books, gone \union more, start)
      BY ONLY <2>1, <2>4, <2>5, Settles
    <3>2. gone \union more = gone
      BY <2>3
    <3> QED BY ONLY <3>1, <3>2
  <2>7. Tame(s, t) /\ t \in Consumers
    <3>1. k \in {s.request.delivered, s.request.count}
      BY <1>2
    <3> QED BY ONLY <2>1, <2>5, <3>1, SettledTame
  <2>8. Mild(t, r)
    BY ONLY <2>2, <2>5, <2>6, <2>7, RequestMild
  <2> QED BY <2>7, <2>8, TameIs DEF Mild
<1>5. CASE Policy # "Terminate" /\ ~again
  <2>1. PICK request, t : t = [s EXCEPT !.request = request] /\ r = Result(t, <<>>)
    BY <1>1, <1>5, Zenon DEF OnStall
  <2>2. t.finished = s.finished /\ t.finalized = s.finalized /\ t.resume = s.resume /\ t.phase = s.phase
    BY <2>1 DEF Consumers
  <2> QED BY <2>1, <2>2, TameSame, MildResult
<1> QED BY <1>3, <1>4, <1>5

\* on_application of a message in sequence.
LEMMA CountedTame ==
    ASSUME NEW s \in Consumers
    PROVE  Tame(s, Counted(s))
<1>1. PICK t : t = Counted(s)
  OBVIOUS
<1>2. t.finished = s.finished /\ t.finalized = s.finalized /\ t.resume = s.resume /\ t.phase = s.phase
  BY <1>1 DEF Counted, Consumers
<1> QED BY <1>1, <1>2, TameSame

\* on_retransmission of what was asked for.
AskedFor(s, m) ==
    ~(\/ s.request = NoRequest \/ m.stamp # s.request.stamp
      \/ m.next # s.request.from + s.request.delivered
      \/ m.count = 0 \/ m.count > s.request.count - s.request.delivered)
\* It opens the batch, and touches nothing else.
LEMMA RetransmissionMild ==
    ASSUME NEW s \in Consumers, NEW m, AskedFor(s, m), NEW r, r = OnRetransmission(s, m)
    PROVE  /\ r.s.finished = s.finished /\ r.s.finalized = s.finalized /\ r.s.phase = s.phase
           /\ r.s.replay = [next |-> m.next, left |-> m.count] /\ r.open /\ Utters(r)
<1>1. PICK request, t :
         /\ t = [s EXCEPT !.replay = [next |-> m.next, left |-> m.count], !.resume = TRUE,
                          !.request = request]
         /\ r = Result(t, <<>>)
  BY Zenon DEF OnRetransmission, AskedFor
<1>2. /\ t.finished = s.finished /\ t.finalized = s.finalized /\ t.phase = s.phase
      /\ t.replay = [next |-> m.next, left |-> m.count]
  BY <1>1 DEF Consumers
<1>3. Mild(t, r) /\ r.open /\ r.s = t
  <2>1. Tame(t, t)
    BY DEF Tame
  <2> QED BY <1>1, <2>1, MildResult
<1> QED BY <1>2, <1>3 DEF Mild

\* on_terminate: only a consumer that answered is finalized.
LEMMA TerminateMild ==
    ASSUME NEW s \in Consumers, NEW books, NEW gone \in SUBSET Nat, NEW start \in Nat,
           Session(s, books, gone, start), s.phase # "finalized", s.finalized => s.finished.answered,
           NEW m, NEW r, r = OnTerminate("consumer", s, m)
    PROVE  /\ r.s.finished # NotFinished =>
                 s.finished # NotFinished /\ r.s.finished.end = s.finished.end
           /\ r.s.phase = "finalized" => r.s.finalized
           /\ r.s.finalized => r.s.finished.answered
           /\ r.s.phase \notin {"established", "terminating"} /\ Utters(r)
<1>1. PICK u : u = ReleaseConsumer(s)
  OBVIOUS
<1>2. u \in Consumers /\ Tame(s, u)
  BY <1>1, ReleaseKeeps, UnboundTame
<1>3. PICK final : final = (u.finalized \/ ("consumer" = "consumer" /\ s.finished.answered /\ m.code = "Finished"))
  OBVIOUS
<1>4. PICK t : t = [u EXCEPT !.finalized = final]
  OBVIOUS
<1>5. ASSUME NEW phase, NEW v, v = [t EXCEPT !.phase = phase]
      PROVE  v.finished = u.finished /\ v.finalized = final /\ v.phase = phase
  BY <1>2, <1>4, <1>5 DEF Consumers
<1>6. final => u.finished.answered
  BY <1>2, <1>3 DEF Tame
<1>7. u.finished # NotFinished => s.finished # NotFinished /\ u.finished.end = s.finished.end
  BY <1>2 DEF Tame
<1>8. CASE s.phase = "terminating"
  <2>1. PICK phase : phase = IF t.finalized THEN "finalized" ELSE "negotiated"
    OBVIOUS
  <2>2. PICK v : v = [t EXCEPT !.phase = phase]
    OBVIOUS
  <2>3. r = [Result(v, <<>>) EXCEPT !.open = FALSE]
    BY <1>1, <1>3, <1>4, <1>8, <2>1, <2>2 DEF OnTerminate, Release, Unbound
  <2>4. r.s = v /\ r.send = <<>> /\ r.blame = "none"
    BY ONLY <2>3 DEF Result
  <2>5. v.finished = u.finished /\ v.finalized = final /\ v.phase = phase
    BY <1>5, <2>2
  <2>6. t.finalized = final
    BY <1>2, <1>4 DEF Consumers
  <2>7. Utters(r)
    BY <2>4, PlainOne DEF Utters, Limits
  <2> QED BY <1>6, <1>7, <2>1, <2>4, <2>5, <2>6, <2>7
<1>9. CASE s.phase # "terminating"
  <2>1. PICK v : v = [t EXCEPT !.phase = "closing"]
    OBVIOUS
  <2>2. r = Result(v, <<TerminateMsg("Finished")>>)
    BY <1>1, <1>3, <1>4, <1>9, <2>1 DEF OnTerminate, Release
  <2>3. v.finished = u.finished /\ v.finalized = final /\ v.phase = "closing"
    BY <1>5, <2>1
  <2>4. Utters(r) /\ r.s = v
    <3>1. TerminateMsg("Finished") \in Message /\ TerminateMsg("Finished").kind \notin Shakes
      BY DEF TerminateMsg, Message, Codes, Shakes
    <3>2. Tame(v, v)
      BY DEF Tame
    <3> QED BY <2>2, <3>1, <3>2, MildResult DEF Mild
  <2> QED BY <1>6, <1>7, <2>3, <2>4
<1> QED BY <1>8, <1>9

-----------------------------------------------------------------------------
(* A step of either side keeps the accord                                   *)

\* Nobody is accused by a handler that accuses nobody (Session::fail).
LEMMA BlameIs ==
    ASSUME NeverAccused, NEW x, NEW r, NEW unread, NEW n, Carry(x, r, unread, n), Utters(r)
    PROVE  NeverAccused'
BY DEF Carry, NeverAccused, Utters, Limits

\* The sides and the lines as the invariants have them.
LEMMA AccordIs ==
    ASSUME FlowInv, AccordInv
    PROVE  /\ consumer \in Consumers /\ provider \in Providers
           /\ side["consumer"] = consumer /\ side["provider"] = provider
           /\ chan["consumer"] \in Seq(Message) /\ chan["provider"] \in Seq(Message)
           /\ up["consumer"] \in BOOLEAN /\ up["provider"] \in BOOLEAN
           /\ InStep(consumer, chan["consumer"])
           /\ Concludes(consumer, provider, chan["consumer"])
           /\ Resumes(consumer, chan["consumer"] \o Ready(provider)) /\ GreetInv
           /\ provider.next \in Nat /\ 1 <= provider.next /\ consumer.next \in Nat
           /\ consumer.next <= provider.next /\ consumer.announced <= provider.next
           /\ Reached(chan["consumer"], provider.next)
           /\ Expects(consumer) \in Nat /\ Expects(consumer) <= provider.next
<1>1. /\ consumer \in Consumers /\ provider \in Providers
      /\ side["consumer"] = consumer /\ side["provider"] = provider
      /\ chan["consumer"] \in Seq(Message) /\ chan["provider"] \in Seq(Message)
      /\ up["consumer"] \in BOOLEAN /\ up["provider"] \in BOOLEAN
      /\ provider.next \in Nat /\ 1 <= provider.next /\ consumer.next \in Nat
      /\ Reached(chan["consumer"], provider.next)
  BY SidesHave
<1>2. consumer.next <= provider.next /\ consumer.announced <= provider.next
  BY ConsumerIs
<1>3. /\ InStep(consumer, chan["consumer"])
      /\ Concludes(consumer, provider, chan["consumer"])
      /\ Resumes(consumer, chan["consumer"] \o Ready(provider)) /\ GreetInv
  BY DEF AccordInv, NumbersInv, ResumesInv
<1>4. Expects(consumer) \in Nat /\ Expects(consumer) <= provider.next
  BY <1>1, <1>2, ExpectsIs DEF Expects
<1> QED BY <1>1, <1>2, <1>3, <1>4

\* The consumer expects no more than it has read, and the end of the flow is
\* where its sender put it.
Heeds(s) ==
    /\ s.finished # NotFinished => Ended(provider, s.finished.end)
    /\ s.phase = "finalized" => s.finalized
    /\ s.finalized => s.finished.answered
Advances(s, unread) ==
    /\ s.next <= Expects(s)
    /\ \/ Expects(s) <= Expects(consumer)
       \/ (/\ chan["consumer"] # <<>> /\ unread = Tail(chan["consumer"])
           /\ Expects(s) <= Height(Head(chan["consumer"])))

\* A handler of the consumer keeps the numbers and the end of the flow.
LEMMA ConsumerAccords ==
    ASSUME FlowInv, FlowInv', AccordInv, up["consumer"],
           NEW r, NEW unread, NEW n, Carry("consumer", r, unread, n), Reads(chan["consumer"], unread),
           r.open => Advances(r.s, unread), r.s.next <= Expects(r.s), Heeds(r.s),
           r.open => Resumes(r.s, unread \o Ready(provider))
    PROVE  NumbersInv' /\ ResumesInv'
<1>1. PICK left : left = IF r.open THEN unread ELSE <<>>
  OBVIOUS
<1>2. /\ side'["consumer"] = r.s /\ side'["provider"] = side["provider"]
      /\ chan'["consumer"] = left
  <2>1. "consumer" \in Sides /\ "provider" = Other("consumer")
    BY TheSides
  <2> QED BY <1>1, <2>1, CarryIs
<1>3. consumer' = r.s /\ provider' = provider
  BY <1>2 DEF consumer, provider
<1>4. r.s \in Consumers
  BY ConsumerAfter
<1>5. InStep(r.s, left)
  <2>1. InStep(consumer, chan["consumer"]) /\ consumer \in Consumers /\ chan["consumer"] \in Seq(Message)
    BY AccordIs
  <2>2. \/ left = <<>>
        \/ left = chan["consumer"] /\ Expects(r.s) <= Expects(consumer)
        \/ /\ chan["consumer"] # <<>> /\ left = Tail(chan["consumer"])
           /\ Expects(r.s) <= Expects(consumer) \/ Expects(r.s) <= Height(Head(chan["consumer"]))
    <3>1. CASE ~r.open
      BY <1>1, <3>1
    <3>2. CASE r.open
      <4>1. Advances(r.s, unread) /\ left = unread
        BY <1>1, <3>2
      <4>2. CASE chan["consumer"] # <<>> /\ unread = Tail(chan["consumer"])
        BY <4>1, <4>2 DEF Advances
      <4>3. CASE ~(chan["consumer"] # <<>> /\ unread = Tail(chan["consumer"]))
        BY <4>1, <4>3 DEF Advances, Reads
      <4> QED BY <4>2, <4>3
    <3> QED BY <3>1, <3>2
  <2>3. r.s.next <= Expects(r.s)
    OBVIOUS
  <2> QED BY ONLY <1>4, <2>1, <2>2, <2>3, InStepLeft
<1>6. Concludes(r.s, provider, left)
  <2>1. Concludes(consumer, provider, chan["consumer"]) /\ chan["consumer"] \in Seq(Message)
    BY AccordIs
  <2>2. left \in {chan["consumer"], <<>>} \/ (chan["consumer"] # <<>> /\ left = Tail(chan["consumer"]))
    BY <1>1 DEF Reads
  <2>3. /\ r.s.finished # NotFinished => Ended(provider, r.s.finished.end)
        /\ r.s.phase = "finalized" => r.s.finalized
        /\ r.s.finalized => r.s.finished.answered
    BY DEF Heeds
  <2> QED BY ONLY <2>1, <2>2, <2>3, ConcludesLeft
<1>7. Resumes(r.s, left \o Ready(provider))
  <2>1. CASE r.open
    BY <1>1, <2>1
  <2>2. CASE ~r.open
    <3>1. r.s.phase \notin Busy
      <4>1. ~up'["consumer"]
        <5>1. "consumer" \in Sides /\ "provider" = Other("consumer")
          BY TheSides
        <5> QED BY <2>2, <5>1, CarryIs
      <4> QED BY <1>2, <4>1, TheSides DEF FlowInv, LetGo
    <3> QED BY <3>1 DEF Resumes, Busy
  <2> QED BY <2>1, <2>2
<1>8. InStep(consumer', chan'["consumer"]) /\ Concludes(consumer', provider', chan'["consumer"])
  BY <1>2, <1>3, <1>5, <1>6
<1>9. Resumes(consumer', chan'["consumer"] \o Ready(provider'))
  BY <1>2, <1>3, <1>7
<1> QED BY <1>8, <1>9 DEF NumbersInv, ResumesInv

\* A handler of a bound consumer.
LEMMA BoundAccords ==
    ASSUME FlowInv, FlowInv', AccordInv, NeverAccused,
           consumer.phase \in Binds,
           NEW r, NEW unread, NEW n, Carry("consumer", r, unread, n), Reads(chan["consumer"], unread),
           r.open => r.s.phase \in Binds, ~r.open => r.s.phase \in {"negotiated", "finalized"},
           r.open => Expects(r.s) <= Expects(consumer)
                     \/ (/\ chan["consumer"] # <<>> /\ unread = Tail(chan["consumer"])
                         /\ Expects(r.s) <= Height(Head(chan["consumer"]))),
           Heeds(r.s), Utters(r),
           r.open => Resumes(r.s, unread \o Ready(provider))
    PROVE  AccordInv' /\ NeverAccused'
<1>1. "consumer" \in Sides /\ side["consumer"] = consumer /\ up["consumer"]
  BY TheSides, AccordIs, BoundHolds DEF Binds, Busy
<1>2. r.s.next <= Expects(r.s)
  <2>1. r.s \in Consumers /\ r.s.phase # "pending"
    BY ConsumerAfter DEF Binds
  <2> QED BY <2>1, ExpectsIs
<1>3. r.open => Advances(r.s, unread)
  BY <1>2 DEF Advances
<1>4. NumbersInv' /\ ResumesInv'
  BY <1>1, <1>2, <1>3, ConsumerAccords
<1>5. GreetInv'
  <2>1. r.send \in Seq(Message) /\ Plain(r.send) /\ side["consumer"].phase \in Binds /\ GreetInv
    BY <1>1, AccordIs DEF Utters
  <2> QED BY <1>1, <2>1, BoundGreets
<1>6. NeverAccused'
  BY BlameIs
<1> QED BY <1>4, <1>5, <1>6 DEF AccordInv

\* A handler that is Tame leaves the end of the flow where its sender put it.
LEMMA MildHeeds ==
    ASSUME FlowInv, AccordInv, NEW t, Tame(consumer, t)
    PROVE  Heeds(t)
BY AccordIs DEF Concludes, Heeds, Tame

\* One that leaves the end of the flow as it is.
LEMMA MildAccords ==
    ASSUME FlowInv, FlowInv', AccordInv, NeverAccused,
           consumer.phase \in {"established", "terminating"},
           NEW r, NEW unread, NEW n, Carry("consumer", r, unread, n), Reads(chan["consumer"], unread),
           Mild(consumer, r),
           r.open => r.s.phase = consumer.phase, ~r.open => r.s.phase \in {"negotiated", "finalized"},
           r.open => r.s.next <= consumer.next
                     \/ (/\ chan["consumer"] # <<>> /\ unread = Tail(chan["consumer"])
                         /\ r.s.next <= Height(Head(chan["consumer"]))),
           r.open => Resumes(r.s, unread \o Ready(provider))
    PROVE  AccordInv' /\ NeverAccused'
<1>1. Heeds(r.s) /\ Utters(r) /\ consumer.phase \in Binds
  BY MildHeeds DEF Mild, Binds
<1>2. r.s \in Consumers /\ consumer \in Consumers
  BY ConsumerAfter, AccordIs
<1>3. r.open => Expects(r.s) = r.s.next /\ Expects(consumer) = consumer.next
  BY <1>2, ExpectsIs
<1>4. r.open => Expects(r.s) <= Expects(consumer)
                \/ (/\ chan["consumer"] # <<>> /\ unread = Tail(chan["consumer"])
                    /\ Expects(r.s) <= Height(Head(chan["consumer"])))
  BY <1>3
<1>5. r.open => r.s.phase \in Binds
  BY <1>1
<1> QED BY <1>1, <1>4, <1>5, BoundAccords

\* What the provider sends announces what it sends next, and the end of the
\* flow where it ended it.
Announces(r) ==
    /\ r.send \in Seq(Message) /\ r.blame \in Limits
    /\ Rising(r.send) /\ Above(r.send, provider.next)
    /\ r.s.ended => Finishes
    /\ provider.ended => r.s.ended /\ r.s.next = provider.next
    /\ \A i \in 1 .. Len(r.send) : r.send[i].kind = "FinishedSending" =>
          Ended(r.s, r.send[i].last + 1)
Resuming(r) ==
    Numbered(Unknown, chan["consumer"] \o Ready(provider)) =>
        Numbered(Unknown, (chan["consumer"] \o r.send) \o Ready(r.s))

\* A handler of the provider says and numbers nothing that the consumer takes
\* for a violation (allocate_outbound, announced_next_seq).
LEMMA ProviderAccords ==
    ASSUME FlowInv, AccordInv, NeverAccused, up["provider"],
           NEW r, NEW unread, NEW n, Carry("provider", r, unread, n), Announces(r), Resuming(r)
    PROVE  NumbersInv' /\ ResumesInv' /\ NeverAccused'
<1>1. PICK send : send = IF up["consumer"] THEN r.send ELSE <<>>
  OBVIOUS
<1>2. chan["consumer"] \in Seq(Message) /\ chan["consumer"] \o <<>> = chan["consumer"]
  BY AccordIs, ConcatEmptySeq
<1>3. /\ side'["provider"] = r.s /\ side'["consumer"] = side["consumer"]
      /\ chan'["consumer"] = chan["consumer"] \o send
  <2>1. "provider" \in Sides /\ "consumer" = Other("provider")
    BY TheSides
  <2>2. /\ side'["provider"] = r.s /\ side'["consumer"] = side["consumer"]
        /\ chan'["consumer"] = IF up["consumer"] THEN chan["consumer"] \o r.send ELSE chan["consumer"]
    BY <2>1, CarryIs
  <2> QED BY <1>1, <1>2, <2>2
<1>4. consumer' = consumer /\ provider' = r.s
  BY <1>3 DEF consumer, provider
<1>5. send \in Seq(Message) /\ Rising(send) /\ Above(send, provider.next)
  BY <1>1, RisesLeft DEF Announces, Rising, Above
<1>6. InStep(consumer, chan["consumer"] \o send)
  <2>1. /\ consumer \in Consumers /\ InStep(consumer, chan["consumer"])
        /\ provider.next \in Nat /\ Expects(consumer) <= provider.next
        /\ Reached(chan["consumer"], provider.next)
    BY AccordIs
  <2> QED BY <1>2, <1>5, <2>1, InStepBehind
<1>7. Concludes(consumer, r.s, chan["consumer"] \o send)
  <2>1. Concludes(consumer, provider, chan["consumer"])
    BY AccordIs
  <2>2. r.s.ended => Finishes
    BY DEF Announces
  <2>3. provider.ended => r.s.ended /\ r.s.next = provider.next
    BY DEF Announces
  <2>4. \A i \in 1 .. Len(send) : send[i].kind = "FinishedSending" => Ended(r.s, send[i].last + 1)
    BY <1>1 DEF Announces
  <2> QED BY ONLY <1>2, <1>5, <2>1, <2>2, <2>3, <2>4, ConcludesBehind
<1>8. Resumes(consumer, (chan["consumer"] \o send) \o Ready(r.s))
  <2>1. CASE up["consumer"]
    BY <1>1, <2>1, AccordIs DEF Resuming, Resumes
  <2>2. CASE ~up["consumer"]
    <3>1. consumer.phase \notin Busy
      BY <2>2, TheSides, AccordIs DEF FlowInv, LetGo
    <3> QED BY <3>1 DEF Resumes, Busy
  <2> QED BY <2>1, <2>2
<1>9. InStep(consumer', chan'["consumer"]) /\ Concludes(consumer', provider', chan'["consumer"])
  BY <1>3, <1>4, <1>6, <1>7
<1>10. Resumes(consumer', chan'["consumer"] \o Ready(provider'))
  BY <1>3, <1>4, <1>8
<1>11. NeverAccused'
  BY DEF Carry, NeverAccused, Announces, Limits
<1> QED BY <1>9, <1>10, <1>11 DEF NumbersInv, ResumesInv

\* What is sent behind the line brings its own context, or nothing is sent.
LEMMA ResumingBehind ==
    ASSUME FlowInv, NEW r, r.s \in Providers, r.send \in Seq(Message),
           Numbered(Unknown, r.send \o Ready(r.s))
    PROVE  Resuming(r)
<1> SUFFICES ASSUME Numbered(Unknown, chan["consumer"] \o Ready(provider))
             PROVE  Numbered(Unknown, (chan["consumer"] \o r.send) \o Ready(r.s))
  BY DEF Resuming
<1>1. /\ chan["consumer"] \in Seq(Message) /\ Ready(provider) \in Seq(Message)
      /\ Ready(r.s) \in Seq(Message)
  BY SidesHave, ReadyIs
<1>2. Numbered(Unknown, chan["consumer"])
  BY <1>1, WithoutLast
<1> QED BY <1>1, <1>2, SendData

\* Who says nothing leaves the line as it was.
LEMMA ResumingSilent ==
    ASSUME FlowInv, NEW r, r.s \in Providers, r.send = <<>>, Ready(r.s) \in {Ready(provider), <<>>}
    PROVE  Resuming(r)
<1>1. chan["consumer"] \o r.send = chan["consumer"] /\ chan["consumer"] \o <<>> = chan["consumer"]
      /\ chan["consumer"] \in Seq(Message) /\ Ready(provider) \in Seq(Message)
  BY SidesHave, ReadyIs, ConcatEmptySeq
<1>2. Numbered(Unknown, chan["consumer"] \o Ready(provider)) => Numbered(Unknown, chan["consumer"])
  BY <1>1, WithoutLast
<1> QED BY <1>1, <1>2 DEF Resuming

\* What announces nothing.
Mute(u) == \A i \in 1 .. Len(u) : ~Says(u[i])
\* What announces nothing is in step with every number.
LEMMA MuteRises ==
    ASSUME NEW u, Mute(u), NEW k
    PROVE  /\ Rising(u) /\ Above(u, k)
           /\ \A i \in 1 .. Len(u) : u[i].kind # "FinishedSending"
BY DEF Mute, Rising, Above, Says

\* One announcement of what is sent next is in step with it.
LEMMA OneSays ==
    ASSUME NEW m \in Message, NEW k \in Nat, Says(m) => Said(m) = k
    PROVE  Rising(<<m>>) /\ Above(<<m>>, k) /\ <<m>> \in Seq(Message)
BY DEF Rising, Above

\* A handler of a bound provider.
LEMMA ServerAccords ==
    ASSUME FlowInv, AccordInv, NeverAccused, provider.phase \in Binds,
           NEW r, NEW unread, NEW n, Carry("provider", r, unread, n), Reads(chan["provider"], unread),
           r.open => r.s.phase \in Binds, ~r.open => r.s.phase \in {"negotiated", "finalized"},
           Announces(r), Plain(r.send), Resuming(r)
    PROVE  AccordInv' /\ NeverAccused'
<1>1. "provider" \in Sides /\ side["provider"] = provider /\ up["provider"]
  BY TheSides, AccordIs, BoundHolds DEF Binds, Busy
<1>2. NumbersInv' /\ ResumesInv' /\ NeverAccused'
  BY <1>1, ProviderAccords
<1>3. GreetInv'
  <2>1. r.send \in Seq(Message) /\ Plain(r.send) /\ side["provider"].phase \in Binds /\ GreetInv
    BY <1>1, AccordIs DEF Announces
  <2> QED BY <1>1, <2>1, BoundGreets
<1> QED BY <1>2, <1>3 DEF AccordInv

\* The provider says nothing, or what no number hangs on.
LEMMA ServerMutters ==
    ASSUME FlowInv, AccordInv, NeverAccused, provider.phase \in Binds,
           NEW u \in Providers, u.ended = provider.ended, u.next = provider.next,
           NEW send, send = <<>> \/ \E m \in Message : m.kind \in Others /\ send = <<m>>,
           Ready(u) = <<>> \/ (send = <<>> /\ Ready(u) = Ready(provider)),
           NEW r, r.s = u, r.send = send, r.blame \in Limits,
           NEW unread, NEW n, Carry("provider", r, unread, n), Reads(chan["provider"], unread),
           r.open => u.phase \in Binds, ~r.open => u.phase \in {"negotiated", "finalized"}
    PROVE  AccordInv' /\ NeverAccused'
<1>1. send \in Seq(Message) /\ Plain(send) /\ Mute(send)
  <2>1. CASE send = <<>>
    BY <2>1, PlainOne DEF Mute
  <2>2. CASE \E m \in Message : m.kind \in Others /\ send = <<m>>
    <3>1. PICK m \in Message : m.kind \in Others /\ send = <<m>>
      BY <2>2
    <3>2. m.kind \notin Shakes /\ ~Says(m)
      BY <3>1 DEF Others, Shakes, Says
    <3> QED BY <3>1, <3>2, PlainOne DEF Mute
  <2> QED BY <2>1, <2>2
<1>2. Announces(r)
  <2>1. provider.ended => Finishes
    BY AccordIs DEF Concludes
  <2> QED BY <1>1, <2>1, MuteRises DEF Announces
<1>3. Resuming(r)
  <2>1. CASE send = <<>>
    BY <2>1, ResumingSilent
  <2>2. CASE \E m \in Message : m.kind \in Others /\ send = <<m>>
    <3>1. PICK m \in Message : m.kind \in Others /\ send = <<m>>
      BY <2>2
    <3>2. Numbered(Unknown, <<m>> \o <<>>)
      BY <3>1, OneOther
    <3>3. Ready(u) = <<>>
      BY <3>1
    <3> QED BY <1>1, <3>1, <3>2, <3>3, ResumingBehind
  <2> QED BY <2>1, <2>2
<1> QED BY <1>1, <1>2, <1>3, ServerAccords

\* What a bound provider is.
LEMMA ServerIs ==
    ASSUME FlowInv, AccordInv
    PROVE  /\ provider \in Providers /\ side["provider"] = provider
           /\ provider.next \in Nat /\ 1 <= provider.next /\ (provider.ended => Finishes)
           /\ Reads(chan["provider"], chan["provider"])
           /\ (chan["provider"] # <<>> => Reads(chan["provider"], Tail(chan["provider"])))
           /\ (up["provider"] \/ provider.phase \notin Busy) /\ "none" \in Limits
           /\ {"established", "terminating", "closing"} = Binds
BY ProviderIs, AccordIs, BoundHolds, TheSides DEF Concludes, Reads, Limits, Binds

\* send_application: the message follows the one before, or a Sequence names
\* its number.
LEMMA AccordSends ==
    ASSUME FlowInv, AccordInv, NeverAccused, SendApplication
    PROVE  AccordInv' /\ NeverAccused'
<1> PICK p : p = provider
  OBVIOUS
<1>1. /\ p \in Providers /\ p = provider /\ side["provider"] = p /\ p.next \in Nat /\ 1 <= p.next
      /\ Reads(chan["provider"], chan["provider"]) /\ "none" \in Limits
  BY ServerIs
<1>2. PICK u : u = [p EXCEPT !.implicit = TRUE, !.next = p.next + 1]
  OBVIOUS
<1>3. PICK first : first = IF p.implicit THEN <<>> ELSE <<SequenceMsg(p.next)>>
  OBVIOUS
<1>4. PICK send : send = first \o <<Application(p.next)>>
  OBVIOUS
<1>5. PICK r : r = Result(u, send)
  OBVIOUS
<1>6. r = Allocated(provider)
  BY <1>1, <1>2, <1>3, <1>4, <1>5 DEF Allocated
<1>7. /\ p.phase = "established" /\ p.next <= MaxSeq /\ ~p.ended
      /\ Carry("provider", r, chan["provider"], 0)
  BY <1>1, <1>6 DEF SendApplication, MaySend, Established, Does
<1>8. /\ r.s = u /\ r.send = send /\ r.open /\ r.blame = "none"
  BY <1>5 DEF Result
<1>9. u \in Providers /\ u.phase = "established" /\ ~u.ended /\ u.next = p.next + 1 /\ u.implicit
  <2>1. p.next + 1 \in 1 .. MaxSeq + 1
    BY <1>1, <1>7, Constants
  <2> QED BY <1>1, <1>2, <1>7, <2>1 DEF Providers
<1>10. Ready(u) = <<Application(p.next + 1)>>
  BY <1>9, ReadyIs
<1>11. /\ Application(p.next) \in Message /\ Application(p.next).kind = "Application"
       /\ SequenceMsg(p.next) \in Message /\ SequenceMsg(p.next).kind = "Sequence"
       /\ SequenceMsg(p.next).next = p.next
  BY <1>1 DEF Application, SequenceMsg, Message
<1>12. /\ send \in Seq(Message) /\ Plain(send) /\ Rising(send) /\ Above(send, p.next)
       /\ \A i \in 1 .. Len(send) : send[i].kind # "FinishedSending"
  <2>1. CASE p.implicit
    <3>1. send = <<Application(p.next)>>
      <4>1. <<Application(p.next)>> \in Seq(Message) /\ first = <<>>
        BY <1>3, <1>11, <2>1
      <4> QED BY <1>4, <4>1, ConcatEmptySeq
    <3>2. Mute(send) /\ Plain(send) /\ send \in Seq(Message)
      BY <1>11, <3>1 DEF Mute, Says, Plain, Shakes
    <3> QED BY <3>2, MuteRises
  <2>2. CASE ~p.implicit
    <3>1. send = <<SequenceMsg(p.next)>> \o <<Application(p.next)>>
      BY <1>3, <1>4, <2>2
    <3>2. send \in Seq(Message) /\ Len(send) = 2 /\ send[1] = SequenceMsg(p.next) /\ send[2] = Application(p.next)
      <4>1. /\ <<SequenceMsg(p.next)>> \in Seq(Message) /\ Len(<<SequenceMsg(p.next)>>) = 1
            /\ <<SequenceMsg(p.next)>>[1] = SequenceMsg(p.next)
            /\ <<Application(p.next)>> \in Seq(Message) /\ Len(<<Application(p.next)>>) = 1
            /\ <<Application(p.next)>>[1] = Application(p.next)
        BY <1>11
      <4> QED BY <3>1, <4>1, ConcatProperties
    <3>3. ~Says(send[2]) /\ Said(send[1]) = p.next
      BY <1>11, <3>2 DEF Says, Said
    <3>4. \A i \in 1 .. Len(send) : i = 1 \/ i = 2
      BY <3>2
    <3>5. Rising(send) /\ Above(send, p.next)
      BY <1>1, <3>2, <3>3, <3>4 DEF Rising, Above
    <3> QED BY <1>11, <3>2, <3>4, <3>5 DEF Plain, Shakes
  <2> QED BY <2>1, <2>2
<1>13. Announces(r)
  BY <1>1, <1>7, <1>8, <1>9, <1>12 DEF Announces
<1>14. Resuming(r)
  <2>1. CASE p.implicit
    <3>1. Ready(provider) = <<Application(p.next)>>
      BY <1>1, <1>7, <2>1, ReadyIs
    <3>2. send = <<Application(p.next)>>
      <4>1. <<Application(p.next)>> \in Seq(Message) /\ first = <<>>
        BY <1>3, <1>11, <2>1
      <4> QED BY <1>4, <4>1, ConcatEmptySeq
    <3>3. chan["consumer"] \in Seq(Message) /\ Reached(chan["consumer"], p.next)
      BY <1>1, AccordIs
    <3>4. PICK c : c = Unknown
      OBVIOUS
    <3>5. c.kind # "Retransmission"
      BY <3>4 DEF Unknown
    <3>6. Numbered(c, chan["consumer"] \o <<Application(p.next)>>) =>
             Numbered(c, (chan["consumer"] \o <<Application(p.next)>>) \o <<Application(p.next + 1)>>)
      BY <1>1, <3>3, <3>5, OneMore
    <3> QED BY <1>8, <1>10, <3>1, <3>2, <3>4, <3>6 DEF Resuming
  <2>2. CASE ~p.implicit
    <3>1. send = <<SequenceMsg(p.next)>> \o <<Application(p.next)>>
      BY <1>3, <1>4, <2>2
    <3>2. p.next \in Nat \ {0}
      BY <1>1
    <3>3. Numbered(Unknown, send \o Ready(u))
      BY <1>10, <3>1, <3>2, SendSequence
    <3> QED BY <1>8, <1>9, <1>12, <3>3, ResumingBehind
  <2> QED BY <2>1, <2>2
<1>15. provider.phase \in Binds /\ r.s.phase \in Binds
  BY <1>1, <1>7, <1>8, <1>9 DEF Binds
<1> QED BY <1>1, <1>7, <1>8, <1>12, <1>13, <1>14, <1>15, ServerAccords

\* One message of the provider that announces what it sends next.
LEMMA ServerSays ==
    ASSUME FlowInv, AccordInv, NeverAccused, provider.phase = "established",
           NEW u \in Providers, u.next = provider.next, u.phase = "established",
           u.ended => Finishes, provider.ended => u.ended,
           NEW m \in Message, m.kind \in {"Sequence", "FinishedSending"}, Said(m) = provider.next,
           m.kind = "FinishedSending" => u.ended /\ Ready(u) = <<>>,
           m.kind = "Sequence" => m = SequenceMsg(provider.next),
           m.kind = "Sequence" => Ready(u) = <<Application(provider.next)>> \/ Ready(u) = <<>>,
           NEW r, r = Result(u, <<m>>), Carry("provider", r, chan["provider"], 0)
    PROVE  AccordInv' /\ NeverAccused'
<1>1. r.s = u /\ r.send = <<m>> /\ r.open /\ r.blame = "none"
  BY DEF Result
<1>2. provider.next \in Nat /\ 1 <= provider.next /\ Reads(chan["provider"], chan["provider"])
  BY ServerIs
<1>3. Rising(<<m>>) /\ Above(<<m>>, provider.next) /\ <<m>> \in Seq(Message)
  BY <1>2, OneSays
<1>4. Plain(<<m>>)
  BY PlainOne DEF Shakes
<1>5. \A i \in 1 .. Len(<<m>>) : <<m>>[i].kind = "FinishedSending" => Ended(u, <<m>>[i].last + 1)
  BY DEF Ended, Said
<1>6. Announces(r)
  BY <1>1, <1>3, <1>5 DEF Announces, Limits
<1>7. Numbered(Unknown, <<m>> \o Ready(u))
  <2>1. CASE Ready(u) = <<>>
    <3>1. Numbered(Unknown, <<m>>)
      BY SendOther
    <3>2. <<m>> \o <<>> = <<m>>
      BY <1>3, ConcatEmptySeq
    <3> QED BY <2>1, <3>1, <3>2
  <2>2. CASE m.kind = "Sequence" /\ Ready(u) = <<Application(provider.next)>>
    <3>1. provider.next \in Nat \ {0} /\ m = SequenceMsg(provider.next)
      BY <1>2, <2>2
    <3> QED BY <2>2, <3>1, SendSequence
  <2> QED BY <2>1, <2>2
<1>8. Resuming(r)
  BY <1>1, <1>3, <1>7, ResumingBehind
<1>9. provider.phase \in Binds /\ r.s.phase \in Binds
  BY <1>1 DEF Binds
<1> QED BY <1>1, <1>2, <1>4, <1>6, <1>8, <1>9, ServerAccords

\* heartbeat.
LEMMA AccordHeartbeat ==
    ASSUME FlowInv, AccordInv, NeverAccused, Heartbeat
    PROVE  AccordInv' /\ NeverAccused'
<1>1. /\ provider \in Providers /\ side["provider"] = provider /\ provider.next \in Nat
      /\ provider.ended => Finishes
  BY ServerIs
<1>2. PICK u : u = [provider EXCEPT !.implicit = TRUE]
  OBVIOUS
<1>3. PICK m : m = SequenceMsg(provider.next)
  OBVIOUS
<1>4. PICK r : r = Result(u, <<m>>)
  OBVIOUS
<1>5. provider.phase = "established" /\ Carry("provider", r, chan["provider"], 0)
  BY <1>1, <1>2, <1>3, <1>4 DEF Heartbeat, MaySend, Established, Does
<1>6. /\ u \in Providers /\ u.next = provider.next /\ u.phase = "established"
      /\ u.ended = provider.ended
  BY <1>1, <1>2, <1>5 DEF Providers
<1>7. Ready(u) = <<Application(provider.next)>>
  <2>1. u.implicit
    BY <1>1, <1>2 DEF Providers
  <2> QED BY <1>6, <2>1, ReadyIs
<1>8. m \in Message /\ m.kind = "Sequence" /\ Said(m) = provider.next
  BY <1>1, <1>3 DEF SequenceMsg, Message, Said
<1> QED BY <1>1, <1>3, <1>4, <1>5, <1>6, <1>7, <1>8, ServerSays

\* The flow is ended by its sender.
LEMMA AccordFinishes ==
    ASSUME FlowInv, AccordInv, NeverAccused, FinishSending
    PROVE  AccordInv' /\ NeverAccused'
<1>1. /\ provider \in Providers /\ side["provider"] = provider /\ provider.next \in Nat
      /\ 1 <= provider.next
  BY ServerIs
<1>2. PICK u : u = [provider EXCEPT !.ended = TRUE, !.implicit = FALSE]
  OBVIOUS
<1>3. PICK m : m = [kind |-> "FinishedSending", last |-> provider.next - 1]
  OBVIOUS
<1>4. PICK r : r = Result(u, <<m>>)
  OBVIOUS
<1>5. Finishes /\ provider.phase = "established" /\ Carry("provider", r, chan["provider"], 0)
  BY <1>1, <1>2, <1>3, <1>4 DEF FinishSending, MaySend, Established, Does
<1>6. /\ u \in Providers /\ u.next = provider.next /\ u.phase = "established"
      /\ u.ended /\ ~u.implicit
  BY <1>1, <1>2, <1>5 DEF Providers
<1>7. Ready(u) = <<>>
  BY <1>6, ReadyIs
<1>8. m \in Message /\ m.kind = "FinishedSending" /\ Said(m) = provider.next
  BY <1>1, <1>3 DEF Message, Said
<1> QED BY <1>4, <1>5, <1>6, <1>7, <1>8, ServerSays

\* A provider that is not bound and says nothing.
LEMMA ServerQuiet ==
    ASSUME FlowInv, AccordInv, NeverAccused, up["provider"], provider.phase \notin Binds,
           NEW u \in Providers, u.ended = provider.ended, u.next = provider.next,
           NEW r, r.s = u, r.send = <<>>, r.blame \in Limits,
           NEW unread, NEW n, Carry("provider", r, unread, n),
           \/ /\ r.open /\ u.phase = provider.phase
              /\ chan["provider"] # <<>> /\ unread = Tail(chan["provider"])
              /\ Head(chan["provider"]).kind # "EstablishmentAck"
           \/ /\ ~r.open /\ u.phase \in {"negotiated", "finalized", "closed"}
              /\ u.phase = "closed" => provider.phase = "closed"
    PROVE  AccordInv' /\ NeverAccused'
<1>1. "provider" \in Sides /\ side["provider"] = provider /\ (provider.ended => Finishes)
  BY TheSides, ServerIs
<1>2. Announces(r)
  <2>1. Mute(<<>>) /\ <<>> \in Seq(Message)
    BY DEF Mute
  <2> QED BY <1>1, <2>1, MuteRises DEF Announces
<1>3. Resuming(r)
  <2>1. u.phase # "established"
    BY DEF Binds
  <2> QED BY <2>1, ReadyIs, ResumingSilent
<1>4. NumbersInv' /\ ResumesInv' /\ NeverAccused'
  BY <1>2, <1>3, ProviderAccords
<1>5. GreetInv'
  <2>1. side["provider"].phase \notin Binds /\ GreetInv
    BY <1>1, AccordIs
  <2>2. CASE r.open
    BY <1>1, <2>1, <2>2, UnboundGreets
  <2>3. CASE ~r.open
    BY <1>1, <2>1, <2>3, UnboundGreets
  <2> QED BY <2>2, <2>3
<1> QED BY <1>4, <1>5 DEF AccordInv

\* What the provider writes of a batch, and behind it.
LEMMA BatchMute ==
    ASSUME NEW p \in Providers, NEW count \in Nat \ {0}, NEW written \in 0 .. count,
           NEW b, b = Batch(p, count, written)
    PROVE  /\ Mute(b.send) /\ Plain(b.send) /\ b.send \in Seq(Message)
           /\ b.s.ended = p.ended /\ b.blame = "none"
<1>1. /\ b.send \in Seq(Message) /\ Len(b.send) = written + 1
      /\ b.send[1] = Retransmission(p.serving.stamp, p.serving.from + p.serving.sent, count)
      /\ \A i \in 2 .. Len(b.send) : b.send[i].kind = "Application"
  <2>1. /\ b.open /\ b.s.phase = p.phase
        /\ b.send \in Seq(Message) /\ b.send # <<>> /\ Len(b.send) = written + 1
        /\ b.send[1] = Retransmission(p.serving.stamp, p.serving.from + p.serving.sent, count)
        /\ \A i \in 2 .. Len(b.send) : b.send[i].kind = "Application"
        /\ \/ b.s.serving = NoService
           \/ /\ p.serving.sent + count < p.serving.count
              /\ b.s.serving = [p.serving EXCEPT !.sent = p.serving.sent + count]
    BY ONLY p \in Providers, count \in Nat \ {0}, written \in 0 .. count,
            b = Batch(p, count, written), BatchIs
  <2> QED BY <2>1
<1>2. \A i \in 1 .. Len(b.send) : b.send[i].kind \in {"Retransmission", "Application"}
  <2>1. Retransmission(p.serving.stamp, p.serving.from + p.serving.sent, count).kind = "Retransmission"
    BY DEF Retransmission
  <2>2. \A i \in 1 .. Len(b.send) : i = 1 \/ i \in 2 .. Len(b.send)
    BY <1>1
  <2> QED BY <1>1, <2>1, <2>2
<1>3. b.s.ended = p.ended /\ b.blame = "none"
  BY DEF Batch, Result, Providers
<1> QED BY <1>1, <1>2, <1>3 DEF Mute, Says, Plain, Shakes

\* retransmit.
LEMMA AccordBatch ==
    ASSUME FlowInv, AccordInv, NeverAccused, NEW count \in 1 .. MaxRetransmitCount, Retransmit(count)
    PROVE  AccordInv' /\ NeverAccused'
<1>1. /\ provider \in Providers /\ side["provider"] = provider /\ ServingOK(provider)
      /\ (provider.ended => Finishes) /\ Reads(chan["provider"], chan["provider"])
  BY ServerIs, ProviderIs
<1>2. PICK r : r = Batch(provider, count, count)
  OBVIOUS
<1>3. /\ provider.phase = "established" /\ provider.serving # NoService
      /\ count <= provider.serving.count - provider.serving.sent
      /\ Carry("provider", r, chan["provider"], 0)
  BY <1>1, <1>2 DEF Retransmit, Established, Does
<1>4. count \in Nat \ {0} /\ count \in Nat /\ count \in 0 .. count
  BY Constants
<1>5. PICK p : p = provider
  OBVIOUS
<1>6. /\ r.s \in Providers /\ r.s.phase = p.phase /\ r.s.next = p.next /\ ~r.s.implicit
      /\ r.open /\ Numbered(Unknown, r.send)
  BY <1>1, <1>2, <1>3, <1>4, <1>5, BatchKeeps
<1>7. /\ Mute(r.send) /\ Plain(r.send) /\ r.send \in Seq(Message)
      /\ r.s.ended = p.ended /\ r.blame = "none"
  BY <1>1, <1>2, <1>4, <1>5, BatchMute
<1>8. Announces(r)
  BY <1>1, <1>5, <1>6, <1>7, MuteRises DEF Announces, Limits
<1>9. Resuming(r)
  <2>1. Ready(r.s) = <<>> /\ r.send \o <<>> = r.send
    BY <1>6, <1>7, ReadyIs, ConcatEmptySeq
  <2> QED BY <1>6, <1>7, <2>1, ResumingBehind
<1>10. provider.phase \in Binds /\ r.s.phase \in Binds
  BY <1>3, <1>5, <1>6 DEF Binds
<1> QED BY <1>1, <1>3, <1>6, <1>7, <1>8, <1>9, <1>10, ServerAccords

\* A batch that is cut short: a Sequence brings the context behind it.
LEMMA AccordCut ==
    ASSUME FlowInv, AccordInv, NeverAccused, NEW count \in 1 .. MaxRetransmitCount,
           NEW written \in 0 .. count - 1, RetransmitCut(count, written)
    PROVE  AccordInv' /\ NeverAccused'
<1> PICK p : p = provider
  OBVIOUS
<1>1. /\ p \in Providers /\ p = provider /\ side["provider"] = p /\ ServingOK(p)
      /\ p.next \in Nat /\ 1 <= p.next
      /\ (p.ended => Finishes) /\ Reads(chan["provider"], chan["provider"])
  BY ServerIs, ProviderIs
<1>2. PICK b : b = Batch(p, count, written)
  OBVIOUS
<1>3. PICK u : u = [b.s EXCEPT !.serving = NoService, !.implicit = TRUE]
  OBVIOUS
<1>4. PICK send : send = Append(b.send, SequenceMsg(p.next))
  OBVIOUS
<1>5. PICK r : r = Result(u, send)
  OBVIOUS
<1>6. /\ p.phase = "established" /\ p.serving # NoService
      /\ count <= p.serving.count - p.serving.sent
      /\ Carry("provider", r, chan["provider"], 0)
  BY <1>1, <1>2, <1>3, <1>4, <1>5 DEF RetransmitCut, Established, Does
<1>7. count \in Nat \ {0} /\ count \in Nat /\ written \in 0 .. count
  BY Constants
<1>8. /\ b.s \in Providers /\ b.s.phase = p.phase /\ b.s.next = p.next
      /\ Numbered(Unknown, b.send) /\ Reached(b.send, p.next)
  BY <1>1, <1>2, <1>6, <1>7, BatchKeeps
<1>9. Mute(b.send) /\ Plain(b.send) /\ b.send \in Seq(Message) /\ b.s.ended = p.ended
  BY <1>1, <1>2, <1>7, BatchMute
<1>10. /\ u \in Providers /\ u.phase = "established" /\ u.next = p.next /\ u.implicit
       /\ u.ended = p.ended
  BY <1>3, <1>6, <1>8, <1>9, None DEF Providers
<1>11. Ready(u) = <<Application(p.next)>>
  BY <1>10, ReadyIs
<1>12. PICK last : last = <<SequenceMsg(p.next)>>
  OBVIOUS
<1>13. SequenceMsg(p.next) \in Message /\ SequenceMsg(p.next).kind = "Sequence" /\ Said(SequenceMsg(p.next)) = p.next
  BY <1>1 DEF SequenceMsg, Message, Said
<1>14. last \in Seq(Message) /\ Rising(last) /\ Above(last, p.next) /\ Plain(last)
  BY <1>1, <1>12, <1>13, OneSays, PlainOne DEF Shakes
<1>15. send = b.send \o last
  BY <1>4, <1>9, <1>12, <1>14, AppendIsConcat
<1>16. send \in Seq(Message) /\ Plain(send)
  BY <1>9, <1>14, <1>15, ConcatProperties, SilentIs
<1>17. Rising(send) /\ Above(send, p.next)
  <2>1. Rising(b.send) /\ Above(b.send, p.next)
    BY <1>9, MuteRises
  <2> QED BY <1>1, <1>8, <1>9, <1>14, <1>15, <2>1, RisesBehind
<1>18. \A i \in 1 .. Len(send) : send[i].kind # "FinishedSending"
  <2>1. \A i \in 1 .. Len(b.send) : b.send[i].kind # "FinishedSending"
    BY <1>9, MuteRises
  <2>2. \A i \in 1 .. Len(last) : last[i].kind # "FinishedSending"
    BY <1>12, <1>13
  <2>3. /\ b.send \in Seq(Message) /\ last \in Seq(Message) /\ send = b.send \o last
    BY <1>9, <1>14, <1>15
  <2>4. ASSUME NEW i \in 1 .. Len(b.send \o last) PROVE (b.send \o last)[i].kind # "FinishedSending"
    BY ONLY <2>1, <2>2, <2>3, BehindIs
  <2> QED BY <2>3, <2>4
<1>19. r.s = u /\ r.send = send /\ r.open /\ r.blame = "none"
  BY <1>5 DEF Result
<1>20. Announces(r)
  BY <1>1, <1>10, <1>16, <1>17, <1>18, <1>19 DEF Announces, Limits
<1>21. Numbered(Unknown, send \o Ready(u))
  <2>1. p.next \in Nat \ {0} /\ Ready(u) \in Seq(Message)
    BY <1>1, <1>10, ReadyIs
  <2>2. Numbered(Unknown, last \o Ready(u))
    BY <1>11, <1>12, <2>1, SendSequence
  <2>3. Numbered(Unknown, (b.send \o last) \o Ready(u))
    BY <1>8, <1>9, <1>14, <2>1, <2>2, SendData
  <2> QED BY <1>15, <2>3
<1>22. Resuming(r)
  BY <1>10, <1>16, <1>19, <1>21, ResumingBehind
<1>23. provider.phase \in Binds /\ r.s.phase \in Binds
  BY <1>1, <1>6, <1>10, <1>19 DEF Binds
<1> QED BY <1>1, <1>6, <1>16, <1>19, <1>20, <1>22, <1>23, ServerAccords

\* reject_retransmit_request and end_retransmission.
LEMMA AccordServed ==
    ASSUME FlowInv, AccordInv, NeverAccused, RejectRequest \/ EndRetransmission
    PROVE  AccordInv' /\ NeverAccused'
<1>1. /\ provider \in Providers /\ side["provider"] = provider
      /\ Reads(chan["provider"], chan["provider"]) /\ "none" \in Limits
  BY ServerIs
<1>2. provider.phase = "established" /\ provider.phase \in Binds
  BY <1>1 DEF RejectRequest, EndRetransmission, Established, Binds
<1>3. CASE RejectRequest
  <2>1. PICK u : u = [provider EXCEPT !.serving = NoService, !.implicit = FALSE]
    OBVIOUS
  <2>2. PICK m : m = RejectMsg(provider.serving.stamp)
    OBVIOUS
  <2>3. PICK send : send = <<m>>
    OBVIOUS
  <2>4. PICK r : r = Result(u, send)
    OBVIOUS
  <2>5. Carry("provider", r, chan["provider"], 0)
    BY <1>3, <2>1, <2>2, <2>3, <2>4 DEF RejectRequest, Does
  <2>6. /\ u \in Providers /\ u.ended = provider.ended /\ u.next = provider.next /\ ~u.implicit
        /\ u.phase = "established"
    BY <1>1, <1>2, <2>1, None DEF Providers
  <2>7. m \in Message /\ m.kind \in Others
    BY <1>1, <2>2, ProviderFields DEF RejectMsg, Message, Others
  <2>8. r.s = u /\ r.send = send /\ r.open /\ r.blame = "none"
    BY <2>4 DEF Result
  <2>9. Ready(u) = <<>> /\ u.phase \in Binds
    BY <2>6, ReadyIs DEF Binds
  <2>10. send = <<>> \/ \E k \in Message : k.kind \in Others /\ send = <<k>>
    BY <2>3, <2>7
  <2> QED BY <1>1, <1>2, <2>5, <2>6, <2>8, <2>9, <2>10, ServerMutters
<1>4. CASE EndRetransmission
  <2>1. PICK u : u = [provider EXCEPT !.serving = NoService]
    OBVIOUS
  <2>2. PICK send : send = <<>>
    OBVIOUS
  <2>3. PICK r : r = Result(u, send)
    OBVIOUS
  <2>4. Carry("provider", r, chan["provider"], 0)
    BY <1>4, <2>1, <2>2, <2>3 DEF EndRetransmission, Does
  <2>5. /\ u \in Providers /\ u.ended = provider.ended /\ u.next = provider.next
        /\ u.implicit = provider.implicit /\ u.phase = "established"
    BY <1>1, <1>2, <2>1, None DEF Providers
  <2>6. r.s = u /\ r.send = send /\ r.open /\ r.blame = "none"
    BY <2>3 DEF Result
  <2>7. Ready(u) = Ready(provider) /\ u.phase \in Binds
    BY <1>2, <2>5 DEF Ready, Binds
  <2> QED BY <1>1, <1>2, <2>2, <2>4, <2>5, <2>6, <2>7, ServerMutters
<1> QED BY <1>3, <1>4

\* Sessions the provider comes to that keep what it said of its flow.
LEMMA ServerEnds ==
    ASSUME NEW p \in Providers,
           NEW u, u \in {Unbound("provider", p), Unbound("provider", ReleaseProvider(p)), ReleaseProvider(p)}
    PROVE  /\ u \in Providers /\ u.ended = p.ended /\ u.next = p.next
           /\ u.phase \in {p.phase, "negotiated"}
           /\ u # ReleaseProvider(p) => u.phase = "negotiated"
           /\ u.phase = "negotiated" => Ready(u) = <<>>
<1>1. "provider" # "consumer"
  OBVIOUS
<1>2. /\ u \in Providers /\ u.ended = p.ended /\ u.next = p.next
      /\ u.phase \in {p.phase, "negotiated"}
      /\ u # ReleaseProvider(p) => u.phase = "negotiated"
  <2>1. CASE u = Unbound("provider", p)
    BY <1>1, <2>1 DEF Unbound, Providers, Phases
  <2>2. CASE u = Unbound("provider", ReleaseProvider(p))
    BY <1>1, <2>2, None DEF Unbound, ReleaseProvider, Providers, Phases
  <2>3. CASE u = ReleaseProvider(p)
    BY <2>3, None DEF ReleaseProvider, Providers
  <2> QED BY <2>1, <2>2, <2>3
<1> QED BY <1>2, ReadyIs

\* on_retransmit_request: only one is ever in service.
LEMMA AccordTakesRequest ==
    ASSUME FlowInv, ServiceInv, AccordInv, NeverAccused, ReceiveRetransmitRequest
    PROVE  AccordInv' /\ NeverAccused'
<1>1. provider \in Providers /\ side["provider"] = provider /\ "none" \in Limits
  BY ServerIs
<1>2. PICK m : m = Head(chan["provider"])
  OBVIOUS
<1>3. PICK handled : handled = OnRetransmitRequest(provider, m)
  OBVIOUS
<1>4. PICK r : r = OnPeer("provider", handled)
  OBVIOUS
<1>5. /\ up["provider"] /\ chan["provider"] # <<>> /\ m.kind = "RetransmitRequest"
      /\ Carry("provider", r, Tail(chan["provider"]), 0)
  BY <1>2, <1>3, <1>4 DEF ReceiveRetransmitRequest, Arrives, Hears
<1>6. m.stamp \in Nat /\ m.from \in Nat /\ m.count \in Nat
  <2>1. m \in Message
    BY <1>2, <1>5, SidesHave
  <2> QED BY <1>5, <2>1, Fields
<1>7. Reads(chan["provider"], Tail(chan["provider"]))
  BY <1>5 DEF Reads
<1>8. provider.phase \notin {"negotiated", "establishing", "pending"}
  BY <1>1, <1>2, <1>5, AccordIs, TheSides, TalkIsBound DEF Talk
<1>9. PICK send : send = <<>>
  OBVIOUS
<1>10. CASE provider.phase \notin {"established", "terminating"}
  <2>1. provider.phase \in {"closing", "closed"}
    BY <1>1, <1>8, <1>10, ProviderFields DEF Phases
  <2>2. r = Result(provider, send)
    BY <1>1, <1>4, <1>9, <2>1 DEF OnPeer
  <2>3. r.s = provider /\ r.send = send /\ r.open /\ r.blame = "none"
    BY <2>2 DEF Result
  <2>4. CASE provider.phase = "closing"
    <3>1. provider.phase \in Binds
      BY <2>4 DEF Binds
    <3> QED BY <1>1, <1>5, <1>7, <1>9, <2>3, <3>1, ServerMutters
  <2>5. CASE provider.phase = "closed"
    <3>1. provider.phase \notin Binds
      BY <2>5 DEF Binds
    <3> QED BY <1>1, <1>2, <1>5, <1>9, <2>3, <3>1, ServerQuiet
  <2> QED BY <2>1, <2>4, <2>5
<1>11. CASE provider.phase = "terminating"
  <2>1. r = Result(provider, send)
    BY <1>1, <1>3, <1>4, <1>9, <1>11 DEF OnPeer, OnRetransmitRequest
  <2>2. r.s = provider /\ r.send = send /\ r.open /\ r.blame = "none" /\ provider.phase \in Binds
    BY <1>11, <2>1 DEF Result, Binds
  <2> QED BY <1>1, <1>5, <1>7, <1>9, <2>2, ServerMutters
<1>12. CASE provider.phase = "established"
  <2>1. r = handled /\ provider.phase \in Binds
    BY <1>1, <1>4, <1>12 DEF OnPeer, Binds
  <2>2. provider.serving = NoService
    <3>1. 1 \in 1 .. Len(chan["provider"]) /\ chan["provider"][1] = m
      BY <1>2, <1>5, AccordIs, TailIs
    <3>2. OneAsked(provider, chan["provider"])
      BY ServedIs DEF Served
    <3> QED BY <1>5, <3>1, <3>2 DEF OneAsked, Unasked, Without
  <2>3. CASE \/ m.count \notin 1 .. MaxRetransmitCount \/ m.from < 1
             \/ m.from + m.count > provider.next
    <3>1. PICK u : u = [provider EXCEPT !.implicit = FALSE]
      OBVIOUS
    <3>2. PICK say : say = <<RejectMsg(m.stamp)>>
      OBVIOUS
    <3>3. r = Result(u, say)
      BY <1>3, <1>12, <2>1, <2>2, <2>3, <3>1, <3>2 DEF OnRetransmitRequest
    <3>4. r.s = u /\ r.send = say /\ r.open /\ r.blame = "none"
      BY <3>3 DEF Result
    <3>5. /\ u \in Providers /\ u.ended = provider.ended /\ u.next = provider.next /\ ~u.implicit
          /\ u.phase = "established"
      BY <1>1, <1>12, <3>1 DEF Providers
    <3>6. RejectMsg(m.stamp) \in Message /\ RejectMsg(m.stamp).kind \in Others
      BY <1>6 DEF RejectMsg, Message, Others
    <3>7. say = <<>> \/ \E k \in Message : k.kind \in Others /\ say = <<k>>
      BY <3>2, <3>6
    <3>8. Ready(u) = <<>> /\ u.phase \in Binds
      BY <3>5, ReadyIs DEF Binds
    <3> QED BY <1>1, <1>5, <1>7, <2>1, <3>4, <3>5, <3>7, <3>8, ServerMutters
  <2>4. CASE /\ m.count \in 1 .. MaxRetransmitCount
             /\ ~(m.from < 1) /\ ~(m.from + m.count > provider.next)
    <3>1. PICK serving : serving = [stamp |-> m.stamp, from |-> m.from, count |-> m.count, sent |-> 0]
      OBVIOUS
    <3>2. PICK u : u = [provider EXCEPT !.serving = serving]
      OBVIOUS
    <3>3. r = Result(u, send)
      BY <1>3, <1>9, <1>12, <2>1, <2>2, <2>4, <3>1, <3>2 DEF OnRetransmitRequest
    <3>4. r.s = u /\ r.send = send /\ r.open /\ r.blame = "none"
      BY <3>3 DEF Result
    <3>5. serving \in Services
      BY <1>6, <3>1 DEF Services
    <3>6. /\ u \in Providers /\ u.ended = provider.ended /\ u.next = provider.next
          /\ u.implicit = provider.implicit /\ u.phase = "established"
      BY <1>1, <1>12, <3>2, <3>5 DEF Providers
    <3>7. Ready(u) = Ready(provider) /\ u.phase \in Binds
      BY <1>12, <3>6 DEF Ready, Binds
    <3> QED BY <1>1, <1>5, <1>7, <1>9, <2>1, <3>4, <3>6, <3>7, ServerMutters
  <2> QED BY <2>3, <2>4
<1> QED BY <1>10, <1>11, <1>12

\* on_finished_receiving.
LEMMA AccordFinishedReceiving ==
    ASSUME FlowInv, AccordInv, NeverAccused, ReceiveFinishedReceiving
    PROVE  AccordInv' /\ NeverAccused'
<1>1. provider \in Providers /\ side["provider"] = provider /\ "none" \in Limits
  BY ServerIs
<1>2. PICK u : u = [provider EXCEPT !.answered = TRUE]
  OBVIOUS
<1>3. PICK send : send = <<>>
  OBVIOUS
<1>4. PICK r : r = Result(u, send)
  OBVIOUS
<1>5. /\ up["provider"] /\ chan["provider"] # <<>>
      /\ Head(chan["provider"]).kind = "FinishedReceiving"
      /\ Carry("provider", r, Tail(chan["provider"]), 0)
  BY <1>2, <1>3, <1>4 DEF ReceiveFinishedReceiving, Arrives, Hears
<1>6. r.s = u /\ r.send = send /\ r.open /\ r.blame = "none"
  BY <1>4 DEF Result
<1>7. /\ u \in Providers /\ u.ended = provider.ended /\ u.next = provider.next
      /\ u.implicit = provider.implicit /\ u.phase = provider.phase
  BY <1>1, <1>2 DEF Providers
<1>8. Ready(u) = Ready(provider) /\ Reads(chan["provider"], Tail(chan["provider"]))
  BY <1>5, <1>7 DEF Ready, Reads
<1>9. CASE provider.phase \in Binds
  BY <1>1, <1>3, <1>5, <1>6, <1>7, <1>8, <1>9, ServerMutters
<1>10. CASE provider.phase \notin Binds
  BY <1>1, <1>3, <1>5, <1>6, <1>7, <1>10, ServerQuiet
<1> QED BY <1>9, <1>10

\* terminate, with and without a reason, and the timeout of a binding that is
\* ending.
LEMMA AccordServerEnds ==
    ASSUME FlowInv, AccordInv, NeverAccused,
           Terminate("provider") \/ TerminateOnError("provider") \/ UnbindTimeout("provider")
    PROVE  AccordInv' /\ NeverAccused'
<1>1. /\ provider \in Providers /\ side["provider"] = provider /\ "none" \in Limits
      /\ Reads(chan["provider"], chan["provider"])
  BY ServerIs
<1>2. provider.phase \in Binds
  BY <1>1 DEF Terminate, TerminateOnError, UnbindTimeout, Established, Binds
<1>3. /\ TerminateMsg("Finished") \in Message /\ TerminateMsg("Finished").kind \in Others
      /\ TerminateMsg("Error") \in Message /\ TerminateMsg("Error").kind \in Others
  BY DEF TerminateMsg, Message, Codes, Others
<1>4. CASE Terminate("provider")
  <2>1. PICK t : t = [provider EXCEPT !.phase = "terminating"]
    OBVIOUS
  <2>2. PICK u : u = ReleaseProvider(t)
    OBVIOUS
  <2>3. PICK send : send = <<TerminateMsg("Finished")>>
    OBVIOUS
  <2>4. PICK r : r = Result(u, send)
    OBVIOUS
  <2>5. Carry("provider", r, chan["provider"], 0)
    BY <1>1, <1>4, <2>1, <2>2, <2>3, <2>4 DEF Terminate, Does
  <2>6. r.s = u /\ r.send = send /\ r.open /\ r.blame = "none"
    BY <2>4 DEF Result
  <2>7. t \in Providers /\ t.phase = "terminating" /\ t.ended = provider.ended /\ t.next = provider.next
    BY <1>1, <2>1 DEF Providers, Phases
  <2>8. /\ u \in Providers /\ u.ended = provider.ended /\ u.next = provider.next
        /\ u.phase = "terminating"
    BY <2>2, <2>7, None DEF ReleaseProvider, Providers
  <2>9. Ready(u) = <<>> /\ u.phase \in Binds
    BY <2>8, ReadyIs DEF Binds
  <2>10. send = <<>> \/ \E k \in Message : k.kind \in Others /\ send = <<k>>
    BY <1>3, <2>3
  <2> QED BY <1>1, <1>2, <2>5, <2>6, <2>8, <2>9, <2>10, ServerMutters
<1>5. CASE TerminateOnError("provider") \/ UnbindTimeout("provider")
  <2>1. PICK u : u = Unbound("provider", ReleaseProvider(provider))
    OBVIOUS
  <2>2. PICK send : send = IF TerminateOnError("provider") THEN <<TerminateMsg("Error")>> ELSE <<>>
    OBVIOUS
  <2>3. PICK r : r = IF TerminateOnError("provider")
                     THEN [Result(u, send) EXCEPT !.open = FALSE, !.blame = "none"]
                     ELSE [Result(u, send) EXCEPT !.open = FALSE]
    OBVIOUS
  <2>4. Carry("provider", r, chan["provider"], 0)
    <3>1. CASE TerminateOnError("provider")
      <4>1. provider.phase = "established" /\ Carry("provider", FailWith("provider", provider, "Error", "none"), chan["provider"], 0)
        BY <1>1, <3>1 DEF TerminateOnError, Established, Does
      <4>2. FailWith("provider", provider, "Error", "none") = r
        BY <2>1, <2>2, <2>3, <3>1, <4>1, TheSides DEF FailWith, Release
      <4> QED BY <4>1, <4>2
    <3>2. CASE ~TerminateOnError("provider")
      <4>1. Carry("provider", [Result(Unbound("provider", Release("provider", provider)), <<>>) EXCEPT !.open = FALSE],
                  chan["provider"], 0)
        BY <1>1, <1>5, <3>2 DEF UnbindTimeout, Does
      <4>2. Release("provider", provider) = ReleaseProvider(provider) /\ send = <<>>
        BY <2>2, <3>2, TheSides DEF Release
      <4> QED BY <2>1, <2>3, <3>2, <4>1, <4>2
    <3> QED BY <3>1, <3>2
  <2>5. r.s = u /\ r.send = send /\ ~r.open /\ r.blame = "none"
    <3>1. CASE TerminateOnError("provider")
      BY <2>3, <3>1 DEF Result
    <3>2. CASE ~TerminateOnError("provider")
      BY <2>3, <3>2 DEF Result
    <3> QED BY <3>1, <3>2
  <2>6. /\ u \in Providers /\ u.ended = provider.ended /\ u.next = provider.next
        /\ u.phase = "negotiated" /\ Ready(u) = <<>>
    <3>1. u.phase = "negotiated"
      BY <2>1, TheSides DEF Unbound, ReleaseProvider, Providers
    <3> QED BY <1>1, <2>1, <3>1, ServerEnds
  <2>7. send = <<>> \/ \E k \in Message : k.kind \in Others /\ send = <<k>>
    BY <1>3, <2>2
  <2> QED BY <1>1, <1>2, <2>4, <2>5, <2>6, <2>7, ServerMutters
<1> QED BY <1>4, <1>5

\* A session that is closing, or was refused, ignores what arrives.
LEMMA ServerIgnores ==
    ASSUME FlowInv, AccordInv, NeverAccused, up["provider"],
           chan["provider"] # <<>>, Head(chan["provider"]).kind # "EstablishmentAck",
           NEW r, r = Result(provider, <<>>), Carry("provider", r, Tail(chan["provider"]), 0)
    PROVE  AccordInv' /\ NeverAccused'
<1>1. provider \in Providers /\ Reads(chan["provider"], Tail(chan["provider"])) /\ "none" \in Limits
  BY ServerIs
<1>2. PICK send : send = <<>>
  OBVIOUS
<1>3. r.s = provider /\ r.send = send /\ r.open /\ r.blame = "none"
  BY <1>2 DEF Result
<1>4. CASE provider.phase \in Binds
  BY <1>1, <1>2, <1>3, <1>4, ServerMutters
<1>5. CASE provider.phase \notin Binds
  BY <1>1, <1>2, <1>3, <1>5, ServerQuiet
<1> QED BY <1>4, <1>5

\* on_terminate, at the provider.
LEMMA AccordServerHearsTerminate ==
    ASSUME FlowInv, AccordInv, NeverAccused, ReceiveTerminate("provider")
    PROVE  AccordInv' /\ NeverAccused'
<1>1. provider \in Providers /\ side["provider"] = provider /\ "none" \in Limits
  BY ServerIs
<1>2. up["provider"] /\ chan["provider"] # <<>> /\ Head(chan["provider"]).kind = "Terminate"
  BY DEF ReceiveTerminate, Arrives
<1>3. Reads(chan["provider"], Tail(chan["provider"]))
  BY <1>2 DEF Reads
<1>4. CASE provider.phase \in {"negotiated", "establishing", "pending"}
  <2>1. PICK u : u = Unbound("provider", provider)
    OBVIOUS
  <2>2. PICK r : r = [Result(u, <<>>) EXCEPT !.open = FALSE]
    OBVIOUS
  <2>3. Carry("provider", r, Tail(chan["provider"]), 0)
    BY <1>1, <1>4, <2>1, <2>2 DEF ReceiveTerminate, Hears
  <2>4. r.s = u /\ r.send = <<>> /\ ~r.open /\ r.blame = "none"
    BY ONLY <2>2 DEF Result
  <2>5. u \in Providers /\ u.ended = provider.ended /\ u.next = provider.next /\ u.phase = "negotiated"
    <3>1. u.phase = "negotiated"
      BY <1>1, <2>1, TheSides DEF Unbound, Providers
    <3> QED BY <1>1, <2>1, <3>1, ServerEnds
  <2> QED BY <1>1, <1>2, <1>4, <2>3, <2>4, <2>5, ServerQuiet DEF Binds
<1>5. CASE provider.phase \notin {"negotiated", "establishing", "pending"}
  <2>1. PICK handled : handled = OnTerminate("provider", provider, Head(chan["provider"]))
    OBVIOUS
  <2>2. PICK r : r = OnPeer("provider", handled)
    OBVIOUS
  <2>3. Carry("provider", r, Tail(chan["provider"]), 0)
    BY <1>1, <1>5, <2>1, <2>2 DEF ReceiveTerminate, Hears
  <2>4. PICK t : t = ReleaseProvider(provider)
    OBVIOUS
  <2>5. t \in Providers /\ t.ended = provider.ended /\ t.next = provider.next
    BY <1>1, <2>4, ServerEnds
  <2>6. CASE provider.phase \notin {"established", "terminating"}
    <3>1. provider.phase \in {"closing", "finalized", "closed"}
      BY <1>1, <1>5, <2>6 DEF Providers, Phases
    <3>2. r = Result(provider, <<>>)
      BY <1>1, <2>2, <2>6, <3>1 DEF OnPeer
    <3> QED BY <1>2, <2>3, <3>2, ServerIgnores
  <2>7. CASE provider.phase = "terminating"
    <3>1. PICK u : u = Unbound("provider", t)
      OBVIOUS
    <3>2. r = [Result(u, <<>>) EXCEPT !.open = FALSE]
      BY <1>1, <2>1, <2>2, <2>4, <2>7, <3>1, TheSides DEF OnPeer, OnTerminate, Release
    <3>3. PICK send : send = <<>>
      OBVIOUS
    <3>4. r.s = u /\ r.send = send /\ ~r.open /\ r.blame = "none"
      BY ONLY <3>2, <3>3 DEF Result
    <3>5. u \in Providers /\ u.ended = provider.ended /\ u.next = provider.next
      BY <1>1, <2>4, <3>1, ServerEnds
    <3>6. u.phase = "negotiated"
      BY <2>5, <3>1, TheSides DEF Unbound, Providers
    <3>7. Ready(u) = <<>>
      BY <3>5, <3>6, ReadyIs
    <3>8. provider.phase \in Binds
      BY <2>7 DEF Binds
    <3> QED BY <1>1, <1>3, <2>3, <3>3, <3>4, <3>5, <3>6, <3>7, <3>8, ServerMutters
  <2>8. CASE provider.phase = "established"
    <3>1. PICK u : u = [t EXCEPT !.phase = "closing"]
      OBVIOUS
    <3>2. PICK m : m = TerminateMsg("Finished")
      OBVIOUS
    <3>3. r = Result(u, <<m>>)
      BY <1>1, <2>1, <2>2, <2>4, <2>8, <3>1, <3>2, TheSides DEF OnPeer, OnTerminate, Release
    <3>4. r.s = u /\ r.send = <<m>> /\ r.open /\ r.blame = "none"
      BY <3>3 DEF Result
    <3>5. m \in Message /\ m.kind \in Others
      BY <3>2 DEF TerminateMsg, Message, Codes, Others
    <3>6. /\ u \in Providers /\ u.ended = provider.ended /\ u.next = provider.next
          /\ u.phase = "closing"
      BY <2>5, <3>1 DEF Providers, Phases
    <3>7. Ready(u) = <<>> /\ u.phase \in Binds /\ provider.phase \in Binds
      BY <2>8, <3>6, ReadyIs DEF Binds
    <3>8. PICK send : send = <<m>>
      OBVIOUS
    <3>9. send = <<>> \/ \E k \in Message : k.kind \in Others /\ send = <<k>>
      BY <3>5, <3>8
    <3> QED BY <1>1, <1>3, <2>3, <3>4, <3>6, <3>7, <3>8, <3>9, ServerMutters
  <2> QED BY <2>6, <2>7, <2>8
<1> QED BY <1>4, <1>5

\* on_transport_closed, at the provider.
LEMMA AccordServerCloses ==
    ASSUME FlowInv, AccordInv, NeverAccused, TransportClosed("provider")
    PROVE  AccordInv' /\ NeverAccused'
<1>1. /\ provider \in Providers /\ side["provider"] = provider /\ "none" \in Limits
      /\ Reads(chan["provider"], chan["provider"])
  BY ServerIs
<1>2. PICK u : u = IF Bound("provider") THEN Unbound("provider", ReleaseProvider(provider))
                   ELSE IF provider.phase \in {"establishing", "pending"}
                        THEN Unbound("provider", provider) ELSE provider
  OBVIOUS
<1>3. up["provider"] /\ Closes("provider", u)
  <2>1. side \in [consumer : Consumers, provider : Providers]
    BY DEF FlowInv, FlowTypeOK
  <2>2. Unbound("provider", provider) = [provider EXCEPT !.phase = "negotiated"]
    BY DEF Unbound
  <2> QED BY <1>1, <1>2, <2>1, <2>2 DEF TransportClosed, Release, Closes
<1>4. PICK r : r = Shut(u)
  OBVIOUS
<1>5. PICK send : send = <<>>
  OBVIOUS
<1>6. Carry("provider", r, chan["provider"], 0)
  <2>1. PICK x \in Sides : x = "provider"
    BY TheSides
  <2>2. Closes(x, u)
    BY <1>3, <2>1
  <2>3. Carry(x, r, chan[x], 0)
    BY ONLY FlowInv, <1>4, <2>2, ClosedIs, x \in Sides
  <2> QED BY <2>1, <2>3
<1>7. r.s = u /\ r.send = send /\ ~r.open /\ r.blame = "none"
  BY ONLY <1>4, <1>5 DEF Shut, Result
<1>8. u \in Providers /\ u.ended = provider.ended /\ u.next = provider.next
  BY <1>1, <1>2, ServerEnds
<1>9. Bound("provider") <=> provider.phase \in Binds
  BY <1>1 DEF Bound, Binds
<1>10. CASE provider.phase \in Binds
  <2>1. u.phase = "negotiated"
    <3>1. u = Unbound("provider", ReleaseProvider(provider))
      BY <1>2, <1>9, <1>10
    <3>2. ReleaseProvider(provider) \in Providers
      BY <1>1, ServerEnds
    <3> QED BY <3>1, <3>2, TheSides DEF Unbound, Providers
  <2>2. Ready(u) = <<>>
    BY <1>8, <2>1, ReadyIs
  <2> QED BY <1>1, <1>5, <1>6, <1>7, <1>8, <1>10, <2>1, <2>2, ServerMutters
<1>11. CASE provider.phase \notin Binds
  <2>1. u.phase \in {"negotiated", "finalized", "closed"} /\ (u.phase = "closed" => provider.phase = "closed")
    <3>1. CASE provider.phase \in {"establishing", "pending"}
      BY <1>1, <1>2, <1>9, <1>11, <3>1, TheSides DEF Unbound, Providers
    <3>2. CASE provider.phase \notin {"establishing", "pending"}
      <4>1. u = provider
        BY <1>2, <1>9, <1>11, <3>2
      <4> QED BY <1>1, <1>11, <3>2, <4>1 DEF Providers, Phases, Binds
    <3> QED BY <3>1, <3>2
  <2> QED BY <1>1, <1>3, <1>5, <1>6, <1>7, <1>8, <1>11, <2>1, ServerQuiet
<1> QED BY <1>10, <1>11

\* What the provider says in a handshake announces what it sends next.
LEMMA ServerShakes ==
    ASSUME FlowInv, AccordInv, NeverAccused, up["provider"],
           NEW u \in Providers, u.ended = provider.ended, u.next = provider.next, Ready(u) = <<>>,
           NEW send,
           \/ send = <<>>
           \/ \E m \in Message : /\ m.kind \in Shakes /\ send = <<m>>
                                 /\ m.kind # "EstablishmentReject" => m.next = provider.next,
           NEW r, r.s = u, r.send = send, r.blame \in Limits,
           NEW unread, NEW n, Carry("provider", r, unread, n)
    PROVE  NumbersInv' /\ ResumesInv' /\ NeverAccused'
<1>1. provider.next \in Nat /\ 1 <= provider.next /\ (provider.ended => Finishes)
  BY ServerIs
<1>2. CASE send = <<>>
  <2>1. Mute(send) /\ send \in Seq(Message)
    BY <1>2 DEF Mute
  <2>2. Announces(r)
    BY <1>1, <2>1, MuteRises DEF Announces
  <2>3. Resuming(r)
    BY <1>2, ResumingSilent
  <2> QED BY <2>2, <2>3, ProviderAccords
<1>3. CASE send # <<>>
  <2>1. PICK m \in Message : /\ m.kind \in Shakes /\ send = <<m>>
                             /\ m.kind # "EstablishmentReject" => m.next = provider.next
    BY <1>3
  <2>2. (Says(m) => Said(m) = provider.next) /\ m.kind # "FinishedSending"
    BY <2>1 DEF Says, Said, Shakes
  <2>3. Rising(send) /\ Above(send, provider.next) /\ send \in Seq(Message)
    BY <1>1, <2>1, <2>2, OneSays
  <2>4. \A i \in 1 .. Len(send) : send[i].kind # "FinishedSending"
    BY <2>1, <2>2
  <2>5. Announces(r)
    BY <1>1, <2>3, <2>4 DEF Announces
  <2>6. Numbered(Unknown, <<m>> \o <<>>)
    BY <1>1, <2>1, OneOther DEF Shakes
  <2>7. Resuming(r)
    BY <2>1, <2>3, <2>6, ResumingBehind
  <2> QED BY <2>5, <2>7, ProviderAccords
<1> QED BY <1>2, <1>3

\* handle_timeout of a provider that is not bound.
LEMMA AccordServerTimeout ==
    ASSUME FlowInv, AccordInv, NeverAccused, HandshakeTimeout("provider")
    PROVE  AccordInv' /\ NeverAccused'
<1>1. provider \in Providers /\ side["provider"] = provider /\ "none" \in Limits
  BY ServerIs
<1>2. PICK p : p = [provider EXCEPT !.announced = 0]
  OBVIOUS
<1>3. PICK u : u = Unbound("provider", p)
  OBVIOUS
<1>4. PICK send : send = IF provider.phase = "pending" THEN <<EstablishReject("Unspecified")>> ELSE <<>>
  OBVIOUS
<1>5. PICK r : r = [Result(u, send) EXCEPT !.open = FALSE]
  OBVIOUS
<1>6. /\ up["provider"] /\ Carry("provider", r, chan["provider"], 0)
      /\ provider.phase \in IF "provider" = Client THEN {"establishing"} ELSE {"negotiated", "pending"}
  BY <1>1, <1>2, <1>3, <1>4, <1>5 DEF HandshakeTimeout, Does
<1>7. p \in Providers /\ p.ended = provider.ended /\ p.next = provider.next
  BY <1>1, <1>2 DEF Providers
<1>8. u \in Providers /\ u.ended = provider.ended /\ u.next = provider.next /\ u.phase = "negotiated"
  <2>1. u.phase = "negotiated"
    BY <1>3, <1>7, TheSides DEF Unbound, Providers
  <2> QED BY <1>3, <1>7, <2>1, ServerEnds
<1>9. r.s = u /\ r.send = send /\ ~r.open /\ r.blame = "none"
  BY ONLY <1>5 DEF Result
<1>10. CASE provider.phase # "pending"
  <2>1. send = <<>> /\ provider.phase \notin Binds
    BY <1>4, <1>6, <1>10 DEF Binds
  <2> QED BY <1>1, <1>6, <1>8, <1>9, <2>1, ServerQuiet
<1>11. CASE provider.phase = "pending"
  <2>1. PICK m : m = EstablishReject("Unspecified")
    OBVIOUS
  <2>2. send = <<m>> /\ m \in Message /\ m.kind = "EstablishmentReject" /\ m.kind \in Shakes
    BY <1>4, <1>11, <2>1 DEF EstablishReject, Message, Codes, Shakes
  <2>3. Ready(u) = <<>>
    BY <1>8, ReadyIs
  <2>4. NumbersInv' /\ ResumesInv' /\ NeverAccused'
    BY <1>1, <1>6, <1>8, <1>9, <2>1, <2>2, <2>3, ServerShakes
  <2>5. Server = "provider"
    BY <1>6, <1>11, TheSides
  <2>6. Rejects(send)
    BY <2>1, <2>2 DEF Rejects
  <2>7. GreetInv'
    BY <1>1, <1>6, <1>8, <1>9, <1>11, <2>5, <2>6, GreetsRefuses DEF AccordInv
  <2> QED BY <2>4, <2>7 DEF AccordInv
<1> QED BY <1>10, <1>11

-----------------------------------------------------------------------------
(* The handshake, at the provider                                           *)

\* establish, by a provider that is the client: it announces what it sends next.
LEMMA AccordServerEstablishes ==
    ASSUME FlowInv, AccordInv, NeverAccused, Client = "provider", Establish
    PROVE  AccordInv' /\ NeverAccused'
<1>1. /\ provider \in Providers /\ side["provider"] = provider /\ provider.next \in Nat
      /\ "none" \in Limits
  BY ServerIs
<1>2. PICK u : u = [provider EXCEPT !.phase = "establishing"]
  OBVIOUS
<1>3. PICK m : m = [kind |-> "Establish", next |-> provider.next]
  OBVIOUS
<1>4. PICK send : send = <<m>>
  OBVIOUS
<1>5. PICK r : r = Result(u, send)
  OBVIOUS
<1>6. up["provider"] /\ provider.phase = "negotiated" /\ Carry("provider", r, chan["provider"], 0)
  BY <1>1, <1>2, <1>3, <1>4, <1>5 DEF Establish, Does, AnnouncedNextSeq
<1>7. r.s = u /\ r.send = send /\ r.open /\ r.blame = "none"
  BY <1>5 DEF Result
<1>8. u \in Providers /\ u.ended = provider.ended /\ u.next = provider.next /\ u.phase = "establishing"
  BY <1>1, <1>2 DEF Providers, Phases
<1>9. m \in Message /\ m.kind = "Establish" /\ m.next = provider.next /\ m.kind \in Shakes
  BY <1>1, <1>3 DEF Message, Shakes
<1>10. Ready(u) = <<>>
  BY <1>8, ReadyIs
<1>11. NumbersInv' /\ ResumesInv' /\ NeverAccused'
  BY <1>1, <1>4, <1>6, <1>7, <1>8, <1>9, <1>10, ServerShakes
<1>12. GreetInv'
  BY <1>1, <1>4, <1>6, <1>7, <1>8, <1>9, GreetsAsks DEF AccordInv
<1> QED BY <1>11, <1>12 DEF AccordInv

\* An Establish finds a server that can take it, or one that is finalized.
LEMMA EstablishFinds ==
    ASSUME FlowInv, GreetInv, chan[Server] # <<>>, Head(chan[Server]).kind = "Establish"
    PROVE  side[Server].phase \in {"negotiated", "finalized"}
<1>1. ~Without(chan[Server], "Establish")
  BY GreetIs DEF Without
<1>2. side[Server].phase \notin Busy /\ side[Server].phase \notin {"establishing", "closed"}
  BY <1>1, GreetIs DEF Greeting
<1>3. side[Server].phase \in Phases
  <2>1. side \in [consumer : Consumers, provider : Providers] /\ Server \in Sides
    BY TheSides DEF FlowInv, FlowTypeOK
  <2>2. CASE Server = "consumer"
    BY <2>1, <2>2 DEF Consumers
  <2>3. CASE Server = "provider"
    BY <2>1, <2>3 DEF Providers
  <2> QED BY <2>1, <2>2, <2>3, TheSides DEF Sides
<1> QED BY <1>2, <1>3 DEF Busy, Phases

\* on_establish, by a provider that is the server.
LEMMA AccordServerTakes ==
    ASSUME FlowInv, AccordInv, NeverAccused, Server = "provider", ReceiveEstablish
    PROVE  AccordInv' /\ NeverAccused'
<1>1. /\ provider \in Providers /\ side["provider"] = provider /\ "none" \in Limits
  BY ServerIs
<1>2. PICK m : m = Head(chan["provider"])
  OBVIOUS
<1>3. PICK r : r = OnEstablish(provider, m)
  OBVIOUS
<1>4. /\ up["provider"] /\ chan["provider"] # <<>> /\ m.kind = "Establish"
      /\ Carry("provider", r, Tail(chan["provider"]), 0)
  BY <1>1, <1>2, <1>3 DEF ReceiveEstablish, Arrives, Hears
<1>5. provider.phase = "negotiated"
  <2>1. provider.phase \in {"negotiated", "finalized"}
    BY <1>1, <1>2, <1>4, EstablishFinds DEF AccordInv
  <2>2. provider.phase # "finalized"
    BY <1>1 DEF Providers
  <2> QED BY <2>1, <2>2
<1>6. PICK u : u = [provider EXCEPT !.phase = "pending", !.announced = m.next]
  OBVIOUS
<1>7. PICK send : send = <<>>
  OBVIOUS
<1>8. r = Result(u, send)
  <2>1. ~Bound("provider")
    BY <1>1, <1>5 DEF Bound
  <2>2. Server # "consumer"
    BY TheSides
  <2> QED BY <1>3, <1>5, <1>6, <1>7, <2>1, <2>2 DEF OnEstablish
<1>9. r.s = u /\ r.send = send /\ r.open /\ r.blame = "none"
  BY <1>8 DEF Result
<1>10. /\ u \in Providers /\ u.ended = provider.ended /\ u.next = provider.next
       /\ u.phase = "pending"
  <2>1. chan["provider"] \in Seq(Message)
    BY AccordIs
  <2>2. m \in Message
    BY <1>2, <1>4, <2>1
  <2>3. m.next \in Nat
    BY <1>4, <2>2 DEF Message
  <2> QED BY <1>1, <1>6, <2>3 DEF Providers, Phases
<1>11. Ready(u) = <<>>
  BY <1>10, ReadyIs
<1>12. NumbersInv' /\ ResumesInv' /\ NeverAccused'
  BY <1>1, <1>4, <1>7, <1>9, <1>10, <1>11, ServerShakes
<1>13. GreetInv'
  BY <1>1, <1>2, <1>4, <1>5, <1>7, <1>9, <1>10, GreetsTakes DEF AccordInv
<1> QED BY <1>12, <1>13 DEF AccordInv

\* bind of the provider keeps what it said of its flow.
LEMMA BoundSays ==
    ASSUME NEW p \in Providers, NEW u, u = Bind("provider", p)
    PROVE  u \in Providers /\ u.ended = p.ended /\ u.next = p.next /\ u.phase = "established"
           /\ Ready(u) = <<>>
<1>1. PICK t : t = ReleaseProvider(p)
  OBVIOUS
<1>2. t \in Providers /\ t.ended = p.ended /\ t.next = p.next
  BY <1>1, ServerEnds
<1>3. u = [[t EXCEPT !.phase = "established", !.announced = 0] EXCEPT !.implicit = FALSE]
  BY <1>1, TheSides DEF Bind, Release
<1>4. u \in Providers /\ u.ended = p.ended /\ u.next = p.next /\ u.phase = "established" /\ ~u.implicit
  <2>1. PICK w : w = [t EXCEPT !.phase = "established", !.announced = 0]
    OBVIOUS
  <2>2. w \in Providers /\ w.ended = p.ended /\ w.next = p.next /\ w.phase = "established"
    BY <1>2, <2>1 DEF Providers, Phases
  <2>3. u = [w EXCEPT !.implicit = FALSE]
    BY <1>3, <2>1
  <2> QED BY <2>2, <2>3 DEF Providers
<1> QED BY <1>4, ReadyIs

\* accept_establishment of the provider.
LEMMA AccordServerAccepts ==
    ASSUME FlowInv, AccordInv, NeverAccused, Server = "provider", AcceptEstablishment
    PROVE  AccordInv' /\ NeverAccused'
<1>1. /\ provider \in Providers /\ side["provider"] = provider /\ provider.next \in Nat
      /\ "none" \in Limits
  BY ServerIs
<1>2. PICK u : u = Bind("provider", provider)
  OBVIOUS
<1>3. PICK m : m = [kind |-> "EstablishmentAck", next |-> provider.next]
  OBVIOUS
<1>4. PICK send \in Seq(Message) : send = <<m>>
  <2>1. m \in Message
    BY <1>1, <1>3 DEF Message
  <2>2. <<m>> \in Seq(Message)
    BY <2>1
  <2> QED BY <2>2
<1>5. PICK b : b = Result(u, send)
  OBVIOUS
<1>6. PICK q : q = Result(u, <<>>)
  OBVIOUS
<1>7. PICK r : r = Then(b, q)
  OBVIOUS
<1>8. up["provider"] /\ provider.phase = "pending" /\ Carry("provider", r, chan["provider"], 0)
  <2>1. b.s = u
    BY <1>5, Queued
  <2>2. OnEstablished("provider", b.s, provider.announced) = q
    BY <1>6, <2>1 DEF OnEstablished
  <2>3. b = Result(Bind(Server, side[Server]),
                   <<[kind |-> "EstablishmentAck", next |-> AnnouncedNextSeq(Server)]>>)
    BY <1>1, <1>2, <1>3, <1>4, <1>5 DEF AnnouncedNextSeq
  <2>4. /\ up[Server] /\ side[Server].phase = "pending"
        /\ Does(Server, Then(b, OnEstablished(Server, b.s, side[Server].announced)))
    BY <2>3, Zenon DEF AcceptEstablishment
  <2> QED BY <1>1, <1>7, <2>2, <2>4 DEF Does
<1>9. r.s = u /\ r.send = send /\ r.open /\ r.blame = "none"
  <2>1. send \o <<>> = send
    BY ConcatEmptySeq
  <2>2. /\ b.open /\ b.send = send /\ b.gone = {} /\ b.accept = 0
        /\ q = [s |-> u, send |-> <<>>, open |-> TRUE, accept |-> 0, gone |-> {}, blame |-> "none"]
    BY <1>5, <1>6 DEF Result
  <2>3. r = [q EXCEPT !.send = b.send \o @, !.gone = b.gone \union @,
                      !.accept = IF @ = 0 THEN b.accept ELSE @]
    BY <1>7, <2>2 DEF Then
  <2> QED BY <2>1, <2>2, <2>3
<1>10. m \in Message /\ m.kind = "EstablishmentAck" /\ m.next = provider.next /\ m.kind \in Shakes
  BY <1>1, <1>3 DEF Message, Shakes
<1>11. /\ u \in Providers /\ u.ended = provider.ended /\ u.next = provider.next
       /\ u.phase = "established" /\ Ready(u) = <<>>
  BY <1>1, <1>2, BoundSays
<1>12. NumbersInv' /\ ResumesInv' /\ NeverAccused'
  BY <1>1, <1>4, <1>8, <1>9, <1>10, <1>11, ServerShakes
<1>13. GreetInv'
  <2>1. Acks(send)
    <3>1. <<m>> \o <<>> = send /\ <<>> \in Seq(Message) /\ Plain(<<>>)
      BY <1>4, ConcatEmptySeq, PlainOne
    <3> QED BY <1>10, <3>1 DEF Acks
  <2>2. Holds("established", r.open)
    BY DEF Holds, Binds
  <2> QED BY <1>1, <1>8, <1>9, <1>11, <2>1, <2>2, GreetsAccepts DEF AccordInv
<1> QED BY <1>12, <1>13 DEF AccordInv

\* reject_establishment of the provider.
LEMMA AccordServerRejects ==
    ASSUME FlowInv, AccordInv, NeverAccused, Server = "provider", RejectEstablishment
    PROVE  AccordInv' /\ NeverAccused'
<1>1. /\ provider \in Providers /\ side["provider"] = provider /\ "none" \in Limits
  BY ServerIs
<1>2. PICK u : u = [provider EXCEPT !.phase = "negotiated", !.announced = 0]
  OBVIOUS
<1>3. PICK m : m = EstablishReject("Unspecified")
  OBVIOUS
<1>4. PICK send : send = <<m>>
  OBVIOUS
<1>5. PICK r : r = Result(u, send)
  OBVIOUS
<1>6. up["provider"] /\ provider.phase = "pending" /\ Carry("provider", r, chan["provider"], 0)
  BY <1>1, <1>2, <1>3, <1>4, <1>5 DEF RejectEstablishment, Does
<1>7. r.s = u /\ r.send = send /\ r.open /\ r.blame = "none"
  BY <1>5 DEF Result
<1>8. u \in Providers /\ u.ended = provider.ended /\ u.next = provider.next /\ u.phase = "negotiated"
  BY <1>1, <1>2 DEF Providers, Phases
<1>9. m \in Message /\ m.kind = "EstablishmentReject" /\ m.kind \in Shakes
  BY <1>3 DEF EstablishReject, Message, Codes, Shakes
<1>10. Ready(u) = <<>>
  BY <1>8, ReadyIs
<1>11. NumbersInv' /\ ResumesInv' /\ NeverAccused'
  BY <1>1, <1>4, <1>6, <1>7, <1>8, <1>9, <1>10, ServerShakes
<1>12. GreetInv'
  <2>1. Rejects(send)
    BY <1>4, <1>9 DEF Rejects
  <2> QED BY <1>1, <1>6, <1>7, <1>8, <2>1, GreetsRefuses DEF AccordInv
<1> QED BY <1>11, <1>12 DEF AccordInv

\* on_establishment_ack, by a provider that is the client.
LEMMA AccordServerHearsAck ==
    ASSUME FlowInv, AccordInv, NeverAccused, Client = "provider", ReceiveEstablishmentAck
    PROVE  AccordInv' /\ NeverAccused'
<1>1. /\ provider \in Providers /\ side["provider"] = provider /\ "none" \in Limits
  BY ServerIs
<1>2. PICK send : send = <<>>
  OBVIOUS
<1>3. PICK u : u = IF provider.phase = "establishing" THEN Bind("provider", provider) ELSE provider
  OBVIOUS
<1>4. PICK r : r = Result(u, send)
  OBVIOUS
<1>5. /\ up["provider"] /\ chan["provider"] # <<>>
      /\ Head(chan["provider"]).kind = "EstablishmentAck"
      /\ Carry("provider", r, Tail(chan["provider"]), 0)
  BY <1>1, <1>2, <1>3, <1>4
     DEF ReceiveEstablishmentAck, Arrives, Hears, OnAck, OnEstablished
<1>6. r.s = u /\ r.send = send /\ r.open /\ r.blame = "none"
  BY <1>4 DEF Result
<1>7. u \in Providers /\ u.ended = provider.ended /\ u.next = provider.next
  BY <1>1, <1>3, BoundSays
<1>8. CASE provider.phase \in Binds
  <2>1. u = provider /\ Reads(chan["provider"], Tail(chan["provider"]))
    BY <1>3, <1>5, <1>8 DEF Binds, Reads
  <2> QED BY <1>1, <1>2, <1>5, <1>6, <1>7, <1>8, <2>1, ServerMutters
<1>9. CASE provider.phase \notin Binds
  <2>1. Ready(u) = <<>>
    <3>1. CASE provider.phase = "establishing"
      BY <1>1, <1>3, <3>1, BoundSays
    <3>2. CASE provider.phase # "establishing"
      BY <1>1, <1>3, <1>9, <3>2, ReadyIs DEF Binds
    <3> QED BY <3>1, <3>2
  <2>2. NumbersInv' /\ ResumesInv' /\ NeverAccused'
    BY <1>1, <1>2, <1>5, <1>6, <1>7, <2>1, ServerShakes
  <2>3. u.phase \notin {"negotiated", "establishing", "pending"}
    <3>1. CASE provider.phase = "establishing"
      BY <1>1, <1>3, <3>1, BoundSays
    <3>2. CASE provider.phase # "establishing"
      <4>1. ~Without(chan["provider"], "EstablishmentAck")
        BY <1>5, AccordIs DEF Without
      <4>2. provider.phase # "negotiated" /\ provider.phase # "pending"
        BY <1>1, <1>5, <4>1, AccordIs, GreetIs DEF Greeting
      <4> QED BY <1>3, <3>2, <4>2
    <3> QED BY <3>1, <3>2
  <2>4. send \in Seq(Message) /\ Plain(send)
    BY <1>2, PlainOne
  <2>5. GreetInv'
    BY <1>1, <1>5, <1>6, <2>3, <2>4, GreetsAcked DEF AccordInv
  <2> QED BY <2>2, <2>5 DEF AccordInv
<1> QED BY <1>8, <1>9

\* on_establishment_reject, by a provider that is the client.
LEMMA AccordServerHearsReject ==
    ASSUME FlowInv, AccordInv, NeverAccused, Client = "provider", ReceiveEstablishmentReject
    PROVE  AccordInv' /\ NeverAccused'
<1>1. /\ provider \in Providers /\ side["provider"] = provider /\ "none" \in Limits
  BY ServerIs
<1>2. /\ up["provider"] /\ chan["provider"] # <<>>
      /\ Head(chan["provider"]).kind = "EstablishmentReject"
  BY DEF ReceiveEstablishmentReject, Arrives
<1>3. CASE provider.phase # "establishing"
  <2>1. PICK r : r = Result(provider, <<>>)
    OBVIOUS
  <2>2. Carry("provider", r, Tail(chan["provider"]), 0)
    BY <1>1, <1>3, <2>1 DEF ReceiveEstablishmentReject, OnReject, Hears
  <2> QED BY <1>2, <2>1, <2>2, ServerIgnores
<1>4. CASE provider.phase = "establishing"
  <2>1. PICK phase \in {"closed", "negotiated"} :
           phase = IF Head(chan["provider"]).code = "Unnegotiated" THEN "closed" ELSE "negotiated"
    OBVIOUS
  <2>2. PICK u : u = [provider EXCEPT !.phase = phase]
    OBVIOUS
  <2>3. PICK send : send = <<>>
    OBVIOUS
  <2>4. PICK r : r = Result(u, send)
    OBVIOUS
  <2>5. Carry("provider", r, Tail(chan["provider"]), 0)
    BY <1>1, <1>4, <2>1, <2>2, <2>3, <2>4 DEF ReceiveEstablishmentReject, OnReject, Hears
  <2>6. r.s = u /\ r.send = send /\ r.open /\ r.blame = "none"
    BY <2>4 DEF Result
  <2>7. u \in Providers /\ u.ended = provider.ended /\ u.next = provider.next /\ u.phase = phase
    BY <1>1, <2>1, <2>2 DEF Providers, Phases
  <2>8. Ready(u) = <<>>
    BY <2>1, <2>7, ReadyIs
  <2>9. NumbersInv' /\ ResumesInv' /\ NeverAccused'
    BY <1>1, <1>2, <2>3, <2>5, <2>6, <2>7, <2>8, ServerShakes
  <2>10. GreetInv'
    BY <1>1, <1>2, <1>4, <2>1, <2>3, <2>5, <2>6, <2>7, GreetsRejected DEF AccordInv
  <2> QED BY <2>9, <2>10 DEF AccordInv
<1> QED BY <1>3, <1>4

\* establish, the handshake and its answer, at a provider of either role.
LEMMA AccordServerHandshake ==
    ASSUME FlowInv, AccordInv, NeverAccused,
           \/ Client = "provider" /\ (Establish \/ ReceiveEstablishmentAck \/ ReceiveEstablishmentReject)
           \/ Server = "provider" /\ (ReceiveEstablish \/ AcceptEstablishment \/ RejectEstablishment)
    PROVE  AccordInv' /\ NeverAccused'
BY AccordServerEstablishes, AccordServerHearsAck, AccordServerHearsReject, AccordServerTakes,
   AccordServerAccepts, AccordServerRejects

-----------------------------------------------------------------------------
(* What the consumer is told                                                *)

\* What a consumer that is not bound, or is closing, takes no notice of.
LEMMA ConsumerMinds ==
    ASSUME FlowInv, FlowInv', AccordInv, NeverAccused, up["consumer"], chan["consumer"] # <<>>,
           Head(chan["consumer"]).kind # "EstablishmentAck",
           consumer.phase \notin {"established", "terminating"},
           NEW r, r = Result(consumer, <<>>), NEW n, Carry("consumer", r, Tail(chan["consumer"]), n)
    PROVE  AccordInv' /\ NeverAccused'
<1>1. r.s = consumer /\ r.send = <<>> /\ r.open /\ r.blame = "none"
  BY DEF Result
<1>2. /\ "consumer" \in Sides /\ side["consumer"] = consumer /\ GreetInv
      /\ consumer.next <= Expects(consumer) /\ Expects(consumer) \in Nat
  BY TheSides, AccordIs DEF InStep
<1>3. Heeds(consumer)
  <2>1. Tame(consumer, consumer)
    BY TameSame
  <2> QED BY <2>1, MildHeeds
<1>4. PICK unread : unread = Tail(chan["consumer"])
  OBVIOUS
<1>5. Reads(chan["consumer"], unread) /\ Advances(consumer, unread)
  BY <1>2, <1>4 DEF Reads, Advances
<1>6. Resumes(consumer, unread \o Ready(provider))
  BY DEF Resumes
<1>7. NumbersInv' /\ ResumesInv'
  BY <1>1, <1>2, <1>3, <1>4, <1>5, <1>6, ConsumerAccords
<1>8. Utters(r)
  BY <1>1, PlainOne DEF Utters, Limits
<1>9. NeverAccused'
  BY <1>8, BlameIs
<1>10. GreetInv'
  <2>1. CASE consumer.phase \in Binds
    BY <1>1, <1>2, <1>4, <1>5, <1>8, <2>1, BoundGreets DEF Utters
  <2>2. CASE consumer.phase \notin Binds
    BY <1>1, <1>2, <2>2, UnboundGreets
  <2> QED BY <2>1, <2>2
<1> QED BY <1>7, <1>9, <1>10 DEF AccordInv

\* What only a bound session may be told reaches none that is not.
LEMMA ConsumerTold ==
    ASSUME FlowInv, FlowInv', AccordInv, NeverAccused, up["consumer"], chan["consumer"] # <<>>,
           Head(chan["consumer"]).kind \in Talk,
           consumer.phase \notin {"established", "terminating"},
           NEW handled, NEW r, r = OnPeer("consumer", handled),
           NEW n, Carry("consumer", r, Tail(chan["consumer"]), n)
    PROVE  AccordInv' /\ NeverAccused'
<1>1. side["consumer"] = consumer /\ consumer \in Consumers /\ GreetInv /\ "consumer" \in Sides
  BY AccordIs, TheSides
<1>2. consumer.phase \notin {"negotiated", "establishing", "pending"}
  BY <1>1, TalkIsBound
<1>3. consumer.phase \in {"closing", "finalized", "closed"}
  BY <1>1, <1>2 DEF Consumers, Phases
<1>4. r = Result(consumer, <<>>)
  BY <1>1, <1>3 DEF OnPeer
<1>5. Head(chan["consumer"]).kind # "EstablishmentAck"
  BY DEF Talk
<1> QED BY <1>4, <1>5, ConsumerMinds

\* The number a bound consumer is told is not below what it expects, and not
\* past the end of the flow.
LEMMA SaidIsAhead ==
    ASSUME FlowInv, AccordInv, chan["consumer"] # <<>>, NEW m, m = Head(chan["consumer"])
    PROVE  /\ m \in Message /\ (Says(m) => Said(m) \in Nat /\ Expects(consumer) <= Said(m) /\ Height(m) = Said(m))
           /\ m.kind = "FinishedSending" => Ended(provider, m.last + 1)
           /\ consumer.finished # NotFinished => consumer.finished.end = provider.next /\ provider.ended
<1>1. PICK u \in Seq(Message) : u = chan["consumer"]
  BY AccordIs
<1>2. u # <<>> /\ InStep(consumer, u) /\ Concludes(consumer, provider, u)
  BY <1>1, AccordIs
<1>3. 1 \in 1 .. Len(u) /\ m = u[1] /\ m \in Message
  BY <1>1, <1>2
<1>4. Says(m) => Expects(consumer) <= Said(m)
  BY <1>2, <1>3 DEF InStep, Above
<1>5. Says(m) => Said(m) \in Nat /\ Height(m) = Said(m)
  BY <1>3, Heights
<1>6. /\ m.kind = "FinishedSending" => Ended(provider, m.last + 1)
      /\ consumer.finished # NotFinished => Ended(provider, consumer.finished.end)
  BY <1>2, <1>3 DEF Concludes
<1> QED BY <1>3, <1>4, <1>5, <1>6 DEF Ended

\* on_sequence: NextSeqNo is not below what is expected.
LEMMA AccordSequence ==
    ASSUME FlowInv, FlowInv', AccordInv, NeverAccused, ReceiveSequence
    PROVE  AccordInv' /\ NeverAccused'
<1>1. PICK m : m = Head(chan["consumer"])
  OBVIOUS
<1>2. PICK next : next = m.next
  OBVIOUS
<1>3. PICK handled : handled = OnNextSeq(consumer, next)
  OBVIOUS
<1>4. PICK r : r = OnPeer("consumer", handled)
  OBVIOUS
<1>5. /\ up["consumer"] /\ chan["consumer"] # <<>> /\ m.kind = "Sequence"
      /\ Carry("consumer", r, Tail(chan["consumer"]), 0)
  BY <1>1, <1>2, <1>3, <1>4 DEF ReceiveSequence, Arrives, Hears
<1>6. CASE consumer.phase \notin {"established", "terminating"}
  <2>1. Head(chan["consumer"]).kind \in Talk
    BY <1>1, <1>5 DEF Talk
  <2> QED BY <1>4, <1>5, <1>6, <2>1, ConsumerTold
<1>7. CASE consumer.phase \in {"established", "terminating"}
  <2>1. /\ consumer \in Consumers /\ side["consumer"] = consumer
        /\ Session(consumer, handed, abandoned, origin)
        /\ abandoned \in SUBSET Nat /\ origin \in Nat
        /\ provider.next \in 1 .. MaxSeq + 1 /\ provider.next \in Nat /\ MaxSeq \in Nat
        /\ consumer.next \in Nat
    BY <1>7, ConsumerIs
  <2>2. r = OnNextSeq(consumer, next)
    BY <1>3, <1>4, <1>7, <2>1 DEF OnPeer
  <2>3. next \in Nat /\ 1 <= next /\ next <= provider.next
    BY <1>1, <1>2, <1>5, HeadIs
  <2>4. next \in 1 .. MaxSeq + 1
    BY ONLY <2>1, <2>3
  <2>5. PICK begun : begun = IF consumer.start THEN next ELSE origin
    OBVIOUS
  <2>6. /\ r.s.next \in {consumer.next, next} /\ (r.open => r.s.phase = consumer.phase) /\ Quiet(r)
    BY <1>7, <2>1, <2>2, <2>4, <2>5, NextSeqKeeps
  <2>7. Says(m) /\ Said(m) = next
    BY <1>2, <1>5 DEF Says, Said
  <2>8. consumer.next <= next /\ Height(m) = next
    <3>1. Expects(consumer) <= Said(m) /\ Height(m) = Said(m)
      BY <1>1, <1>5, <2>7, SaidIsAhead
    <3>2. Expects(consumer) = consumer.next
      BY <1>7, <2>1, ExpectsIs
    <3> QED BY <2>7, <3>1, <3>2
  <2>9. Allows(consumer, next)
    <3>1. consumer.finished # NotFinished => consumer.finished.end = provider.next
      BY <1>1, <1>5, SaidIsAhead
    <3> QED BY <2>3, <2>8, <3>1 DEF Allows
  <2>10. Mild(consumer, r) /\ r.s.resume = FALSE
    BY <1>7, <2>1, <2>2, <2>4, <2>9, NextSeqMild
  <2>11. PICK unread : unread = Tail(chan["consumer"])
    OBVIOUS
  <2>12. Resumes(r.s, unread \o Ready(provider))
    BY <2>10 DEF Resumes
  <2>13. ~r.open => r.s.phase \in {"negotiated", "finalized"}
    BY <2>6 DEF Quiet
  <2>14. r.s.next <= Height(Head(chan["consumer"]))
    BY <1>1, <2>1, <2>3, <2>6, <2>8
  <2>15. Reads(chan["consumer"], unread)
    BY <1>5, <2>11 DEF Reads
  <2> QED BY <1>5, <1>7, <2>6, <2>10, <2>11, <2>12, <2>13, <2>14, <2>15, MildAccords
<1> QED BY <1>6, <1>7

\* A message that numbers nothing is no place to go on from without a Sequence.
LEMMA ResumesBehind ==
    ASSUME FlowInv, up["consumer"], chan["consumer"] # <<>>,
           consumer.phase \in {"established", "terminating"},
           Head(chan["consumer"]).kind \notin Data,
           NEW s, NEW unread, unread = Tail(chan["consumer"])
    PROVE  Resumes(s, unread \o Ready(provider))
<1>1. PICK rest : rest = unread \o Ready(provider)
  OBVIOUS
<1>2. \A c : Numbered(c, rest)
  BY <1>1, LineLeft
<1>3. Numbered(Unknown, rest)
  BY <1>2
<1> QED BY <1>1, <1>3 DEF Resumes

\* on_finished_sending: the end is not below what is expected.
LEMMA AccordFinishedSending ==
    ASSUME FlowInv, FlowInv', AccordInv, NeverAccused, ReceiveFinishedSending
    PROVE  AccordInv' /\ NeverAccused'
<1>1. PICK m : m = Head(chan["consumer"])
  OBVIOUS
<1>2. PICK last : last = m.last
  OBVIOUS
<1>3. PICK handled : handled = OnFinishedSending(consumer, last)
  OBVIOUS
<1>4. PICK r : r = OnPeer("consumer", handled)
  OBVIOUS
<1>5. /\ up["consumer"] /\ chan["consumer"] # <<>> /\ m.kind = "FinishedSending"
      /\ Carry("consumer", r, Tail(chan["consumer"]), 0)
  BY <1>1, <1>2, <1>3, <1>4 DEF ReceiveFinishedSending, Arrives, Hears
<1>6. CASE consumer.phase \notin {"established", "terminating"}
  <2>1. Head(chan["consumer"]).kind \in Talk
    BY <1>1, <1>5 DEF Talk
  <2> QED BY <1>4, <1>5, <1>6, <2>1, ConsumerTold
<1>7. CASE consumer.phase \in {"established", "terminating"}
  <2>1. /\ consumer \in Consumers /\ side["consumer"] = consumer
        /\ Session(consumer, handed, abandoned, origin)
        /\ abandoned \in SUBSET Nat /\ origin \in Nat
        /\ provider.next \in 1 .. MaxSeq + 1 /\ provider.next \in Nat /\ MaxSeq \in Nat
        /\ consumer.next \in Nat /\ ~consumer.start
    BY <1>7, ConsumerIs
  <2>2. r = OnFinishedSending(consumer, last)
    BY <1>3, <1>4, <1>7, <2>1 DEF OnPeer
  <2>3. last \in Nat /\ last + 1 <= provider.next
    BY <1>1, <1>2, <1>5, HeadIs
  <2>4. last + 1 \in 1 .. MaxSeq + 1
    BY ONLY <2>1, <2>3
  <2>5. /\ r.s.next \in {consumer.next, last + 1} /\ (r.open => r.s.phase = consumer.phase) /\ Quiet(r)
    BY <1>7, <2>1, <2>2, <2>3, <2>4, FinishedSendingKeeps
  <2>6. Says(m) /\ Said(m) = last + 1
    BY <1>2, <1>5 DEF Says, Said
  <2>7. consumer.next <= last + 1 /\ Height(m) = last + 1
    <3>1. Expects(consumer) <= Said(m) /\ Height(m) = Said(m)
      BY <1>1, <1>5, <2>6, SaidIsAhead
    <3>2. Expects(consumer) = consumer.next
      BY <1>7, <2>1, ExpectsIs
    <3> QED BY <2>6, <3>1, <3>2
  <2>8. PICK end : end = last + 1
    OBVIOUS
  <2>9. end - 1 = last /\ end \in 1 .. MaxSeq + 1 /\ consumer.next <= end
    BY <2>3, <2>4, <2>7, <2>8
  <2>10. r = OnFinishedSending(consumer, end - 1)
    BY <2>2, <2>9
  <2>11. Learns(consumer, r.s, end) /\ Utters(r)
    BY <1>7, <2>1, <2>9, <2>10, FinishedSendingMild
  <2>12. Heeds(r.s)
    <3>1. Ended(provider, end)
      BY <1>1, <1>2, <1>5, <2>8, SaidIsAhead
    <3>2. Heeds(consumer)
      BY TameSame, MildHeeds
    <3>3. consumer.phase # "finalized"
      BY <1>7
    <3>4. r.s.finished # NotFinished => Ended(provider, r.s.finished.end)
      BY <2>11, <3>1, <3>2 DEF Learns, Heeds
    <3> QED BY <2>11, <3>2, <3>3, <3>4 DEF Learns, Heeds
  <2>13. PICK unread : unread = Tail(chan["consumer"])
    OBVIOUS
  <2>14. Resumes(r.s, unread \o Ready(provider))
    <3>1. Head(chan["consumer"]).kind \notin Data
      BY <1>1, <1>5 DEF Data
    <3> QED BY <1>5, <1>7, <2>13, <3>1, ResumesBehind
  <2>15. ~r.open => r.s.phase \in {"negotiated", "finalized"}
    BY <2>5 DEF Quiet
  <2>16. r.open => r.s.phase \in Binds
    BY <1>7, <2>5 DEF Binds
  <2>17. r.open => Expects(r.s) <= Height(Head(chan["consumer"]))
    <3>1. r.s \in Consumers
      BY <2>5 DEF Quiet, Results
    <3>2. r.open => Expects(r.s) = r.s.next
      BY <1>7, <2>5, <3>1, ExpectsIs
    <3> QED BY <1>1, <2>1, <2>3, <2>5, <2>7, <3>2
  <2>18. Reads(chan["consumer"], unread) /\ consumer.phase \in Binds
    BY <1>5, <1>7, <2>13 DEF Reads, Binds
  <2> QED BY <1>5, <2>11, <2>12, <2>13, <2>14, <2>15, <2>16, <2>17, <2>18, BoundAccords
<1> QED BY <1>6, <1>7

\* on_retransmit_reject.
LEMMA AccordReject ==
    ASSUME FlowInv, FlowInv', AccordInv, NeverAccused, ReceiveRetransmitReject
    PROVE  AccordInv' /\ NeverAccused'
<1>1. PICK m : m = Head(chan["consumer"])
  OBVIOUS
<1>2. PICK handled : handled = OnRetransmitReject(consumer, m)
  OBVIOUS
<1>3. PICK r : r = OnPeer("consumer", handled)
  OBVIOUS
<1>4. /\ up["consumer"] /\ chan["consumer"] # <<>> /\ m.kind = "RetransmitReject"
      /\ Carry("consumer", r, Tail(chan["consumer"]), 0)
  BY <1>1, <1>2, <1>3 DEF ReceiveRetransmitReject, Arrives, Hears
<1>5. CASE consumer.phase \notin {"established", "terminating"}
  <2>1. Head(chan["consumer"]).kind \in Talk
    BY <1>1, <1>4 DEF Talk
  <2> QED BY <1>3, <1>4, <1>5, <2>1, ConsumerTold
<1>6. CASE consumer.phase \in {"established", "terminating"}
  <2>1. /\ consumer \in Consumers /\ side["consumer"] = consumer
        /\ Session(consumer, handed, abandoned, origin)
        /\ abandoned \in SUBSET Nat /\ origin \in Nat
        /\ consumer.next \in Nat /\ ~consumer.start
    BY <1>6, ConsumerIs
  <2>2. r = OnRetransmitReject(consumer, m)
    BY <1>2, <1>3, <1>6, <2>1 DEF OnPeer
  <2>3. /\ r \in Results /\ r.accept = 0 /\ r.open
        /\ Session(r.s, handed, abandoned \union r.gone, origin)
        /\ r.s.next = consumer.next /\ ~r.s.start /\ r.s.announced = consumer.announced
        /\ r.s.phase = consumer.phase
    BY <2>1, <2>2, RejectKeeps
  <2>4. Mild(consumer, r)
    BY <2>1, <2>2, RejectMild
  <2>5. PICK unread : unread = Tail(chan["consumer"])
    OBVIOUS
  <2>6. Resumes(r.s, unread \o Ready(provider))
    <3>1. Head(chan["consumer"]).kind \notin Data
      BY <1>1, <1>4 DEF Data
    <3> QED BY <1>4, <1>6, <2>5, <3>1, ResumesBehind
  <2>7. Reads(chan["consumer"], unread) /\ r.s.next <= consumer.next
    BY <1>4, <2>1, <2>3, <2>5 DEF Reads
  <2>8. /\ r.open => r.s.phase = consumer.phase
        /\ ~r.open => r.s.phase \in {"negotiated", "finalized"}
        /\ r.open => r.s.next <= consumer.next
                     \/ (/\ chan["consumer"] # <<>> /\ unread = Tail(chan["consumer"])
                         /\ r.s.next <= Height(Head(chan["consumer"])))
        /\ r.open => Resumes(r.s, unread \o Ready(provider))
    BY <2>3, <2>6, <2>7
  <2>9. Carry("consumer", r, unread, 0)
    BY <1>4, <2>5
  <2> QED BY ONLY FlowInv, FlowInv', AccordInv, NeverAccused, <1>6, <2>4, <2>7, <2>8, <2>9, MildAccords
<1> QED BY <1>5, <1>6

\* on_retransmission: a batch is one that was asked for, and follows the one
\* before.
LEMMA AccordRetransmission ==
    ASSUME FlowInv, FlowInv', ServiceInv, AccordInv, NeverAccused, ReceiveRetransmission
    PROVE  AccordInv' /\ NeverAccused'
<1>1. PICK m : m = Head(chan["consumer"])
  OBVIOUS
<1>2. PICK handled : handled = OnRetransmission(consumer, m)
  OBVIOUS
<1>3. PICK r : r = OnPeer("consumer", handled)
  OBVIOUS
<1>4. /\ up["consumer"] /\ chan["consumer"] # <<>> /\ m.kind = "Retransmission"
      /\ Carry("consumer", r, Tail(chan["consumer"]), 0)
  BY <1>1, <1>2, <1>3 DEF ReceiveRetransmission, Arrives, Hears
<1>5. CASE consumer.phase \notin {"established", "terminating"}
  <2>1. Head(chan["consumer"]).kind \in Talk
    BY <1>1, <1>4 DEF Talk
  <2> QED BY <1>3, <1>4, <1>5, <2>1, ConsumerTold
<1>6. CASE consumer.phase \in {"established", "terminating"}
  <2>1. /\ consumer \in Consumers /\ side["consumer"] = consumer
        /\ Session(consumer, handed, abandoned, origin)
        /\ abandoned \in SUBSET Nat /\ origin \in Nat
        /\ consumer.next \in Nat /\ ~consumer.start
    BY <1>6, ConsumerIs
  <2>2. r = OnRetransmission(consumer, m)
    BY <1>2, <1>3, <1>6, <2>1 DEF OnPeer
  <2>3. m.next \in Nat /\ m.count \in Nat /\ m \in Message
    BY <1>1, <1>4, HeadIs
  <2>4. AskedFor(consumer, m)
    <3>1. PICK s, p, u, w, on :
             /\ s = consumer /\ p = provider /\ u = chan["consumer"] /\ w = chan["provider"]
             /\ on = Asking(consumer, up["consumer"])
      OBVIOUS
    <3>2. /\ s \in Consumers /\ u \in Seq(Message) /\ w \in Seq(Message) /\ RequestOK(s)
          /\ Served(s, p, u, w, on)
      BY <3>1, ServedIs
    <3>3. u # <<>> /\ 1 \in 1 .. Len(u) /\ u[1] = m /\ Head(u) = m
      BY <1>1, <1>4, <3>1, <3>2
    <3>4. ~Rest(u)
      BY <1>4, <3>3 DEF Rest, Answer
    <3>5. on
      BY <1>4, <1>6, <3>1 DEF Asking
    <3>6. s.request # NoRequest
      BY <3>2, <3>4, <3>5 DEF Served
    <3>7. Chained(s, u)
      BY <3>2, <3>6 DEF Served, Pending
    <3>8. s.replay = NoReplay
      <4>1. SUFFICES ASSUME s.replay # NoReplay PROVE FALSE
        OBVIOUS
      <4>2. Head(u).kind # "Application"
        BY <1>4, <3>3
      <4>3. Rest(u)
        BY <3>2, <3>3, <4>1, <4>2, CutMeansIdle
      <4> QED BY <3>4, <4>3
    <3>9. m.stamp = s.request.stamp
      BY <1>4, <3>3, <3>7 DEF Chained, Answer
    <3>10. 1 <= m.count /\ m.next + m.count <= End(s)
      BY <1>4, <3>3, <3>7 DEF Chained
    <3>11. m.next = At(s)
      <4>1. u[1].kind = "Retransmission"
        BY <1>4, <3>3
      <4>2. \/ u[1].next = At(s)
            \/ \E j \in 1 .. Len(u) : j < 1 /\ u[j].kind = "Retransmission"
                                      /\ u[1].next = u[j].next + u[j].count
        BY ONLY <3>3, <3>7, <4>1 DEF Chained
      <4> QED BY <3>3, <4>2
    <3>12. At(s) = s.request.from + s.request.delivered
      BY <3>2, <3>8, Places, None
    <3>13. /\ s.request.from \in Nat /\ s.request.delivered \in Nat /\ s.request.count \in Nat
           /\ End(s) = s.request.from + s.request.count
      BY <3>2, Places DEF End
    <3>14. m.count # 0 /\ ~(m.count > s.request.count - s.request.delivered)
      BY <2>3, <3>10, <3>11, <3>12, <3>13
    <3> QED BY <3>1, <3>6, <3>9, <3>11, <3>12, <3>14 DEF AskedFor
  <2>5. /\ r.s.finished = consumer.finished /\ r.s.finalized = consumer.finalized
        /\ r.s.phase = consumer.phase
        /\ r.s.replay = [next |-> m.next, left |-> m.count] /\ r.open /\ Utters(r)
    BY <2>1, <2>2, <2>4, RetransmissionMild
  <2>6. r.s.next = consumer.next /\ r.s.replay # NoReplay
    BY <1>6, <2>1, <2>2, <2>3, <2>5, RetransmissionKeeps
  <2>7. Heeds(r.s)
    <3>1. Heeds(consumer)
      BY TameSame, MildHeeds
    <3> QED BY <2>5, <3>1 DEF Heeds
  <2>8. PICK unread : unread = Tail(chan["consumer"])
    OBVIOUS
  <2>9. Resumes(r.s, unread \o Ready(provider))
    BY <2>6 DEF Resumes
  <2>10. Expects(r.s) <= Expects(consumer)
    <3>1. r.s.phase # "pending" /\ consumer.phase # "pending"
      BY <1>6, <2>5
    <3> QED BY <2>1, <2>6, <3>1 DEF Expects
  <2>11. Reads(chan["consumer"], unread) /\ r.s.phase \in Binds /\ consumer.phase \in Binds
    BY <1>4, <1>6, <2>5, <2>8 DEF Reads, Binds
  <2>12. /\ r.open => r.s.phase \in Binds
         /\ ~r.open => r.s.phase \in {"negotiated", "finalized"}
         /\ r.open => Expects(r.s) <= Expects(consumer)
                      \/ (/\ chan["consumer"] # <<>> /\ unread = Tail(chan["consumer"])
                          /\ Expects(r.s) <= Height(Head(chan["consumer"])))
         /\ r.open => Resumes(r.s, unread \o Ready(provider))
    BY <2>5, <2>9, <2>10, <2>11
  <2>13. Carry("consumer", r, unread, 0) /\ Utters(r)
    BY <1>4, <2>5, <2>8
  <2> QED BY ONLY FlowInv, FlowInv', AccordInv, NeverAccused, <2>7, <2>11, <2>12, <2>13, BoundAccords
<1> QED BY <1>5, <1>6

\* on_application: in sequence, or the next of a batch.
LEMMA AccordApplication ==
    ASSUME FlowInv, FlowInv', AccordInv, NeverAccused, ReceiveApplication
    PROVE  AccordInv' /\ NeverAccused'
<1>1. PICK m : m = Head(chan["consumer"])
  OBVIOUS
<1>2. PICK n : n = m.n
  OBVIOUS
<1>3. PICK handled : handled = OnApplication(consumer)
  OBVIOUS
<1>4. PICK r : r = OnPeer("consumer", handled)
  OBVIOUS
<1>5. /\ up["consumer"] /\ chan["consumer"] # <<>> /\ m.kind = "Application"
      /\ Carry("consumer", r, Tail(chan["consumer"]), n)
  BY <1>1, <1>2, <1>3, <1>4 DEF ReceiveApplication, Arrives
<1>6. CASE consumer.phase \notin {"established", "terminating"}
  <2>1. Head(chan["consumer"]).kind \in Talk
    BY <1>1, <1>5 DEF Talk
  <2> QED BY <1>4, <1>5, <1>6, <2>1, ConsumerTold
<1>7. CASE consumer.phase \in {"established", "terminating"}
  <2>1. /\ consumer \in Consumers /\ side["consumer"] = consumer /\ consumer.next <= provider.next
        /\ Session(consumer, handed, abandoned, origin) /\ ~consumer.start
        /\ abandoned \in SUBSET Nat /\ origin \in Nat /\ handed \in Books
        /\ provider.next \in Nat /\ provider.next \in 1 .. MaxSeq + 1 /\ consumer.next \in Nat
    BY <1>7, ConsumerIs, SidesHave
  <2>2. r = OnApplication(consumer)
    BY <1>3, <1>4, <1>7, <2>1 DEF OnPeer
  <2>3. PICK unread : unread = Tail(chan["consumer"])
    OBVIOUS
  <2>4. PICK rest : rest = unread \o Ready(provider)
    OBVIOUS
  <2>5. PICK u : u = chan["consumer"] \o Ready(provider)
    OBVIOUS
  <2>6. u \in Seq(Message) /\ u # <<>> /\ u[1] = m /\ Tail(u) = rest
    BY <1>1, <1>5, <2>3, <2>4, <2>5, FirstOfLine
  <2>7. Numbered(Context(consumer), u)
    BY <1>5, <1>7, <2>5 DEF FlowInv, LineOK
  <2>8. Reads(chan["consumer"], unread) /\ Carry("consumer", r, unread, n)
    BY <1>5, <2>3 DEF Reads
  <2>9. CASE consumer.replay # NoReplay
    <3>1. r = OnReplayed(consumer)
      BY <2>2, <2>9 DEF OnApplication
    <3>2. Mild(consumer, r)
      BY <1>7, <2>1, <2>9, <3>1, ReplayedMild
    <3>3. /\ r.open /\ r.s.phase = consumer.phase /\ r.s.next = consumer.next
          /\ consumer.replay.left # 1 => r.s.replay # NoReplay
      <4>1. PICK s : s = consumer
        OBVIOUS
      <4>2. PICK after : after = Taken(s, handed)
        OBVIOUS
      <4>3. /\ s \in Consumers /\ Session(s, handed, abandoned, origin)
            /\ s.phase \in {"established", "terminating"} /\ ~s.start
            /\ s.replay # NoReplay /\ r = OnReplayed(s)
        BY <1>7, <2>1, <2>9, <3>1, <4>1
      <4>4. /\ r \in Results /\ r.open /\ r.gone = {} /\ ~r.s.start
            /\ after \in Books /\ Session(r.s, after, abandoned, origin) /\ GoesOn(s, r, abandoned)
        BY ONLY <2>1, <4>2, <4>3, ReplayedKeeps
      <4> QED BY ONLY <4>1, <4>4 DEF GoesOn
    <3>4. Resumes(r.s, rest)
      <4>1. CASE consumer.replay.left # 1
        BY <3>3, <4>1 DEF Resumes
      <4>2. CASE consumer.replay.left = 1
        <5>1. PICK c : c = Context(consumer)
          OBVIOUS
        <5>2. /\ c.kind = "Retransmission" /\ c.next = consumer.replay.next
              /\ c.count = consumer.replay.left
          BY <1>7, <2>9, <5>1 DEF Context, Retransmission
        <5>3. c.next \in Nat /\ c.count \in Nat \ {0}
          BY <2>1, <5>1, <5>2, ContextOK DEF Session
        <5>4. Numbered(c, u)
          BY <2>7, <5>1
        <5>5. c.count = 1 => \A d : Numbered(d, Tail(u))
          BY <1>5, <2>6, <5>2, <5>3, <5>4, NextInBatch
        <5>6. Numbered(Unknown, rest)
          BY <2>6, <4>2, <5>2, <5>5
        <5> QED BY <5>6 DEF Resumes
      <4> QED BY <4>1, <4>2
    <3>5. /\ r.open => r.s.phase = consumer.phase
          /\ ~r.open => r.s.phase \in {"negotiated", "finalized"}
          /\ r.open => r.s.next <= consumer.next
                       \/ (/\ chan["consumer"] # <<>> /\ unread = Tail(chan["consumer"])
                           /\ r.s.next <= Height(Head(chan["consumer"])))
          /\ r.open => Resumes(r.s, unread \o Ready(provider))
      BY <2>1, <2>4, <3>3, <3>4
    <3> QED BY ONLY FlowInv, FlowInv', AccordInv, NeverAccused, <1>7, <2>8, <3>2, <3>5, MildAccords
  <2>10. CASE consumer.replay = NoReplay
    <3>1. n = consumer.next /\ n \in Nat /\ n < provider.next
      <4>1. Context(consumer) = SequenceMsg(consumer.next)
        BY <1>7, <2>10 DEF Context
      <4>2. Follows(Context(consumer), m)
        BY <2>6, <2>7, ReadFirst
      <4>3. n = consumer.next
        BY <1>2, <1>5, <4>1, <4>2 DEF Follows, SequenceMsg
      <4>4. n \in Nat /\ n < provider.next
        BY <1>1, <1>2, <1>5, HeadIs
      <4> QED BY <4>3, <4>4
    <3>2. consumer.finished = NotFinished
      <4>1. SUFFICES ASSUME consumer.finished # NotFinished PROVE FALSE
        OBVIOUS
      <4>2. consumer.finished.end = provider.next
        BY <1>1, <1>5, <4>1, SaidIsAhead
      <4>3. consumer.finished.end = consumer.next
        BY <2>1, <4>1 DEF Session, FinishOK
      <4> QED BY <2>1, <3>1, <4>2, <4>3
    <3>3. ~consumer.resume
      <4>1. SUFFICES ASSUME consumer.resume PROVE FALSE
        OBVIOUS
      <4>2. Resumes(consumer, u)
        BY <2>5, AccordIs
      <4>3. Numbered(Unknown, u)
        BY <1>7, <2>10, <4>1, <4>2 DEF Resumes
      <4>4. Follows(Unknown, u[1])
        BY <2>6, <4>3 DEF Numbered
      <4> QED BY <1>5, <2>6, <4>4 DEF Follows, Unknown
    <3>4. PICK t : t = Counted(consumer)
      OBVIOUS
    <3>5. r = [Result(t, <<>>) EXCEPT !.accept = consumer.next]
      BY <2>2, <2>10, <3>2, <3>3, <3>4 DEF OnApplication, Counted
    <3>6. r.s = t /\ r.send = <<>> /\ r.open /\ r.blame = "none"
      BY ONLY <3>5 DEF Result
    <3>7. t.next = consumer.next + 1 /\ t.phase = consumer.phase /\ t.resume = consumer.resume
      BY <2>1, <3>4, <1>7 DEF Counted, Consumers
    <3>8. Mild(consumer, r)
      BY <2>1, <3>4, <3>6, CountedTame, PlainOne DEF Mild, Utters, Limits
    <3>9. Height(Head(chan["consumer"])) = n + 1
      BY <1>1, <1>2, <1>5 DEF Height, Says
    <3>10. r.s.next <= Height(Head(chan["consumer"]))
      BY <2>1, <3>1, <3>6, <3>7, <3>9
    <3>11. /\ r.open => r.s.phase = consumer.phase
           /\ ~r.open => r.s.phase \in {"negotiated", "finalized"}
           /\ r.open => r.s.next <= consumer.next
                        \/ (/\ chan["consumer"] # <<>> /\ unread = Tail(chan["consumer"])
                            /\ r.s.next <= Height(Head(chan["consumer"])))
           /\ r.open => Resumes(r.s, unread \o Ready(provider))
      BY <1>5, <2>3, <3>3, <3>6, <3>7, <3>10 DEF Resumes
    <3> QED BY ONLY FlowInv, FlowInv', AccordInv, NeverAccused, <1>7, <2>8, <3>8, <3>11, MildAccords
  <2> QED BY <2>9, <2>10
<1> QED BY <1>6, <1>7

\* on_timeout of a request that stalls.
LEMMA AccordStall ==
    ASSUME FlowInv, FlowInv', AccordInv, NeverAccused, Stall
    PROVE  AccordInv' /\ NeverAccused'
<1>1. /\ consumer \in Consumers /\ side["consumer"] = consumer /\ consumer.next \in Nat
      /\ Session(consumer, handed, abandoned, origin)
      /\ abandoned \in SUBSET Nat /\ origin \in Nat
  BY ConsumerIs
<1>2. PICK r : r = OnStall(consumer)
  OBVIOUS
<1>3. PICK unread : unread = chan["consumer"]
  OBVIOUS
<1>4. /\ consumer.phase = "established" /\ consumer.request # NoRequest
      /\ Carry("consumer", r, unread, 0)
  BY <1>1, <1>2, <1>3 DEF Stall, Established, Does
<1>5. /\ Quiet(r) /\ Session(r.s, handed, abandoned, origin)
      /\ r.s.next = consumer.next /\ r.s.start = consumer.start
      /\ r.s.announced = consumer.announced
      /\ r.open => r.s.phase = consumer.phase /\ r.s.replay = consumer.replay
  BY <1>1, <1>2, <1>4, StallKeeps
<1>6. Mild(consumer, r)
  BY <1>1, <1>2, StallMild
<1>7. r.open => Resumes(r.s, unread \o Ready(provider))
  <2>1. r.s.resume => consumer.resume
    BY <1>6 DEF Mild, Tame
  <2>2. Resumes(consumer, unread \o Ready(provider))
    BY <1>3, AccordIs
  <2> QED BY <1>5, <2>1, <2>2 DEF Resumes
<1>8. Reads(chan["consumer"], unread) /\ consumer.phase \in {"established", "terminating"}
  BY <1>3, <1>4 DEF Reads
<1>9. /\ r.open => r.s.phase = consumer.phase
      /\ ~r.open => r.s.phase \in {"negotiated", "finalized"}
      /\ r.open => r.s.next <= consumer.next
                   \/ (/\ chan["consumer"] # <<>> /\ unread = Tail(chan["consumer"])
                       /\ r.s.next <= Height(Head(chan["consumer"])))
      /\ r.open => Resumes(r.s, unread \o Ready(provider))
  BY <1>1, <1>5, <1>7 DEF Quiet
<1> QED BY ONLY FlowInv, FlowInv', AccordInv, NeverAccused, <1>4, <1>6, <1>8, <1>9, MildAccords

-----------------------------------------------------------------------------
(* The consumer lets go of the transport                                    *)

\* A consumer that ends the binding, or gives up one that was not made.
LEMMA ConsumerDrops ==
    ASSUME FlowInv, FlowInv', AccordInv, NeverAccused, up["consumer"],
           NEW r, NEW unread, NEW n, Carry("consumer", r, unread, n), Reads(chan["consumer"], unread),
           ~r.open, r.s.phase \in {"negotiated", "finalized", "closed"},
           r.s.phase = "closed" => consumer.phase = "closed",
           Heeds(r.s), Utters(r), consumer.phase \in Binds \/ r.send = <<>>
    PROVE  AccordInv' /\ NeverAccused'
<1>1. "consumer" \in Sides /\ side["consumer"] = consumer /\ GreetInv
  BY TheSides, AccordIs
<1>2. r.s.next <= Expects(r.s)
  BY ConsumerAfter, ExpectsIs
<1>3. NumbersInv' /\ ResumesInv'
  BY <1>2, ConsumerAccords
<1>4. NeverAccused'
  BY BlameIs
<1>5. GreetInv'
  <2>1. CASE consumer.phase \in Binds
    <3>1. r.s.phase \in {"negotiated", "finalized"}
      BY <2>1 DEF Binds
    <3> QED BY <1>1, <2>1, <3>1, BoundGreets DEF Utters
  <2>2. CASE consumer.phase \notin Binds
    BY <1>1, <2>2, UnboundGreets
  <2> QED BY <2>1, <2>2
<1> QED BY <1>3, <1>4, <1>5 DEF AccordInv

\* The consumer as the accord has it.
LEMMA ConsumerHas ==
    ASSUME FlowInv, AccordInv
    PROVE  /\ consumer \in Consumers /\ side["consumer"] = consumer /\ consumer.next \in Nat
           /\ Session(consumer, handed, abandoned, origin)
           /\ abandoned \in SUBSET Nat /\ origin \in Nat
           /\ consumer.finalized => consumer.finished.answered
           /\ "none" \in Limits /\ Heeds(consumer)
           /\ consumer.phase \in Busy => up["consumer"]
           /\ Reads(chan["consumer"], chan["consumer"])
           /\ chan["consumer"] # <<>> => Reads(chan["consumer"], Tail(chan["consumer"]))
<1>1. Heeds(consumer)
  BY TameSame, MildHeeds
<1> QED BY <1>1, ConsumerIs, BoundHolds, TheSides DEF Heeds, Limits, Reads

\* terminate, with no error.
LEMMA AccordTerminates ==
    ASSUME FlowInv, FlowInv', AccordInv, NeverAccused, Terminate("consumer")
    PROVE  AccordInv' /\ NeverAccused'
<1>1. /\ consumer \in Consumers /\ side["consumer"] = consumer /\ consumer.next \in Nat
      /\ Reads(chan["consumer"], chan["consumer"])
  BY ConsumerHas
<1>2. PICK u : u = [consumer EXCEPT !.phase = "terminating"]
  OBVIOUS
<1>3. PICK m : m = TerminateMsg("Finished")
  OBVIOUS
<1>4. PICK r : r = Result(u, <<m>>)
  OBVIOUS
<1>5. PICK unread : unread = chan["consumer"]
  OBVIOUS
<1>6. consumer.phase = "established" /\ Carry("consumer", r, unread, 0)
  BY <1>1, <1>2, <1>3, <1>4, <1>5, TheSides DEF Terminate, Established, Does
<1>7. /\ u \in Consumers /\ u.phase = "terminating" /\ u.next = consumer.next
      /\ u.finished = consumer.finished /\ u.finalized = consumer.finalized
      /\ u.resume = consumer.resume /\ u.replay = consumer.replay
  BY <1>1, <1>2 DEF Consumers, Phases
<1>8. Tame(consumer, u)
  BY <1>7, TameSame
<1>9. m \in Message /\ m.kind \notin Shakes
  BY <1>3 DEF TerminateMsg, Message, Codes, Shakes
<1>10. PICK send : send = <<m>>
  OBVIOUS
<1>11. Mild(consumer, r) /\ r.open /\ r.s = u
  <2>1. r = Result(u, send) /\ (send = <<>> \/ \E k \in Message : k.kind \notin Shakes /\ send = <<k>>)
    BY <1>4, <1>9, <1>10
  <2> QED BY <1>8, <2>1, MildResult
<1>12. Heeds(r.s) /\ Utters(r)
  BY <1>11, MildHeeds DEF Mild
<1>13. Resumes(r.s, unread \o Ready(provider))
  <2>1. Resumes(consumer, unread \o Ready(provider))
    BY <1>5, AccordIs
  <2> QED BY <1>6, <1>7, <1>11, <2>1 DEF Resumes
<1>14. Expects(r.s) <= Expects(consumer)
  BY <1>1, <1>6, <1>7, <1>11 DEF Expects
<1>15. /\ consumer.phase \in Binds /\ Reads(chan["consumer"], unread)
       /\ r.open => r.s.phase \in Binds
       /\ ~r.open => r.s.phase \in {"negotiated", "finalized"}
       /\ r.open => Expects(r.s) <= Expects(consumer)
                    \/ (/\ chan["consumer"] # <<>> /\ unread = Tail(chan["consumer"])
                        /\ Expects(r.s) <= Height(Head(chan["consumer"])))
       /\ r.open => Resumes(r.s, unread \o Ready(provider))
  BY <1>1, <1>5, <1>6, <1>7, <1>11, <1>13, <1>14 DEF Binds
<1> QED BY ONLY FlowInv, FlowInv', AccordInv, NeverAccused, <1>6, <1>12, <1>15, BoundAccords

\* terminate with an error, and the timeout of a binding that is ending.
LEMMA AccordGivesUp ==
    ASSUME FlowInv, FlowInv', AccordInv, NeverAccused,
           TerminateOnError("consumer") \/ UnbindTimeout("consumer")
    PROVE  AccordInv' /\ NeverAccused'
<1>1. /\ consumer \in Consumers /\ side["consumer"] = consumer
      /\ Session(consumer, handed, abandoned, origin)
      /\ abandoned \in SUBSET Nat /\ origin \in Nat
      /\ Reads(chan["consumer"], chan["consumer"])
  BY ConsumerHas
<1>2. up["consumer"] /\ consumer.phase \in Binds
  BY <1>1, ConsumerHas DEF TerminateOnError, UnbindTimeout, Established, Binds, Busy
<1>3. CASE TerminateOnError("consumer")
  <2>1. PICK why : why = "none"
    OBVIOUS
  <2>2. why \in Verdicts /\ why \in Limits
    BY <2>1 DEF Verdicts, Limits
  <2>3. PICK r : r = FailWith("consumer", consumer, "Error", why)
    OBVIOUS
  <2>4. Carry("consumer", r, chan["consumer"], 0)
    BY <1>1, <1>3, <2>1, <2>3 DEF TerminateOnError, Does, Established
  <2>5. Mild(consumer, r) /\ ~r.open
    BY <1>1, <2>2, <2>3, FailMild
  <2>6. Quiet(r)
    BY <1>1, <2>2, <2>3, FailKeeps
  <2>7. Heeds(r.s) /\ Utters(r)
    BY <2>5, MildHeeds DEF Mild
  <2> QED BY <1>1, <1>2, <2>4, <2>5, <2>6, <2>7, ConsumerDrops DEF Quiet
<1>4. CASE UnbindTimeout("consumer")
  <2>1. PICK u : u = Unbound("consumer", ReleaseConsumer(consumer))
    OBVIOUS
  <2>2. PICK r : r = [Result(u, <<>>) EXCEPT !.open = FALSE]
    OBVIOUS
  <2>3. Carry("consumer", r, chan["consumer"], 0)
    BY <1>1, <1>4, <2>1, <2>2 DEF UnbindTimeout, Does, Release
  <2>4. r.s = u /\ r.send = <<>> /\ ~r.open /\ r.blame = "none"
    BY ONLY <2>2 DEF Result
  <2>5. Tame(consumer, u) /\ u.phase \in {"negotiated", "finalized"}
    BY <1>1, <2>1, UnboundTame, UnboundKeeps
  <2>6. Heeds(r.s) /\ Utters(r)
    BY <2>4, <2>5, MildHeeds, PlainOne DEF Utters, Limits
  <2> QED BY <1>1, <1>2, <2>3, <2>4, <2>5, <2>6, ConsumerDrops
<1> QED BY <1>3, <1>4

\* on_terminate.
LEMMA AccordHearsTerminate ==
    ASSUME FlowInv, FlowInv', AccordInv, NeverAccused, ReceiveTerminate("consumer")
    PROVE  AccordInv' /\ NeverAccused'
<1>1. /\ consumer \in Consumers /\ side["consumer"] = consumer /\ consumer.next \in Nat
      /\ Session(consumer, handed, abandoned, origin)
      /\ abandoned \in SUBSET Nat /\ origin \in Nat
      /\ consumer.finalized => consumer.finished.answered
  BY ConsumerHas
<1>2. PICK m : m = Head(chan["consumer"])
  OBVIOUS
<1>3. PICK unread : unread = Tail(chan["consumer"])
  OBVIOUS
<1>4. /\ up["consumer"] /\ chan["consumer"] # <<>> /\ m.kind = "Terminate"
      /\ Reads(chan["consumer"], unread)
  BY <1>2, <1>3, ConsumerHas DEF ReceiveTerminate, Arrives
<1>5. CASE consumer.phase \in {"negotiated", "establishing", "pending"}
  <2>1. PICK u : u = Unbound("consumer", consumer)
    OBVIOUS
  <2>2. PICK r : r = [Result(u, <<>>) EXCEPT !.open = FALSE]
    OBVIOUS
  <2>3. Carry("consumer", r, unread, 0)
    BY <1>1, <1>3, <1>5, <2>1, <2>2 DEF ReceiveTerminate, Hears
  <2>4. r.s = u /\ r.send = <<>> /\ ~r.open /\ r.blame = "none"
    BY ONLY <2>2 DEF Result
  <2>5. Tame(consumer, u) /\ u.phase \in {"negotiated", "finalized"}
    <3>1. u.phase \in {"negotiated", "finalized"}
      BY <1>1, <2>1 DEF Unbound, Consumers
    <3> QED BY <1>1, <2>1, <3>1, UnboundTame
  <2>6. Heeds(r.s) /\ Utters(r)
    BY <2>4, <2>5, MildHeeds, PlainOne DEF Utters, Limits
  <2> QED BY <1>4, <2>3, <2>4, <2>5, <2>6, ConsumerDrops
<1>6. CASE consumer.phase \notin {"negotiated", "establishing", "pending"}
  <2>1. PICK handled : handled = OnTerminate("consumer", consumer, m)
    OBVIOUS
  <2>2. PICK r : r = OnPeer("consumer", handled)
    OBVIOUS
  <2>3. Carry("consumer", r, unread, 0)
    BY <1>1, <1>2, <1>3, <1>6, <2>1, <2>2 DEF ReceiveTerminate, Hears
  <2>4. CASE consumer.phase \notin {"established", "terminating"}
    <3>1. consumer.phase \in {"closing", "finalized", "closed"}
      BY <1>1, <1>6, <2>4 DEF Consumers, Phases
    <3>2. r = Result(consumer, <<>>)
      BY <1>1, <2>2, <3>1 DEF OnPeer
    <3> QED BY <1>2, <1>3, <1>4, <2>3, <2>4, <3>2, ConsumerMinds
  <2>5. CASE consumer.phase \in {"established", "terminating"}
    <3>1. r = OnTerminate("consumer", consumer, m)
      BY <1>1, <2>1, <2>2, <2>5 DEF OnPeer
    <3>2. /\ r \in Results /\ r.accept = 0 /\ r.gone = {} /\ Session(r.s, handed, abandoned, origin)
          /\ r.s.next = consumer.next /\ r.s.start = consumer.start
          /\ r.s.announced = consumer.announced
          /\ r.open => r.s.phase = "closing"
          /\ ~r.open => r.s.phase \in {"negotiated", "finalized"}
      BY <1>1, <3>1, TerminateKeeps
    <3>3. /\ r.s.finished # NotFinished =>
                consumer.finished # NotFinished /\ r.s.finished.end = consumer.finished.end
          /\ r.s.phase = "finalized" => r.s.finalized
          /\ r.s.finalized => r.s.finished.answered
          /\ r.s.phase \notin {"established", "terminating"} /\ Utters(r)
      BY <1>1, <2>5, <3>1, TerminateMild
    <3>4. Heeds(r.s)
      BY <3>3, ConsumerHas DEF Heeds
    <3>5. Expects(r.s) <= Expects(consumer)
      BY <1>1, <2>5, <3>2 DEF Expects
    <3>6. /\ consumer.phase \in Binds
          /\ r.open => r.s.phase \in Binds
          /\ ~r.open => r.s.phase \in {"negotiated", "finalized"}
          /\ r.open => Expects(r.s) <= Expects(consumer)
                       \/ (/\ chan["consumer"] # <<>> /\ unread = Tail(chan["consumer"])
                           /\ Expects(r.s) <= Height(Head(chan["consumer"])))
          /\ r.open => Resumes(r.s, unread \o Ready(provider))
      BY <2>5, <3>2, <3>3, <3>5 DEF Binds, Resumes
    <3> QED BY ONLY FlowInv, FlowInv', AccordInv, NeverAccused, <1>4, <2>3, <3>3, <3>4, <3>6, BoundAccords
  <2> QED BY <2>4, <2>5
<1> QED BY <1>5, <1>6

\* on_transport_closed.
LEMMA AccordCloses ==
    ASSUME FlowInv, FlowInv', AccordInv, NeverAccused, TransportClosed("consumer")
    PROVE  AccordInv' /\ NeverAccused'
<1>1. /\ consumer \in Consumers /\ side["consumer"] = consumer
      /\ Session(consumer, handed, abandoned, origin)
      /\ abandoned \in SUBSET Nat /\ origin \in Nat
      /\ Reads(chan["consumer"], chan["consumer"])
  BY ConsumerHas
<1>2. PICK u : u = IF Bound("consumer") THEN Unbound("consumer", ReleaseConsumer(consumer))
                   ELSE IF consumer.phase \in {"establishing", "pending"}
                        THEN [consumer EXCEPT !.phase = "negotiated"] ELSE consumer
  OBVIOUS
<1>3. Bound("consumer") <=> consumer.phase \in Binds
  BY <1>1 DEF Bound, Binds
<1>4. up["consumer"] /\ (u.start = consumer.start => Closes("consumer", u))
  <2>1. side \in [consumer : Consumers, provider : Providers]
    BY DEF FlowInv, FlowTypeOK
  <2> QED BY <1>1, <1>2, <2>1 DEF TransportClosed, Release, Closes
<1>5. /\ u.start = consumer.start /\ Tame(consumer, u)
      /\ u.phase \in {"negotiated", "finalized", "closed"}
      /\ u.phase = "closed" => consumer.phase = "closed"
  <2>1. CASE Bound("consumer")
    <3>1. u = Unbound("consumer", ReleaseConsumer(consumer))
      BY <1>2, <2>1
    <3>2. u.start = consumer.start /\ u.phase \in {"negotiated", "finalized"}
      BY <1>1, <3>1, UnboundKeeps
    <3> QED BY <1>1, <3>1, <3>2, UnboundTame
  <2>2. CASE ~Bound("consumer") /\ consumer.phase \in {"establishing", "pending"}
    <3>1. u = [consumer EXCEPT !.phase = "negotiated"]
      BY <1>2, <2>2
    <3>2. /\ u.start = consumer.start /\ u.finished = consumer.finished
          /\ u.finalized = consumer.finalized /\ u.resume = consumer.resume /\ u.phase = "negotiated"
      BY <1>1, <3>1 DEF Consumers
    <3> QED BY <3>2, TameSame
  <2>3. CASE ~Bound("consumer") /\ consumer.phase \notin {"establishing", "pending"}
    <3>1. u = consumer
      BY <1>2, <2>3
    <3>2. consumer.phase \in {"negotiated", "finalized", "closed"}
      BY <1>1, <1>3, <2>3 DEF Consumers, Phases, Binds
    <3> QED BY <3>1, <3>2, TameSame
  <2> QED BY <2>1, <2>2, <2>3
<1>6. PICK r : r = Shut(u)
  OBVIOUS
<1>7. Carry("consumer", r, chan["consumer"], 0)
  <2>1. PICK x \in Sides : x = "consumer"
    BY TheSides
  <2>2. Closes(x, u)
    BY <1>4, <1>5, <2>1
  <2>3. Carry(x, r, chan[x], 0)
    BY ONLY FlowInv, <1>6, <2>2, ClosedIs, x \in Sides
  <2> QED BY <2>1, <2>3
<1>8. r.s = u /\ r.send = <<>> /\ ~r.open /\ r.blame = "none"
  BY ONLY <1>6 DEF Shut, Result
<1>9. Heeds(r.s) /\ Utters(r)
  BY <1>5, <1>8, MildHeeds, PlainOne DEF Utters, Limits
<1> QED BY <1>1, <1>4, <1>5, <1>7, <1>8, <1>9, ConsumerDrops

\* A consumer whose Establish was not taken, or that does not take one.
LEMMA ConsumerDeclines ==
    ASSUME FlowInv, FlowInv', AccordInv, NeverAccused, up["consumer"],
           NEW r, NEW unread, NEW n, Carry("consumer", r, unread, n), Reads(chan["consumer"], unread),
           r.s.phase \in {"negotiated", "establishing", "closed", "finalized"},
           r.s.next = consumer.next, Tame(consumer, r.s), r.blame \in Limits
    PROVE  NumbersInv' /\ ResumesInv' /\ NeverAccused'
<1>1. /\ consumer \in Consumers /\ consumer.next \in Nat /\ Expects(consumer) \in Nat
      /\ consumer.next <= Expects(consumer)
  BY AccordIs DEF InStep
<1>2. Expects(r.s) = consumer.next
  BY DEF Expects
<1>3. r.s.next <= Expects(r.s) /\ Advances(r.s, unread)
  BY <1>1, <1>2 DEF Advances
<1>4. Heeds(r.s)
  BY MildHeeds
<1>5. Resumes(r.s, unread \o Ready(provider))
  BY DEF Resumes
<1>6. NumbersInv' /\ ResumesInv'
  BY <1>3, <1>4, <1>5, ConsumerAccords
<1>7. NeverAccused'
  BY DEF Carry, NeverAccused, Limits
<1> QED BY <1>6, <1>7

\* handle_timeout while no session is bound.
LEMMA AccordTimeout ==
    ASSUME FlowInv, FlowInv', AccordInv, NeverAccused, HandshakeTimeout("consumer")
    PROVE  AccordInv' /\ NeverAccused'
<1>1. /\ consumer \in Consumers /\ side["consumer"] = consumer /\ GreetInv
      /\ Reads(chan["consumer"], chan["consumer"]) /\ "none" \in Limits
  BY ConsumerHas, AccordIs
<1>2. PICK u : u = Unbound("consumer", [consumer EXCEPT !.announced = 0])
  OBVIOUS
<1>3. PICK send : send = IF consumer.phase = "pending" THEN <<EstablishReject("Unspecified")>> ELSE <<>>
  OBVIOUS
<1>4. PICK r : r = [Result(u, send) EXCEPT !.open = FALSE]
  OBVIOUS
<1>5. /\ up["consumer"] /\ Carry("consumer", r, chan["consumer"], 0)
      /\ consumer.phase \in IF "consumer" = Client THEN {"establishing"} ELSE {"negotiated", "pending"}
  BY <1>1, <1>2, <1>3, <1>4 DEF HandshakeTimeout, Does
<1>6. r.s = u /\ r.send = send /\ ~r.open /\ r.blame = "none"
  BY ONLY <1>4 DEF Result
<1>7. /\ u.phase \in {"negotiated", "finalized"} /\ u.next = consumer.next /\ Tame(consumer, u)
  <2>1. PICK p \in Consumers : p = [consumer EXCEPT !.announced = 0]
    <3>1. [consumer EXCEPT !.announced = 0] \in Consumers
      BY <1>1 DEF Consumers
    <3> QED BY <3>1
  <2>2. /\ p.next = consumer.next /\ p.finished = consumer.finished /\ p.finalized = consumer.finalized
        /\ p.resume = consumer.resume /\ p.phase = consumer.phase
    BY <1>1, <2>1 DEF Consumers
  <2>3. u = [p EXCEPT !.phase = IF p.finalized THEN "finalized" ELSE "negotiated"]
    BY <1>2, <2>1 DEF Unbound
  <2>4. /\ u.next = p.next /\ u.finished = p.finished /\ u.finalized = p.finalized
        /\ u.resume = p.resume /\ u.phase = IF p.finalized THEN "finalized" ELSE "negotiated"
    BY <2>3 DEF Consumers
  <2> QED BY <2>2, <2>4 DEF Tame
<1>8. CASE consumer.phase # "pending"
  <2>1. send = <<>>
    BY <1>3, <1>8
  <2>2. Heeds(r.s) /\ Utters(r)
    BY <1>6, <1>7, <2>1, MildHeeds, PlainOne DEF Utters, Limits
  <2> QED BY <1>1, <1>5, <1>6, <1>7, <2>1, <2>2, ConsumerDrops
<1>9. CASE consumer.phase = "pending"
  <2>1. PICK m : m = EstablishReject("Unspecified")
    OBVIOUS
  <2>2. send = <<m>> /\ m \in Message /\ m.kind = "EstablishmentReject"
    BY <1>3, <1>9, <2>1 DEF EstablishReject, Message, Codes
  <2>3. NumbersInv' /\ ResumesInv' /\ NeverAccused'
    BY <1>1, <1>5, <1>6, <1>7, ConsumerDeclines
  <2>4. Server = "consumer"
    BY <1>5, <1>9, TheSides
  <2>5. Rejects(send)
    BY <2>2 DEF Rejects
  <2>6. GreetInv'
    BY <1>1, <1>5, <1>6, <1>7, <1>9, <2>4, <2>5, GreetsRefuses
  <2> QED BY <2>3, <2>6 DEF AccordInv
<1> QED BY <1>8, <1>9

\* establish, by a consumer that is the client.
LEMMA AccordEstablishes ==
    ASSUME FlowInv, FlowInv', AccordInv, NeverAccused, Client = "consumer", Establish
    PROVE  AccordInv' /\ NeverAccused'
<1>1. /\ consumer \in Consumers /\ side["consumer"] = consumer /\ GreetInv
      /\ Reads(chan["consumer"], chan["consumer"]) /\ "none" \in Limits
  BY ConsumerHas, AccordIs
<1>2. PICK m : m = [kind |-> "Establish", next |-> 0]
  OBVIOUS
<1>3. PICK u : u = [consumer EXCEPT !.phase = "establishing"]
  OBVIOUS
<1>4. PICK r : r = Result(u, <<m>>)
  OBVIOUS
<1>5. up["consumer"] /\ consumer.phase = "negotiated" /\ Carry("consumer", r, chan["consumer"], 0)
  BY <1>1, <1>2, <1>3, <1>4 DEF Establish, Does, AnnouncedNextSeq
<1>6. r.s = u /\ r.send = <<m>> /\ r.open /\ r.blame = "none"
  BY <1>4 DEF Result
<1>7. /\ u.phase = "establishing" /\ u.next = consumer.next /\ u.finished = consumer.finished
      /\ u.finalized = consumer.finalized /\ u.resume = consumer.resume
  BY <1>1, <1>3 DEF Consumers
<1>8. Tame(consumer, u)
  BY <1>7, TameSame
<1>9. NumbersInv' /\ ResumesInv' /\ NeverAccused'
  BY <1>1, <1>5, <1>6, <1>7, <1>8, ConsumerDeclines
<1>10. m \in Message /\ m.kind = "Establish"
  BY <1>2 DEF Message
<1>11. GreetInv'
  BY <1>1, <1>5, <1>6, <1>7, <1>10, GreetsAsks
<1> QED BY <1>9, <1>11 DEF AccordInv

\* reject_establishment of the consumer.
LEMMA AccordRejects ==
    ASSUME FlowInv, FlowInv', AccordInv, NeverAccused, Server = "consumer", RejectEstablishment
    PROVE  AccordInv' /\ NeverAccused'
<1>1. /\ consumer \in Consumers /\ side["consumer"] = consumer /\ GreetInv
      /\ Reads(chan["consumer"], chan["consumer"]) /\ "none" \in Limits
  BY ConsumerHas, AccordIs
<1>2. PICK m : m = EstablishReject("Unspecified")
  OBVIOUS
<1>3. PICK u : u = [consumer EXCEPT !.phase = "negotiated", !.announced = 0]
  OBVIOUS
<1>4. PICK r : r = Result(u, <<m>>)
  OBVIOUS
<1>5. up["consumer"] /\ consumer.phase = "pending" /\ Carry("consumer", r, chan["consumer"], 0)
  BY <1>1, <1>2, <1>3, <1>4 DEF RejectEstablishment, Does
<1>6. r.s = u /\ r.send = <<m>> /\ r.open /\ r.blame = "none"
  BY <1>4 DEF Result
<1>7. /\ u.phase = "negotiated" /\ u.next = consumer.next /\ u.finished = consumer.finished
      /\ u.finalized = consumer.finalized /\ u.resume = consumer.resume
  BY <1>1, <1>3 DEF Consumers
<1>8. Tame(consumer, u)
  BY <1>7, TameSame
<1>9. NumbersInv' /\ ResumesInv' /\ NeverAccused'
  BY <1>1, <1>5, <1>6, <1>7, <1>8, ConsumerDeclines
<1>10. m \in Message /\ m.kind = "EstablishmentReject"
  BY <1>2 DEF EstablishReject, Message, Codes
<1>11. Rejects(r.send)
  BY <1>6, <1>10 DEF Rejects
<1>12. GreetInv'
  BY <1>1, <1>5, <1>6, <1>7, <1>11, GreetsRefuses
<1> QED BY <1>9, <1>12 DEF AccordInv

-----------------------------------------------------------------------------
(* The handshake of the consumer                                            *)

\* A bound consumer takes no notice of a message that numbers nothing.
LEMMA BoundMinds ==
    ASSUME FlowInv, FlowInv', AccordInv, NeverAccused, up["consumer"], chan["consumer"] # <<>>,
           Head(chan["consumer"]).kind \notin Data, consumer.phase \in Binds,
           NEW r, r = Result(consumer, <<>>), NEW n, Carry("consumer", r, Tail(chan["consumer"]), n)
    PROVE  AccordInv' /\ NeverAccused'
<1>1. PICK unread : unread = Tail(chan["consumer"])
  OBVIOUS
<1>2. r.s = consumer /\ r.send = <<>> /\ r.open /\ r.blame = "none"
  BY DEF Result
<1>3. Heeds(r.s) /\ Utters(r)
  BY <1>2, ConsumerHas, PlainOne DEF Utters
<1>4. Resumes(consumer, unread \o Ready(provider))
  <2>1. CASE consumer.phase \in {"established", "terminating"}
    BY <1>1, <2>1, ResumesBehind
  <2>2. CASE consumer.phase \notin {"established", "terminating"}
    BY <2>2 DEF Resumes
  <2> QED BY <2>1, <2>2
<1>5. Expects(consumer) \in Nat
  BY AccordIs
<1>6. /\ Carry("consumer", r, unread, n) /\ Reads(chan["consumer"], unread)
      /\ r.open => r.s.phase \in Binds
      /\ ~r.open => r.s.phase \in {"negotiated", "finalized"}
      /\ r.open => Expects(r.s) <= Expects(consumer)
                   \/ (/\ chan["consumer"] # <<>> /\ unread = Tail(chan["consumer"])
                       /\ Expects(r.s) <= Height(Head(chan["consumer"])))
      /\ r.open => Resumes(r.s, unread \o Ready(provider))
  BY <1>1, <1>2, <1>4, <1>5 DEF Reads
<1> QED BY ONLY FlowInv, FlowInv', AccordInv, NeverAccused, consumer.phase \in Binds, <1>3, <1>6, BoundAccords

\* on_establishment_reject.
LEMMA AccordHearsReject ==
    ASSUME FlowInv, FlowInv', AccordInv, NeverAccused, Client = "consumer", ReceiveEstablishmentReject
    PROVE  AccordInv' /\ NeverAccused'
<1>1. /\ consumer \in Consumers /\ side["consumer"] = consumer /\ GreetInv /\ "none" \in Limits
  BY ConsumerHas, AccordIs
<1>2. PICK m : m = Head(chan["consumer"])
  OBVIOUS
<1>3. PICK r : r = OnReject(consumer, m)
  OBVIOUS
<1>4. /\ up["consumer"] /\ chan["consumer"] # <<>> /\ m.kind = "EstablishmentReject"
      /\ Carry("consumer", r, Tail(chan["consumer"]), 0)
  BY <1>1, <1>2, <1>3 DEF ReceiveEstablishmentReject, Arrives, Hears
<1>5. CASE consumer.phase # "establishing"
  <2>1. r = Result(consumer, <<>>)
    BY <1>3, <1>5 DEF OnReject
  <2>2. CASE consumer.phase \in Binds
    BY <1>2, <1>4, <2>1, <2>2, BoundMinds DEF Data
  <2>3. CASE consumer.phase \notin Binds
    BY <1>2, <1>4, <2>1, <2>3, ConsumerMinds DEF Binds
  <2> QED BY <2>2, <2>3
<1>6. CASE consumer.phase = "establishing"
  <2>1. PICK phase \in {"closed", "negotiated"} :
           phase = IF m.code = "Unnegotiated" THEN "closed" ELSE "negotiated"
    OBVIOUS
  <2>2. PICK u : u = [consumer EXCEPT !.phase = phase]
    OBVIOUS
  <2>3. r = Result(u, <<>>)
    BY <1>3, <1>6, <2>1, <2>2 DEF OnReject
  <2>4. r.s = u /\ r.send = <<>> /\ r.open /\ r.blame = "none"
    BY <2>3 DEF Result
  <2>5. /\ u.phase = phase /\ u.next = consumer.next /\ u.finished = consumer.finished
        /\ u.finalized = consumer.finalized /\ u.resume = consumer.resume
    BY <1>1, <2>2 DEF Consumers
  <2>6. Tame(consumer, u)
    BY <2>1, <2>5, TameSame
  <2>7. Reads(chan["consumer"], Tail(chan["consumer"]))
    BY <1>4 DEF Reads
  <2>8. NumbersInv' /\ ResumesInv' /\ NeverAccused'
    BY <1>1, <1>4, <2>1, <2>4, <2>5, <2>6, <2>7, ConsumerDeclines
  <2>9. GreetInv'
    BY <1>1, <1>2, <1>4, <1>6, <2>1, <2>4, <2>5, GreetsRejected
  <2> QED BY <2>8, <2>9 DEF AccordInv
<1> QED BY <1>5, <1>6

\* on_establish, by a consumer that is the server: it is not finalized, and the
\* client goes back behind nothing that arrived (regresses).
LEMMA AccordTakes ==
    ASSUME FlowInv, FlowInv', AccordInv, NeverAccused, Server = "consumer", ~Finishes, ReceiveEstablish
    PROVE  AccordInv' /\ NeverAccused'
<1>1. /\ consumer \in Consumers /\ side["consumer"] = consumer /\ GreetInv /\ consumer.next \in Nat
      /\ Concludes(consumer, provider, chan["consumer"])
  BY ConsumerHas, AccordIs
<1>2. PICK m : m = Head(chan["consumer"])
  OBVIOUS
<1>3. PICK r : r = OnEstablish(consumer, m)
  OBVIOUS
<1>4. PICK unread : unread = Tail(chan["consumer"])
  OBVIOUS
<1>5. /\ up["consumer"] /\ chan["consumer"] # <<>> /\ m.kind = "Establish"
      /\ Carry("consumer", r, unread, 0)
  BY <1>1, <1>2, <1>3, <1>4 DEF ReceiveEstablish, Arrives, Hears
<1>6. Reads(chan["consumer"], unread)
  BY <1>4, <1>5 DEF Reads
<1>7. consumer.phase = "negotiated"
  <2>1. consumer.phase \in {"negotiated", "finalized"}
    BY <1>1, <1>2, <1>5, EstablishFinds
  <2>2. SUFFICES ASSUME consumer.phase = "finalized" PROVE FALSE
    BY <2>1
  <2>3. consumer.finished.answered
    BY <1>1, <2>2 DEF Concludes
  <2>4. NotFinished.answered = FALSE
    BY DEF NotFinished
  <2>5. Ended(provider, consumer.finished.end)
    BY <1>1, <2>3, <2>4 DEF Concludes
  <2> QED BY <1>1, <2>5 DEF Ended, Concludes
<1>8. /\ consumer.next <= m.next /\ m.next \in Nat /\ Height(m) = m.next
  <2>1. Says(m) /\ Said(m) = m.next
    BY <1>5 DEF Says, Said
  <2>2. Expects(consumer) = consumer.next
    BY <1>7 DEF Expects
  <2> QED BY <1>2, <1>5, <2>1, <2>2, SaidIsAhead
<1>9. PICK u : u = [consumer EXCEPT !.phase = "pending", !.announced = m.next]
  OBVIOUS
<1>10. r = Result(u, <<>>)
  <2>1. ~Bound("consumer")
    BY <1>1, <1>7 DEF Bound
  <2>2. ~(m.next < consumer.next)
    BY <1>1, <1>8
  <2> QED BY <1>3, <1>7, <1>9, <2>1, <2>2 DEF OnEstablish
<1>11. r.s = u /\ r.send = <<>> /\ r.open /\ r.blame = "none"
  BY <1>10 DEF Result
<1>12. /\ u.phase = "pending" /\ u.announced = m.next /\ u.next = consumer.next
       /\ u.finished = consumer.finished
       /\ u.finalized = consumer.finalized /\ u.resume = consumer.resume
  BY <1>1, <1>9 DEF Consumers
<1>13. Heeds(r.s)
  BY <1>11, <1>12, TameSame, MildHeeds
<1>14. Expects(r.s) = m.next
  BY <1>11, <1>12 DEF Expects
<1>15. r.s.next <= Expects(r.s) /\ Advances(r.s, unread)
  BY <1>1, <1>2, <1>4, <1>5, <1>8, <1>11, <1>12, <1>14 DEF Advances
<1>16. Resumes(r.s, unread \o Ready(provider))
  BY <1>11, <1>12 DEF Resumes
<1>17. NumbersInv' /\ ResumesInv'
  BY <1>5, <1>6, <1>13, <1>15, <1>16, ConsumerAccords
<1>18. NeverAccused'
  BY <1>5, <1>11, PlainOne, BlameIs DEF Utters, Limits
<1>19. GreetInv'
  BY <1>1, <1>2, <1>4, <1>5, <1>7, <1>11, <1>12, GreetsTakes
<1> QED BY <1>17, <1>18, <1>19 DEF AccordInv

\* bind and on_established of the consumer: it starts from what was announced,
\* and nothing of a request is left.
LEMMA BindsTame ==
    ASSUME FlowInv, AccordInv, NEW next \in 1 .. MaxSeq + 1, Allows(consumer, next),
           NEW u, u = Bind("consumer", consumer), NEW q, q = OnEstablished("consumer", u, next)
    PROVE  /\ u \in Consumers /\ Tame(consumer, q.s) /\ Utters(q) /\ Quiet(q) /\ q.s.resume = FALSE
           /\ q.s.next \in {consumer.next, next} /\ q.s.phase # "pending"
           /\ q.open => q.s.next = next /\ q.s.phase = "established"
<1>1. /\ consumer \in Consumers /\ Session(consumer, handed, abandoned, origin)
      /\ abandoned \in SUBSET Nat /\ origin \in Nat
  BY ConsumerHas
<1>2. /\ u \in Consumers /\ Session(u, handed, abandoned, origin) /\ u.phase = "established"
      /\ u.next = consumer.next /\ u.start = consumer.start
  BY <1>1, BindKeeps
<1>3. PICK t : t = ReleaseConsumer(consumer)
  OBVIOUS
<1>4. /\ t \in Consumers /\ t.phase = consumer.phase /\ t.finished = consumer.finished
  BY <1>1, <1>3, ReleaseKeeps
<1>5. Tame(consumer, t) /\ t.resume = FALSE
  BY <1>1, <1>3, UnboundTame
<1>6. u = [t EXCEPT !.phase = "established", !.announced = 0]
  BY <1>3 DEF Bind, Release
<1>7. u.finished = t.finished /\ u.finalized = t.finalized /\ u.resume = t.resume
  BY <1>4, <1>6 DEF Consumers
<1>8. Tame(consumer, u)
  BY <1>2, <1>5, <1>7, TameSame, TameIs
<1>9. Allows(u, next)
  BY <1>2, <1>4, <1>7 DEF Allows
<1>10. Mild(u, q)
  BY <1>1, <1>2, <1>9, EstablishedMild
<1>11. Tame(consumer, q.s) /\ Utters(q) /\ ~q.s.resume
  <2>1. Tame(u, q.s) /\ Utters(q)
    BY <1>10 DEF Mild
  <2>2. q.s.resume => u.resume
    BY <2>1 DEF Tame
  <2> QED BY <1>5, <1>7, <1>8, <2>1, <2>2, TameIs
<1>12. PICK begun : begun = IF u.start THEN next ELSE origin
  OBVIOUS
<1>13. /\ Quiet(q) /\ q.s.next \in {u.next, next}
       /\ q.open => q.s.next = next /\ q.s.phase = "established"
  BY <1>1, <1>2, <1>12, EstablishedKeeps
<1>14. q.s.phase # "pending"
  <2>1. ~q.open => q.s.phase \in {"negotiated", "finalized"}
    BY <1>13 DEF Quiet
  <2> QED BY <1>13, <2>1
<1>15. q.s.resume = FALSE
  <2>1. q.s.resume \in BOOLEAN
    BY <1>13 DEF Quiet, Results, Consumers
  <2> QED BY <1>11, <2>1
<1>16. q.s.next \in {consumer.next, next} /\ (q.open => q.s.next = next /\ q.s.phase = "established")
  BY <1>2, <1>13
<1> QED BY ONLY <1>2, <1>11, <1>13, <1>14, <1>15, <1>16

\* What it was announced is ahead of what it has, and not past the end.
LEMMA Announced ==
    ASSUME FlowInv, AccordInv, NEW next \in Nat, 1 <= next, next <= provider.next,
           consumer.next <= next
    PROVE  Allows(consumer, next) /\ next \in 1 .. MaxSeq + 1
<1>1. provider.next \in 1 .. MaxSeq + 1 /\ provider.next \in Nat /\ MaxSeq \in Nat
  BY ConsumerIs
<1>2. next \in 1 .. MaxSeq + 1
  BY ONLY <1>1, next \in Nat, 1 <= next, next <= provider.next
<1>3. consumer.finished # NotFinished => Ended(provider, consumer.finished.end)
  BY AccordIs DEF Concludes
<1> QED BY <1>2, <1>3 DEF Allows, Ended

\* on_establishment_ack, by a consumer that is the client.
LEMMA AccordHearsAck ==
    ASSUME FlowInv, FlowInv', AccordInv, NeverAccused, Client = "consumer", ReceiveEstablishmentAck
    PROVE  AccordInv' /\ NeverAccused'
<1>1. /\ consumer \in Consumers /\ side["consumer"] = consumer /\ GreetInv /\ consumer.next \in Nat
      /\ "none" \in Limits
  BY ConsumerHas, AccordIs
<1>2. PICK m : m = Head(chan["consumer"])
  OBVIOUS
<1>3. PICK r : r = OnAck(consumer, m)
  OBVIOUS
<1>4. PICK unread : unread = Tail(chan["consumer"])
  OBVIOUS
<1>5. /\ up["consumer"] /\ chan["consumer"] # <<>> /\ m.kind = "EstablishmentAck"
      /\ Carry("consumer", r, unread, 0)
  BY <1>1, <1>2, <1>3, <1>4 DEF ReceiveEstablishmentAck, Arrives, Hears
<1>6. Reads(chan["consumer"], unread)
  BY <1>4, <1>5 DEF Reads
<1>7. CASE consumer.phase \in Binds
  <2>1. r = Result(consumer, <<>>)
    BY <1>3, <1>7 DEF OnAck, Binds
  <2> QED BY <1>2, <1>4, <1>5, <1>7, <2>1, BoundMinds DEF Data
<1>8. CASE consumer.phase \notin Binds /\ consumer.phase # "establishing"
  <2>1. r = Result(consumer, <<>>)
    BY <1>3, <1>8 DEF OnAck
  <2>2. r.s = consumer /\ r.send = <<>> /\ r.open /\ r.blame = "none"
    BY <2>1 DEF Result
  <2>3. consumer.phase # "pending" /\ consumer.phase # "negotiated"
    <3>1. ~Without(chan["consumer"], "EstablishmentAck")
      BY <1>2, <1>5, AccordIs DEF Without
    <3> QED BY <1>1, <1>5, <3>1, GreetIs DEF Greeting
  <2>4. consumer.phase \in {"closed", "finalized"}
    BY <1>1, <1>8, <2>3 DEF Consumers, Phases, Binds
  <2>5. Tame(consumer, consumer)
    BY TameSame
  <2>6. NumbersInv' /\ ResumesInv' /\ NeverAccused'
    BY <1>1, <1>5, <1>6, <2>2, <2>4, <2>5, ConsumerDeclines
  <2>7. r.send \in Seq(Message) /\ Plain(r.send)
    BY <2>2, PlainOne
  <2>8. GreetInv'
    BY <1>1, <1>2, <1>4, <1>5, <2>2, <2>4, <2>7, GreetsAcked
  <2> QED BY <2>6, <2>8 DEF AccordInv
<1>9. CASE consumer.phase = "establishing"
  <2>1. PICK next \in Nat : next = m.next /\ 1 <= next /\ next <= provider.next
    BY <1>2, <1>5, HeadIs
  <2>2. Says(m) /\ Said(m) = next
    BY <1>5, <2>1 DEF Says, Said
  <2>3. Expects(consumer) = consumer.next
    BY <1>9 DEF Expects
  <2>4. consumer.next <= next /\ Height(m) = next
    BY <1>2, <1>5, <2>2, <2>3, SaidIsAhead
  <2>5. Allows(consumer, next) /\ next \in 1 .. MaxSeq + 1
    BY <2>1, <2>4, Announced
  <2>6. PICK u : u = Bind("consumer", consumer)
    OBVIOUS
  <2>7. r = OnEstablished("consumer", u, next)
    BY <1>3, <1>9, <2>1, <2>6 DEF OnAck
  <2>8. /\ Tame(consumer, r.s) /\ Utters(r) /\ Quiet(r) /\ r.s.resume = FALSE
        /\ r.s.next \in {consumer.next, next} /\ r.s.phase # "pending"
        /\ r.open => r.s.next = next /\ r.s.phase = "established"
    BY ONLY FlowInv, AccordInv, <2>5, <2>6, <2>7, BindsTame
  <2>9. Expects(r.s) = r.s.next
    BY <2>8 DEF Expects
  <2>10. r.s.next <= Expects(r.s) /\ Advances(r.s, unread)
    <3>1. r.s.next \in Nat /\ r.s.next <= next
      BY <1>1, <2>1, <2>4, <2>8
    <3>2. Expects(r.s) <= Height(Head(chan["consumer"]))
      BY <1>2, <2>4, <2>9, <3>1
    <3> QED BY <1>4, <1>5, <2>9, <3>1, <3>2 DEF Advances
  <2>11. Heeds(r.s)
    BY <2>8, MildHeeds
  <2>12. Resumes(r.s, unread \o Ready(provider))
    BY <2>8 DEF Resumes
  <2>13. NumbersInv' /\ ResumesInv'
    BY <1>5, <1>6, <2>10, <2>11, <2>12, ConsumerAccords
  <2>14. NeverAccused'
    BY <1>5, <2>8, BlameIs
  <2>15. GreetInv'
    BY <1>1, <1>2, <1>4, <1>5, <2>8, GreetsAcked DEF Utters
  <2> QED BY <2>13, <2>14, <2>15 DEF AccordInv
<1> QED BY <1>7, <1>8, <1>9

\* accept_establishment, by a consumer that is the server.
LEMMA AccordAccepts ==
    ASSUME FlowInv, FlowInv', AccordInv, NeverAccused, Server = "consumer", AcceptEstablishment
    PROVE  AccordInv' /\ NeverAccused'
<1>1. /\ consumer \in Consumers /\ side["consumer"] = consumer /\ GreetInv /\ consumer.next \in Nat
      /\ consumer.announced <= provider.next
      /\ consumer.phase = "pending" => 1 <= consumer.announced
      /\ consumer.next <= Expects(consumer)
  BY ConsumerHas, AccordIs, ConsumerIs DEF InStep
<1>2. PICK u : u = Bind("consumer", consumer)
  OBVIOUS
<1>3. PICK ack : ack = [kind |-> "EstablishmentAck", next |-> 0]
  OBVIOUS
<1>4. PICK b : b = Result(u, <<ack>>)
  OBVIOUS
<1>5. PICK next \in Nat : next = consumer.announced
  BY <1>1, ConsumerFields
<1>6. PICK q : q = OnEstablished("consumer", u, next)
  OBVIOUS
<1>7. PICK r : r = Then(b, q)
  OBVIOUS
<1>8. b.s = u /\ b.send = <<ack>> /\ b.open /\ b.blame = "none"
  BY <1>4 DEF Result
<1>9. up["consumer"] /\ consumer.phase = "pending" /\ Carry("consumer", r, chan["consumer"], 0)
  <2>1. b = Result(Bind(Server, side[Server]),
                   <<[kind |-> "EstablishmentAck", next |-> AnnouncedNextSeq(Server)]>>)
    BY <1>1, <1>2, <1>3, <1>4 DEF AnnouncedNextSeq
  <2>2. /\ up[Server] /\ side[Server].phase = "pending"
        /\ Does(Server, Then(b, OnEstablished(Server, b.s, side[Server].announced)))
    BY <2>1, Zenon DEF AcceptEstablishment
  <2> QED BY <1>1, <1>5, <1>6, <1>7, <1>8, <2>2 DEF Does
<1>10. Expects(consumer) = next /\ consumer.next <= next /\ 1 <= next /\ next <= provider.next
  BY <1>1, <1>5, <1>9 DEF Expects
<1>11. Allows(consumer, next) /\ next \in 1 .. MaxSeq + 1
  BY <1>10, Announced
<1>12. /\ u \in Consumers /\ Tame(consumer, q.s) /\ Utters(q) /\ Quiet(q) /\ q.s.resume = FALSE
       /\ q.s.next \in {consumer.next, next} /\ q.s.phase # "pending"
       /\ q.open => q.s.next = next /\ q.s.phase = "established"
  BY ONLY FlowInv, AccordInv, <1>2, <1>6, <1>11, BindsTame
<1>13. q \in Results /\ q.send \in Seq(Message) /\ Plain(q.send) /\ q.blame \in Limits
  BY <1>12 DEF Quiet, Utters
<1>14. r = [q EXCEPT !.send = b.send \o @, !.gone = b.gone \union @,
                     !.accept = IF @ = 0 THEN b.accept ELSE @]
  BY <1>7, <1>8 DEF Then
<1>15. r.s = q.s /\ r.open = q.open /\ r.blame = q.blame /\ r.send = <<ack>> \o q.send
  BY ONLY <1>8, <1>13, <1>14 DEF Results
<1>16. ack \in Message /\ ack.kind = "EstablishmentAck"
  BY <1>3 DEF Message
<1>17. Acks(r.send)
  BY <1>13, <1>15, <1>16 DEF Acks
<1>18. Expects(r.s) = r.s.next
  BY <1>12, <1>15 DEF Expects
<1>19. r.s.next <= Expects(r.s) /\ Advances(r.s, chan["consumer"])
  <2>1. r.s.next \in Nat /\ r.s.next <= next
    BY <1>1, <1>10, <1>12, <1>15
  <2> QED BY <1>10, <1>18, <2>1 DEF Advances
<1>20. Heeds(r.s)
  BY <1>12, <1>15, MildHeeds
<1>21. Resumes(r.s, chan["consumer"] \o Ready(provider))
  BY <1>12, <1>15 DEF Resumes
<1>22. Reads(chan["consumer"], chan["consumer"])
  BY DEF Reads
<1>23. NumbersInv' /\ ResumesInv'
  BY <1>9, <1>19, <1>20, <1>21, <1>22, ConsumerAccords
<1>24. NeverAccused'
  BY <1>9, <1>13, <1>15 DEF Carry, NeverAccused, Limits
<1>25. Holds(r.s.phase, r.open)
  <2>1. ~q.open => q.s.phase \in {"negotiated", "finalized"}
    BY <1>12 DEF Quiet
  <2>2. q.open \in BOOLEAN
    BY <1>13 DEF Results
  <2> QED BY <1>12, <1>15, <2>1, <2>2 DEF Holds, Binds, Busy
<1>26. GreetInv'
  BY <1>1, <1>9, <1>17, <1>25, GreetsAccepts
<1> QED BY <1>23, <1>24, <1>26 DEF AccordInv

-----------------------------------------------------------------------------
(* The invariant holds                                                      *)

\* A new transport is clear, and either end is as it was.
LEMMA AccordConnects ==
    ASSUME FlowInv, AccordInv, NeverAccused, Connect
    PROVE  AccordInv' /\ NeverAccused'
<1>1. side' = side /\ chan' = chan /\ blame' = blame
  BY DEF Connect, history
<1>2. consumer' = consumer /\ provider' = provider
  BY <1>1 DEF consumer, provider
<1>3. NumbersInv' /\ ResumesInv' /\ NeverAccused'
  BY <1>1, <1>2 DEF AccordInv, NumbersInv, ResumesInv, NeverAccused
<1>4. GreetInv'
  BY GreetsNew DEF AccordInv
<1> QED BY <1>3, <1>4 DEF AccordInv

\* Nothing is said, and nobody accused.
LEMMA AccordInit == Init => AccordInv /\ NeverAccused
<1> SUFFICES ASSUME Init PROVE AccordInv /\ NeverAccused
  OBVIOUS
<1>1. consumer = NewConsumer /\ provider = NewProvider
  BY DEF Init, consumer, provider
<1>2. /\ chan["consumer"] = <<>> /\ chan["provider"] = <<>>
      /\ chan[Client] = <<>> /\ chan[Server] = <<>>
      /\ side[Client].phase = "negotiated" /\ side[Server].phase = "negotiated"
      /\ up[Client] = FALSE /\ up[Server] = FALSE
  BY TheSides DEF Init, NewConsumer, NewProvider
<1>3. Len(<<>>) = 0 /\ \A kind : Without(<<>>, kind) /\ Lone(<<>>, kind)
  BY NothingSent
<1>4. /\ consumer.phase = "negotiated" /\ consumer.next = 1 /\ consumer.finished = NotFinished
      /\ consumer.finalized = FALSE /\ provider.ended = FALSE
  BY <1>1 DEF NewConsumer, NewProvider
<1>5. NumbersInv
  <2>1. InStep(consumer, <<>>)
    BY <1>3, <1>4 DEF InStep, Expects, Rising, Above
  <2>2. Concludes(consumer, provider, <<>>)
    BY <1>3, <1>4 DEF Concludes
  <2> QED BY <1>2, <2>1, <2>2 DEF NumbersInv
<1>6. ResumesInv
  BY <1>4 DEF ResumesInv, Resumes
<1>7. GreetInv
  <2>1. Greeting("negotiated", "negotiated", FALSE, FALSE, <<>>, <<>>)
    BY <1>3 DEF Greeting, Busy
  <2> QED BY <1>2, <2>1 DEF GreetInv
<1>8. NeverAccused
  BY DEF Init, NeverAccused
<1> QED BY <1>5, <1>6, <1>7, <1>8 DEF AccordInv

\* The handshake, whichever end is the client (establish, on_handshake).  A
\* consumer that is the server and is finalized refuses the next Establish, so
\* there the provider is to end no flow.
LEMMA AccordHandshake ==
    ASSUME ConsumerIsClient \/ ~Finishes, FlowInv, FlowInv', AccordInv, NeverAccused,
           \/ Establish \/ ReceiveEstablish \/ AcceptEstablishment \/ RejectEstablishment
           \/ ReceiveEstablishmentAck \/ ReceiveEstablishmentReject
    PROVE  AccordInv' /\ NeverAccused'
<1>1. CASE ConsumerIsClient
  <2>1. Client = "consumer" /\ Server = "provider"
    BY <1>1 DEF Client, Server, Other
  <2> QED BY <2>1, AccordEstablishes, AccordHearsAck, AccordHearsReject, AccordServerHandshake
<1>2. CASE ~ConsumerIsClient
  <2>1. Client = "provider" /\ Server = "consumer" /\ ~Finishes
    BY <1>2 DEF Client, Server, Other
  <2> QED BY <2>1, AccordServerHandshake, AccordTakes, AccordAccepts, AccordRejects
<1> QED BY <1>1, <1>2

\* What either end may do to the session by itself, or a transport to both
\* (on_transport_closed, terminate, on_timeout).
LEMMA AccordEither ==
    ASSUME FlowInv, FlowInv', AccordInv, NeverAccused, NEW x \in Sides,
           \/ TransportClosed(x) \/ HandshakeTimeout(x) \/ ReceiveTerminate(x)
           \/ Terminate(x) \/ TerminateOnError(x) \/ UnbindTimeout(x)
    PROVE  AccordInv' /\ NeverAccused'
<1>1. CASE x = "consumer"
  BY <1>1, AccordCloses, AccordTimeout, AccordHearsTerminate, AccordTerminates, AccordGivesUp
<1>2. CASE x = "provider"
  BY <1>2, AccordServerCloses, AccordServerTimeout, AccordServerHearsTerminate, AccordServerEnds
<1> QED BY <1>1, <1>2, TheSides

\* No step makes either end say what the other would not take.
LEMMA AccordNext ==
    ASSUME ConsumerIsClient \/ ~Finishes,
           FlowInv, FlowInv', ServiceInv, AccordInv, NeverAccused, [Next]_vars
    PROVE  AccordInv' /\ NeverAccused'
<1>1. CASE UNCHANGED vars
  BY <1>1 DEF vars, AccordInv, NumbersInv, ResumesInv, GreetInv, NeverAccused, consumer, provider
<1>2. CASE Connect
  BY <1>2, AccordConnects
<1>3. CASE \/ Establish \/ ReceiveEstablish \/ AcceptEstablishment \/ RejectEstablishment
           \/ ReceiveEstablishmentAck \/ ReceiveEstablishmentReject
  BY <1>3, AccordHandshake
<1>4. CASE \/ SendApplication \/ Heartbeat \/ RejectRequest \/ EndRetransmission \/ FinishSending
           \/ ReceiveRetransmitRequest \/ ReceiveFinishedReceiving
  BY <1>4, AccordSends, AccordHeartbeat, AccordServed, AccordFinishes, AccordTakesRequest,
     AccordFinishedReceiving
<1>5. ASSUME NEW count \in 1 .. MaxRetransmitCount, Retransmit(count)
      PROVE  AccordInv' /\ NeverAccused'
  BY <1>5, AccordBatch
<1>6. ASSUME NEW count \in 1 .. MaxRetransmitCount, NEW written \in 0 .. count - 1,
             RetransmitCut(count, written)
      PROVE  AccordInv' /\ NeverAccused'
  BY <1>6, AccordCut
<1>7. CASE \/ ReceiveSequence \/ ReceiveApplication \/ ReceiveRetransmission
           \/ ReceiveRetransmitReject \/ ReceiveFinishedSending \/ Stall
  BY <1>7, AccordSequence, AccordApplication, AccordRetransmission, AccordReject,
     AccordFinishedSending, AccordStall
<1>8. ASSUME NEW x \in Sides,
             \/ TransportClosed(x) \/ HandshakeTimeout(x) \/ ReceiveTerminate(x)
             \/ Terminate(x) \/ TerminateOnError(x) \/ UnbindTimeout(x)
      PROVE  AccordInv' /\ NeverAccused'
  BY <1>8, AccordEither
<1> QED BY <1>1, <1>2, <1>3, <1>4, <1>5, <1>6, <1>7, <1>8 DEF Next

\* Neither end of a flow, driven as the engine drives it, is ever accused of a
\* protocol violation by the other (Session::fail, ProtocolViolation): across
\* handshakes, batches, stalls, terminations and new transports the only
\* verdicts are the consumer's own limits on its gaps.  Left out are the stall
\* of ReRequestAfterBatch, which provokes a second request, and the consumer
\* that is the server of a flow that ends, which refuses the next Establish.
THEOREM NoEndIsAccused ==
    ASSUME Policy # "ReRequestAfterBatch", ConsumerIsClient \/ ~Finishes
    PROVE  Spec => []NeverAccused
<1>1. Init => FlowInv /\ ServiceInv /\ AccordInv /\ NeverAccused
  BY FlowInvInit, ServiceInit, AccordInit
<1>2. FlowInv /\ [Next]_vars => FlowInv'
  BY FlowInvNext DEF Keeps
<1>3. FlowInv /\ ServiceInv /\ [Next]_vars => ServiceInv'
  BY ServiceNext
<1>4. FlowInv /\ FlowInv' /\ ServiceInv /\ AccordInv /\ NeverAccused /\ [Next]_vars
      => AccordInv' /\ NeverAccused'
  BY AccordNext
<1> QED BY <1>1, <1>2, <1>3, <1>4, PTL DEF Spec

=============================================================================
