------------------------- MODULE ResendReplayProofs -------------------------
(***************************************************************************)
(* Resends for every value of the constants: the answers keep the promise  *)
(* of ReplayPromise, their gap fills hide nothing the store holds, and a   *)
(* counterparty that asked for all it lacked is caught up.                 *)
(***************************************************************************)
EXTENDS ResendReplay, FiniteSetTheorems, SequenceTheorems, TLAPS

-----------------------------------------------------------------------------
(* Numbers of a set, and pages of the store                                 *)

\* A set of numbers has a least one.  The strict subset ordering of the
\* library is well founded, and 0 .. m is below 0 .. n when m is below n.
LEMMA LeastNumber ==
    ASSUME NEW S, S \subseteq Nat, S # {}
    PROVE  \E least \in S : \A n \in S : least <= n
<1> DEFINE R == StrictSubsetOrdering(Nat)
           F == FiniteSubsetsOf(Nat)
           T == { 0 .. n : n \in S }
<1>1. IsWellFoundedOn(R, F)
  BY FS_StrictSubsetOrderingWellFounded
<1>2. T \subseteq F
  <2>1. ASSUME NEW n \in S PROVE 0 .. n \in F
    <3>1. IsFiniteSet(0 .. n)
      BY FS_Interval
    <3>2. 0 .. n \in SUBSET Nat
      OBVIOUS
    <3> QED BY <3>1, <3>2 DEF FiniteSubsetsOf
  <2> QED BY <2>1
<1>3. T # {} /\ \A n \in S : 0 .. n \in T
  OBVIOUS
<1>4. \A x \in T : \E n \in S : x = 0 .. n
  OBVIOUS
<1> HIDE DEF R, F, T
<1>5. PICK x \in T : \A y \in T : <<y, x>> \notin R
  BY <1>1, <1>2, <1>3, WFMin, Zenon
<1>6. PICK least \in S : x = 0 .. least
  BY <1>4
<1>7. ASSUME NEW n \in S, n < least PROVE FALSE
  <2>1. 0 .. n \in SUBSET Nat /\ 0 .. least \in SUBSET Nat
    OBVIOUS
  <2>2. 0 .. n \subseteq 0 .. least
    BY <1>7
  <2>3. least \in 0 .. least /\ least \notin 0 .. n
    BY <1>7
  <2>4. <<0 .. n, 0 .. least>> \in R
    BY <2>1, <2>2, <2>3 DEF R, StrictSubsetOrdering
  <2> QED BY <2>4, <1>3, <1>5, <1>6
<1> QED BY <1>6, <1>7

\* The greatest number of a set that is bounded.
LEMMA MaxIsGreatest ==
    ASSUME NEW S, NEW top \in Nat, S \subseteq 0 .. top, S # {}
    PROVE  Max(S) \in S /\ \A n \in S : n <= Max(S)
<1> DEFINE T == { top - n : n \in S }
<1>1. \A n \in S : n \in Nat /\ top - n \in Nat
  OBVIOUS
<1>2. \A n \in S : top - n \in T
  OBVIOUS
<1>3. \A t \in T : \E n \in S : t = top - n
  OBVIOUS
<1> HIDE DEF T
<1>4. T \subseteq Nat /\ T # {}
  BY <1>1, <1>2, <1>3
<1> PICK t \in T : \A u \in T : t <= u
  BY <1>4, LeastNumber
<1>5. PICK m \in S : t = top - m
  BY <1>3
<1>6. \A n \in S : m >= n
  BY <1>1, <1>2, <1>5
<1> QED BY <1>6 DEF Max

\* get_page reads within the range asked for.  A page shorter than the limit,
\* or one that reaches the end, is all that is filed there; a full one is all
\* that is filed up to its last entry.
LEMMA PageReads ==
    ASSUME ResendAssumption, NEW from \in Nat, NEW through \in Nat,
           NEW page, page = Page(from, through)
    PROVE  /\ page \subseteq from .. through
           /\ Cardinality(page) < PageLimit \/ through \in page =>
                \A n \in from .. through : store[n] # "none" => n \in page
           /\ Cardinality(page) >= PageLimit =>
                /\ Max(page) \in page
                /\ \A n \in page : n <= Max(page)
                /\ \A n \in from .. Max(page) : store[n] # "none" => n \in page
<1> DEFINE filed == { n \in from .. through : store[n] # "none" }
           below(n) == { k \in filed : k < n }
<1>1. PageLimit \in Nat \ {0}
  BY DEF ResendAssumption
<1>2. \A n : n \in page <=> n \in filed /\ Cardinality(below(n)) < PageLimit
  BY DEF Page
<1>3. IsFiniteSet(from .. through)
  BY FS_Interval
<1>4. IsFiniteSet(filed) /\ IsFiniteSet(page)
  <2>1. filed \in SUBSET (from .. through)
    OBVIOUS
  <2>2. page \in SUBSET (from .. through)
    BY <1>2
  <2> QED BY <2>1, <2>2, <1>3, FS_Subset
<1>5. \A n : IsFiniteSet(below(n)) /\ Cardinality(below(n)) \in Nat
  <2>1. \A n : below(n) \in SUBSET filed
    OBVIOUS
  <2> QED BY <2>1, <1>4, FS_Subset, FS_CardinalityType
<1>6. Cardinality(page) \in Nat
  BY <1>4, FS_CardinalityType
<1>7. page \subseteq from .. through
  BY <1>2
<1>8. ASSUME NEW n \in page, NEW k \in filed, k <= n PROVE k \in page
  <2>0. filed \subseteq Nat /\ n \in Nat /\ k \in Nat
    BY <1>7
  <2>1. below(k) \in SUBSET below(n)
    BY <2>0, <1>8
  <2>2. Cardinality(below(k)) <= Cardinality(below(n))
    BY <2>1, <1>5, FS_Subset
  <2>3. Cardinality(below(k)) \in Nat /\ Cardinality(below(n)) \in Nat
    BY <1>5
  <2> QED BY <2>2, <2>3, <1>1, <1>2
<1>9. ASSUME Cardinality(page) < PageLimit PROVE filed \subseteq page
  <2> SUFFICES ASSUME filed \ page # {} PROVE FALSE
    OBVIOUS
  <2>1. PICK least \in filed \ page : \A n \in filed \ page : least <= n
    <3>1. filed \ page \subseteq Nat
      OBVIOUS
    <3> HIDE DEF filed
    <3> QED BY <3>1, LeastNumber
  <2>2. below(least) \in SUBSET page
    BY <2>1
  <2>3. Cardinality(below(least)) <= Cardinality(page)
    BY <2>2, <1>4, FS_Subset
  <2>4. Cardinality(below(least)) \in Nat
    BY <1>5
  <2>5. Cardinality(below(least)) < PageLimit
    BY <2>3, <2>4, <1>1, <1>6, <1>9
  <2> QED BY <2>1, <2>5, <1>2, Zenon
<1>10. ASSUME through \in page PROVE filed \subseteq page
  BY <1>8, <1>10
<1>11. ASSUME Cardinality(page) >= PageLimit
       PROVE  /\ Max(page) \in page
              /\ \A n \in page : n <= Max(page)
              /\ \A n \in from .. Max(page) : store[n] # "none" => n \in page
  <2>1. page # {}
    BY <1>1, <1>11, FS_EmptySet
  <2>2. page \subseteq 0 .. through
    BY <1>7
  <2>3. Max(page) \in page /\ \A n \in page : n <= Max(page)
    BY <2>1, <2>2, MaxIsGreatest
  <2>4. ASSUME NEW n \in from .. Max(page), store[n] # "none" PROVE n \in page
    <3>1. Max(page) \in from .. through
      BY <2>3, <1>7
    <3>2. n \in filed /\ n <= Max(page)
      BY <2>4, <3>1
    <3> QED BY <3>2, <2>3, <1>8
  <2> QED BY <2>3, <2>4
<1> QED BY <1>7, <1>9, <1>10, <1>11

-----------------------------------------------------------------------------
(* The invariant                                                            *)

\* The first number a resend has not answered.
Due(job) == IF job.pending # 0 THEN job.pending ELSE job.cursor

\* A message still to be replayed is in the page in hand, or in a page not
\* read yet, or behind a read that failed.
Covered(job) ==
    \A n \in job.cursor .. EndSeq(job) :
        store[n] = "app" => \/ n \in job.page
                            \/ ~job.done /\ n >= job.from
                            \/ job.blind # 0 /\ n >= job.blind

Sound(job) ==
    /\ job \in Resends
    /\ job.cursor <= job.to /\ job.to <= nextSender
    /\ job.pending # 0 => job.pending + 1 = job.cursor
    /\ job.blind # 0 => job.done
    /\ ~job.done => \A n \in job.page : n < job.from
    /\ Covered(job)

Unstarted(job) ==
    /\ job.cursor < job.to
    /\ job.from = job.cursor
    /\ job.page = {} /\ job.pending = 0 /\ ~job.done /\ job.blind = 0

\* Only the first resend has started, and a request may join the last one.
QueueInv ==
    \A i \in DOMAIN replays : Sound(replays[i]) /\ (i > 1 => Unstarted(replays[i]))

\* A resend that takes the counterparty to the end: of what was sent, or of
\* what precedes the Logon that it holds.
Catches(job) ==
    /\ Due(job) <= peer.expect
    /\ \/ job.to = nextSender
       \/ job.to = peer.logon /\ peer.logon + 1 = nextSender

PeerInv ==
    /\ peer.expect <= nextSender /\ peer.logon < nextSender
    /\ peer.expect # peer.logon
    /\ peer.asked /\ phase # "closed" =>
         \/ peer.expect = nextSender
         \/ \E i \in DOMAIN replays : Catches(replays[i])

\* What is over owes nothing, and what was held is written behind no resend.
OverInv ==
    /\ phase # "closed" => nextSender \in Numbers
    /\ phase = "closed" => replays = <<>> /\ ~finishing
    /\ finishing => replays = <<>>

ResendInv == TypeOK /\ OverInv /\ QueueInv /\ PeerInv

-----------------------------------------------------------------------------
(* A step of the resend under way                                           *)

\* A frame that answers the numbers due up to `to`; a fill hides nothing.
Frame(job, to) ==
    /\ to \in Due(job) + 1 .. job.to
    /\ said' \in {"replay", "fill"}
    /\ said' = "replay" => to = Due(job) + 1
    /\ said' = "fill" =>
         \A n \in Due(job) .. to - 1 :
             store[n] \in {"none", "silent"} \/ (job.blind # 0 /\ n >= job.blind)
    /\ peer' = Reaches(peer, Due(job), to)

\* The resend goes on from `at`.
Continues(job, at) ==
    \E then : /\ Sound(then)
              /\ Due(then) = at
              /\ then.to = job.to
              /\ Advanced(then)

Answers(job) ==
    \/ \E to \in Numbers : Frame(job, to) /\ Continues(job, to)
    \/ Frame(job, job.to) /\ replays' = Tail(replays)
    \/ UNCHANGED wire /\ Continues(job, Due(job))
    \/ UNCHANGED wire /\ Due(job) = job.to /\ replays' = Tail(replays)

LEMMA NumbersAreNat ==
    ASSUME ResendAssumption
    PROVE  /\ Numbers \subseteq Nat \ {0}
           /\ MaxSeq \in Nat /\ MaxSeq + 1 \in Numbers /\ PageLimit \in Nat \ {0}
BY DEF ResendAssumption, Numbers

LEMMA SendPendingAnswers ==
    ASSUME ResendAssumption, NEW job, Sound(job), phase' = phase, phase # "closed",
           SendPending(job)
    PROVE  Answers(job)
<1> DEFINE then == [job EXCEPT !.pending = 0]
<1>1. /\ job.pending # 0
      /\ FeedOld("replay", job.pending, job.pending + 1)
      /\ Advanced(then)
  BY DEF SendPending, SendReplay, Dropped
<1>2. /\ job \in Resends
      /\ job.cursor \in Nat /\ job.to \in Nat /\ job.pending \in Nat
      /\ job.cursor \in Numbers
  BY NumbersAreNat DEF Sound, Resends
<1>3. /\ job.pending + 1 = job.cursor /\ job.cursor <= job.to
      /\ Due(job) = job.pending
  BY <1>1 DEF Sound, Due
<1>4. /\ then \in Resends /\ then.pending = 0
      /\ \A f \in {"cursor", "to", "from", "done", "page", "blind"} : then[f] = job[f]
  BY <1>2 DEF Resends
<1>5. Sound(then) /\ Due(then) = job.cursor /\ then.to = job.to
  BY <1>4 DEF Sound, Due, Covered, EndSeq
<1>6. Frame(job, job.cursor)
  BY <1>1, <1>2, <1>3 DEF FeedOld, Frame
<1> QED BY <1>1, <1>2, <1>5, <1>6 DEF Answers, Continues

\* The messages below the first one to replay are not the page's, nor behind it.
LEMMA SendNextAnswers ==
    ASSUME ResendAssumption, TypeOK, NEW job, Sound(job), phase' = phase, phase # "closed",
           SendNext(job)
    PROVE  Answers(job)
<1>1. PICK seq \in ToReplay(job) :
        LET rest == [job EXCEPT !.cursor = seq + 1, !.page = { n \in @ : n > seq }]
        IN /\ \A other \in ToReplay(job) : seq <= other
           /\ IF seq = job.cursor
              THEN SendReplay(rest, seq)
              ELSE /\ FeedOld("fill", job.cursor, seq)
                   /\ Advanced([rest EXCEPT !.pending = seq])
                   /\ UNCHANGED <<held, finishing, phase>>
  BY DEF SendNext
<1> DEFINE rest == [job EXCEPT !.cursor = seq + 1, !.page = { n \in @ : n > seq }]
<1>2. /\ job \in Resends /\ job.pending = 0 /\ Due(job) = job.cursor
      /\ job.cursor \in Nat /\ job.to \in Nat /\ job.from \in Nat /\ job.blind \in Nat
      /\ job.to \in Numbers /\ job.page \subseteq Numbers /\ job.done \in BOOLEAN
      /\ Numbers \subseteq Nat \ {0}
  BY NumbersAreNat DEF Sound, Resends, SendNext, Due
<1>3. /\ seq \in job.page /\ seq \in Nat /\ seq # 0
      /\ job.cursor <= seq /\ seq < job.to
      /\ store[seq] = "app"
  BY <1>2 DEF ToReplay, Replayed, EndSeq
<1>4. seq + 1 \in Numbers /\ seq \in Numbers
  BY <1>2, <1>3 DEF Numbers
<1>5. /\ rest \in Resends
      /\ rest.cursor = seq + 1 /\ rest.page = { n \in job.page : n > seq }
      /\ \A f \in {"to", "from", "done", "pending", "blind"} : rest[f] = job[f]
  <2>1. { n \in job.page : n > seq } \in SUBSET Numbers
    BY <1>2
  <2> QED BY <1>2, <1>4, <2>1 DEF Resends
<1>6. Covered(rest)
  BY <1>2, <1>3, <1>5 DEF Sound, Covered, EndSeq
<1>7. Sound(rest) /\ Due(rest) = seq + 1 /\ rest.to = job.to
  <2>1. \A n \in rest.page : n \in job.page
    BY <1>5
  <2>2. rest.cursor <= rest.to /\ rest.to <= nextSender
    BY <1>3, <1>2, <1>5 DEF Sound
  <2>3. rest.pending = 0 /\ Due(rest) = seq + 1
    BY <1>2, <1>5 DEF Due
  <2> QED BY <1>5, <1>6, <2>1, <2>2, <2>3 DEF Sound
<1>8. CASE seq = job.cursor
  <2>1. FeedOld("replay", seq, seq + 1) /\ Advanced(rest)
    BY <1>1, <1>8 DEF SendReplay, Dropped
  <2>2. Frame(job, seq + 1)
    BY <2>1, <1>2, <1>3, <1>8 DEF FeedOld, Frame
  <2> QED BY <2>1, <2>2, <1>4, <1>7 DEF Answers, Continues
<1>9. CASE seq # job.cursor
  <2> DEFINE then == [rest EXCEPT !.pending = seq]
  <2>1. FeedOld("fill", job.cursor, seq) /\ Advanced(then)
    BY <1>1, <1>9
  <2>2. /\ then \in Resends /\ then.pending = seq
        /\ \A f \in {"cursor", "page", "to", "from", "done", "blind"} : then[f] = rest[f]
    BY <1>4, <1>5 DEF Resends
  <2>3. Sound(then) /\ Due(then) = seq /\ then.to = job.to
    BY <2>2, <1>3, <1>5, <1>7 DEF Sound, Due, Covered, EndSeq
  <2>4. ASSUME NEW n \in job.cursor .. seq - 1
        PROVE  store[n] \in {"none", "silent"} \/ (job.blind # 0 /\ n >= job.blind)
    <3>1. n \in Nat /\ n < seq /\ n \in job.cursor .. EndSeq(job) /\ n \in Numbers
      <4>1. n \in Int /\ job.cursor <= n /\ n < seq /\ n <= job.to - 1
        BY <1>2, <1>3, <2>4
      <4>2. job.cursor >= 1 /\ seq <= MaxSeq + 1 /\ MaxSeq \in Nat
        BY <1>2, <1>4, NumbersAreNat DEF Numbers, Resends
      <4> QED BY <4>1, <4>2, <1>2, <1>3 DEF EndSeq, Numbers
    <3>2. store[n] \in Entries
      BY <3>1 DEF TypeOK
    <3>3. CASE store[n] = "app"
      <4>1. n \notin job.page
        BY <1>1, <1>3, <3>1, <3>3 DEF ToReplay, Replayed
      <4>2. ~(~job.done /\ n >= job.from)
        BY <1>2, <1>3, <3>1 DEF Sound
      <4> QED BY <3>1, <3>3, <4>1, <4>2 DEF Sound, Covered
    <3> QED BY <3>2, <3>3 DEF Entries
  <2>5. Frame(job, seq)
    BY <2>1, <2>4, <1>2, <1>3, <1>9 DEF FeedOld, Frame
  <2> QED BY <2>1, <2>3, <2>5, <1>4 DEF Answers, Continues
<1> QED BY <1>8, <1>9

\* A page read to the end of the range leaves nothing to read.
LEMMA ReadPageAnswers ==
    ASSUME ResendAssumption, TypeOK, NEW job, Sound(job), phase' = phase, phase # "closed",
           ReadPage(job)
    PROVE  Answers(job)
<1>1. /\ job.pending = 0 /\ Due(job) = job.cursor /\ ToReplay(job) = {}
      /\ ~job.done /\ job.blind = 0 /\ job \in Resends
      /\ job.cursor \in Nat /\ job.to \in Nat /\ job.from \in Nat /\ job.from # 0
      /\ job.from \in Numbers /\ job.to \in Numbers /\ job.cursor \in Numbers
      /\ Numbers \subseteq Nat \ {0}
      /\ UNCHANGED wire
  BY NumbersAreNat DEF Sound, Resends, ReadPage, Due
<1>2. \A n \in job.cursor .. EndSeq(job) : store[n] = "app" => n >= job.from
  <2>1. ASSUME NEW n \in job.cursor .. EndSeq(job), store[n] = "app" PROVE n >= job.from
    <3>1. n \in job.page => n \in ToReplay(job)
      BY <2>1 DEF ToReplay, Replayed
    <3>2. n \notin job.page
      BY <3>1, <1>1
    <3> QED BY <1>1, <2>1, <3>2 DEF Sound, Covered
  <2> QED BY <2>1
<1>3. ASSUME NEW then, Advanced(then), then \in Resends,
             \A f \in {"cursor", "to", "pending"} : then[f] = job[f],
             then.blind # 0 => then.done,
             ~then.done => \A n \in then.page : n < then.from,
             Covered(then)
      PROVE  Answers(job)
  <2>1. Sound(then) /\ Due(then) = Due(job) /\ then.to = job.to
    BY <1>3 DEF Sound, Due
  <2> QED BY <2>1, <1>1, <1>3 DEF Answers, Continues
<1>4. CASE job.from <= EndSeq(job) /\ Advanced(OnPage(job, Page(job.from, EndSeq(job))))
  <2> DEFINE page == Page(job.from, EndSeq(job))
             more == Cardinality(page) >= PageLimit /\ Max(page) + 1 <= EndSeq(job)
             then == OnPage(job, page)
  <2>1. EndSeq(job) \in Nat /\ EndSeq(job) = job.to - 1
    BY <1>1 DEF EndSeq
  <2>2. /\ page \subseteq job.from .. EndSeq(job)
        /\ Cardinality(page) < PageLimit \/ EndSeq(job) \in page =>
             \A n \in job.from .. EndSeq(job) : store[n] # "none" => n \in page
        /\ Cardinality(page) >= PageLimit =>
             /\ Max(page) \in page
             /\ \A n \in page : n <= Max(page)
             /\ \A n \in job.from .. Max(page) : store[n] # "none" => n \in page
    BY <1>1, <2>1, PageReads
  <2>3. Cardinality(page) \in Nat
    <3> job.from \in Int /\ EndSeq(job) \in Int
      BY <1>1, <2>1
    <3>1. IsFiniteSet(job.from .. EndSeq(job))
      BY FS_Interval
    <3>2. page \in SUBSET (job.from .. EndSeq(job))
      BY <2>2
    <3> QED BY <3>1, <3>2, FS_Subset, FS_CardinalityType
  <2>4. job.from .. EndSeq(job) \subseteq Numbers
    BY <1>1, <2>1, NumbersAreNat DEF Numbers
  <2> HIDE DEF page
  <2>5. then = [job EXCEPT !.page = page, !.done = ~more,
                           !.from = IF more THEN Max(page) + 1 ELSE @]
    BY DEF OnPage, page
  <2>6. more => Max(page) \in job.from .. EndSeq(job) /\ Max(page) + 1 \in job.from .. EndSeq(job)
    <3> SUFFICES ASSUME more
                 PROVE  Max(page) \in job.from .. EndSeq(job)
                        /\ Max(page) + 1 \in job.from .. EndSeq(job)
      OBVIOUS
    <3>1. Max(page) \in page /\ Max(page) + 1 <= EndSeq(job)
      BY <2>2
    <3>2. Max(page) \in job.from .. EndSeq(job)
      BY <3>1, <2>2
    <3> QED BY <3>1, <3>2, <1>1, <2>1
  <2>7. /\ then \in Resends
        /\ then.page = page /\ then.done = ~more
        /\ then.from = IF more THEN Max(page) + 1 ELSE job.from
        /\ \A f \in {"cursor", "to", "pending", "blind"} : then[f] = job[f]
    <3>1. page \in SUBSET Numbers
      BY <2>2, <2>4
    <3>2. (IF more THEN Max(page) + 1 ELSE job.from) \in Numbers
      BY <1>1, <2>4, <2>6
    <3> QED BY <1>1, <2>5, <3>1, <3>2 DEF Resends
  <2>8. ~then.done => \A n \in then.page : n < then.from
    <3> SUFFICES ASSUME more, NEW n \in page
                 PROVE  n < Max(page) + 1
      BY <2>7
    <3>1. n \in Nat /\ Max(page) \in Nat
      BY <1>1, <2>1, <2>2, <2>6
    <3> QED BY <3>1, <2>2
  <2>9. ASSUME NEW n \in job.cursor .. EndSeq(job), store[n] = "app"
        PROVE  n \in page \/ (more /\ n >= Max(page) + 1)
    <3>1. n \in job.from .. EndSeq(job) /\ store[n] # "none"
      BY <1>1, <1>2, <2>1, <2>9
    <3>2. CASE more
      BY <3>1, <3>2, <2>2, <2>6
    <3>3. CASE Cardinality(page) < PageLimit
      BY <3>1, <3>3, <2>2
    <3>4. CASE Cardinality(page) >= PageLimit /\ ~(Max(page) + 1 <= EndSeq(job))
      <4>1. Max(page) \in page
        BY <3>4, <2>2
      <4>2. Max(page) \in job.from .. EndSeq(job)
        BY <4>1, <2>2
      <4>3. Max(page) = EndSeq(job)
        BY <4>2, <3>4, <1>1, <2>1
      <4> QED BY <3>1, <4>1, <4>3, <2>2
    <3> QED BY <3>2, <3>3, <3>4, <2>3, NumbersAreNat
  <2>10. Covered(then)
    BY <2>7, <2>9 DEF Covered, EndSeq
  <2> QED BY <1>1, <1>3, <1>4, <2>7, <2>8, <2>10 DEF page
<1>5. CASE job.from <= EndSeq(job) /\ Advanced(PageFailed([job EXCEPT !.page = {}]))
  <2> DEFINE then == PageFailed([job EXCEPT !.page = {}])
  <2>1. /\ then \in Resends
        /\ then.done /\ then.page = {} /\ then.blind = job.from
        /\ \A f \in {"cursor", "to", "pending", "from"} : then[f] = job[f]
    BY <1>1 DEF PageFailed, Resends
  <2>2. Covered(then)
    BY <1>1, <1>2, <2>1 DEF Covered, EndSeq
  <2> QED BY <1>3, <1>5, <2>1, <2>2
<1>6. CASE job.from > EndSeq(job) /\ Advanced([job EXCEPT !.page = {}, !.done = TRUE])
  <2> DEFINE then == [job EXCEPT !.page = {}, !.done = TRUE]
  <2>1. /\ then \in Resends
        /\ then.done /\ then.page = {} /\ then.blind = 0
        /\ \A f \in {"cursor", "to", "pending", "from"} : then[f] = job[f]
    BY <1>1 DEF Resends
  <2>2. Covered(then)
    BY <1>1, <1>2, <1>6, <2>1 DEF Covered, EndSeq
  <2> QED BY <1>3, <1>6, <2>1, <2>2
<1> QED BY <1>4, <1>5, <1>6 DEF ReadPage, Dropped

LEMMA CompleteAnswers ==
    ASSUME ResendAssumption, TypeOK, NEW job, Sound(job), phase' = phase, phase # "closed",
           Complete(job)
    PROVE  Answers(job)
<1>1. /\ job.pending = 0 /\ Due(job) = job.cursor /\ ToReplay(job) = {} /\ job.done
      /\ job.cursor \in Nat /\ job.to \in Nat /\ job.cursor <= job.to
      /\ job.cursor \in Numbers /\ job.to \in Numbers
      /\ replays' = Tail(replays)
  BY NumbersAreNat DEF Sound, Resends, Complete, Due
<1>2. CASE job.cursor < job.to
  <2>1. FeedOld("fill", job.cursor, job.to)
    BY <1>2 DEF Complete
  <2>2. ASSUME NEW n \in job.cursor .. job.to - 1
        PROVE  store[n] \in {"none", "silent"} \/ (job.blind # 0 /\ n >= job.blind)
    <3>1. n \in Numbers /\ n \in job.cursor .. EndSeq(job)
      BY <1>1, <2>2, NumbersAreNat DEF Numbers, EndSeq
    <3>2. store[n] \in Entries
      BY <3>1 DEF TypeOK
    <3>3. CASE store[n] = "app"
      <4>1. n \in job.page => n \in ToReplay(job)
        BY <3>1, <3>3 DEF ToReplay, Replayed
      <4> QED BY <1>1, <3>1, <3>3, <4>1 DEF Sound, Covered
    <3> QED BY <3>2, <3>3 DEF Entries
  <2>3. Frame(job, job.to)
    BY <1>1, <1>2, <2>1, <2>2 DEF Frame, FeedOld
  <2> QED BY <1>1, <2>3 DEF Answers
<1>3. CASE job.cursor = job.to
  BY <1>1, <1>3 DEF Answers, Complete
<1> QED BY <1>1, <1>2, <1>3

-----------------------------------------------------------------------------
(* What a step does to the resends, the numbers and the counterparty        *)

Quiet == UNCHANGED <<spent, replays, phase, wire>>

\* A new number is written behind no resend.
Writes ==
    /\ ~Replaying /\ replays' = replays
    /\ phase # "closed" /\ phase' # "closed"
    /\ nextSender <= MaxSeq
    /\ \E entry \in Entries : FeedNew(entry)

\* The session ends, with a Logout under the next number or without one.
Ends ==
    /\ phase # "closed"
    /\ Dropped
    /\ UNCHANGED <<spent, wire>> \/ FeedNew("silent")

\* A request is queued; one for all that is missing lets go of a held Logon.
Asks ==
    /\ phase # "closed" /\ phase' = phase
    /\ UNCHANGED <<spent, said>>
    /\ \E begin \in 1 .. nextSender - 1, to \in 2 .. nextSender :
         /\ begin < to
         /\ replays' = QueueReplay(begin, to)
         /\ \/ peer' = peer
            \/ /\ begin = peer.expect /\ to = nextSender
               /\ peer' = [peer EXCEPT !.logon = 0, !.asked = TRUE]

Advances ==
    /\ Replaying
    /\ phase # "closed" /\ phase' = phase
    /\ UNCHANGED spent
    /\ Answers(Head(replays))

Moves == Quiet \/ Writes \/ Ends \/ Asks \/ Advances

LEMMA HeadIsSound ==
    ASSUME TypeOK, QueueInv, Replaying
    PROVE  /\ 1 \in DOMAIN replays /\ Head(replays) = replays[1]
           /\ Sound(Head(replays)) /\ Head(replays) \in Resends
<1>1. replays \in Seq(Resends) /\ replays # <<>>
  BY DEF TypeOK, Replaying
<1>2. Len(replays) >= 1 /\ 1 \in DOMAIN replays /\ Head(replays) = replays[1]
  BY <1>1
<1> QED BY <1>2 DEF QueueInv, Sound

\* What a session sends when it holds nothing back.
LEMMA SendMoves ==
    ASSUME SendOrHold \/ HoldTwo, phase # "closed", phase' = phase, UNCHANGED replays
    PROVE  Quiet \/ Writes
<1>1. CASE Replaying /\ UNCHANGED <<spent, wire>>
  BY <1>1 DEF Quiet
<1>2. CASE ~Replaying /\ Room /\ FeedNew("silent")
  BY <1>2 DEF Writes, Room, Entries
<1> QED BY <1>1, <1>2 DEF SendOrHold, HoldTwo

LEMMA AnswerableAsks ==
    ASSUME TypeOK, NEW begin, NEW end \in Nat, Answerable(begin, end)
    PROVE  begin \in 1 .. nextSender - 1 /\ begin < AnswerEnd(end)
           /\ AnswerEnd(end) \in 2 .. nextSender
<1>1. nextSender \in Nat
  BY DEF TypeOK
<1>2. begin \in 1 .. nextSender - 1 /\ (end = 0 \/ end >= begin)
  BY DEF Answerable
<1> QED BY <1>1, <1>2 DEF AnswerEnd

LEMMA StepMoves ==
    ASSUME ResendAssumption, ResendInv, [Next]_vars
    PROVE  Moves
<1> TypeOK /\ OverInv /\ QueueInv
  BY DEF ResendInv
<1> USE DEF Moves
<1>1. CASE ResendStep
  <2> DEFINE job == Head(replays)
  <2>1. Replaying /\ phase # "closed"
    BY <1>1 DEF ResendStep, OverInv, Replaying
  <2>2. CASE ReplyLogout
    BY <2>1, <2>2 DEF Ends, ReplyLogout
  <2>3. CASE UNCHANGED spent /\ (SendPending(job) \/ SendNext(job) \/ ReadPage(job) \/ Complete(job))
    <3>1. phase' = phase \/ (Dropped /\ UNCHANGED wire)
      BY <2>3 DEF SendPending, SendNext, SendReplay, ReadPage, Complete
    <3>2. CASE Dropped /\ UNCHANGED wire
      BY <2>1, <2>3, <3>2 DEF Ends
    <3>3. CASE phase' = phase
      <4>1. Sound(job)
        BY <2>1, HeadIsSound
      <4> HIDE DEF job
      <4>2. Answers(job)
        BY <2>1, <2>3, <3>3, <4>1, SendPendingAnswers, SendNextAnswers, ReadPageAnswers, CompleteAnswers
      <4> QED BY <2>1, <2>3, <3>3, <4>2 DEF Advances, job
    <3> QED BY <3>1, <3>2, <3>3
  <2> QED BY <1>1, <2>2, <2>3 DEF ResendStep
<1>2. CASE WriteHeld
  <2>1. ~Replaying /\ phase # "closed" /\ phase' = phase /\ replays' = replays
    BY <1>2 DEF WriteHeld, OverInv, Replaying, logouts
  <2>2. CASE Room /\ FeedNew("silent")
    BY <2>1, <2>2 DEF Writes, Room, Entries
  <2>3. CASE UNCHANGED <<spent, wire>>
    BY <2>1, <2>3 DEF Quiet
  <2> QED BY <1>2, <2>2, <2>3 DEF WriteHeld
<1>3. CASE Finish
  <2>1. phase # "closed"
    BY <1>3 DEF Finish, OverInv
  <2> QED BY <1>3, <2>1 DEF Finish, ReplyLogout, Ends, Quiet, logouts
<1>4. CASE RecvOther
  BY <1>4 DEF RecvOther, Quiet, logouts
<1>5. CASE RecvAnswered
  BY <1>5, SendMoves DEF RecvAnswered, ReadOne, Reading, logouts
<1>6. CASE RecvResendRequest
  <2>1. phase # "closed" /\ phase' = phase
    BY <1>6 DEF RecvResendRequest, ReadOne, Reading, logouts
  <2>2. PICK begin \in 1 .. nextSender, end \in 0 .. nextSender :
          IF Answerable(begin, end)
          THEN /\ replays' = QueueReplay(begin, AnswerEnd(end))
               /\ peer' = IF begin = peer.expect /\ AnswerEnd(end) = nextSender
                          THEN [peer EXCEPT !.logon = 0, !.asked = TRUE]
                          ELSE peer
               /\ held' \in IF Replaying THEN {held, held + 1} ELSE {held}
               /\ UNCHANGED <<spent, said>>
          ELSE (SendOrHold \/ HoldTwo) /\ UNCHANGED replays
    BY <1>6 DEF RecvResendRequest
  <2>3. CASE Answerable(begin, end)
    <3>1. begin \in 1 .. nextSender - 1 /\ begin < AnswerEnd(end) /\ AnswerEnd(end) \in 2 .. nextSender
      BY <2>3, AnswerableAsks
    <3>2. Asks
      BY <2>1, <2>2, <2>3, <3>1 DEF Asks
    <3> QED BY <3>2
  <2>4. CASE ~Answerable(begin, end)
    BY <2>1, <2>2, <2>4, SendMoves
  <2> QED BY <2>3, <2>4
<1>7. CASE RecvLogout
  BY <1>7 DEF RecvLogout, ReadOne, Reading, ReplyLogout, Ends, Quiet
<1>8. CASE SendAdmin
  BY <1>8, SendMoves DEF SendAdmin, logouts
<1>9. CASE SendApplication
  BY <1>9 DEF SendApplication, Writes, Room, Entries, logouts
<1>10. CASE SendLogout
  BY <1>10 DEF SendLogout, Writes, Room, Entries
<1>11. CASE LogoutDeadline
  BY <1>11 DEF LogoutDeadline, Quiet
<1>12. CASE TickCut
  BY <1>12 DEF TickCut, ReplyLogout, Ends, OverInv, Replaying
<1>13. CASE Close
  BY <1>13 DEF Close, Ends
<1>14. CASE Over
  BY <1>14 DEF Over, Quiet, vars, spent, wire
<1>15. CASE UNCHANGED vars
  BY <1>15 DEF Quiet, vars, spent, wire
<1> QED BY <1>1, <1>2, <1>3, <1>4, <1>5, <1>6, <1>7, <1>8, <1>9, <1>10, <1>11, <1>12,
           <1>13, <1>14, <1>15 DEF Next, Inbound

-----------------------------------------------------------------------------
(* The invariant is kept                                                    *)

LEMMA Prefix ==
    ASSUME NEW S, NEW s \in Seq(S), NEW k \in 0 .. Len(s)
    PROVE  /\ SubSeq(s, 1, k) \in Seq(S) /\ Len(SubSeq(s, 1, k)) = k
           /\ \A i \in 1 .. k : SubSeq(s, 1, k)[i] = s[i]
<1>1. k \in Nat /\ 1 \in Int /\ k \in Int /\ \A i \in 1 .. k : s[i] \in S
  OBVIOUS
<1>2. /\ SubSeq(s, 1, k) \in Seq(S)
      /\ Len(SubSeq(s, 1, k)) = IF 1 <= k THEN k - 1 + 1 ELSE 0
      /\ \A i \in 1 .. k - 1 + 1 : SubSeq(s, 1, k)[i] = s[1 + i - 1]
  BY <1>1, SubSeqProperties
<1> DEFINE f == SubSeq(s, 1, k)
<1> HIDE DEF f
<1>3. Len(f) = k
  BY <1>1, <1>2 DEF f
<1>4. ASSUME NEW i \in 1 .. k PROVE f[i] = s[i]
  <2>1. i \in 1 .. k - 1 + 1 /\ 1 + i - 1 = i
    BY <1>1
  <2> QED BY <1>2, <2>1 DEF f
<1> QED BY <1>2, <1>3, <1>4 DEF f

LEMMA JoinIsExcept ==
    ASSUME NEW S, NEW s \in Seq(S), s # <<>>, NEW e \in S
    PROVE  /\ Append(Front(s), e) = [s EXCEPT ![Len(s)] = e]
           /\ [s EXCEPT ![Len(s)] = e] \in Seq(S)
           /\ Last(s) = s[Len(s)] /\ Len(s) \in DOMAIN s
<1>1. Len(s) \in Nat \ {0} /\ Len(s) \in DOMAIN s
  OBVIOUS
<1>2. Front(s) = SubSeq(s, 1, Len(s) - 1) /\ Len(s) - 1 \in 0 .. Len(s)
  BY <1>1 DEF Front
<1>3. /\ Front(s) \in Seq(S) /\ Len(Front(s)) = Len(s) - 1
      /\ \A i \in 1 .. Len(s) - 1 : Front(s)[i] = s[i]
  BY <1>2, Prefix
<1>4. /\ Append(Front(s), e) \in Seq(S) /\ Len(Append(Front(s), e)) = Len(s)
      /\ \A i \in 1 .. Len(s) : Append(Front(s), e)[i] = IF i = Len(s) THEN e ELSE s[i]
  BY <1>1, <1>3
<1>5. /\ [s EXCEPT ![Len(s)] = e] \in Seq(S)
      /\ Len([s EXCEPT ![Len(s)] = e]) = Len(s)
      /\ \A i \in 1 .. Len(s) : [s EXCEPT ![Len(s)] = e][i] = IF i = Len(s) THEN e ELSE s[i]
  BY <1>1
<1>6. Append(Front(s), e) = [s EXCEPT ![Len(s)] = e]
  <2> DEFINE a == Append(Front(s), e)
             b == [s EXCEPT ![Len(s)] = e]
  <2>1. /\ a \in Seq(S) /\ b \in Seq(S) /\ Len(a) = Len(b)
        /\ \A i \in 1 .. Len(a) : a[i] = b[i]
    BY <1>1, <1>4, <1>5
  <2> HIDE DEF a, b
  <2>2. a = b
    BY <2>1, SeqEqual
  <2> QED BY <2>2 DEF a, b
<1> QED BY <1>1, <1>5, <1>6 DEF Last

LEMMA NewResend ==
    ASSUME ResendAssumption, TypeOK, phase # "closed", OverInv,
           NEW begin \in 1 .. nextSender - 1, NEW to \in 2 .. nextSender, begin < to
    PROVE  /\ Sound(ResendOf(begin, to)) /\ Unstarted(ResendOf(begin, to))
           /\ ResendOf(begin, to).cursor = begin /\ ResendOf(begin, to).to = to
           /\ Due(ResendOf(begin, to)) = begin
<1>1. nextSender \in Numbers /\ nextSender \in Nat /\ begin \in Nat /\ to \in Nat
  BY NumbersAreNat DEF OverInv
<1>2. begin \in Numbers /\ to \in Numbers
  BY <1>1, NumbersAreNat DEF Numbers
<1>3. ResendOf(begin, to) \in Resends
  BY <1>2 DEF ResendOf, Resends
<1> QED BY <1>1, <1>2, <1>3 DEF ResendOf, Sound, Unstarted, Covered, EndSeq, Due

LEMMA WidenedIsSound ==
    ASSUME ResendAssumption, TypeOK, NEW job, NEW other,
           Sound(job), Unstarted(job), Sound(other), Unstarted(other)
    PROVE  LET w == Widen(job, other)
           IN /\ Sound(w) /\ Unstarted(w)
              /\ Due(w) = Lower(Due(job), Due(other))
              /\ w.to = Higher(job.to, other.to)
<1> DEFINE w == Widen(job, other)
           begin == Lower(job.cursor, other.cursor)
           end == Higher(job.to, other.to)
<1>1. /\ job \in Resends /\ other \in Resends
      /\ {job.cursor, other.cursor, job.to, other.to} \subseteq Numbers
      /\ {job.cursor, other.cursor, job.to, other.to} \subseteq Nat
  BY NumbersAreNat DEF Sound, Resends
<1>2. begin \in Numbers /\ end \in Numbers /\ begin < end /\ end <= nextSender
  BY <1>1 DEF Lower, Higher, Sound, Unstarted
<1>3. w = [job EXCEPT !.cursor = begin, !.from = begin, !.to = end]
  BY DEF Widen
<1> HIDE DEF begin, end, w
<1>4. /\ w \in Resends
      /\ w.cursor = begin /\ w.from = begin /\ w.to = end
      /\ \A f \in {"page", "done", "pending", "blind"} : w[f] = job[f]
  BY <1>1, <1>2, <1>3 DEF Resends
<1>5. Unstarted(w) /\ Due(w) = begin
  BY <1>2, <1>4 DEF Unstarted, Due
<1>6. begin \in Nat /\ end \in Nat
  BY <1>2, NumbersAreNat
<1>7. Covered(w)
  BY <1>4, <1>5, <1>6 DEF Covered, EndSeq, Unstarted
<1>8. Sound(w)
  BY <1>2, <1>4, <1>5, <1>6, <1>7 DEF Sound, Unstarted
<1> QED BY <1>4, <1>5, <1>8 DEF w, begin, end, Due, Unstarted

\* What queue_replay leaves: the new range at the end of the queue, or joined
\* to the last resend owed, which has not started.
Queued(q, begin, to) ==
    \/ /\ Len(replays) < MaxQueued
       /\ q = Append(replays, ResendOf(begin, to))
    \/ \E w : /\ Len(replays) > 1
             /\ q = [replays EXCEPT ![Len(replays)] = w]
             /\ Sound(w) /\ Unstarted(w)
             /\ Due(w) = Lower(Due(replays[Len(replays)]), begin)
             /\ w.to = Higher(replays[Len(replays)].to, to)

LEMMA QueueReplayQueues ==
    ASSUME ResendAssumption, TypeOK, QueueInv, OverInv, phase # "closed",
           NEW begin \in 1 .. nextSender - 1, NEW to \in 2 .. nextSender, begin < to,
           NEW q, q = QueueReplay(begin, to)
    PROVE  /\ Queued(q, begin, to)
           /\ q \in Seq(Resends) /\ Len(q) <= MaxQueued
           /\ \A i \in DOMAIN q : Sound(q[i]) /\ (i > 1 => Unstarted(q[i]))
<1> DEFINE job == ResendOf(begin, to)
           n == Len(replays)
<1>1. Sound(job) /\ Unstarted(job) /\ Due(job) = begin /\ job.to = to
  BY NewResend
<1>2. job \in Resends
  BY <1>1 DEF Sound
<1>3. /\ replays \in Seq(Resends) /\ n \in Nat /\ n <= MaxQueued
      /\ MaxQueued \in Nat /\ MaxQueued >= 2
  BY DEF TypeOK, ResendAssumption
<1> HIDE DEF job
<1>4. CASE n < MaxQueued
  <2>1. q = Append(replays, job)
    BY <1>3, <1>4 DEF QueueReplay, job
  <2>2. q \in Seq(Resends) /\ Len(q) = n + 1
    BY <2>1, <1>2, <1>3
  <2>3. ASSUME NEW i \in DOMAIN q
        PROVE  Sound(q[i]) /\ (i > 1 => Unstarted(q[i]))
    <3>1. CASE i = n + 1
      BY <3>1, <2>1, <1>1, <1>2, <1>3
    <3>2. CASE i # n + 1
      <4>1. i \in DOMAIN replays /\ q[i] = replays[i]
        BY <3>2, <2>1, <2>2, <2>3, <1>2, <1>3
      <4> QED BY <4>1 DEF QueueInv
    <3> QED BY <3>1, <3>2
  <2> QED BY <2>1, <2>2, <2>3, <1>3, <1>4 DEF Queued, job
<1>5. CASE n >= MaxQueued
  <2> DEFINE last == replays[n]
             w == Widen(last, job)
  <2>1. replays # <<>> /\ n > 1 /\ n \in DOMAIN replays
    BY <1>3, <1>5
  <2>2. Sound(last) /\ Unstarted(last)
    BY <2>1 DEF QueueInv
  <2>3. Last(replays) = last
    BY <2>1, <1>2, <1>3, JoinIsExcept
  <2> HIDE DEF last
  <2>4. /\ Sound(w) /\ Unstarted(w)
        /\ Due(w) = Lower(Due(last), begin) /\ w.to = Higher(last.to, to)
    BY <2>2, <1>1, WidenedIsSound
  <2>5. w \in Resends
    BY <2>4 DEF Sound
  <2> HIDE DEF w
  <2>6. q = Append(Front(replays), w)
    BY <1>5, <2>3 DEF QueueReplay, job, w
  <2>7. q = [replays EXCEPT ![n] = w] /\ q \in Seq(Resends)
    <3>1. Append(Front(replays), w) = [replays EXCEPT ![Len(replays)] = w]
          /\ [replays EXCEPT ![Len(replays)] = w] \in Seq(Resends)
      BY <2>1, <2>5, <1>3, JoinIsExcept
    <3> QED BY <2>6, <3>1
  <2>8. Len(q) = n /\ DOMAIN q = DOMAIN replays
    BY <2>7, <1>3
  <2>9. ASSUME NEW i \in DOMAIN q
        PROVE  Sound(q[i]) /\ (i > 1 => Unstarted(q[i]))
    <3>1. CASE i = n
      BY <3>1, <2>1, <2>4, <2>7
    <3>2. CASE i # n
      <4>1. i \in DOMAIN replays /\ q[i] = replays[i]
        BY <3>2, <2>7, <2>8
      <4> QED BY <4>1 DEF QueueInv
    <3> QED BY <3>1, <3>2
  <2> QED BY <2>1, <2>4, <2>7, <2>8, <2>9, <1>3 DEF Queued, last
<1> QED BY <1>3, <1>4, <1>5

LEMMA SoundIsKept ==
    ASSUME UNCHANGED spent, NEW job, Sound(job)
    PROVE  Sound(job)'
BY DEF Sound, Covered, Resends, spent

LEMMA QueueKept ==
    ASSUME ResendAssumption, ResendInv, Moves
    PROVE  QueueInv' /\ replays' \in Seq(Resends) /\ Len(replays') <= MaxQueued
<1> TypeOK /\ OverInv /\ QueueInv
  BY DEF ResendInv
<1>0. replays \in Seq(Resends) /\ Len(replays) <= MaxQueued /\ Len(replays) \in Nat /\ MaxQueued \in Nat
  BY DEF TypeOK, ResendAssumption
<1>1. CASE Quiet
  <2>1. UNCHANGED spent /\ replays' = replays
    BY <1>1 DEF Quiet
  <2>2. ASSUME NEW i \in DOMAIN replays
        PROVE  Sound(replays[i])' /\ (i > 1 => Unstarted(replays[i])')
    <3>1. Sound(replays[i]) /\ (i > 1 => Unstarted(replays[i]))
      BY DEF QueueInv
    <3> QED BY <2>1, <3>1, SoundIsKept DEF Sound, Covered, spent, Unstarted
  <2> QED BY <1>0, <2>1, <2>2 DEF QueueInv
<1>2. CASE Writes \/ Ends
  <2>1. replays' = <<>>
    BY <1>2 DEF Writes, Ends, Dropped, Replaying
  <2> QED BY <2>1, <1>0 DEF QueueInv
<1> DEFINE AllSound(q) == \A i \in DOMAIN q : Sound(q[i]) /\ (i > 1 => Unstarted(q[i]))
<1>3. ASSUME UNCHANGED spent, AllSound(replays') PROVE QueueInv'
  <2>1. ASSUME NEW i \in DOMAIN replays'
        PROVE  Sound(replays[i])' /\ (i > 1 => Unstarted(replays[i])')
    <3>1. Sound(replays'[i]) /\ (i > 1 => Unstarted(replays'[i]))
      BY <1>3
    <3> QED BY <1>3, <3>1 DEF Sound, Covered, spent, Unstarted
  <2> QED BY <2>1 DEF QueueInv
<1>4. CASE Asks
  <2>1. PICK begin \in 1 .. nextSender - 1, to \in 2 .. nextSender :
             begin < to /\ replays' = QueueReplay(begin, to)
    BY <1>4 DEF Asks
  <2>2. UNCHANGED spent /\ phase # "closed"
    BY <1>4 DEF Asks
  <2>3. AllSound(replays') /\ replays' \in Seq(Resends) /\ Len(replays') <= MaxQueued
    BY <2>1, <2>2, QueueReplayQueues
  <2> QED BY <2>2, <2>3, <1>3
<1>5. CASE Advances
  <2>1. UNCHANGED spent /\ Replaying
    BY <1>5 DEF Advances
  <2>2. Len(replays) >= 1
    BY <2>1, <1>0 DEF Replaying
  <2>3. CASE replays' = Tail(replays)
    <3>1. /\ replays' \in Seq(Resends) /\ Len(replays') = Len(replays) - 1
          /\ \A i \in DOMAIN replays' : i + 1 \in DOMAIN replays /\ replays'[i] = replays[i + 1] /\ i + 1 > 1
      BY <2>2, <2>3, <1>0
    <3>2. AllSound(replays')
      BY <3>1 DEF QueueInv
    <3> QED BY <3>1, <3>2, <2>1, <1>0, <1>3
  <2>4. ASSUME NEW then, Sound(then), replays' = [replays EXCEPT ![1] = then]
        PROVE  QueueInv' /\ replays' \in Seq(Resends) /\ Len(replays') <= MaxQueued
    <3>1. then \in Resends
      BY <2>4 DEF Sound
    <3>2. /\ replays' \in Seq(Resends) /\ Len(replays') = Len(replays)
          /\ \A i \in DOMAIN replays' : i \in DOMAIN replays
                                      /\ replays'[i] = IF i = 1 THEN then ELSE replays[i]
      BY <3>1, <2>2, <2>4, <1>0
    <3>3. AllSound(replays')
      BY <3>2, <2>4 DEF QueueInv
    <3> QED BY <3>2, <3>3, <2>1, <1>0, <1>3
  <2> QED BY <1>5, <2>3, <2>4 DEF Advances, Answers, Continues, Advanced
<1> QED BY <1>1, <1>2, <1>4, <1>5 DEF Moves

Peers == [expect : 1 .. MaxSeq + 2, logon : Numbers \cup {0}, asked : BOOLEAN]

\* A frame moves the counterparty on where it waits, over a Logon that it
\* holds, and is lost on it anywhere else.
LEMMA ReachesMoves ==
    ASSUME NEW p \in Peers, NEW at \in Nat, NEW to \in Nat, at < to, at # 0,
           NEW q, q = Reaches(p, at, to), p.expect # p.logon, ResendAssumption
    PROVE  /\ q.logon = p.logon
           /\ q.expect = IF at # p.expect THEN p.expect ELSE IF to = p.logon THEN to + 1 ELSE to
           /\ q.asked => p.asked /\ ~(at < p.expect /\ p.expect < to)
           /\ q.expect <= MaxSeq + 2 => q \in Peers
           /\ q.expect \in Nat /\ q.expect >= p.expect /\ q.expect # q.logon
<1> DEFINE e == IF at = p.expect THEN to ELSE p.expect
           expect == IF e = p.logon THEN e + 1 ELSE e
           asked == p.asked /\ ~(at < p.expect /\ p.expect < to)
<1>1. q = [p EXCEPT !.expect = expect, !.asked = asked]
  BY DEF Reaches
<1>2. p.expect \in Nat /\ p.expect >= 1 /\ p.logon \in Nat /\ p.asked \in BOOLEAN /\ MaxSeq \in Nat
  BY NumbersAreNat DEF Peers
<1>3. q.logon = p.logon /\ q.expect = expect /\ q.asked = asked
  BY <1>1 DEF Peers
<1>4. expect \in Nat /\ expect >= p.expect /\ expect # p.logon
  BY <1>2
<1>5. asked \in BOOLEAN
  OBVIOUS
<1>6. ASSUME expect <= MaxSeq + 2 PROVE q \in Peers
  <2>1. expect \in 1 .. MaxSeq + 2
    BY <1>2, <1>4, <1>6
  <2> HIDE DEF expect, asked
  <2> QED BY <2>1, <1>1, <1>5 DEF Peers
<1> QED BY <1>2, <1>3, <1>4, <1>6

LEMMA PeerAfterNew ==
    ASSUME ResendAssumption, TypeOK, PeerInv, nextSender \in Numbers, NEW entry, FeedNew(entry)
    PROVE  /\ peer' \in Peers /\ nextSender' = nextSender + 1
           /\ peer'.expect <= nextSender' /\ peer'.logon < nextSender'
           /\ peer'.expect # peer'.logon
           /\ peer.expect = nextSender => peer'.expect = nextSender'
           /\ peer'.asked => peer.asked
<1>1. /\ peer \in Peers /\ peer.expect \in Nat /\ peer.logon \in Nat
      /\ nextSender \in Nat /\ nextSender # 0 /\ MaxSeq \in Nat /\ nextSender <= MaxSeq + 1
  BY NumbersAreNat DEF TypeOK, Peers, Numbers
<1>2. peer' = Reaches(peer, nextSender, nextSender + 1) /\ nextSender' = nextSender + 1
  BY DEF FeedNew
<1>3. /\ peer.expect <= nextSender /\ peer.logon < nextSender /\ peer.expect # peer.logon
  BY DEF PeerInv
<1>4. /\ peer'.logon = peer.logon
      /\ peer'.expect = IF nextSender # peer.expect THEN peer.expect
                        ELSE IF nextSender + 1 = peer.logon THEN nextSender + 2 ELSE nextSender + 1
      /\ peer'.asked => peer.asked
      /\ peer'.expect <= MaxSeq + 2 => peer' \in Peers
      /\ peer'.expect # peer'.logon
  <2> DEFINE to == nextSender + 1
  <2>1. to \in Nat /\ nextSender < to /\ peer' = Reaches(peer, nextSender, to)
    BY <1>1, <1>2
  <2>2. nextSender + 2 = to + 1
    BY <1>1
  <2> HIDE DEF to
  <2> QED BY <2>1, <2>2, <1>1, <1>3, ReachesMoves DEF to
<1> QED BY <1>1, <1>2, <1>3, <1>4

\* A frame of an answer leaves a counterparty that waits within the range, or
\* behind it, no further from the end of what was sent.
LEMMA PeerAfterFrame ==
    ASSUME ResendAssumption, TypeOK, PeerInv, nextSender \in Numbers,
           NEW job, Sound(job), NEW to, Frame(job, to)
    PROVE  /\ peer' \in Peers
           /\ peer'.expect <= nextSender /\ peer'.logon = peer.logon
           /\ peer'.expect # peer'.logon
           /\ peer'.expect >= peer.expect
           /\ peer.expect = nextSender => peer'.expect = nextSender
           /\ peer'.asked => peer.asked
           /\ peer'.asked /\ Due(job) <= peer.expect => to <= peer'.expect
<1>1. /\ peer \in Peers /\ peer.expect \in Nat /\ peer.logon \in Nat
      /\ nextSender \in Nat /\ nextSender # 0 /\ MaxSeq \in Nat /\ nextSender <= MaxSeq + 1
  BY NumbersAreNat DEF TypeOK, Peers, Numbers
<1>2. /\ job \in Resends /\ job.cursor \in Nat \ {0} /\ job.to \in Nat /\ job.pending \in Nat
      /\ job.to <= nextSender
  BY NumbersAreNat DEF Sound, Resends
<1>3. Due(job) \in Nat \ {0}
  BY <1>2 DEF Due
<1>4. to \in Nat /\ Due(job) < to /\ to <= job.to /\ peer' = Reaches(peer, Due(job), to)
  BY <1>2, <1>3 DEF Frame
<1>5. said' = "replay" \/ said' = "fill"
  BY DEF Frame
<1>6. /\ peer.expect <= nextSender /\ peer.logon < nextSender /\ peer.expect # peer.logon
  BY DEF PeerInv
<1>7. /\ peer'.logon = peer.logon
      /\ peer'.expect = IF Due(job) # peer.expect THEN peer.expect
                        ELSE IF to = peer.logon THEN to + 1 ELSE to
      /\ peer'.asked => peer.asked /\ ~(Due(job) < peer.expect /\ peer.expect < to)
      /\ peer'.expect <= MaxSeq + 2 => peer' \in Peers
      /\ peer'.expect \in Nat /\ peer'.expect >= peer.expect /\ peer'.expect # peer'.logon
  BY <1>1, <1>3, <1>4, <1>6, ReachesMoves
<1>8. peer'.expect <= nextSender
  BY <1>1, <1>2, <1>3, <1>4, <1>6, <1>7
<1>9. peer.expect = nextSender => peer'.expect = nextSender
  BY <1>1, <1>2, <1>3, <1>4, <1>6, <1>7
<1>10. peer'.asked /\ Due(job) <= peer.expect => to <= peer'.expect
  BY <1>1, <1>3, <1>4, <1>7
<1> QED BY <1>1, <1>7, <1>8, <1>9, <1>10

LEMMA PeerKept ==
    ASSUME ResendAssumption, ResendInv, Moves
    PROVE  PeerInv' /\ peer' \in Peers
<1> TypeOK /\ OverInv /\ QueueInv /\ PeerInv
  BY DEF ResendInv
<1>0. /\ peer \in Peers /\ peer.expect \in Nat /\ peer.logon \in Nat /\ nextSender \in Nat
      /\ replays \in Seq(Resends)
  BY NumbersAreNat DEF TypeOK, Peers, Numbers
<1>1. CASE Quiet
  BY <1>0, <1>1 DEF Quiet, PeerInv, Catches, Due, spent, wire
<1>2. CASE Writes
  <2>1. PICK entry : FeedNew(entry)
    BY <1>2 DEF Writes
  <2>2. nextSender \in Numbers /\ (peer.asked => peer.expect = nextSender)
    BY <1>0, <1>2 DEF Writes, OverInv, PeerInv, Replaying
  <2> QED BY <2>1, <2>2, PeerAfterNew DEF PeerInv
<1>3. CASE Ends
  <2>1. nextSender \in Numbers /\ phase' = "closed"
    BY <1>3 DEF Ends, Dropped, OverInv
  <2>2. CASE UNCHANGED <<spent, wire>>
    BY <1>0, <2>1, <2>2 DEF PeerInv, spent, wire
  <2>3. CASE FeedNew("silent")
    BY <2>1, <2>3, PeerAfterNew DEF PeerInv
  <2> QED BY <1>3, <2>2, <2>3 DEF Ends
<1>4. CASE Asks
  <2>1. PICK begin \in 1 .. nextSender - 1, to \in 2 .. nextSender :
             /\ begin < to
             /\ replays' = QueueReplay(begin, to)
             /\ \/ peer' = peer
                \/ /\ begin = peer.expect /\ to = nextSender
                   /\ peer' = [peer EXCEPT !.logon = 0, !.asked = TRUE]
    BY <1>4 DEF Asks
  <2>2. nextSender' = nextSender /\ phase # "closed" /\ phase' = phase
    BY <1>4 DEF Asks, spent
  <2>3. Queued(replays', begin, to)
    BY <2>1, <2>2, QueueReplayQueues
  <2>4. \A i \in DOMAIN replays :
          /\ replays[i] \in Resends
          /\ Due(replays[i]) \in Nat /\ replays[i].to \in Nat /\ replays[i].to <= nextSender
    BY NumbersAreNat DEF QueueInv, Sound, Resends, Due
  <2>5. ASSUME NEW i \in DOMAIN replays
        PROVE  /\ i \in DOMAIN replays'
               /\ Due(replays'[i]) <= Due(replays[i])
               /\ \/ replays'[i].to = replays[i].to
                  \/ replays'[i].to > replays[i].to /\ replays'[i].to <= nextSender
    <3>1. CASE replays' = Append(replays, ResendOf(begin, to))
      <4>1. i \in DOMAIN replays' /\ replays'[i] = replays[i]
        BY <1>0, <3>1
      <4> QED BY <2>4, <4>1
    <3>2. CASE replays' # Append(replays, ResendOf(begin, to))
      <4>1. PICK w : /\ Len(replays) > 1
                     /\ replays' = [replays EXCEPT ![Len(replays)] = w]
                     /\ Sound(w)
                     /\ Due(w) = Lower(Due(replays[Len(replays)]), begin)
                     /\ w.to = Higher(replays[Len(replays)].to, to)
        BY <2>3, <3>2 DEF Queued
      <4>2. i \in DOMAIN replays' /\ replays'[i] = IF i = Len(replays) THEN w ELSE replays[i]
        BY <1>0, <4>1
      <4>3. w.to \in Nat /\ w.to <= nextSender
        BY <4>1, NumbersAreNat DEF Sound, Resends
      <4> HIDE DEF Due
      <4>4. CASE i = Len(replays)
        <5>1. replays'[i] = w
          BY <4>2, <4>4
        <5>2. Due(w) = Lower(Due(replays[i]), begin) /\ w.to = Higher(replays[i].to, to)
          BY <4>1, <4>4
        <5>3. begin \in Nat /\ to \in Nat /\ Due(replays[i]) \in Nat /\ replays[i].to \in Nat
          BY <1>0, <2>4
        <5>4. Due(w) <= Due(replays[i]) /\ (w.to = replays[i].to \/ w.to > replays[i].to)
          BY <5>2, <5>3 DEF Lower, Higher
        <5> QED BY <4>2, <4>3, <5>1, <5>4
      <4>5. CASE i # Len(replays)
        BY <2>4, <4>2, <4>5
      <4> QED BY <4>4, <4>5
    <3> QED BY <3>1, <3>2
  <2>6. ASSUME NEW i \in DOMAIN replays, Catches(replays[i])
        PROVE  \E j \in DOMAIN replays' : /\ Due(replays'[j]) <= peer.expect
                                         /\ \/ replays'[j].to = nextSender
                                            \/ replays'[j].to = peer.logon /\ peer.logon + 1 = nextSender
    <3>1. /\ Due(replays'[i]) <= Due(replays[i]) /\ Due(replays[i]) <= peer.expect
          /\ i \in DOMAIN replays'
      BY <2>5, <2>6 DEF Catches
    <3>2. Due(replays'[i]) <= peer.expect
      <4>1. PICK q \in Seq(Resends) : q = replays' /\ \A k \in DOMAIN q : Sound(q[k])
        BY <2>1, <2>2, QueueReplayQueues
      <4>2. Due(replays'[i]) \in Nat
        BY <3>1, <4>1, NumbersAreNat DEF Sound, Resends, Due
      <4> QED BY <3>1, <4>2, <2>4, <1>0
    <3>3. \/ replays'[i].to = nextSender
          \/ replays'[i].to = peer.logon /\ peer.logon + 1 = nextSender
      <4>2. replays'[i].to \in Nat
        <5>1. PICK q \in Seq(Resends) : q = replays' /\ \A k \in DOMAIN q : Sound(q[k])
          BY <2>1, <2>2, QueueReplayQueues
        <5> QED BY <3>1, <5>1, NumbersAreNat DEF Sound, Resends
      <4>3. /\ replays[i].to \in Nat
            /\ \/ replays[i].to = nextSender
               \/ replays[i].to = peer.logon /\ peer.logon + 1 = nextSender
        BY <2>4, <2>6 DEF Catches
      <4>4. \/ replays'[i].to = replays[i].to
            \/ replays'[i].to > replays[i].to /\ replays'[i].to <= nextSender
        BY <2>5
      <4>5. \A x, y, n, l \in Nat :
               /\ y = n \/ (y = l /\ l + 1 = n)
               /\ x = y \/ (x > y /\ x <= n)
               => x = n \/ (x = l /\ l + 1 = n)
        OBVIOUS
      <4>6. nextSender \in Nat /\ peer.logon \in Nat
        BY <1>0
      <4> DEFINE x == replays'[i].to
                 y == replays[i].to
      <4>7. /\ x \in Nat /\ y \in Nat
            /\ y = nextSender \/ (y = peer.logon /\ peer.logon + 1 = nextSender)
            /\ x = y \/ (x > y /\ x <= nextSender)
        BY <4>2, <4>3, <4>4
      <4> HIDE DEF x, y
      <4>8. x = nextSender \/ (x = peer.logon /\ peer.logon + 1 = nextSender)
        BY <4>5, <4>6, <4>7
      <4> QED BY <4>8 DEF x
    <3> QED BY <3>1, <3>2, <3>3
  <2>7. CASE peer' = peer
    <3>1. \/ ~peer.asked \/ peer.expect = nextSender
          \/ \E i \in DOMAIN replays : Catches(replays[i])
      BY <2>2 DEF PeerInv
    <3> QED BY <1>0, <2>2, <2>6, <2>7, <3>1 DEF PeerInv, Catches, Due
  <2>8. CASE /\ begin = peer.expect /\ to = nextSender
             /\ peer' = [peer EXCEPT !.logon = 0, !.asked = TRUE]
    <3>1. /\ peer' \in Peers /\ peer'.logon = 0 /\ peer'.expect = peer.expect
          /\ peer'.expect # 0
      <4>1. peer.expect \in 1 .. MaxSeq + 2 /\ peer.asked \in BOOLEAN
        BY <1>0 DEF Peers
      <4>2. peer' \in Peers
        BY <1>0, <2>8 DEF Peers
      <4>3. peer'.logon = 0 /\ peer'.expect = peer.expect
        BY <1>0, <2>8 DEF Peers
      <4> QED BY <4>1, <4>2, <4>3
    <3>2. \E j \in DOMAIN replays' : Due(replays'[j]) <= peer.expect /\ replays'[j].to = nextSender
      <4>1. CASE replays' = Append(replays, ResendOf(begin, to))
        <5>1. /\ Due(ResendOf(begin, to)) = begin /\ ResendOf(begin, to).to = to
              /\ Sound(ResendOf(begin, to))
          BY <2>1, <2>2, NewResend
        <5>2. ResendOf(begin, to) \in Resends
          BY <5>1 DEF Sound
        <5> HIDE DEF ResendOf
        <5>3. Len(replays) + 1 \in DOMAIN replays' /\ replays'[Len(replays) + 1] = ResendOf(begin, to)
          BY <1>0, <4>1, <5>2
        <5> QED BY <1>0, <2>8, <5>1, <5>3
      <4>2. CASE replays' # Append(replays, ResendOf(begin, to))
        <5>1. PICK w : /\ Len(replays) > 1
                       /\ replays' = [replays EXCEPT ![Len(replays)] = w]
                       /\ Due(w) = Lower(Due(replays[Len(replays)]), begin)
                       /\ w.to = Higher(replays[Len(replays)].to, to)
          BY <2>3, <4>2 DEF Queued
        <5>2. Len(replays) \in DOMAIN replays' /\ replays'[Len(replays)] = w /\ Len(replays) \in DOMAIN replays
          BY <1>0, <5>1
        <5>3. Due(w) <= begin /\ w.to = nextSender
          BY <1>0, <2>4, <2>8, <5>1, <5>2 DEF Lower, Higher
        <5> QED BY <2>8, <5>2, <5>3
      <4> QED BY <4>1, <4>2
    <3>3. \E j \in DOMAIN replays' : Catches(replays[j])'
      BY <2>2, <3>1, <3>2 DEF Catches, Due
    <3> QED BY <1>0, <2>2, <3>1, <3>3 DEF PeerInv
  <2> QED BY <2>1, <2>7, <2>8
<1>5. CASE Advances
  <2> DEFINE job == replays[1]
  <2>1. /\ nextSender' = nextSender /\ phase # "closed" /\ phase' = phase
        /\ nextSender \in Numbers
    BY <1>5 DEF Advances, spent, OverInv
  <2>2. /\ 1 \in DOMAIN replays /\ Sound(job) /\ Answers(job)
        /\ Len(replays) \in Nat /\ Len(replays) >= 1
    BY <1>0, <1>5, HeadIsSound DEF Advances
  <2>3. /\ job.to \in Nat /\ Due(job) \in Nat /\ job.to <= nextSender /\ Due(job) <= job.to
    BY <2>2, NumbersAreNat DEF Sound, Resends, Due
  <2>4. \A i \in DOMAIN replays : Due(replays[i]) \in Nat
    BY NumbersAreNat DEF QueueInv, Sound, Resends, Due
  \* The counterparty may be further on, and `at` is what the step answered.
  <2>5. ASSUME NEW at \in Nat, at <= job.to,
               peer' \in Peers, peer'.expect <= nextSender, peer'.logon = peer.logon,
               peer'.expect # peer'.logon, peer'.expect >= peer.expect,
               peer.expect = nextSender => peer'.expect = nextSender,
               peer'.asked => peer.asked,
               peer'.asked /\ Due(job) <= peer.expect => at <= peer'.expect,
               \/ Continues(job, at)
               \/ at = job.to /\ replays' = Tail(replays)
        PROVE  PeerInv' /\ peer' \in Peers
    <3>1. peer'.expect \in Nat
      BY <2>5, NumbersAreNat DEF Peers
    <3>2. ASSUME peer'.asked, peer'.expect # nextSender
          PROVE  \E j \in DOMAIN replays' : Catches(replays[j])'
      <4>1. PICK i \in DOMAIN replays : Catches(replays[i])
        BY <2>1, <2>5, <3>2 DEF PeerInv
      <4>2. CASE Continues(job, at)
        <5>1. PICK then : /\ Sound(then) /\ Due(then) = at /\ then.to = job.to
                          /\ replays' = [replays EXCEPT ![1] = then]
          BY <4>2 DEF Continues, Advanced
        <5>2. i \in DOMAIN replays' /\ replays'[i] = IF i = 1 THEN then ELSE replays[i]
          BY <1>0, <5>1
        <5>3. Due(replays'[i]) <= peer'.expect /\ replays'[i].to = replays[i].to
          <6>1. CASE i = 1
            <7>1. replays'[i] = then /\ Due(job) <= peer.expect
              BY <5>2, <6>1, <4>1 DEF Catches
            <7>2. at <= peer'.expect
              BY <7>1, <2>5, <3>2
            <7> QED BY <7>1, <7>2, <5>1, <6>1
          <6>2. CASE i # 1
            <7>1. replays'[i] = replays[i] /\ Due(replays[i]) <= peer.expect
              BY <5>2, <6>2, <4>1 DEF Catches
            <7>2. peer.expect \in Nat /\ peer.expect <= peer'.expect /\ Due(replays[i]) \in Nat
              BY <1>0, <2>4, <2>5
            <7>3. Due(replays[i]) <= peer'.expect
              BY <7>1, <7>2, <3>1
            <7> QED BY <7>1, <7>3
          <6> QED BY <6>1, <6>2
        <5> QED BY <2>1, <2>5, <4>1, <5>2, <5>3 DEF Catches, Due
      <4>3. CASE at = job.to /\ replays' = Tail(replays)
        <5>1. i # 1
          <6> SUFFICES ASSUME i = 1 PROVE FALSE
            OBVIOUS
          <6>1. Due(job) <= peer.expect /\ (job.to = nextSender \/ (job.to = peer.logon /\ peer.logon + 1 = nextSender))
            BY <4>1 DEF Catches
          <6>2. job.to <= peer'.expect
            BY <2>5, <3>2, <4>3, <6>1
          <6>3. CASE job.to = nextSender
            BY <2>1, <2>5, <3>1, <3>2, <6>2, <6>3, NumbersAreNat
          <6>4. CASE job.to = peer.logon /\ peer.logon + 1 = nextSender
            <7>1. peer'.expect >= peer'.logon /\ peer'.expect # peer'.logon
              BY <2>5, <6>2, <6>4
            <7> QED BY <2>3, <2>5, <3>1, <3>2, <6>4, <7>1
          <6> QED BY <6>1, <6>3, <6>4
        <5>2. i - 1 \in DOMAIN replays' /\ replays'[i - 1] = replays[i]
          <6>1. replays \in Seq(Resends) /\ replays # <<>> /\ i \in 1 .. Len(replays)
            BY <1>0, <2>2
          <6>2. /\ replays' \in Seq(Resends) /\ Len(replays') = Len(replays) - 1
                /\ \A k \in 1 .. Len(replays') : replays'[k] = replays[k + 1]
            BY <4>3, <6>1, HeadTailProperties
          <6>3. i - 1 \in 1 .. Len(replays')
            BY <2>2, <5>1, <6>1, <6>2
          <6> QED BY <6>1, <6>2, <6>3
        <5>3. Due(replays[i]) <= peer'.expect
          BY <1>0, <2>4, <2>5, <3>1, <4>1 DEF Catches
        <5> QED BY <2>1, <2>5, <4>1, <5>2, <5>3 DEF Catches, Due
      <4> QED BY <2>5, <4>2, <4>3
    <3> QED BY <1>0, <2>1, <2>5, <3>2 DEF PeerInv
  <2>6. ASSUME NEW to \in Nat, Frame(job, to), Continues(job, to) \/ (to = job.to /\ replays' = Tail(replays))
        PROVE  PeerInv' /\ peer' \in Peers
    <3>1. to <= job.to
      BY <2>3, <2>6 DEF Frame
    <3> QED BY <2>1, <2>2, <2>5, <2>6, <3>1, PeerAfterFrame
  <2>7. ASSUME peer' = peer, Continues(job, Due(job)) \/ (Due(job) = job.to /\ replays' = Tail(replays))
        PROVE  PeerInv' /\ peer' \in Peers
    BY <1>0, <2>3, <2>5, <2>7 DEF PeerInv
  <2> QED BY <2>2, <2>3, <2>6, <2>7, NumbersAreNat DEF Answers, wire
<1> QED BY <1>1, <1>2, <1>3, <1>4, <1>5 DEF Moves

\* What is held and read behind a resend stays within its bounds, and nothing
\* is owed by a session that is over or by one that writes what it held.
Kept ==
    /\ held' \in 0 .. MaxHeld + 1 /\ reads' \in 0 .. MaxReads
    /\ finishing' \in BOOLEAN
    /\ phase' \in {"active", "out", "closed"}
    /\ owedLogout' \in {"no", "owed", "due"}
    /\ phase' = "closed" => replays' = <<>> /\ ~finishing'
    /\ finishing' => replays' = <<>>

LEMMA ReadOneKeeps ==
    ASSUME ResendAssumption, TypeOK, OverInv, ReadOne
    PROVE  /\ reads' \in 0 .. MaxReads /\ phase # "closed" /\ ~finishing
           /\ Replaying => held < MaxHeld
BY DEF ResendAssumption, TypeOK, ReadOne, Reading

LEMMA SendOrHoldKeeps ==
    ASSUME ResendAssumption, TypeOK, SendOrHold \/ HoldTwo, Replaying => held < MaxHeld
    PROVE  held' \in 0 .. MaxHeld + 1
BY DEF ResendAssumption, TypeOK, SendOrHold, HoldTwo

LEMMA BookKept ==
    ASSUME ResendAssumption, ResendInv, [Next]_vars
    PROVE  Kept
<1> TypeOK /\ OverInv
  BY DEF ResendInv
<1> USE DEF Kept
<1>0. /\ MaxHeld \in Nat /\ MaxReads \in Nat /\ 0 \in 0 .. MaxHeld + 1 /\ 0 \in 0 .. MaxReads
      /\ held \in 0 .. MaxHeld + 1 /\ reads \in 0 .. MaxReads /\ finishing \in BOOLEAN
      /\ phase \in {"active", "out", "closed"} /\ owedLogout \in {"no", "owed", "due"}
  BY DEF ResendAssumption, TypeOK
<1>1. CASE ResendStep
  <2> DEFINE job == Head(replays)
  <2>1. Replaying /\ phase # "closed" /\ ~finishing /\ reads' = 0
    BY <1>1 DEF ResendStep, OverInv, Replaying
  <2>2. CASE ReplyLogout
    BY <1>0, <2>1, <2>2 DEF ReplyLogout, Dropped
  <2>3. CASE UNCHANGED <<spent, owedLogout>> /\ (SendPending(job) \/ SendNext(job) \/ ReadPage(job) \/ Complete(job))
    <3> HIDE DEF job
    <3>1. \/ UNCHANGED <<held, finishing, phase>>
          \/ Dropped
          \/ UNCHANGED <<held, phase>> /\ replays' = Tail(replays) /\ finishing' = (Tail(replays) = <<>>)
      BY <2>3 DEF SendPending, SendNext, SendReplay, ReadPage, Complete
    <3>2. CASE UNCHANGED <<held, finishing, phase>>
      BY <1>0, <2>1, <2>3, <3>2
    <3>3. CASE Dropped
      BY <1>0, <2>1, <2>3, <3>3 DEF Dropped
    <3>4. CASE UNCHANGED <<held, phase>> /\ replays' = Tail(replays) /\ finishing' = (Tail(replays) = <<>>)
      BY <1>0, <2>1, <2>3, <3>4
    <3> QED BY <3>1, <3>2, <3>3, <3>4
  <2> QED BY <1>1, <2>2, <2>3 DEF ResendStep
<1>2. CASE WriteHeld
  <2>1. held' = held - 1 /\ held > 0 /\ UNCHANGED <<replays, finishing, phase, owedLogout, reads>>
    BY <1>2 DEF WriteHeld, logouts
  <2> QED BY <1>0, <2>1 DEF OverInv
<1>3. CASE Finish
  <2>1. reads' = reads /\ finishing
    BY <1>3 DEF Finish
  <2>2. CASE ReplyLogout
    BY <1>0, <2>1, <2>2 DEF ReplyLogout, Dropped
  <2>3. CASE finishing' = FALSE /\ UNCHANGED <<replays, held, phase, owedLogout>>
    BY <1>0, <2>1, <2>3 DEF OverInv
  <2> QED BY <1>3, <2>2, <2>3 DEF Finish, logouts
<1>4. CASE RecvOther
  BY <1>0, <1>4, ReadOneKeeps DEF RecvOther, logouts, OverInv
<1>5. CASE RecvAnswered
  BY <1>0, <1>5, ReadOneKeeps, SendOrHoldKeeps DEF RecvAnswered, logouts, OverInv
<1>6. CASE RecvResendRequest
  <2>1. /\ ReadOne /\ UNCHANGED <<finishing, phase, owedLogout>>
        /\ held' = held \/ (Replaying /\ held' = held + 1) \/ SendOrHold \/ HoldTwo
    BY <1>6 DEF RecvResendRequest, logouts
  <2>2. phase # "closed" /\ ~finishing /\ reads' \in 0 .. MaxReads /\ (Replaying => held < MaxHeld)
    BY <2>1, ReadOneKeeps
  <2>3. held' \in 0 .. MaxHeld + 1
    BY <1>0, <2>1, <2>2, SendOrHoldKeeps
  <2> QED BY <1>0, <2>1, <2>2, <2>3
<1>7. CASE RecvLogout
  <2>1. reads' \in 0 .. MaxReads /\ ReadOne
    BY <1>7, ReadOneKeeps DEF RecvLogout
  <2>2. CASE Dropped /\ owedLogout' = owedLogout
    BY <1>0, <2>1, <2>2 DEF Dropped
  <2>3. CASE owedLogout' = "owed" /\ UNCHANGED <<replays, held, finishing, phase>>
    BY <1>0, <2>1, <2>3 DEF OverInv
  <2>4. CASE ReplyLogout
    BY <1>0, <2>1, <2>4 DEF ReplyLogout, Dropped
  <2> QED BY <1>7, <2>2, <2>3, <2>4 DEF RecvLogout
<1>8. CASE SendAdmin
  BY <1>0, <1>8, SendOrHoldKeeps DEF SendAdmin, logouts, OverInv
<1>9. CASE SendApplication
  BY <1>0, <1>9 DEF SendApplication, logouts, OverInv
<1>10. CASE SendLogout
  BY <1>0, <1>10 DEF SendLogout, OverInv
<1>11. CASE LogoutDeadline
  BY <1>0, <1>11 DEF LogoutDeadline, OverInv
<1>12. CASE TickCut
  BY <1>0, <1>12 DEF TickCut, ReplyLogout, Dropped
<1>13. CASE Close
  BY <1>0, <1>13 DEF Close, Dropped
<1>14. CASE UNCHANGED vars
  BY <1>0, <1>14 DEF vars, OverInv
<1> QED BY <1>1, <1>2, <1>3, <1>4, <1>5, <1>6, <1>7, <1>8, <1>9, <1>10, <1>11, <1>12,
           <1>13, <1>14 DEF Next, Inbound, Over

LEMMA NumbersKept ==
    ASSUME ResendAssumption, ResendInv, Moves
    PROVE  /\ store' \in [Numbers -> Entries] /\ nextSender' \in 1 .. MaxSeq + 2
           /\ said' \in {"none", "new", "replay", "fill"}
           /\ phase' # "closed" => nextSender' \in Numbers
<1> TypeOK /\ OverInv
  BY DEF ResendInv
<1>0. /\ store \in [Numbers -> Entries] /\ nextSender \in 1 .. MaxSeq + 2
      /\ said \in {"none", "new", "replay", "fill"} /\ MaxSeq \in Nat
  BY NumbersAreNat DEF TypeOK
<1>1. ASSUME NEW entry \in Entries, FeedNew(entry), nextSender \in Numbers
      PROVE  /\ store' \in [Numbers -> Entries] /\ nextSender' = nextSender + 1
             /\ said' = "new" /\ nextSender' \in 1 .. MaxSeq + 2
             /\ nextSender <= MaxSeq => nextSender' \in Numbers
  BY <1>0, <1>1 DEF FeedNew, Numbers
<1>2. CASE Quiet
  BY <1>0, <1>2 DEF Quiet, spent, wire, OverInv
<1>3. CASE Writes
  <2>1. PICK entry \in Entries : FeedNew(entry)
    BY <1>3 DEF Writes
  <2>2. nextSender \in Numbers /\ nextSender <= MaxSeq
    BY <1>3 DEF Writes, OverInv
  <2> QED BY <1>1, <2>1, <2>2
<1>4. CASE Ends
  <2>1. nextSender \in Numbers /\ phase' = "closed" /\ "silent" \in Entries
    BY <1>4 DEF Ends, Dropped, OverInv, Entries
  <2>2. UNCHANGED <<spent, wire>> \/ FeedNew("silent")
    BY <1>4 DEF Ends
  <2> QED BY <1>0, <1>1, <2>1, <2>2 DEF spent, wire
<1>5. CASE Asks
  BY <1>0, <1>5 DEF Asks, spent, OverInv
<1>6. CASE Advances
  <2>1. said' \in {"replay", "fill"} \/ said' = said
    BY <1>6 DEF Advances, Answers, Frame, wire
  <2>2. UNCHANGED spent /\ phase # "closed"
    BY <1>6 DEF Advances
  <2> QED BY <1>0, <2>1, <2>2 DEF spent, OverInv
<1> QED BY <1>2, <1>3, <1>4, <1>5, <1>6 DEF Moves

LEMMA InitResendInv ==
    ASSUME ResendAssumption, Init
    PROVE  ResendInv
<1>1. /\ Sent \in Nat \ {0} /\ MaxSeq \in Nat /\ Sent <= MaxSeq /\ MaxQueued \in Nat /\ MaxQueued >= 2
      /\ MaxHeld \in Nat /\ MaxReads \in Nat /\ Numbers = 1 .. MaxSeq + 1
  BY DEF ResendAssumption, Numbers
<1>2. /\ store \in [Numbers -> Entries] /\ nextSender = Sent + 1 /\ held = 0 /\ finishing = FALSE
      /\ phase = "active" /\ owedLogout = "no" /\ reads = 0 /\ said = "none"
  BY DEF Init
<1>3. PICK expect \in 1 .. Sent + 1 :
        \/ /\ peer = [expect |-> expect, logon |-> 0, asked |-> expect > Sent]
           /\ replays = <<>>
        \/ /\ expect < Sent
           /\ peer = [expect |-> expect, logon |-> Sent, asked |-> TRUE]
           /\ replays = <<ResendOf(expect, Sent)>>
  BY DEF Init
<1> DEFINE job == ResendOf(expect, Sent)
<1>4. ASSUME expect < Sent
      PROVE  Sound(job) /\ Due(job) = expect /\ job.to = Sent
  BY <1>1, <1>2, <1>4 DEF ResendOf, Sound, Resends, Covered, EndSeq, Due
<1>5. /\ peer \in Peers
      /\ replays = <<>> => /\ peer.expect = expect /\ peer.logon = 0
                           /\ peer.asked => expect > Sent
  <2>1. expect \in 1 .. MaxSeq + 2 /\ Sent \in Numbers
    BY <1>1
  <2> DEFINE asked == expect > Sent
  <2>2. asked \in BOOLEAN /\ (asked => expect > Sent)
    OBVIOUS
  <2> HIDE DEF asked
  <2>3. CASE peer = [expect |-> expect, logon |-> 0, asked |-> asked] /\ replays = <<>>
    BY <2>1, <2>2, <2>3 DEF Peers
  <2>4. CASE peer = [expect |-> expect, logon |-> Sent, asked |-> TRUE] /\ replays = <<job>>
    <3>1. replays # <<>>
      BY <2>4
    <3> QED BY <2>1, <2>4, <3>1 DEF Peers
  <2> QED BY <1>3, <2>3, <2>4 DEF asked
<1>6. /\ replays \in Seq(Resends) /\ Len(replays) <= MaxQueued
      /\ QueueInv
  <2>1. CASE replays = <<>>
    BY <1>1, <2>1 DEF QueueInv
  <2>2. CASE expect < Sent /\ replays = <<job>>
    <3>1. Sound(job) /\ job \in Resends
      BY <1>4, <2>2 DEF Sound
    <3> HIDE DEF job
    <3>2. replays \in Seq(Resends) /\ Len(replays) = 1 /\ DOMAIN replays = {1} /\ replays[1] = job
      BY <2>2, <3>1
    <3> QED BY <1>1, <3>1, <3>2 DEF QueueInv
  <2> QED BY <1>3, <2>1, <2>2
<1>7. TypeOK
  <2>1. nextSender \in 1 .. MaxSeq + 2 /\ held \in 0 .. MaxHeld + 1 /\ reads \in 0 .. MaxReads
    BY <1>1, <1>2
  <2> QED BY <1>2, <1>5, <1>6, <2>1 DEF TypeOK, Peers
<1>8. OverInv
  BY <1>1, <1>2 DEF OverInv
<1>9. PeerInv
  <2>1. CASE replays = <<>> /\ peer = [expect |-> expect, logon |-> 0, asked |-> expect > Sent]
    <3>1. peer.expect = expect /\ peer.logon = 0 /\ (peer.asked => expect > Sent)
      BY <1>5, <2>1
    <3> QED BY <1>1, <1>2, <3>1 DEF PeerInv
  <2>2. CASE /\ expect < Sent
             /\ peer = [expect |-> expect, logon |-> Sent, asked |-> TRUE]
             /\ replays = <<job>>
    <3>1. Due(job) = expect /\ job.to = Sent
      BY <1>4, <2>2
    <3> HIDE DEF job
    <3>2. 1 \in DOMAIN replays /\ replays[1] = job
      BY <2>2
    <3>3. Catches(replays[1])
      BY <1>1, <1>2, <2>2, <3>1, <3>2 DEF Catches
    <3> QED BY <1>1, <1>2, <2>2, <3>2, <3>3 DEF PeerInv
  <2> QED BY <1>3, <2>1, <2>2
<1> QED BY <1>6, <1>7, <1>8, <1>9 DEF ResendInv

LEMMA NextResendInv ==
    ASSUME ResendAssumption, ResendInv, [Next]_vars
    PROVE  ResendInv'
<1>1. Moves
  BY StepMoves
<1>2. QueueInv' /\ replays' \in Seq(Resends) /\ Len(replays') <= MaxQueued
  BY <1>1, QueueKept
<1>3. PeerInv' /\ peer' \in Peers
  BY <1>1, PeerKept
<1>4. Kept
  BY BookKept
<1>5. /\ store' \in [Numbers -> Entries] /\ nextSender' \in 1 .. MaxSeq + 2
      /\ said' \in {"none", "new", "replay", "fill"}
      /\ phase' # "closed" => nextSender' \in Numbers
  BY <1>1, NumbersKept
<1>6. TypeOK'
  BY <1>2, <1>3, <1>4, <1>5 DEF TypeOK, Kept, Peers
<1>7. OverInv'
  BY <1>4, <1>5 DEF OverInv, Kept
<1> QED BY <1>2, <1>3, <1>6, <1>7 DEF ResendInv

LEMMA ResendInvHolds ==
    Spec => []ResendInv
<1>1. Init => ResendInv
  BY InitResendInv, ResendAssumption
<1>2. ResendInv /\ [Next]_vars => ResendInv'
  BY NextResendInv, ResendAssumption
<1> QED BY <1>1, <1>2, PTL DEF Spec

\* The queue of resends and what is held behind it stay within their bounds.
THEOREM ResendTypeOK ==
    Spec => []TypeOK
<1>1. ResendInv => TypeOK
  BY DEF ResendInv
<1> QED BY <1>1, ResendInvHolds, PTL

\* A counterparty that asked for all it lacked, and takes frames in order only,
\* lacks nothing once no resend is under way (queue_replay, advance_resend).
THEOREM ResendsCatchUp ==
    Spec => []NeverStranded
<1>1. ResendInv => NeverStranded
  BY DEF ResendInv, TypeOK, PeerInv, NeverStranded, Replaying
<1> QED BY <1>1, ResendInvHolds, PTL

-----------------------------------------------------------------------------
(* The ranges owed, and what a step does to them                            *)

OwedOf(q) == [i \in DOMAIN q |-> [next |-> Due(q[i]), to |-> q[i].to]]

LEMMA OwedIsOwedOf ==
    /\ Owed = OwedOf(replays)
    /\ Owed' = OwedOf(replays')
BY DEF Owed, OwedOf, Due

LEMMA FunctionIsSeq ==
    ASSUME NEW S, NEW n \in Nat, NEW f \in [1 .. n -> S]
    PROVE  f \in Seq(S) /\ Len(f) = n
<1>1. f \in Seq(S)
  BY SeqDef
<1>2. Len(f) \in Nat /\ DOMAIN f = 1 .. Len(f)
  BY <1>1, LenProperties
<1>3. 1 .. n = 1 .. Len(f)
  BY <1>2
<1>4. \A a, b \in Nat : 1 .. a = 1 .. b => a = b
  <2> SUFFICES ASSUME NEW a \in Nat, NEW b \in Nat, a < b, 1 .. a = 1 .. b PROVE FALSE
    OBVIOUS
  <2>1. b \in 1 .. b /\ b \notin 1 .. a
    OBVIOUS
  <2> QED BY <2>1
<1> QED BY <1>1, <1>2, <1>3, <1>4

LEMMA AppendEntries ==
    ASSUME NEW S, NEW s \in Seq(S), NEW e \in S
    PROVE  /\ Append(s, e) \in Seq(S) /\ Len(Append(s, e)) = Len(s) + 1
           /\ \A i \in 1 .. Len(s) + 1 : Append(s, e)[i] = IF i = Len(s) + 1 THEN e ELSE s[i]
OBVIOUS

LEMMA OwedOfSeq ==
    ASSUME ResendAssumption, NEW q \in Seq(Resends)
    PROVE  /\ OwedOf(q) \in Seq([next : Nat, to : Nat])
           /\ Len(OwedOf(q)) = Len(q) /\ Len(q) \in Nat
           /\ \A i \in 1 .. Len(q) : OwedOf(q)[i] = [next |-> Due(q[i]), to |-> q[i].to]
<1>1. Len(q) \in Nat /\ DOMAIN q = 1 .. Len(q)
  OBVIOUS
<1>2. ASSUME NEW i \in 1 .. Len(q)
      PROVE  [next |-> Due(q[i]), to |-> q[i].to] \in [next : Nat, to : Nat]
  <2>1. q[i] \in Resends
    OBVIOUS
  <2> QED BY <2>1, NumbersAreNat DEF Resends, Due
<1>3. OwedOf(q) \in [1 .. Len(q) -> [next : Nat, to : Nat]]
  BY <1>1, <1>2 DEF OwedOf
<1>4. OwedOf(q) \in Seq([next : Nat, to : Nat]) /\ Len(OwedOf(q)) = Len(q)
  BY <1>1, <1>3, FunctionIsSeq
<1> QED BY <1>1, <1>4 DEF OwedOf

\* A range is asked for.
LEMMA OwedAfterAppend ==
    ASSUME ResendAssumption, NEW q \in Seq(Resends), NEW job \in Resends
    PROVE  OwedOf(Append(q, job)) = Append(OwedOf(q), [next |-> Due(job), to |-> job.to])
<1> DEFINE S == [next : Nat, to : Nat]
           o == OwedOf(q)
           r == Append(q, job)
           p == OwedOf(r)
           range == [next |-> Due(job), to |-> job.to]
<1>1. /\ o \in Seq(S) /\ Len(o) = Len(q) /\ Len(q) \in Nat
      /\ \A i \in 1 .. Len(q) : o[i] = [next |-> Due(q[i]), to |-> q[i].to]
  BY OwedOfSeq
<1>2. /\ r \in Seq(Resends) /\ Len(r) = Len(q) + 1
      /\ \A i \in 1 .. Len(q) + 1 : r[i] = IF i = Len(q) + 1 THEN job ELSE q[i]
  BY AppendEntries
<1> HIDE DEF r
<1>3. /\ p \in Seq(S) /\ Len(p) = Len(r)
      /\ \A i \in 1 .. Len(r) : p[i] = [next |-> Due(r[i]), to |-> r[i].to]
  BY <1>2, OwedOfSeq
<1>4. range \in S
  BY NumbersAreNat DEF Resends, Due
<1>5. ASSUME NEW i \in 1 .. Len(q) + 1
      PROVE  p[i] = IF i = Len(q) + 1 THEN range ELSE o[i]
  <2>1. p[i] = [next |-> Due(r[i]), to |-> r[i].to]
    BY <1>2, <1>3
  <2>2. CASE i = Len(q) + 1
    BY <1>2, <2>1, <2>2
  <2>3. CASE i # Len(q) + 1
    <3> DEFINE length == Len(q)
    <3>1. length \in Nat /\ i \in 1 .. length + 1 /\ i # length + 1
      BY <1>1, <2>3
    <3> HIDE DEF length
    <3>2. i \in 1 .. length
      BY <3>1
    <3> QED BY <1>1, <1>2, <2>1, <2>3, <3>2 DEF length
  <2> QED BY <2>2, <2>3
<1> HIDE DEF o, p, range, S
<1>6. /\ Append(o, range) \in Seq(S) /\ Len(Append(o, range)) = Len(o) + 1
      /\ \A i \in 1 .. Len(o) + 1 : Append(o, range)[i] = IF i = Len(o) + 1 THEN range ELSE o[i]
  BY <1>1, <1>4, AppendEntries
<1>7. Len(p) = Len(Append(o, range)) /\ \A i \in 1 .. Len(p) : p[i] = Append(o, range)[i]
  BY <1>1, <1>2, <1>3, <1>5, <1>6
<1>8. p = Append(o, range)
  BY <1>3, <1>6, <1>7, SeqEqual
<1> QED BY <1>8 DEF o, p, r, range

\* A resend is widened, or goes on.
LEMMA OwedAfterExcept ==
    ASSUME ResendAssumption, NEW q \in Seq(Resends), NEW job \in Resends, NEW k \in 1 .. Len(q)
    PROVE  OwedOf([q EXCEPT ![k] = job]) =
             [OwedOf(q) EXCEPT ![k] = [next |-> Due(job), to |-> job.to]]
<1> DEFINE S == [next : Nat, to : Nat]
           o == OwedOf(q)
           r == [q EXCEPT ![k] = job]
           p == OwedOf(r)
           range == [next |-> Due(job), to |-> job.to]
           e == [o EXCEPT ![k] = range]
<1>1. /\ o \in Seq(S) /\ Len(o) = Len(q) /\ Len(q) \in Nat
      /\ \A i \in 1 .. Len(q) : o[i] = [next |-> Due(q[i]), to |-> q[i].to]
  BY OwedOfSeq
<1>2. /\ r \in Seq(Resends) /\ Len(r) = Len(q)
      /\ \A i \in 1 .. Len(q) : r[i] = IF i = k THEN job ELSE q[i]
  BY ExceptSeq
<1> HIDE DEF r
<1>3. /\ p \in Seq(S) /\ Len(p) = Len(r)
      /\ \A i \in 1 .. Len(r) : p[i] = [next |-> Due(r[i]), to |-> r[i].to]
  BY <1>2, OwedOfSeq
<1>4. range \in S
  BY NumbersAreNat DEF Resends, Due
<1>5. ASSUME NEW i \in 1 .. Len(q)
      PROVE  p[i] = IF i = k THEN range ELSE o[i]
  BY <1>1, <1>2, <1>3
<1> HIDE DEF o, p, range, S
<1>6. /\ e \in Seq(S) /\ Len(e) = Len(o)
      /\ \A i \in 1 .. Len(o) : e[i] = IF i = k THEN range ELSE o[i]
  BY <1>1, <1>4, ExceptSeq
<1> HIDE DEF e
<1>7. Len(p) = Len(e) /\ \A i \in 1 .. Len(p) : p[i] = e[i]
  BY <1>1, <1>2, <1>3, <1>5, <1>6
<1>8. p = e
  BY <1>3, <1>6, <1>7, SeqEqual
<1> QED BY <1>8 DEF e, o, p, r, range

\* A resend is complete.
LEMMA OwedAfterTail ==
    ASSUME ResendAssumption, NEW q \in Seq(Resends), q # <<>>
    PROVE  OwedOf(Tail(q)) = Tail(OwedOf(q))
<1> DEFINE S == [next : Nat, to : Nat]
           o == OwedOf(q)
           r == Tail(q)
           p == OwedOf(r)
           t == Tail(o)
<1>1. /\ o \in Seq(S) /\ Len(o) = Len(q) /\ Len(q) \in Nat /\ Len(q) # 0
      /\ \A i \in 1 .. Len(q) : o[i] = [next |-> Due(q[i]), to |-> q[i].to]
  BY OwedOfSeq
<1>2. /\ r \in Seq(Resends) /\ Len(r) = Len(q) - 1
      /\ \A i \in 1 .. Len(r) : r[i] = q[i + 1]
  BY HeadTailProperties
<1> HIDE DEF r
<1>3. /\ p \in Seq(S) /\ Len(p) = Len(r)
      /\ \A i \in 1 .. Len(r) : p[i] = [next |-> Due(r[i]), to |-> r[i].to]
  BY <1>2, OwedOfSeq
<1>4. o # <<>>
  BY <1>1
<1> HIDE DEF o
<1>5. /\ t \in Seq(S) /\ Len(t) = Len(o) - 1
      /\ \A i \in 1 .. Len(t) : t[i] = o[i + 1]
  BY <1>1, <1>4, HeadTailProperties
<1> HIDE DEF p, t
<1>6. ASSUME NEW i \in 1 .. Len(p) PROVE p[i] = t[i]
  <2>1. i \in 1 .. Len(r) /\ i \in 1 .. Len(t) /\ i + 1 \in 1 .. Len(q)
    BY <1>1, <1>2, <1>3, <1>5
  <2> QED BY <1>1, <1>2, <1>3, <1>5, <2>1
<1> HIDE DEF S
<1>7. Len(p) = Len(t)
  BY <1>1, <1>2, <1>3, <1>5
<1>8. p = t
  BY <1>3, <1>5, <1>6, <1>7, SeqEqual
<1> QED BY <1>8 DEF o, p, r, t

\* The first range owed, and what each kind of step leaves of it.
LEMMA FirstOwed ==
    ASSUME ResendAssumption, TypeOK, QueueInv, Replaying
    PROVE  /\ Owed \in Seq([next : Nat, to : Nat]) /\ Owed # <<>> /\ Len(Owed) = Len(replays)
           /\ Owed[1].next = Due(replays[1]) /\ Owed[1].to = replays[1].to
           /\ replays[1] = Head(replays) /\ Sound(replays[1])
           /\ Due(replays[1]) \in Nat \ {0} /\ replays[1].to \in Numbers
           /\ Due(replays[1]) <= replays[1].to
           /\ 1 \in DOMAIN Owed /\ Owed[1] \in [next : Nat, to : Nat]
<1>1. replays \in Seq(Resends) /\ 1 \in 1 .. Len(replays) /\ Len(replays) \in Nat
  BY DEF TypeOK, Replaying
<1>2. /\ OwedOf(replays) \in Seq([next : Nat, to : Nat])
      /\ Len(OwedOf(replays)) = Len(replays)
      /\ OwedOf(replays)[1] = [next |-> Due(replays[1]), to |-> replays[1].to]
  BY <1>1, OwedOfSeq
<1>3. Sound(replays[1]) /\ replays[1] = Head(replays)
  BY HeadIsSound
<1>4. /\ Due(replays[1]) \in Nat \ {0} /\ replays[1].to \in Numbers
      /\ Due(replays[1]) <= replays[1].to
  BY <1>3, NumbersAreNat DEF Sound, Resends, Due
<1>5. Owed = OwedOf(replays)
  BY OwedIsOwedOf
<1> HIDE DEF OwedOf, Owed
<1>6. /\ Owed \in Seq([next : Nat, to : Nat]) /\ Len(Owed) = Len(replays)
      /\ Owed[1] = [next |-> Due(replays[1]), to |-> replays[1].to]
  BY <1>2, <1>5, Zenon
<1>7. Owed # <<>> /\ 1 \in DOMAIN Owed
  BY <1>1, <1>6
<1>8. Owed[1].next = Due(replays[1]) /\ Owed[1].to = replays[1].to
  BY <1>6
<1>9. Owed[1] \in [next : Nat, to : Nat]
  BY <1>4, <1>6, NumbersAreNat
<1> QED BY <1>3, <1>4, <1>6, <1>7, <1>8, <1>9

LEMMA OwedContinues ==
    ASSUME ResendAssumption, TypeOK, QueueInv, Replaying,
           NEW at, Continues(replays[1], at)
    PROVE  /\ Owed' = [Owed EXCEPT ![1].next = at]
           /\ Owed'[1].next = at
           /\ Len(replays') = Len(replays)
<1>1. PICK then : /\ Sound(then) /\ Due(then) = at /\ then.to = replays[1].to
                  /\ replays' = [replays EXCEPT ![1] = then]
  BY DEF Continues, Advanced
<1>2. then \in Resends /\ replays \in Seq(Resends) /\ 1 \in 1 .. Len(replays)
  BY <1>1 DEF Sound, TypeOK, Replaying
<1>3. Owed' = [Owed EXCEPT ![1] = [next |-> at, to |-> replays[1].to]]
  <2>1. OwedOf([replays EXCEPT ![1] = then]) =
          [OwedOf(replays) EXCEPT ![1] = [next |-> Due(then), to |-> then.to]]
    BY <1>2, OwedAfterExcept
  <2>2. Owed = OwedOf(replays) /\ Owed' = OwedOf(replays')
    BY OwedIsOwedOf
  <2> QED BY <1>1, <2>1, <2>2, Zenon
<1>4. /\ 1 \in DOMAIN Owed /\ Owed[1].to = replays[1].to
      /\ Owed[1] \in [next : Nat, to : Nat]
  BY FirstOwed, Zenon
<1>5. [Owed[1] EXCEPT !.next = at] = [next |-> at, to |-> replays[1].to]
  BY <1>4
<1>6. Owed' = [Owed EXCEPT ![1].next = at]
  BY <1>3, <1>4, <1>5
<1>7. Owed'[1].next = at
  BY <1>3, <1>4
<1>8. Len(replays') = Len(replays)
  BY <1>1, <1>2, ExceptSeq
<1> QED BY <1>6, <1>7, <1>8

LEMMA OwedForgets ==
    ASSUME ResendAssumption, TypeOK, QueueInv, Replaying, replays' = Tail(replays)
    PROVE  Owed' = Tail(Owed) /\ Len(replays') < Len(replays)
<1>1. replays \in Seq(Resends) /\ replays # <<>>
  BY DEF TypeOK, Replaying
<1>2. Owed' = Tail(Owed)
  <2>1. OwedOf(Tail(replays)) = Tail(OwedOf(replays))
    BY <1>1, OwedAfterTail
  <2>2. Owed = OwedOf(replays) /\ Owed' = OwedOf(replays')
    BY OwedIsOwedOf
  <2> QED BY <2>1, <2>2, Zenon
<1>3. Len(replays') = Len(replays) - 1 /\ Len(replays) \in Nat
  BY <1>1, HeadTailProperties
<1> DEFINE was == Len(replays)
           is == Len(replays')
<1>4. is = was - 1 /\ was \in Nat
  BY <1>3, Zenon
<1> HIDE DEF was, is
<1>5. is < was
  BY <1>4
<1> QED BY <1>2, <1>5, Zenon DEF was, is

LEMMA OwedAsks ==
    ASSUME ResendAssumption, ResendInv, Asks
    PROVE  \E begin \in 1 .. nextSender - 1, to \in 2 .. nextSender :
             /\ begin < to
             /\ \/ Owed' = Append(Owed, [next |-> begin, to |-> to])
                \/ /\ Len(Owed) > 1
                   /\ Owed' = [Owed EXCEPT ![Len(Owed)] =
                                  [next |-> Lower(Owed[Len(Owed)].next, begin),
                                   to   |-> Higher(Owed[Len(Owed)].to, to)]]
<1> TypeOK /\ OverInv /\ QueueInv
  BY DEF ResendInv
<1>1. PICK begin \in 1 .. nextSender - 1, to \in 2 .. nextSender :
           begin < to /\ replays' = QueueReplay(begin, to)
  BY DEF Asks
<1>2. phase # "closed"
  BY DEF Asks
<1>3. Queued(replays', begin, to)
  BY <1>1, <1>2, QueueReplayQueues
<1>4. replays \in Seq(Resends)
  BY DEF TypeOK
<1>5. CASE replays' = Append(replays, ResendOf(begin, to))
  <2>1. /\ Due(ResendOf(begin, to)) = begin /\ ResendOf(begin, to).to = to
        /\ ResendOf(begin, to) \in Resends
    BY <1>1, <1>2, NewResend DEF Sound
  <2> HIDE DEF ResendOf
  <2>2. Owed' = Append(Owed, [next |-> begin, to |-> to])
    BY <1>4, <1>5, <2>1, OwedAfterAppend, OwedIsOwedOf
  <2> QED BY <1>1, <2>2
<1>6. CASE replays' # Append(replays, ResendOf(begin, to))
  <2>1. PICK w : /\ Len(replays) > 1
                 /\ replays' = [replays EXCEPT ![Len(replays)] = w]
                 /\ Sound(w)
                 /\ Due(w) = Lower(Due(replays[Len(replays)]), begin)
                 /\ w.to = Higher(replays[Len(replays)].to, to)
    BY <1>3, <1>6 DEF Queued
  <2>2. w \in Resends
    BY <2>1 DEF Sound
  <2>3. Len(replays) \in Nat /\ Len(replays) \in 1 .. Len(replays)
    BY <1>4, <2>1
  <2>4. /\ Len(Owed) = Len(replays)
        /\ Owed[Len(replays)] = [next |-> Due(replays[Len(replays)]), to |-> replays[Len(replays)].to]
    BY <1>4, <2>3, OwedOfSeq, OwedIsOwedOf
  <2>5. Owed' = [Owed EXCEPT ![Len(replays)] = [next |-> Due(w), to |-> w.to]]
    BY <1>4, <2>1, <2>2, <2>3, OwedAfterExcept, OwedIsOwedOf
  <2>6. /\ Owed[Len(Owed)].next = Due(replays[Len(replays)])
        /\ Owed[Len(Owed)].to = replays[Len(replays)].to
    BY <2>4
  <2> QED BY <1>1, <2>1, <2>4, <2>5, <2>6
<1> QED BY <1>5, <1>6

LEMMA StepFillsHonestly ==
    ASSUME ResendAssumption, ResendInv, [Next]_vars
    PROVE  HonestFill
<1> TypeOK /\ OverInv /\ QueueInv
  BY DEF ResendInv
<1>0. Moves
  BY StepMoves
<1> SUFFICES ASSUME Replaying, said' = "fill", phase' # "closed",
                    NEW n \in IF Len(replays') < Len(replays)
                              THEN Owed[1].next .. Owed[1].to - 1
                              ELSE Owed[1].next .. Owed'[1].next - 1
             PROVE  store[n] \in {"none", "silent"} \/ (Head(replays).blind # 0 /\ n >= Head(replays).blind)
  BY DEF HonestFill
<1> DEFINE job == replays[1]
<1>1. /\ Owed \in Seq([next : Nat, to : Nat]) /\ Owed # <<>> /\ Len(Owed) = Len(replays)
      /\ Owed[1].next = Due(job) /\ Owed[1].to = job.to
      /\ job = Head(replays) /\ Due(job) \in Nat
      /\ Len(replays) \in Nat /\ replays \in Seq(Resends)
  BY FirstOwed DEF TypeOK
<1>2. CASE Quiet
  BY <1>1, <1>2, OwedIsOwedOf DEF Quiet
<1>3. CASE Asks
  <2>1. PICK begin, to :
             \/ Owed' = Append(Owed, [next |-> begin, to |-> to])
             \/ /\ Len(Owed) > 1
                /\ Owed' = [Owed EXCEPT ![Len(Owed)] =
                               [next |-> Lower(Owed[Len(Owed)].next, begin),
                                to   |-> Higher(Owed[Len(Owed)].to, to)]]
    BY <1>3, OwedAsks
  <2>2. Owed'[1] = Owed[1]
    <3> DEFINE r == [next |-> begin, to |-> to]
               j == [next |-> Lower(Owed[Len(Owed)].next, begin),
                     to   |-> Higher(Owed[Len(Owed)].to, to)]
    <3>1. 1 \in DOMAIN Owed /\ Len(Owed) \in Nat /\ 1 <= Len(Owed) /\ DOMAIN Owed = 1 .. Len(Owed)
      BY <1>1
    <3>2. Owed' = Append(Owed, r) \/ (Len(Owed) > 1 /\ Owed' = [Owed EXCEPT ![Len(Owed)] = j])
      BY <2>1
    <3> HIDE DEF r, j
    <3>3. CASE Owed' = Append(Owed, r)
      BY <3>1, <3>3
    <3>4. CASE Len(Owed) > 1 /\ Owed' = [Owed EXCEPT ![Len(Owed)] = j]
      BY <3>1, <3>4
    <3> QED BY <3>2, <3>3, <3>4
  <2>3. ~(Len(replays') < Len(replays))
    <3>1. PICK b \in 1 .. nextSender - 1, t \in 2 .. nextSender :
               b < t /\ replays' = QueueReplay(b, t) /\ phase # "closed"
      BY <1>3 DEF Asks
    <3>2. Queued(replays', b, t)
      BY <3>1, QueueReplayQueues
    <3> DEFINE new == ResendOf(b, t)
    <3>3. replays' = Append(replays, new) \/ \E w : replays' = [replays EXCEPT ![Len(replays)] = w]
      BY <3>2 DEF Queued
    <3> HIDE DEF new
    <3>4. CASE replays' = Append(replays, new)
      <4>1. Len(replays') = Len(replays) + 1
        BY <1>1, <3>4
      <4> QED BY <1>1, <4>1
    <3>5. CASE \E w : replays' = [replays EXCEPT ![Len(replays)] = w]
      <4>1. Len(replays') = Len(replays)
        BY <1>1, <3>5
      <4> QED BY <1>1, <4>1
    <3> QED BY <3>3, <3>4, <3>5
  <2> QED BY <1>1, <2>2, <2>3
<1>4. CASE Advances
  <2>1. Answers(job)
    BY <1>1, <1>4 DEF Advances
  <2>2. CASE \E to \in Numbers : Frame(job, to) /\ Continues(job, to)
    <3>1. PICK to \in Numbers : Frame(job, to) /\ Continues(job, to)
      BY <2>2
    <3>2. Owed'[1].next = to /\ Len(replays') = Len(replays)
      BY <3>1, OwedContinues
    <3>3. n \in Due(job) .. to - 1
      BY <1>1, <3>2
    <3> QED BY <1>1, <3>1, <3>3 DEF Frame
  <2>3. CASE Frame(job, job.to) /\ replays' = Tail(replays)
    <3>1. n \in Due(job) .. job.to - 1
      BY <1>1, <2>3, OwedForgets
    <3> QED BY <1>1, <2>3, <3>1 DEF Frame
  <2>4. CASE Continues(job, Due(job))
    <3>1. Owed'[1].next = Due(job) /\ Len(replays') = Len(replays)
      BY <2>4, OwedContinues
    <3>2. n \in Due(job) .. Due(job) - 1
      BY <1>1, <3>1
    <3> QED BY <1>1, <3>2
  <2>5. CASE Due(job) = job.to /\ replays' = Tail(replays)
    <3>1. n \in Due(job) .. Due(job) - 1
      BY <1>1, <2>5, OwedForgets
    <3> QED BY <1>1, <3>1
  <2> QED BY <2>1, <2>2, <2>3, <2>4, <2>5 DEF Answers
<1> QED BY <1>0, <1>2, <1>3, <1>4 DEF Moves, Writes, Ends, Dropped

\* No gap fill covers a message the store holds and the application lets
\* through, save behind a read that failed (on_page, decide_entry, poll_store).
THEOREM FillsAreHonest ==
    Spec => FillsHideNothing
<1>1. ResendInv /\ [Next]_vars => [HonestFill]_vars
  BY StepFillsHonestly, ResendAssumption
<1> QED BY <1>1, ResendInvHolds, PTL DEF Spec, FillsHideNothing

-----------------------------------------------------------------------------
(* The promise of ReplayPromise is kept                                     *)

LEMMA PromiseAtInit ==
    ASSUME ResendAssumption, Init
    PROVE  Promised!Promise
<1>1. said = "none" /\ phase = "active"
  BY DEF Init
<1>2. Owed \in {<<>>} \cup {<<r>> : r \in Promised!Ranges}
  <2>1. CASE replays = <<>>
    <3>1. OwedOf(<<>>) = <<>>
      BY DEF OwedOf
    <3> QED BY <2>1, <3>1, OwedIsOwedOf
  <2>2. CASE replays # <<>>
    <3>1. PICK expect \in 1 .. Sent + 1 : expect < Sent /\ replays = <<ResendOf(expect, Sent)>>
      BY <2>2 DEF Init
    <3>2. Owed = <<[next |-> expect, to |-> Sent]>>
      BY <3>1 DEF Owed, ResendOf
    <3>3. [next |-> expect, to |-> Sent] \in Promised!Ranges
      BY <3>1 DEF Promised!Ranges, ResendAssumption
    <3> QED BY <3>2, <3>3
  <2> QED BY <2>1, <2>2
<1> QED BY <1>1, <1>2 DEF Promised!Promise

LEMMA StepKeepsPromise ==
    ASSUME ResendAssumption, ResendInv, [Next]_vars
    PROVE  [Promised!Keep]_(Promised!promiseVars)
<1> TypeOK /\ OverInv /\ QueueInv
  BY DEF ResendInv
<1>0. Moves
  BY StepMoves
<1> DEFINE over == phase = "closed"
           job == replays[1]
<1>1. CASE Quiet
  BY <1>1, OwedIsOwedOf DEF Quiet, wire, Promised!promiseVars
<1>2. CASE Writes
  <2>1. Owed = <<>> /\ Owed' = Owed
    <3>1. OwedOf(<<>>) = <<>>
      BY DEF OwedOf
    <3> QED BY <1>2, <3>1, OwedIsOwedOf DEF Writes, Replaying
  <2>2. said' = "new" /\ ~over
    BY <1>2 DEF Writes, FeedNew
  <2> QED BY <2>1, <2>2 DEF Promised!Keep, Promised!Say
<1>3. CASE Ends
  <2>1. Owed' = <<>>
    <3>1. OwedOf(<<>>) = <<>>
      BY DEF OwedOf
    <3> QED BY <1>3, <3>1, OwedIsOwedOf DEF Ends, Dropped
  <2>2. said' \in {said, "new"} /\ ~over /\ over'
    BY <1>3 DEF Ends, Dropped, FeedNew, wire
  <2> QED BY <2>1, <2>2 DEF Promised!Keep, Promised!End
<1>4. CASE Asks
  <2>1. PICK begin \in 1 .. nextSender - 1, to \in 2 .. nextSender :
             /\ begin < to
             /\ \/ Owed' = Append(Owed, [next |-> begin, to |-> to])
                \/ /\ Len(Owed) > 1
                   /\ Owed' = [Owed EXCEPT ![Len(Owed)] =
                                  [next |-> Lower(Owed[Len(Owed)].next, begin),
                                   to   |-> Higher(Owed[Len(Owed)].to, to)]]
    BY <1>4, OwedAsks
  <2>2. ~over /\ over' = over /\ said' = said
    BY <1>4 DEF Asks
  <2> DEFINE range == [next |-> begin, to |-> to]
  <2>3. range \in Promised!Ranges
    BY <2>1, <2>2, NumbersAreNat DEF Promised!Ranges, OverInv, Numbers
  <2>4. CASE Owed' = Append(Owed, range)
    BY <2>2, <2>3, <2>4 DEF Promised!Keep, Promised!Ask
  <2>5. CASE /\ Len(Owed) > 1
             /\ Owed' = [Owed EXCEPT ![Len(Owed)] =
                            [next |-> Lower(Owed[Len(Owed)].next, begin),
                             to   |-> Higher(Owed[Len(Owed)].to, to)]]
    <3> DEFINE last == Owed[Len(Owed)]
    <3>1. /\ Lower(last.next, begin) = (IF range.next < last.next THEN range.next ELSE last.next)
          /\ Higher(last.to, to) = (IF range.to > last.to THEN range.to ELSE last.to)
      <4>1. /\ replays \in Seq(Resends) /\ Len(replays) = Len(Owed)
            /\ Owed \in Seq([next : Nat, to : Nat])
        BY OwedOfSeq, OwedIsOwedOf DEF TypeOK
      <4>2. last.next \in Nat /\ last.to \in Nat /\ begin \in Nat /\ to \in Nat
        <5>1. last \in [next : Nat, to : Nat]
          <6>1. Len(Owed) \in Nat /\ Len(Owed) \in 1 .. Len(Owed)
            BY <2>5, <4>1
          <6> QED BY <4>1, <6>1, ElementOfSeq
        <5>2. nextSender \in Nat
          BY DEF TypeOK
        <5> QED BY <5>1, <5>2
      <4> HIDE DEF last
      <4> QED BY <4>2 DEF Lower, Higher
    <3>2. Promised!Join
      BY <2>2, <2>3, <2>5, <3>1 DEF Promised!Join
    <3> QED BY <2>2, <3>2 DEF Promised!Keep
  <2> QED BY <2>1, <2>4, <2>5
<1>5. CASE Advances
  <2>1. Answers(job) /\ ~over /\ over' = over /\ Replaying
    BY <1>5, HeadIsSound DEF Advances
  <2>2. /\ Owed # <<>> /\ Owed[1].next = Due(job) /\ Owed[1].to = job.to
    BY <2>1, FirstOwed
  <2>3. ASSUME NEW to, Frame(job, to),
               Owed' = [Owed EXCEPT ![1].next = to] \/ (to = job.to /\ Owed' = Tail(Owed))
        PROVE  Promised!Keep
    <3>1. /\ to \in Owed[1].next + 1 .. Owed[1].to /\ said' \in {"replay", "fill"}
          /\ said' = "replay" => to = Owed[1].next + 1
      BY <2>2, <2>3 DEF Frame
    <3>2. Owed' \in {[Owed EXCEPT ![1].next = to]} \cup (IF to = Owed[1].to THEN {Tail(Owed)} ELSE {})
      BY <2>2, <2>3
    <3>3. Promised!Answer
      BY <2>1, <2>2, <3>1, <3>2 DEF Promised!Answer
    <3> QED BY <2>1, <3>3 DEF Promised!Keep
  <2>4. CASE \E to \in Numbers : Frame(job, to) /\ Continues(job, to)
    BY <2>1, <2>3, <2>4, OwedContinues
  <2>5. CASE Frame(job, job.to) /\ replays' = Tail(replays)
    BY <2>1, <2>3, <2>5, OwedForgets
  <2>6. CASE UNCHANGED wire /\ Continues(job, Due(job))
    <3>1. Owed' = [Owed EXCEPT ![1].next = Due(job)] /\ said' = said
      BY <2>1, <2>6, OwedContinues DEF wire
    <3>2. [Owed EXCEPT ![1].next = Due(job)] = Owed
      <4>1. /\ Owed \in Seq([next : Nat, to : Nat]) /\ 1 \in DOMAIN Owed
            /\ Owed[1] \in [next : Nat, to : Nat]
        BY <2>1, FirstOwed, Zenon
      <4>2. [Owed[1] EXCEPT !.next = Due(job)] = Owed[1]
        BY <2>2, <4>1
      <4>3. [Owed EXCEPT ![1] = Owed[1]] = Owed
        BY <4>1
      <4> QED BY <4>1, <4>2, <4>3
    <3> QED BY <2>1, <3>1, <3>2 DEF Promised!promiseVars
  <2>7. CASE UNCHANGED wire /\ Due(job) = job.to /\ replays' = Tail(replays)
    <3>1. Owed' = Tail(Owed) /\ said' = said
      BY <2>1, <2>7, OwedForgets DEF wire
    <3>2. Promised!Forget
      BY <2>1, <2>2, <2>7, <3>1 DEF Promised!Forget
    <3> QED BY <2>1, <3>2 DEF Promised!Keep
  <2> QED BY <2>1, <2>4, <2>5, <2>6, <2>7 DEF Answers
<1> QED BY <1>0, <1>1, <1>2, <1>3, <1>4, <1>5 DEF Moves

\* However the work is cut into pages and steps, each range owed is answered in
\* order and without a hole, and no new number comes between (advance_resend,
\* the hold, finish_resends): the session implements ReplayPromise.
THEOREM ResendsKeepPromise ==
    Spec => KeepsPromise
<1>1. Init => Promised!Promise
  BY PromiseAtInit, ResendAssumption
<1>2. ResendInv /\ [Next]_vars => [Promised!Keep]_(Promised!promiseVars)
  BY StepKeepsPromise, ResendAssumption
<1> QED BY <1>1, <1>2, ResendInvHolds, PTL DEF Spec, KeepsPromise, Promised!PromiseSpec
=============================================================================
