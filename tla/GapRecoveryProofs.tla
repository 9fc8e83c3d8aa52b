------------------------- MODULE GapRecoveryProofs -------------------------
(***************************************************************************)
(* Proofs about GapRecovery, for every value of its constants.             *)
(*                                                                         *)
(* A core is Sound when it is well typed, its counter agrees with what was *)
(* done with the messages, and its recovery names the expectation.  Each   *)
(* operator a handler is composed of has a lemma: from a Sound core it     *)
(* makes an Advance, a Sound core whose past is the same.  A step of Next  *)
(* then follows from the lemmas of the operators it composes.              *)
(***************************************************************************)
EXTENDS GapRecovery, TLAPS

Accounted(c) == \A n \in SeqNums : c.fate[n] = "none" <=> n >= c.target
Tracks(c) == c.resend.armed => /\ c.resend.expected = c.target
                               /\ c.target <= c.resend.highWater
Sound(c) == c \in CoreType /\ Accounted(c) /\ Tracks(c)

\* d keeps what c decided: the expectation does not move back, and the fate of
\* every number below it stays.
Keeps(c, d) == /\ c.target <= d.target
               /\ \A n \in SeqNums : n < c.target => d.fate[n] = c.fate[n]
Advance(c, d) == Sound(d) /\ Keeps(c, d)

USE MaxSeqAssumption DEF SeqNums

\* Handlers compose: so do the steps they are made of.
LEMMA AdvanceTransitive ==
    ASSUME NEW c, NEW d, NEW e, Sound(c), Advance(c, d), Advance(d, e)
    PROVE  Advance(c, e)
<1>1. c.target \in SeqNums /\ d.target \in SeqNums /\ e.target \in SeqNums
  BY DEF Sound, Advance, CoreType
<1> QED BY <1>1 DEF Advance, Keeps

\* A change that leaves the counter, the fates and recovery alone.
LEMMA QuietAdvance ==
    ASSUME NEW c, Sound(c), NEW d \in CoreType,
           d.target = c.target, d.fate = c.fate, d.resend = c.resend
    PROVE  Advance(c, d)
<1>1. c.target \in SeqNums
  BY DEF Sound, CoreType
<1> QED BY <1>1 DEF Advance, Keeps, Sound, Accounted, Tracks

\* A change of recovery that names the expectation and a top not below it.
LEMMA RecoveryAdvance ==
    ASSUME NEW c, Sound(c), NEW d \in CoreType,
           d.target = c.target, d.fate = c.fate, Tracks(d)
    PROVE  Advance(c, d)
<1>1. c.target \in SeqNums
  BY DEF Sound, CoreType
<1> QED BY <1>1 DEF Advance, Keeps, Sound, Accounted

LEMMA SelfAdvance == ASSUME NEW c, Sound(c) PROVE Advance(c, c)
BY QuietAdvance DEF Sound

LEMMA ArmedType ==
    ASSUME NEW e \in SeqNums, NEW h \in SeqNums, NEW a \in Nat
    PROVE  /\ Armed(e, h, a) \in ResendStates
           /\ Armed(e, h, a).expected = e /\ Armed(e, h, a).highWater = h
<1>1. e \in 0 .. MaxSeq /\ h \in 0 .. MaxSeq
  OBVIOUS
<1> QED BY <1>1 DEF Armed, ResendStates

\* note_inbound_progress restores the tie between recovery and expectation
\* once the counter has moved.
LEMMA NoteProgressSound ==
    ASSUME NEW c \in CoreType, Accounted(c)
    PROVE  /\ Sound(NoteProgress(c))
           /\ NoteProgress(c).target = c.target /\ NoteProgress(c).fate = c.fate
<1>1. CASE ~c.resend.armed
  BY <1>1 DEF NoteProgress, Sound, Tracks
<1>2. CASE c.resend.armed /\ c.target > c.resend.highWater
  <2>1. NoResend \in ResendStates /\ ~NoResend.armed
    BY DEF NoResend, ResendStates
  <2> DEFINE d == [c EXCEPT !.resend = NoResend]
  <2>2. NoteProgress(c) = d
    BY <1>2 DEF NoteProgress
  <2>3. d \in CoreType /\ d.target = c.target /\ d.fate = c.fate /\ ~d.resend.armed
    BY <2>1 DEF CoreType
  <2> HIDE DEF d
  <2> QED BY <2>2, <2>3 DEF Sound, Accounted, Tracks
<1>3. CASE c.resend.armed /\ ~(c.target > c.resend.highWater)
  <2> DEFINE attempts == Smaller(c.resend.attempts, 1)
             r == [c.resend EXCEPT !.expected = c.target, !.attempts = attempts]
  <2>1. c.resend \in ResendStates /\ c.target \in SeqNums /\ c.target \in 0 .. MaxSeq
    BY DEF CoreType
  <2>2. NoteProgress(c) = [c EXCEPT !.resend = r]
    BY <1>3, <2>1 DEF NoteProgress, CoreType, ResendStates
  <2>3. attempts \in Nat
    BY <2>1 DEF ResendStates, Smaller
  <2> HIDE DEF attempts
  <2>4. r \in ResendStates
    BY <2>1, <2>3 DEF ResendStates
  <2>5. r.expected = c.target /\ r.highWater = c.resend.highWater
    BY <2>1 DEF ResendStates
  <2>6. c.target <= c.resend.highWater
    BY <1>3, <2>1 DEF ResendStates
  <2> HIDE DEF r
  <2> QED BY <2>2, <2>4, <2>5, <2>6 DEF Sound, CoreType, Accounted, Tracks
<1> QED BY <1>1, <1>2, <1>3

\* Consuming the number at the expectation accounts for it and for no other.
LEMMA ConsumeAdvances ==
    ASSUME NEW c, Sound(c), CanAdvance(c), NEW fate \in Fates \ {"none"}
    PROVE  Advance(c, Consume(c, c.target, fate))
<1> DEFINE fates == [c.fate EXCEPT ![c.target] = fate]
           d == [c EXCEPT !.target = c.target + 1, !.fate = fates, !.asked = 0]
<1>1. c.target \in SeqNums /\ c.target + 1 \in SeqNums
  BY DEF Sound, CoreType, CanAdvance
<1>2. /\ fates \in [SeqNums -> Fates]
      /\ \A n \in SeqNums : fates[n] = "none" <=> n >= c.target + 1
      /\ \A n \in SeqNums : n < c.target => fates[n] = c.fate[n]
  BY <1>1 DEF Sound, CoreType, Accounted
<1>3. Consume(c, c.target, fate) = NoteProgress(d)
  BY DEF Consume, Sound, CoreType
<1> HIDE DEF fates
<1>4. d \in CoreType /\ d.target = c.target + 1 /\ d.fate = fates
  BY <1>1, <1>2 DEF Sound, CoreType
<1>5. Accounted(d)
  BY <1>1, <1>2, <1>4 DEF Accounted
<1> HIDE DEF d
<1>6. Sound(NoteProgress(d)) /\ NoteProgress(d).target = d.target
      /\ NoteProgress(d).fate = d.fate
  BY <1>4, <1>5, NoteProgressSound
<1> QED BY <1>1, <1>2, <1>3, <1>4, <1>6 DEF Advance, Keeps

\* Moving the expectation forward over what the counterparty says it will
\* not send accounts for exactly the numbers passed over.
LEMMA JumpSound ==
    ASSUME NEW c, Sound(c), NEW new \in SeqNums, new >= c.target
    PROVE  /\ JumpTo(c, new) \in CoreType /\ Accounted(JumpTo(c, new))
           /\ Keeps(c, JumpTo(c, new))
           /\ JumpTo(c, new).target = new /\ JumpTo(c, new).resend = c.resend
<1> DEFINE fates == [n \in SeqNums |-> IF c.target <= n /\ n < new
                                       THEN "skipped" ELSE c.fate[n]]
           asked == IF new > c.target THEN 0 ELSE c.asked
           d == [c EXCEPT !.target = new, !.asked = asked, !.fate = fates]
<1>1. c.target \in SeqNums /\ c.fate \in [SeqNums -> Fates] /\ c.asked \in Nat
  BY DEF Sound, CoreType
<1>2. /\ fates \in [SeqNums -> Fates]
      /\ \A n \in SeqNums : n < c.target => fates[n] = c.fate[n]
  BY <1>1 DEF Fates
<1>3. \A n \in SeqNums : fates[n] = "none" <=> n >= new
  BY <1>1 DEF Sound, Accounted
<1>4. asked \in Nat
  BY <1>1
<1>5. JumpTo(c, new) = d
  BY DEF JumpTo, Sound, CoreType
<1> HIDE DEF fates, asked
<1>6. d \in CoreType /\ d.target = new /\ d.fate = fates /\ d.resend = c.resend
  BY <1>2, <1>4 DEF Sound, CoreType
<1> HIDE DEF d
<1> QED BY <1>1, <1>2, <1>3, <1>5, <1>6 DEF Accounted, Keeps

LEMMA JumpAdvances ==
    ASSUME NEW c, Sound(c), NEW new \in SeqNums, new >= c.target
    PROVE  Advance(c, NoteProgress(JumpTo(c, new)))
<1>1. /\ JumpTo(c, new) \in CoreType /\ Accounted(JumpTo(c, new))
      /\ Keeps(c, JumpTo(c, new))
  BY JumpSound
<1> QED BY <1>1, NoteProgressSound DEF Advance, Keeps

(* ---------------------------------------------------- held sends, closing *)

LEMMA HoldAdvances == ASSUME NEW c, Sound(c) PROVE Advance(c, Hold(c))
<1> DEFINE held == c.heldSends + 1
           d == [c EXCEPT !.heldSends = held]
<1>1. Hold(c) = d /\ held \in Nat
  BY DEF Hold, Sound, CoreType
<1> HIDE DEF held
<1>2. d \in CoreType /\ d.target = c.target /\ d.fate = c.fate /\ d.resend = c.resend
  BY <1>1 DEF Sound, CoreType
<1> HIDE DEF d
<1> QED BY <1>1, <1>2, QuietAdvance

LEMMA ReplyAdvances == ASSUME NEW c, Sound(c) PROVE Advance(c, Reply(c))
BY HoldAdvances, SelfAdvance DEF Reply

LEMMA HoldRequestAdvances == ASSUME NEW c, Sound(c) PROVE Advance(c, HoldRequest(c))
<1>1. CASE c.heldRequest
  BY <1>1, SelfAdvance DEF HoldRequest
<1>2. CASE ~c.heldRequest
  <2> DEFINE h == Hold(c)
             d == [h EXCEPT !.heldRequest = TRUE]
  <2>1. HoldRequest(c) = d
    BY <1>2 DEF HoldRequest
  <2>2. Advance(c, h)
    BY HoldAdvances
  <2> HIDE DEF h
  <2>3. d \in CoreType /\ d.target = h.target /\ d.fate = h.fate /\ d.resend = h.resend
    BY <2>2 DEF Advance, Sound, CoreType
  <2>4. Sound(h)
    BY <2>2 DEF Advance
  <2> HIDE DEF d
  <2> QED BY <2>1, <2>2, <2>3, <2>4, QuietAdvance, AdvanceTransitive
<1> QED BY <1>1, <1>2

LEMMA RequestWrittenAdvances ==
    ASSUME NEW c, Sound(c) PROVE Advance(c, RequestWritten(c))
<1> DEFINE asked == c.asked + 1
           d == [c EXCEPT !.asked = asked, !.heldLogon = 0]
<1>1. RequestWritten(c) = d /\ asked \in Nat /\ 0 \in 0 .. MaxSeq
  BY DEF RequestWritten, Sound, CoreType
<1> HIDE DEF asked
<1>2. d \in CoreType /\ d.target = c.target /\ d.fate = c.fate /\ d.resend = c.resend
  BY <1>1 DEF Sound, CoreType
<1> HIDE DEF d
<1> QED BY <1>1, <1>2, QuietAdvance

LEMMA CloseAdvances == ASSUME NEW c, Sound(c) PROVE Advance(c, Close(c))
<1>1. Close(c) \in CoreType /\ Close(c).target = c.target
      /\ Close(c).fate = c.fate /\ Close(c).resend = c.resend
  BY DEF Close, Sound, CoreType, Phases
<1> QED BY <1>1, QuietAdvance

LEMMA ExhaustedAdvances == ASSUME NEW c, Sound(c) PROVE Advance(c, Exhausted(c))
BY CloseAdvances DEF Exhausted

(* ---------------------------------------------------------- the gap queue *)

LEMMA QueueUpdateAdvances ==
    ASSUME NEW c, Sound(c), NEW q \in [SeqNums -> GapEntries]
    PROVE  Advance(c, [c EXCEPT !.queue = q])
<1> DEFINE d == [c EXCEPT !.queue = q]
<1>1. d \in CoreType /\ d.target = c.target /\ d.fate = c.fate /\ d.resend = c.resend
  BY DEF Sound, CoreType
<1> QED BY <1>1, QuietAdvance

LEMMA NoEntryType == NoEntry \in GapEntries
BY DEF NoEntry, GapEntries

LEMMA ClearQueueAdvances == ASSUME NEW c, Sound(c) PROVE Advance(c, ClearQueue(c))
BY QueueUpdateAdvances, NoEntryType DEF ClearQueue

LEMMA TakeReadyAdvances == ASSUME NEW c, Sound(c) PROVE Advance(c, TakeReady(c))
<1>1. [n \in SeqNums |-> IF n <= c.target THEN NoEntry ELSE c.queue[n]]
        \in [SeqNums -> GapEntries]
  BY NoEntryType DEF Sound, CoreType
<1> QED BY <1>1, QueueUpdateAdvances DEF TakeReady

LEMMA QueueGappedAdvances ==
    ASSUME NEW c, Sound(c), NEW n \in SeqNums, NEW entry \in GapEntries, NEW fits \in BOOLEAN
    PROVE  Advance(c, QueueGapped(c, n, entry, fits))
<1>1. [c.queue EXCEPT ![n] = entry] \in [SeqNums -> GapEntries]
  BY DEF Sound, CoreType
<1> DEFINE d == [c EXCEPT !.queue = [c.queue EXCEPT ![n] = entry]]
<1>2. QueueGapped(c, n, entry, fits) = c \/ QueueGapped(c, n, entry, fits) = d
  BY DEF QueueGapped, Sound, CoreType
<1>3. Advance(c, d)
  BY <1>1, QueueUpdateAdvances
<1> HIDE DEF d
<1> QED BY <1>2, <1>3, SelfAdvance

(* --------------------------------------------------------------- recovery *)

\* Arming or re-arming recovery keeps it sound when it names the expectation
\* and a top that is still missing.
LEMMA ResendUpdateAdvances ==
    ASSUME NEW c, Sound(c), NEW r \in ResendStates,
           r.armed => r.expected = c.target /\ c.target <= r.highWater
    PROVE  Advance(c, [c EXCEPT !.resend = r])
<1> DEFINE d == [c EXCEPT !.resend = r]
<1>1. d \in CoreType /\ d.target = c.target /\ d.fate = c.fate /\ d.resend = r
  BY DEF Sound, CoreType
<1>2. Tracks(d)
  BY <1>1 DEF Tracks
<1>3. Advance(c, d)
  <2> HIDE DEF d
  <2> QED BY <1>1, <1>2, RecoveryAdvance
<1> QED BY <1>3

\* Reactor::request_resend: a new request names the expectation, and a gap
\* already asked for only reaches higher.
LEMMA RequestResendAdvances ==
    ASSUME NEW c, Sound(c), NEW high \in SeqNums, c.target <= high, NEW sent
    PROVE  Advance(c, RequestResend(c, high, sent))
<1> DEFINE merged == MergedHighWater(c.resend, high)
           raisedResend == [c.resend EXCEPT !.highWater = Larger(c.resend.highWater, high)]
           raised == IF c.resend.armed THEN [c EXCEPT !.resend.highWater = Larger(@, high)]
                                       ELSE c
           first == [c EXCEPT !.resend = Armed(c.target, merged, 1)]
           charged == [Armed(c.target, merged, 0) EXCEPT !.charge = TRUE]
           implied == [c EXCEPT !.resend = charged]
<1>0. c.target \in SeqNums /\ c.resend \in ResendStates
  BY DEF Sound, CoreType
<1>1. merged \in SeqNums /\ c.target <= merged
  <2>1. CASE c.resend.armed
    BY <2>1, <1>0 DEF MergedHighWater, Larger, ResendStates
  <2>2. CASE ~c.resend.armed
    BY <2>2 DEF MergedHighWater
  <2> QED BY <2>1, <2>2
<1> HIDE DEF merged
<1>2. Advance(c, raised)
  <2>1. CASE ~c.resend.armed
    BY <2>1, SelfAdvance
  <2>2. CASE c.resend.armed
    <3>1. Larger(c.resend.highWater, high) \in 0 .. MaxSeq
          /\ c.target <= Larger(c.resend.highWater, high)
      BY <1>0 DEF Larger, ResendStates
    <3>2. raisedResend \in ResendStates
      BY <1>0, <3>1 DEF ResendStates
    <3>3. raisedResend.armed = c.resend.armed /\ raisedResend.expected = c.resend.expected
          /\ raisedResend.highWater = Larger(c.resend.highWater, high)
      BY <1>0 DEF ResendStates
    <3>4. raised = [c EXCEPT !.resend = raisedResend]
      BY <2>2, <1>0 DEF Sound, CoreType, ResendStates
    <3> HIDE DEF raisedResend, raised
    <3> QED BY <2>2, <3>1, <3>2, <3>3, <3>4, ResendUpdateAdvances DEF Sound, Tracks
  <2> QED BY <2>1, <2>2
<1>3. Advance(c, first)
  <2> DEFINE r == Armed(c.target, merged, 1)
  <2>1. r \in ResendStates /\ r.expected = c.target /\ r.highWater = merged
    BY <1>0, <1>1, ArmedType
  <2> HIDE DEF r
  <2>2. Advance(c, [c EXCEPT !.resend = r])
    BY <1>1, <2>1, ResendUpdateAdvances
  <2> QED BY <2>2 DEF r
<1>4. Advance(c, implied)
  <2> DEFINE r == Armed(c.target, merged, 0)
  <2>0. r \in ResendStates /\ r.expected = c.target /\ r.highWater = merged
    BY <1>0, <1>1, ArmedType
  <2> HIDE DEF r
  <2>1. [r EXCEPT !.charge = TRUE] \in ResendStates
        /\ [r EXCEPT !.charge = TRUE].expected = c.target
        /\ [r EXCEPT !.charge = TRUE].highWater = merged
    BY <2>0 DEF ResendStates
  <2>2. charged \in ResendStates /\ charged.expected = c.target
        /\ charged.highWater = merged
    BY <2>1 DEF r
  <2> HIDE DEF charged
  <2> QED BY <2>2, <1>1, ResendUpdateAdvances
<1>5. /\ Advance(c, HoldRequest(implied))
      /\ Advance(c, RequestWritten(first))
  BY <1>3, <1>4, HoldRequestAdvances, RequestWrittenAdvances, AdvanceTransitive DEF Advance
<1>6. RequestResend(c, high, sent)
        \in {raised, HoldRequest(implied), RequestWritten(first)}
  BY DEF RequestResend, merged
<1> HIDE DEF raised, implied, first
<1> QED BY <1>2, <1>5, <1>6

LEMMA ArmUnchargedAdvances ==
    ASSUME NEW c, Sound(c), NEW high \in SeqNums, c.target <= high
    PROVE  Advance(c, ArmUncharged(c, high))
<1>0. c.target \in SeqNums /\ c.resend \in ResendStates
  BY DEF Sound, CoreType
<1>1. CASE ~c.resend.armed
  BY <1>0, <1>1, ArmedType, ResendUpdateAdvances DEF ArmUncharged
<1>2. CASE c.resend.armed
  <2> DEFINE top == Larger(c.resend.highWater, high)
             r == [c.resend EXCEPT !.expected = c.target, !.highWater = top]
  <2>1. top \in 0 .. MaxSeq /\ c.target <= top /\ c.target \in 0 .. MaxSeq
    BY <1>0 DEF Larger, ResendStates
  <2>2. ArmUncharged(c, high) = [c EXCEPT !.resend = r]
    BY <1>2, <1>0 DEF ArmUncharged, Sound, CoreType, ResendStates
  <2> HIDE DEF top
  <2>3. r \in ResendStates
    BY <1>0, <2>1 DEF ResendStates
  <2>4. r.expected = c.target /\ r.highWater = top
    BY <1>0 DEF ResendStates
  <2> HIDE DEF r
  <2> QED BY <2>1, <2>2, <2>3, <2>4, ResendUpdateAdvances
<1> QED BY <1>1, <1>2

\* Reactor::rerequest_spanned_gap.
LEMMA RerequestSpannedAdvances ==
    ASSUME NEW c, Sound(c), NEW new \in 0 .. MaxSeq, c.target < new, NEW sent
    PROVE  Advance(c, RerequestSpanned(c, new, sent))
<1> DEFINE noted == [c EXCEPT !.spanned = c.target]
           high == Larger(new - 1, c.target)
           armed == ArmUncharged(noted, high)
<1>0. c.target \in SeqNums /\ c.target \in 0 .. MaxSeq
  BY DEF Sound, CoreType
<1>1. noted \in CoreType /\ noted.target = c.target /\ noted.fate = c.fate
      /\ noted.resend = c.resend
  BY <1>0 DEF Sound, CoreType
<1>2. RerequestSpanned(c, new, sent) \in {noted, HoldRequest(armed), RequestWritten(armed)}
  BY DEF RerequestSpanned
<1> HIDE DEF noted
<1>3. Advance(c, noted)
  BY <1>1, QuietAdvance
<1>4. high \in SeqNums /\ noted.target <= high
  BY <1>0, <1>1 DEF Larger
<1> HIDE DEF high
<1>5. Advance(c, armed)
  BY <1>3, <1>4, ArmUnchargedAdvances, AdvanceTransitive DEF Advance
<1> HIDE DEF armed
<1> QED BY <1>2, <1>3, <1>5, HoldRequestAdvances, RequestWrittenAdvances, AdvanceTransitive
       DEF Advance

(* ------------------------------------------------------------- handlers *)

\* Two operators in a row.
LEMMA Composed ==
    ASSUME NEW c, Sound(c), NEW d, Advance(c, d), NEW e, Sound(d) => Advance(d, e)
    PROVE  Advance(c, e)
BY AdvanceTransitive DEF Advance

LEMMA AppTakenAdvances ==
    ASSUME NEW c, Sound(c), NEW ok \in BOOLEAN
    PROVE  Advance(c, AppTaken(c, c.target, ok))
<1>1. CASE ~CanAdvance(c)
  BY <1>1, ExhaustedAdvances DEF AppTaken
<1>2. CASE CanAdvance(c)
  <2> DEFINE taken == Consume(c, c.target, "app")
             acted == Consume(c, c.target, "acted")
  <2>1. Advance(c, taken) /\ Advance(c, acted)
    BY <1>2, ConsumeAdvances DEF Fates
  <2> HIDE DEF taken, acted
  <2>2. Advance(c, Reply(acted))
    BY <2>1, ReplyAdvances, Composed
  <2> QED BY <1>2, <2>1, <2>2 DEF AppTaken, taken, acted
<1> QED BY <1>1, <1>2

LEMMA ActedAdvances ==
    ASSUME NEW c, Sound(c), CanAdvance(c)
    PROVE  Advance(c, Consume(c, c.target, "acted"))
BY ConsumeAdvances DEF Fates

LEMMA FillTakenAdvances ==
    ASSUME NEW c, Sound(c), NEW new \in 0 .. MaxSeq, NEW ok \in BOOLEAN
    PROVE  Advance(c, FillTaken(c, c.target, new, ok))
<1>0. c.target \in SeqNums
  BY DEF Sound, CoreType
<1>1. CASE ~CanAdvance(c)
  BY <1>1, ExhaustedAdvances DEF FillTaken
<1>2. CASE CanAdvance(c) /\ ok /\ new > c.target
  <2>1. new \in SeqNums /\ new >= c.target
    BY <1>0, <1>2
  <2> QED BY <1>2, <2>1, JumpAdvances DEF FillTaken
<1>3. CASE CanAdvance(c) /\ ~(ok /\ new > c.target)
  <2> DEFINE acted == Consume(c, c.target, "acted")
  <2>1. Advance(c, acted)
    BY <1>3, ActedAdvances
  <2> HIDE DEF acted
  <2>2. Advance(c, Reply(acted))
    BY <2>1, ReplyAdvances, Composed
  <2> QED BY <1>3, <2>2 DEF FillTaken, acted
<1> QED BY <1>1, <1>2, <1>3

\* A Reset that is taken moves the expectation to NewSeqNo and nowhere back.
LEMMA ResetTakenAdvances ==
    ASSUME NEW c, Sound(c), NEW new \in 0 .. MaxSeq, NEW ok \in BOOLEAN
    PROVE  Advance(c, ResetTaken(c, new, ok))
<1>0. c.target \in SeqNums
  BY DEF Sound, CoreType
<1>1. CASE ~ok \/ new < c.target
  BY <1>1, ReplyAdvances DEF ResetTaken
<1>2. CASE ok /\ ~(new < c.target)
  <2> DEFINE jumped == JumpTo(c, new)
             moved == ClearQueue(jumped)
  <2>1. new \in SeqNums /\ new >= c.target
    BY <1>0, <1>2
  <2>2. /\ jumped \in CoreType /\ Accounted(jumped) /\ Keeps(c, jumped)
        /\ jumped.target = new /\ jumped.resend = c.resend
    BY <2>1, JumpSound
  <2> HIDE DEF jumped
  <2>3. /\ moved \in CoreType /\ moved.target = jumped.target
        /\ moved.fate = jumped.fate /\ moved.resend = jumped.resend
    <3>1. [n \in SeqNums |-> NoEntry] \in [SeqNums -> GapEntries]
      BY NoEntryType
    <3> QED BY <2>2, <3>1 DEF ClearQueue, CoreType
  <2>4. ResetTaken(c, new, ok) = IF new > c.target THEN NoteProgress(moved) ELSE moved
    BY <1>2 DEF ResetTaken, jumped
  <2> HIDE DEF moved
  <2>5. Accounted(moved) /\ Keeps(c, moved)
    BY <2>2, <2>3 DEF Accounted, Keeps
  <2>6. CASE new > c.target
    BY <2>3, <2>4, <2>5, <2>6, NoteProgressSound DEF Advance, Keeps
  <2>7. CASE ~(new > c.target)
    <3>1. new = c.target
      BY <1>0, <2>1, <2>7
    <3>2. Tracks(moved)
      BY <2>2, <2>3, <3>1 DEF Sound, Tracks
    <3> QED BY <2>3, <2>4, <2>5, <2>7, <3>2 DEF Advance, Sound
  <2> QED BY <2>6, <2>7
<1> QED BY <1>1, <1>2

LEMMA FlagAdvances ==
    ASSUME NEW c, Sound(c), NEW flag \in BOOLEAN
    PROVE  /\ Advance(c, [c EXCEPT !.owed = flag])
           /\ Advance(c, [c EXCEPT !.replaying = flag])
<1>1. /\ [c EXCEPT !.owed = flag] \in CoreType
      /\ [c EXCEPT !.owed = flag].target = c.target
      /\ [c EXCEPT !.owed = flag].fate = c.fate
      /\ [c EXCEPT !.owed = flag].resend = c.resend
  BY DEF Sound, CoreType
<1>2. /\ [c EXCEPT !.replaying = flag] \in CoreType
      /\ [c EXCEPT !.replaying = flag].target = c.target
      /\ [c EXCEPT !.replaying = flag].fate = c.fate
      /\ [c EXCEPT !.replaying = flag].resend = c.resend
  BY DEF Sound, CoreType
<1> QED BY <1>1, <1>2, QuietAdvance

LEMMA DispatchAdminAdvances ==
    ASSUME NEW c, Sound(c), NEW f \in Frames, f.kind \in AdminKinds, NEW ok \in BOOLEAN
    PROVE  Advance(c, DispatchAdmin(c, f, ok))
<1>1. Advance(c, c) /\ Advance(c, Reply(c)) /\ Advance(c, [c EXCEPT !.replaying = TRUE])
  BY SelfAdvance, ReplyAdvances, FlagAdvances
<1>2. Advance(c, OnLogout(ClearQueue(c)))
  <2> DEFINE d == ClearQueue(c)
  <2>1. Advance(c, d)
    BY ClearQueueAdvances
  <2> HIDE DEF d
  <2>2. Sound(d) => Advance(d, OnLogout(d))
    BY CloseAdvances, FlagAdvances DEF OnLogout
  <2> QED BY <2>1, <2>2, Composed DEF d
<1> QED BY <1>1, <1>2 DEF DispatchAdmin, AdminKinds

\* The in-sequence administrative message: its number first, then its effect.
LEMMA AdminTakenAdvances ==
    ASSUME NEW c, Sound(c), CanAdvance(c), NEW f \in Frames, f.kind \in AdminKinds,
           NEW ok \in BOOLEAN
    PROVE  Advance(c, DispatchAdmin(Consume(c, c.target, "acted"), f, ok))
<1> DEFINE d == Consume(c, c.target, "acted")
<1>1. Advance(c, d)
  BY ActedAdvances
<1> HIDE DEF d
<1> QED BY <1>1, DispatchAdminAdvances, Composed DEF d

LEMMA BeginLogoutAdvances ==
    ASSUME NEW c, Sound(c), NEW sent PROVE Advance(c, BeginLogout(c, sent))
<1> DEFINE d == [c EXCEPT !.phase = "LogoutQueued", !.resend = NoResend, !.heldLogon = 0]
<1>1. NoResend \in ResendStates /\ ~NoResend.armed /\ "LogoutQueued" \in Phases
      /\ 0 \in 0 .. MaxSeq
  BY DEF NoResend, ResendStates, Phases
<1> HIDE DEF NoResend
<1>2. d \in CoreType /\ d.target = c.target /\ d.fate = c.fate /\ ~d.resend.armed
  BY <1>1 DEF Sound, CoreType
<1>3. BeginLogout(c, sent) = c \/ BeginLogout(c, sent) = ClearQueue(d)
  BY DEF BeginLogout
<1> HIDE DEF d
<1>4. Advance(c, d)
  BY <1>2, RecoveryAdvance DEF Tracks
<1> QED BY <1>3, <1>4, SelfAdvance, ClearQueueAdvances, Composed

\* What the hold released: the rebuilt ResendRequest names the expectation.
LEMMA HeldWrittenAdvances ==
    ASSUME NEW c, Sound(c), NEW sent PROVE Advance(c, HeldWritten(c, sent))
<1> DEFINE freed == [c EXCEPT !.replaying = FALSE, !.heldSends = 0, !.heldRequest = FALSE]
           attempts == freed.resend.attempts + 1
           quiet == [freed.resend EXCEPT !.charge = FALSE]
           counted == [quiet EXCEPT !.attempts = attempts]
           uncharged == [freed EXCEPT !.resend = quiet]
           charged == [freed EXCEPT !.resend = counted]
<1>1. freed \in CoreType /\ freed.target = c.target /\ freed.fate = c.fate
      /\ freed.resend = c.resend
  BY DEF Sound, CoreType
<1>2. \/ HeldWritten(c, sent) = freed
      \/ HeldWritten(c, sent) = uncharged
      \/ HeldWritten(c, sent) = RequestWritten(uncharged)
      \/ HeldWritten(c, sent) = RequestWritten(charged)
  <2>1. CASE ~c.heldRequest \/ ~c.resend.armed
    BY <2>1 DEF HeldWritten
  <2>2. CASE ~(~c.heldRequest \/ ~c.resend.armed)
    <3>1. [uncharged EXCEPT !.resend.attempts = uncharged.resend.attempts + 1] = charged
      BY <1>1 DEF CoreType, ResendStates
    <3>2. HeldWritten(c, sent) =
            IF sent = "Dropped" THEN uncharged
            ELSE RequestWritten(IF c.resend.charge THEN charged ELSE uncharged)
      BY <2>2, <3>1 DEF HeldWritten
    <3> HIDE DEF freed, attempts, quiet, counted, uncharged, charged
    <3> QED BY <3>2
  <2> QED BY <2>1, <2>2
<1> HIDE DEF freed
<1>3. Advance(c, freed) /\ Sound(freed) /\ freed.resend \in ResendStates
  BY <1>1, QuietAdvance DEF Advance, CoreType
<1>4. attempts \in Nat
  BY <1>3 DEF ResendStates
<1> HIDE DEF attempts
<1>5. /\ quiet \in ResendStates /\ quiet.armed = freed.resend.armed
      /\ quiet.expected = freed.resend.expected
      /\ quiet.highWater = freed.resend.highWater
  BY <1>3 DEF ResendStates
<1>6. /\ counted \in ResendStates /\ counted.armed = freed.resend.armed
      /\ counted.expected = freed.resend.expected
      /\ counted.highWater = freed.resend.highWater
  BY <1>3, <1>4, <1>5 DEF ResendStates
<1> HIDE DEF quiet, counted
<1>7. Advance(freed, uncharged) /\ Advance(freed, charged)
  BY <1>3, <1>5, <1>6, ResendUpdateAdvances DEF Sound, Tracks
<1> HIDE DEF uncharged, charged
<1> QED BY <1>2, <1>3, <1>7, RequestWrittenAdvances, Composed DEF Advance

(* ---------------------------------------------------------------- steps *)

PcType == pc \in {"open", "idle", "release"}

LEMMA OpenAdvances == ASSUME Sound(core), Open PROVE Advance(core, core')
<1>1. PICK replay \in BOOLEAN :
        \/ OpenPlain(replay)
        \/ \E logonSeq \in SeqNums :
              /\ logonSeq > core.target
              /\ OpenGap(logonSeq, replay) \/ OpenHeldLogon(logonSeq, replay)
  BY DEF Open
<1>2. CASE OpenPlain(replay)
  BY <1>2, FlagAdvances DEF OpenPlain
<1>3. ASSUME NEW logonSeq \in SeqNums, logonSeq > core.target, OpenGap(logonSeq, replay)
      PROVE  Advance(core, core')
  <2>1. PICK sent \in SentOutcomes :
          core' = [RequestResend(core, logonSeq, sent) EXCEPT !.replaying = replay]
    BY <1>3 DEF OpenGap
  <2> DEFINE d == RequestResend(core, logonSeq, sent)
  <2>2. core.target \in SeqNums
    BY DEF Sound, CoreType
  <2>3. Advance(core, d)
    BY <1>3, <2>2, RequestResendAdvances
  <2> HIDE DEF d
  <2>4. Sound(d) => Advance(d, [d EXCEPT !.replaying = replay])
    BY FlagAdvances
  <2> QED BY <2>1, <2>3, <2>4, Composed DEF d
<1>4. ASSUME NEW logonSeq \in SeqNums, logonSeq > core.target,
             OpenHeldLogon(logonSeq, replay)
      PROVE  Advance(core, core')
  <2> DEFINE r == Armed(core.target, logonSeq, 0)
             d == [core EXCEPT !.resend = r, !.heldLogon = logonSeq, !.replaying = replay]
  <2>1. core.target \in SeqNums /\ core.target <= logonSeq /\ logonSeq \in 0 .. MaxSeq
    BY <1>4 DEF Sound, CoreType
  <2>2. r \in ResendStates /\ r.expected = core.target /\ r.highWater = logonSeq
    BY <2>1, ArmedType
  <2>3. core' = d
    BY <1>4 DEF OpenHeldLogon
  <2> HIDE DEF r
  <2>4. d \in CoreType /\ d.target = core.target /\ d.fate = core.fate /\ d.resend = r
    BY <2>1, <2>2 DEF Sound, CoreType
  <2> HIDE DEF d
  <2>5. Tracks(d)
    BY <2>1, <2>2, <2>4 DEF Tracks
  <2> QED BY <2>3, <2>4, <2>5, RecoveryAdvance
<1> QED BY <1>1, <1>2, <1>3, <1>4

LEMMA ReceiveGappedAdvances ==
    ASSUME Sound(core), NEW f \in Frames, ReceiveGapped(f)
    PROVE  Advance(core, core')
<1>1. PICK sent \in SentOutcomes, ok \in BOOLEAN, fits \in BOOLEAN :
        LET asked == RequestResend(core, f.seq, sent)
        IN  \/ /\ f.kind = "app"
               /\ core' = QueueGapped(asked, f.seq, [kind |-> "app", new |-> 0], fits)
            \/ /\ f.kind = "fill"
               /\ core' = QueueGapped(asked, f.seq, [kind |-> "fill", new |-> f.new], fits)
            \/ /\ f.kind = "malformed"
               /\ core' = asked
            \/ /\ f.kind = "logout"
               /\ core' = DispatchAdmin(asked, f, ok)
            \/ /\ f.kind \in AdminKinds \ {"logout"}
               /\ core' = IF IsHeldCopy(asked, f.seq) THEN asked
                          ELSE DispatchAdmin(
                                 QueueGapped(asked, f.seq,
                                             [kind |-> "processed", new |-> 0], TRUE),
                                 f, ok)
  BY DEF ReceiveGapped
<1> DEFINE asked == RequestResend(core, f.seq, sent)
           kept == QueueGapped(asked, f.seq, [kind |-> "processed", new |-> 0], TRUE)
<1>2. f.seq \in SeqNums /\ f.new \in 0 .. MaxSeq /\ core.target <= f.seq
  <2>1. f.seq \in SeqNums /\ f.new \in 0 .. MaxSeq
    BY DEF Frames
  <2>2. core.target \in SeqNums /\ f.seq > core.target
    BY DEF Sound, CoreType, ReceiveGapped, Gapped
  <2> QED BY <2>1, <2>2
<1>3. Advance(core, asked)
  BY <1>2, RequestResendAdvances
<1>4. /\ [kind |-> "app", new |-> 0] \in GapEntries
      /\ [kind |-> "fill", new |-> f.new] \in GapEntries
      /\ [kind |-> "processed", new |-> 0] \in GapEntries
  BY <1>2 DEF GapEntries
<1> HIDE DEF asked
<1>5. CASE f.kind = "app" /\ core' = QueueGapped(asked, f.seq, [kind |-> "app", new |-> 0], fits)
  BY <1>2, <1>3, <1>4, <1>5, QueueGappedAdvances, Composed
<1>6. CASE f.kind = "fill"
           /\ core' = QueueGapped(asked, f.seq, [kind |-> "fill", new |-> f.new], fits)
  BY <1>2, <1>3, <1>4, <1>6, QueueGappedAdvances, Composed
<1>7. CASE f.kind = "logout" /\ core' = DispatchAdmin(asked, f, ok)
  <2>1. f.kind \in AdminKinds
    BY <1>7 DEF AdminKinds
  <2> QED BY <1>3, <1>7, <2>1, DispatchAdminAdvances, Composed
<1>8. CASE f.kind \in AdminKinds \ {"logout"} /\ core' = DispatchAdmin(kept, f, ok)
  <2>0. Sound(asked) => Advance(asked, kept)
    BY <1>2, <1>4, QueueGappedAdvances
  <2> HIDE DEF kept
  <2>1. Advance(core, kept)
    BY <1>3, <2>0, Composed
  <2>2. f.kind \in AdminKinds
    BY <1>8
  <2>3. Sound(kept) => Advance(kept, DispatchAdmin(kept, f, ok))
    BY <2>2, DispatchAdminAdvances
  <2> QED BY <1>8, <2>1, <2>3, Composed
<1> QED BY <1>1, <1>3, <1>5, <1>6, <1>7, <1>8 DEF asked, kept

LEMMA ReceiveAdvances ==
    ASSUME Sound(core), NEW f \in Frames,
           \/ ReceiveApp(f) \/ ReceiveAdmin(f) \/ ReceiveMalformed(f) \/ ReceiveFill(f)
           \/ ReceiveReset(f) \/ ReceiveBadFlag(f) \/ ReceiveDuplicate(f)
           \/ ReceiveTooLow(f) \/ ReceiveGapped(f)
    PROVE  Advance(core, core')
<1>0. f.seq \in SeqNums /\ f.new \in 0 .. MaxSeq
  BY DEF Frames
<1>1. CASE ReceiveApp(f)
  BY <1>1, AppTakenAdvances DEF ReceiveApp, InSequence
<1>2. CASE ReceiveAdmin(f)
  <2>1. PICK ok \in BOOLEAN :
          core' = IF CanAdvance(core)
                  THEN DispatchAdmin(Consume(core, f.seq, "acted"), f, ok)
                  ELSE Exhausted(core)
    BY <1>2 DEF ReceiveAdmin
  <2>2. f.seq = core.target /\ f.kind \in AdminKinds
    BY <1>2 DEF ReceiveAdmin, InSequence
  <2> QED BY <2>1, <2>2, AdminTakenAdvances, ExhaustedAdvances
<1>3. CASE ReceiveMalformed(f)
  BY <1>3, AppTakenAdvances DEF ReceiveMalformed, InSequence
<1>4. CASE ReceiveFill(f)
  BY <1>0, <1>4, FillTakenAdvances DEF ReceiveFill, InSequence
<1>5. CASE ReceiveReset(f)
  BY <1>0, <1>5, ResetTakenAdvances DEF ReceiveReset
<1>6. CASE ReceiveBadFlag(f)
  BY <1>6, ReplyAdvances DEF ReceiveBadFlag
<1>7. CASE ReceiveDuplicate(f)
  <2>1. CASE SpansMissing(f)
    <3>1. core.target < f.new
      BY <1>0, <2>1 DEF SpansMissing, Sound, CoreType
    <3> QED BY <1>0, <1>7, <2>1, <3>1, RerequestSpannedAdvances DEF ReceiveDuplicate
  <2>2. CASE ~SpansMissing(f)
    BY <1>7, <2>2, SelfAdvance DEF ReceiveDuplicate
  <2> QED BY <2>1, <2>2
<1>8. CASE ReceiveTooLow(f)
  BY <1>8, CloseAdvances DEF ReceiveTooLow
<1>9. CASE ReceiveGapped(f)
  BY <1>9, ReceiveGappedAdvances
<1> QED BY <1>1, <1>2, <1>3, <1>4, <1>5, <1>6, <1>7, <1>8, <1>9

LEMMA ReleaseAdvances == ASSUME Sound(core), Release PROVE Advance(core, core')
<1>1. CASE ReleaseHeldLogon
  <2> DEFINE c == [core EXCEPT !.heldLogon = 0]
  <2>a. core.target \in SeqNums /\ core.heldLogon \in 0 .. MaxSeq /\ 0 \in 0 .. MaxSeq
    BY DEF Sound, CoreType
  <2>0. c \in CoreType /\ c.target = core.target /\ c.fate = core.fate
        /\ c.resend = core.resend
    BY <2>a DEF Sound, CoreType
  <2>1. Advance(core, c)
    BY <2>0, QuietAdvance
  <2>2. core' = IF core.heldLogon < core.target THEN c
                ELSE IF CanAdvance(c) THEN Consume(c, core.heldLogon, "acted")
                ELSE Exhausted(c)
    BY <1>1 DEF ReleaseHeldLogon
  <2>3. core.heldLogon <= core.target
    BY <1>1 DEF ReleaseHeldLogon, LogonDue
  <2> HIDE DEF c
  <2>4. CASE core.heldLogon < core.target
    BY <2>1, <2>2, <2>4
  <2>5. CASE core.heldLogon = c.target
    BY <2>0, <2>1, <2>2, <2>5, ActedAdvances, ExhaustedAdvances, Composed
  <2> QED BY <2>a, <2>0, <2>3, <2>4, <2>5
<1>2. CASE ReleaseEntry
  <2> DEFINE entry == core.queue[core.target]
             c == TakeReady(core)
  <2>1. PICK ok \in BOOLEAN :
          \/ entry.kind = "app" /\ core' = AppTaken(c, core.target, ok)
          \/ entry.kind = "fill" /\ core' = FillTaken(c, core.target, entry.new, ok)
          \/ /\ entry.kind = "processed"
             /\ core' = IF CanAdvance(c) THEN Consume(c, core.target, "acted")
                        ELSE Exhausted(c)
    BY <1>2 DEF ReleaseEntry
  <2>2. entry.new \in 0 .. MaxSeq
    BY DEF Sound, CoreType, GapEntries
  <2>3. Advance(core, c)
    BY TakeReadyAdvances
  <2>4. c.target = core.target
    BY DEF TakeReady, Sound, CoreType
  <2> HIDE DEF c, entry
  <2>5. /\ Advance(core, AppTaken(c, c.target, ok))
        /\ Advance(core, FillTaken(c, c.target, entry.new, ok))
    BY <2>2, <2>3, AppTakenAdvances, FillTakenAdvances, Composed
  <2>6. /\ CanAdvance(c) => Advance(core, Consume(c, c.target, "acted"))
        /\ Advance(core, Exhausted(c))
    BY <2>3, ActedAdvances, ExhaustedAdvances, Composed
  <2> QED BY <2>1, <2>4, <2>5, <2>6
<1>3. CASE ReleaseDone
  BY <1>3, SelfAdvance, TakeReadyAdvances DEF ReleaseDone
<1> QED BY <1>1, <1>2, <1>3 DEF Release

LEMMA FinishResendsAdvances ==
    ASSUME Sound(core), FinishResends PROVE Advance(core, core')
<1>1. PICK sent \in SentOutcomes :
        core' = IF core.owed THEN Close(HeldWritten(core, sent)) ELSE HeldWritten(core, sent)
  BY DEF FinishResends
<1> QED BY <1>1, HeldWrittenAdvances, CloseAdvances, Composed

LEMMA TickAdvances == ASSUME Sound(core), Tick PROVE Advance(core, core')
<1>1. CASE RetryStalled
  <2> DEFINE attempts == core.resend.attempts + 1
             r == [core.resend EXCEPT !.attempts = attempts, !.charge = FALSE]
             d == [core EXCEPT !.resend = r]
  <2>0. core.resend \in ResendStates
    BY DEF Sound, CoreType
  <2>1. core' = core \/ core' = RequestWritten(d)
    BY <1>1, <2>0 DEF RetryStalled, Sound, CoreType, ResendStates
  <2>2. attempts \in Nat
    BY <2>0 DEF ResendStates
  <2> HIDE DEF attempts
  <2>3. /\ r \in ResendStates /\ r.armed = core.resend.armed
        /\ r.expected = core.resend.expected /\ r.highWater = core.resend.highWater
    BY <2>0, <2>2 DEF ResendStates
  <2> HIDE DEF r
  <2>4. Advance(core, d)
    BY <2>3, ResendUpdateAdvances DEF Sound, Tracks
  <2> HIDE DEF d
  <2> QED BY <2>1, <2>4, SelfAdvance, RequestWrittenAdvances, Composed
<1>2. CASE AbandonStalled
  BY <1>2, BeginLogoutAdvances DEF AbandonStalled
<1>3. CASE CutResend
  BY <1>3, CloseAdvances DEF CutResend
<1>4. CASE LogoutTimeout
  BY <1>4, CloseAdvances DEF LogoutTimeout
<1> QED BY <1>1, <1>2, <1>3, <1>4 DEF Tick

LEMMA LogoutWrittenAdvances ==
    ASSUME Sound(core), LogoutWritten PROVE Advance(core, core')
<1> DEFINE d == [core EXCEPT !.phase = "LogoutPending"]
<1>1. core' = d
  BY DEF LogoutWritten
<1>2. d \in CoreType /\ d.target = core.target /\ d.fate = core.fate
      /\ d.resend = core.resend
  BY DEF Sound, CoreType, Phases
<1> HIDE DEF d
<1> QED BY <1>1, <1>2, QuietAdvance

LEMMA NextAdvances == ASSUME Sound(core), [Next]_vars PROVE Advance(core, core')
<1>1. CASE Open
  BY <1>1, OpenAdvances
<1>2. CASE Receive
  BY <1>2, ReceiveAdvances DEF Receive
<1>3. CASE Release
  BY <1>3, ReleaseAdvances
<1>4. CASE FinishResends
  BY <1>4, FinishResendsAdvances
<1>5. CASE Tick
  BY <1>5, TickAdvances
<1>6. CASE LocalLogout
  BY <1>6, BeginLogoutAdvances DEF LocalLogout
<1>7. CASE LogoutWritten
  BY <1>7, LogoutWrittenAdvances
<1>8. CASE Abort
  BY <1>8, CloseAdvances DEF Abort
<1>9. CASE UNCHANGED vars
  BY <1>9, SelfAdvance DEF vars
<1> QED BY <1>1, <1>2, <1>3, <1>4, <1>5, <1>6, <1>7, <1>8, <1>9 DEF Next

LEMMA NextKeepsPc == ASSUME PcType, [Next]_vars PROVE PcType'
BY DEF PcType, Next, vars, Open, Receive, ReceiveApp, ReceiveAdmin, ReceiveMalformed,
       ReceiveFill, ReceiveReset, ReceiveBadFlag, ReceiveDuplicate, ReceiveTooLow,
       ReceiveGapped, Reading, Release, ReleaseHeldLogon, ReleaseEntry, ReleaseDone,
       FinishResends, Tick, RetryStalled, AbandonStalled, CutResend, LogoutTimeout,
       LocalLogout, LogoutWritten, Abort, Stalled

LEMMA InitSound == ASSUME Init PROVE Sound(core) /\ PcType
<1>1. NoResend \in ResendStates /\ ~NoResend.armed
  BY DEF NoResend, ResendStates
<1>2. [n \in SeqNums |-> NoEntry] \in [SeqNums -> GapEntries]
  BY NoEntryType
<1>3. [n \in SeqNums |-> "none"] \in [SeqNums -> Fates]
  BY DEF Fates
<1> HIDE DEF NoResend
<1>4. core \in CoreType
  BY <1>1, <1>2, <1>3 DEF Init, CoreType, Phases
<1>5. Accounted(core) /\ Tracks(core) /\ PcType
  BY <1>1 DEF Init, Accounted, Tracks, PcType
<1> QED BY <1>4, <1>5 DEF Sound

(* ------------------------------------------------------------- theorems *)

\* The inductive invariant of GapRecovery.
THEOREM SoundAlways == Spec => [](Sound(core) /\ PcType)
<1>1. Init => Sound(core) /\ PcType
  BY InitSound
<1>2. (Sound(core) /\ PcType) /\ [Next]_vars => (Sound(core) /\ PcType)'
  BY NextAdvances, NextKeepsPc DEF Advance
<1> QED BY <1>1, <1>2, PTL DEF Spec

\* Every state has the shape TypeOK names; in particular the target counter
\* never passes the largest number, whichever path of the reactor moves it.
THEOREM TypeCorrect == Spec => []TypeOK
<1>1. Sound(core) /\ PcType => TypeOK
  BY DEF Sound, PcType, TypeOK
<1> QED BY <1>1, SoundAlways, PTL

\* The counter and what was done with the messages agree: a number was
\* accounted for exactly when the expectation passed it.
THEOREM AccountedAlways == Spec => []AccountedOnce
<1>1. Sound(core) /\ PcType => AccountedOnce
  BY DEF Sound, Accounted, AccountedOnce
<1> QED BY <1>1, SoundAlways, PTL

\* Outstanding recovery names the first missing number, and a top that is
\* still missing.
THEOREM RecoveryTracks == Spec => []RecoveryTracksTarget
<1>1. Sound(core) /\ PcType => RecoveryTracksTarget
  BY DEF Sound, Tracks, RecoveryTracksTarget
<1> QED BY <1>1, SoundAlways, PTL

\* What became of a number is final: no message reaches the application twice.
THEOREM FateIsFinal == Spec => FateFinal
<1>1. Sound(core) /\ [Next]_vars =>
        [\A n \in SeqNums : core.fate[n] # "none" => core'.fate[n] = core.fate[n]]_vars
  <2> SUFFICES ASSUME Sound(core), [Next]_vars, NEW n \in SeqNums, core.fate[n] # "none"
               PROVE  core'.fate[n] = core.fate[n]
    OBVIOUS
  <2>1. Advance(core, core')
    BY NextAdvances
  <2>2. core.target \in SeqNums
    BY DEF Sound, CoreType
  <2>3. n < core.target
    BY <2>2 DEF Sound, Accounted
  <2> QED BY <2>1, <2>3 DEF Advance, Keeps
<1> QED BY <1>1, SoundAlways, PTL DEF Spec, FateFinal

\* The expectation never moves back.
THEOREM TargetNeverBack == Spec => TargetMonotonic
<1>1. Sound(core) /\ [Next]_vars => [core'.target >= core.target]_vars
  BY NextAdvances DEF Advance, Keeps, Sound, CoreType
<1> QED BY <1>1, SoundAlways, PTL DEF Spec, TargetMonotonic

-----------------------------------------------------------------------------
(***************************************************************************)
(* What GapRecovery keeps, and how often it asks.  For every value of the  *)
(* constants, nothing kept is stranded, nothing is left in the queue of a  *)
(* session on its way out, a held Logon was never asked for, and one       *)
(* expectation has a bounded number of ResendRequests written for it.      *)
(*                                                                         *)
(* The first three are proved together: a core is Calm when what it keeps  *)
(* is covered by its recovery.  As above each operator has a lemma, that   *)
(* it leads from a Sound and Calm core to a Calm one.  The bound on the    *)
(* requests has an invariant of its own, below.                            *)
(***************************************************************************)

Kept(c, n) == c.queue[n].kind # "none"

\* A session on its way out keeps nothing.
Leaving(c) == c.phase \in {"LogoutQueued", "LogoutPending"} \/ c.owed
LeavesEmpty(c) == Leaving(c) => \A n \in SeqNums : ~Kept(c, n)

\* A Logon held above the expectation is covered and unasked for.
LogonCovered(c) ==
    c.heldLogon > c.target => /\ c.resend.armed
                              /\ c.heldLogon <= c.resend.highWater
                              /\ c.resend.attempts = 0

\* Recovery reaches the number n.
Reaches(c, n) == ~CallbackDrops => c.resend.armed /\ n <= c.resend.highWater
KeptCovered(c) == \A n \in SeqNums : Kept(c, n) /\ n > c.target => Reaches(c, n)

Calm(c) == LeavesEmpty(c) /\ LogonCovered(c) /\ KeptCovered(c)

\* The session's way out and its queue are untouched.
SameExit(c, d) == d.phase = c.phase /\ d.owed = c.owed /\ d.queue = c.queue

(* ------------------------------------------------ changes of one part *)

\* A change of neither the queue, the held Logon nor recovery.
LEMMA SameCalm ==
    ASSUME NEW c, Calm(c), NEW d, SameExit(c, d), d.target = c.target,
           d.resend = c.resend, d.heldLogon = c.heldLogon
    PROVE  Calm(d)
BY DEF Calm, SameExit, LeavesEmpty, Leaving, LogonCovered, KeptCovered, Kept, Reaches

\* The expectation moves up: less is beyond it.
LEMMA RaisedCalm ==
    ASSUME NEW c \in CoreType, Calm(c), NEW d \in CoreType, SameExit(c, d),
           c.target <= d.target, d.resend = c.resend, d.heldLogon = c.heldLogon
    PROVE  Calm(d)
<1>1. c.target \in SeqNums /\ d.target \in SeqNums /\ c.heldLogon \in 0 .. MaxSeq
  BY DEF CoreType
<1>2. LeavesEmpty(d)
  BY DEF Calm, SameExit, LeavesEmpty, Leaving, Kept
<1>3. LogonCovered(d)
  BY <1>1 DEF Calm, LogonCovered
<1>4. KeptCovered(d)
  BY <1>1 DEF Calm, SameExit, KeptCovered, Kept, Reaches
<1> QED BY <1>2, <1>3, <1>4 DEF Calm

\* The queue shrinks.
LEMMA ShrunkCalm ==
    ASSUME NEW c, Calm(c), NEW d, d.phase = c.phase, d.owed = c.owed,
           \A n \in SeqNums : Kept(d, n) => Kept(c, n),
           d.target = c.target, d.resend = c.resend, d.heldLogon = c.heldLogon
    PROVE  Calm(d)
BY DEF Calm, LeavesEmpty, Leaving, LogonCovered, KeptCovered, Reaches

\* Recovery is armed, or reaches higher, and either a held Logon stays
\* unasked for or there is none beyond the expectation.
LEMMA RearmedCalm ==
    ASSUME NEW c \in CoreType, Calm(c), NEW d \in CoreType, SameExit(c, d),
           d.target = c.target,
           c.resend.armed => d.resend.armed /\ c.resend.highWater <= d.resend.highWater,
           d.heldLogon = c.heldLogon \/ d.heldLogon = 0,
           \/ d.heldLogon = 0
           \/ c.resend.attempts = 0 /\ c.resend.armed => d.resend.attempts = 0
    PROVE  Calm(d)
<1>1. /\ c.target \in SeqNums /\ c.heldLogon \in 0 .. MaxSeq
      /\ c.resend.highWater \in 0 .. MaxSeq /\ d.resend.highWater \in 0 .. MaxSeq
  BY DEF CoreType, ResendStates
<1>2. LeavesEmpty(d)
  BY DEF Calm, SameExit, LeavesEmpty, Leaving, Kept
<1>3. LogonCovered(d)
  BY <1>1 DEF Calm, LogonCovered
<1>4. KeptCovered(d)
  BY <1>1 DEF Calm, SameExit, KeptCovered, Kept, Reaches
<1> QED BY <1>2, <1>3, <1>4 DEF Calm

LEMMA NoEntryKind == NoEntry.kind = "none"
BY DEF NoEntry

(* ----------------------------------------- the counter and its progress *)

LEMMA NoteProgressCalm ==
    ASSUME NEW c \in CoreType, Calm(c) PROVE Calm(NoteProgress(c))
<1>0. /\ c.resend \in ResendStates /\ c.target \in SeqNums /\ c.heldLogon \in 0 .. MaxSeq
      /\ c.resend.highWater \in 0 .. MaxSeq /\ c.resend.attempts \in Nat
  BY DEF CoreType, ResendStates
<1>1. CASE ~c.resend.armed
  BY <1>1 DEF NoteProgress
<1>2. CASE c.resend.armed /\ c.target > c.resend.highWater
  <2> DEFINE d == [c EXCEPT !.resend = NoResend]
  <2>1. NoteProgress(c) = d
    BY <1>2 DEF NoteProgress
  <2>2. d.target = c.target /\ d.heldLogon = c.heldLogon /\ SameExit(c, d)
    BY DEF CoreType, SameExit
  <2> HIDE DEF d
  <2>3. ~(c.heldLogon > c.target)
    BY <1>0, <1>2 DEF Calm, LogonCovered
  <2>4. ~CallbackDrops => \A n \in SeqNums : Kept(c, n) => ~(n > c.target)
    BY <1>0, <1>2 DEF Calm, KeptCovered, Reaches
  <2>5. LeavesEmpty(d) /\ LogonCovered(d) /\ KeptCovered(d)
    BY <2>2, <2>3, <2>4 DEF Calm, SameExit, LeavesEmpty, Leaving, LogonCovered,
                            KeptCovered, Kept, Reaches
  <2> QED BY <2>1, <2>5 DEF Calm
<1>3. CASE c.resend.armed /\ ~(c.target > c.resend.highWater)
  <2> DEFINE attempts == Smaller(c.resend.attempts, 1)
             r == [c.resend EXCEPT !.expected = c.target, !.attempts = attempts]
             d == [c EXCEPT !.resend = r]
  <2>1. NoteProgress(c) = d
    BY <1>3, <1>0 DEF NoteProgress, CoreType, ResendStates
  <2>2. attempts \in Nat /\ (c.resend.attempts = 0 => attempts = 0)
        /\ c.target \in 0 .. MaxSeq
    BY <1>0 DEF Smaller
  <2> HIDE DEF attempts
  <2>3. /\ r \in ResendStates /\ r.armed = c.resend.armed
        /\ r.highWater = c.resend.highWater /\ r.attempts = attempts
    BY <1>0, <2>2 DEF ResendStates
  <2> HIDE DEF r
  <2>4. /\ d \in CoreType /\ d.target = c.target /\ d.heldLogon = c.heldLogon
        /\ d.resend = r /\ SameExit(c, d)
    BY <2>3 DEF CoreType, SameExit
  <2> HIDE DEF d
  <2>5. Calm(d)
    BY <1>0, <2>2, <2>3, <2>4, RearmedCalm
  <2> QED BY <2>1, <2>5
<1> QED BY <1>1, <1>2, <1>3

LEMMA ConsumeCalm ==
    ASSUME NEW c, Sound(c), Calm(c), CanAdvance(c), NEW fate \in Fates \ {"none"}
    PROVE  Calm(Consume(c, c.target, fate))
<1> DEFINE fates == [c.fate EXCEPT ![c.target] = fate]
           d == [c EXCEPT !.target = c.target + 1, !.fate = fates, !.asked = 0]
<1>1. c.target \in SeqNums /\ c.target + 1 \in SeqNums /\ c.target <= c.target + 1
      /\ c \in CoreType
  BY DEF Sound, CoreType, CanAdvance
<1>2. fates \in [SeqNums -> Fates]
  BY <1>1 DEF CoreType
<1>3. Consume(c, c.target, fate) = NoteProgress(d)
  BY DEF Consume, Sound, CoreType
<1> HIDE DEF fates
<1>4. /\ d \in CoreType /\ d.target = c.target + 1 /\ d.resend = c.resend
      /\ d.heldLogon = c.heldLogon /\ SameExit(c, d)
  BY <1>1, <1>2 DEF CoreType, SameExit
<1> HIDE DEF d
<1>5. Calm(d)
  BY <1>1, <1>4, RaisedCalm
<1> QED BY <1>3, <1>4, <1>5, NoteProgressCalm

LEMMA JumpCalm ==
    ASSUME NEW c, Sound(c), Calm(c), NEW new \in SeqNums, new >= c.target
    PROVE  Calm(JumpTo(c, new)) /\ JumpTo(c, new) \in CoreType
<1> DEFINE d == JumpTo(c, new)
<1>1. d \in CoreType /\ d.target = new /\ d.resend = c.resend /\ c \in CoreType
  BY JumpSound DEF Sound
<1>2. d.heldLogon = c.heldLogon /\ SameExit(c, d)
  BY DEF JumpTo, Sound, CoreType, SameExit
<1>3. c.target <= new
  BY <1>1 DEF CoreType
<1> HIDE DEF d
<1>4. Calm(d)
  BY <1>1, <1>2, <1>3, RaisedCalm
<1> QED BY <1>1, <1>4 DEF d

(* ---------------------------------------------------- held sends, closing *)

LEMMA HoldCalm == ASSUME NEW c, Sound(c), Calm(c) PROVE Calm(Hold(c))
<1> DEFINE d == [c EXCEPT !.heldSends = c.heldSends + 1]
<1>1. Hold(c) = d
  BY DEF Hold, Sound, CoreType
<1>2. /\ d.target = c.target /\ d.resend = c.resend /\ d.heldLogon = c.heldLogon
      /\ SameExit(c, d)
  BY DEF Sound, CoreType, SameExit
<1> HIDE DEF d
<1> QED BY <1>1, <1>2, SameCalm

LEMMA ReplyCalm == ASSUME NEW c, Sound(c), Calm(c) PROVE Calm(Reply(c))
BY HoldCalm DEF Reply

LEMMA HoldRequestCalm == ASSUME NEW c, Sound(c), Calm(c) PROVE Calm(HoldRequest(c))
<1>1. CASE c.heldRequest
  BY <1>1 DEF HoldRequest
<1>2. CASE ~c.heldRequest
  <2> DEFINE h == Hold(c)
             d == [h EXCEPT !.heldRequest = TRUE]
  <2>1. HoldRequest(c) = d
    BY <1>2 DEF HoldRequest
  <2>2. Calm(h) /\ h \in CoreType
    BY HoldCalm, HoldAdvances DEF Advance, Sound
  <2> HIDE DEF h
  <2>3. /\ d.target = h.target /\ d.resend = h.resend /\ d.heldLogon = h.heldLogon
        /\ SameExit(h, d)
    BY <2>2 DEF CoreType, SameExit
  <2> HIDE DEF d
  <2> QED BY <2>1, <2>2, <2>3, SameCalm
<1> QED BY <1>1, <1>2

LEMMA FlagCalm ==
    ASSUME NEW c \in CoreType, Calm(c), NEW flag \in BOOLEAN
    PROVE  Calm([c EXCEPT !.replaying = flag])
<1> DEFINE d == [c EXCEPT !.replaying = flag]
<1>1. /\ d.target = c.target /\ d.resend = c.resend /\ d.heldLogon = c.heldLogon
      /\ SameExit(c, d)
  BY DEF CoreType, SameExit
<1> HIDE DEF d
<1>2. Calm(d)
  BY <1>1, SameCalm
<1> QED BY <1>2 DEF d

\* Whoever closes keeps what it had; nothing is released from then on.
LEMMA CloseCalm == ASSUME NEW c, Sound(c), Calm(c) PROVE Calm(Close(c))
<1> DEFINE d == Close(c)
<1>1. /\ d.target = c.target /\ d.resend = c.resend /\ d.heldLogon = c.heldLogon
      /\ d.phase = "Closed" /\ d.owed = c.owed /\ d.queue = c.queue
  BY DEF Close, Sound, CoreType
<1> HIDE DEF d
<1>2. LeavesEmpty(d) /\ LogonCovered(d) /\ KeptCovered(d)
  BY <1>1 DEF Calm, LeavesEmpty, Leaving, LogonCovered, KeptCovered, Kept, Reaches
<1> QED BY <1>2 DEF Calm, d

(* ---------------------------------------------------------- the gap queue *)

LEMMA ClearQueueCalm ==
    ASSUME NEW c \in CoreType, LogonCovered(c)
    PROVE  /\ Calm(ClearQueue(c)) /\ ClearQueue(c) \in CoreType
           /\ \A n \in SeqNums : ~Kept(ClearQueue(c), n)
           /\ ClearQueue(c).target = c.target /\ ClearQueue(c).resend = c.resend
<1> DEFINE q == [n \in SeqNums |-> NoEntry]
           d == [c EXCEPT !.queue = q]
<1>1. q \in [SeqNums -> GapEntries] /\ \A n \in SeqNums : q[n].kind = "none"
  BY NoEntryType, NoEntryKind
<1>2. ClearQueue(c) = d
  BY DEF ClearQueue
<1> HIDE DEF q
<1>3. /\ d \in CoreType /\ d.target = c.target /\ d.resend = c.resend
      /\ d.heldLogon = c.heldLogon /\ d.queue = q
  BY <1>1 DEF CoreType
<1> HIDE DEF d
<1>4. \A n \in SeqNums : ~Kept(d, n)
  BY <1>1, <1>3 DEF Kept
<1>5. LeavesEmpty(d) /\ LogonCovered(d) /\ KeptCovered(d)
  BY <1>3, <1>4 DEF LeavesEmpty, LogonCovered, KeptCovered
<1> QED BY <1>2, <1>3, <1>4, <1>5 DEF Calm

LEMMA TakeReadyCalm ==
    ASSUME NEW c, Sound(c), Calm(c)
    PROVE  /\ Calm(TakeReady(c)) /\ TakeReady(c).target = c.target
           /\ TakeReady(c).phase = c.phase
           /\ \A n \in SeqNums : Kept(TakeReady(c), n) => n > c.target
<1> DEFINE q == [n \in SeqNums |-> IF n <= c.target THEN NoEntry ELSE c.queue[n]]
           d == [c EXCEPT !.queue = q]
<1>0. c.target \in SeqNums
  BY DEF Sound, CoreType
<1>1. \A n \in SeqNums : q[n].kind # "none" => n > c.target /\ q[n] = c.queue[n]
  BY <1>0, NoEntryKind
<1>2. TakeReady(c) = d
  BY DEF TakeReady
<1> HIDE DEF q
<1>3. /\ d.target = c.target /\ d.resend = c.resend /\ d.heldLogon = c.heldLogon
      /\ d.queue = q /\ d.phase = c.phase /\ d.owed = c.owed
  BY DEF Sound, CoreType
<1> HIDE DEF d
<1>4. \A n \in SeqNums : Kept(d, n) => Kept(c, n) /\ n > c.target
  BY <1>1, <1>3 DEF Kept
<1>5. Calm(d)
  BY <1>3, <1>4, ShrunkCalm
<1> QED BY <1>2, <1>3, <1>4, <1>5

\* A number is kept only while the session is Active, and only where recovery
\* reaches it.
LEMMA QueueGappedCalm ==
    ASSUME NEW c, Sound(c), Calm(c), NEW n \in SeqNums, Reaches(c, n),
           NEW entry \in GapEntries, NEW fits \in BOOLEAN
    PROVE  Calm(QueueGapped(c, n, entry, fits))
<1>1. CASE QueueGapped(c, n, entry, fits) = c
  BY <1>1
<1>2. CASE QueueGapped(c, n, entry, fits) # c
  <2> DEFINE q == [c.queue EXCEPT ![n] = entry]
             d == [c EXCEPT !.queue = q]
  <2>1. QueueGapped(c, n, entry, fits) = d /\ c.phase = "Active" /\ ~c.owed
    BY <1>2 DEF QueueGapped, Sound, CoreType
  <2>2. \A m \in SeqNums : m # n => q[m] = c.queue[m]
    BY DEF Sound, CoreType
  <2> HIDE DEF q
  <2>3. /\ d.target = c.target /\ d.resend = c.resend /\ d.heldLogon = c.heldLogon
        /\ d.queue = q /\ d.phase = c.phase /\ d.owed = c.owed
    BY DEF Sound, CoreType
  <2> HIDE DEF d
  <2>4. LeavesEmpty(d) /\ LogonCovered(d)
    BY <2>1, <2>3 DEF Calm, LeavesEmpty, Leaving, LogonCovered
  <2>5. KeptCovered(d)
    BY <2>2, <2>3 DEF Calm, KeptCovered, Kept, Reaches
  <2> QED BY <2>1, <2>4, <2>5 DEF Calm
<1> QED BY <1>1, <1>2

(* --------------------------------------------------------------- recovery *)

\* Recovery is armed afresh, or extended.
LEMMA ResendUpdateCalm ==
    ASSUME NEW c, Sound(c), Calm(c), NEW r \in ResendStates, r.armed,
           c.resend.armed => c.resend.highWater <= r.highWater,
           c.resend.armed /\ c.resend.attempts = 0 => r.attempts = 0
    PROVE  Calm([c EXCEPT !.resend = r])
<1> DEFINE d == [c EXCEPT !.resend = r]
<1>1. /\ d \in CoreType /\ c \in CoreType /\ d.target = c.target /\ d.resend = r
      /\ d.heldLogon = c.heldLogon /\ SameExit(c, d)
  BY DEF Sound, CoreType, SameExit
<1> HIDE DEF d
<1>2. Calm(d)
  BY <1>1, RearmedCalm
<1> QED BY <1>2 DEF d

\* A written ResendRequest leaves a held Logon to its answer.
LEMMA WrittenUpdateCalm ==
    ASSUME NEW c, Sound(c), Calm(c), NEW r \in ResendStates,
           c.resend.armed => r.armed /\ c.resend.highWater <= r.highWater
    PROVE  Calm(RequestWritten([c EXCEPT !.resend = r]))
<1> DEFINE e == [c EXCEPT !.resend = r]
           d == [e EXCEPT !.asked = e.asked + 1, !.heldLogon = 0]
<1>0. e \in CoreType /\ e.target = c.target /\ e.resend = r /\ SameExit(c, e)
  BY DEF Sound, CoreType, SameExit
<1>1. RequestWritten(e) = d
  BY DEF RequestWritten
<1> HIDE DEF e
<1>2. /\ d \in CoreType /\ d.target = c.target /\ d.resend = r /\ d.heldLogon = 0
      /\ SameExit(c, d)
  <2>1. e.asked + 1 \in Nat /\ 0 \in 0 .. MaxSeq
    BY <1>0 DEF CoreType
  <2> QED BY <1>0, <2>1 DEF CoreType, SameExit
<1> HIDE DEF d
<1>3. c \in CoreType
  BY DEF Sound
<1>4. Calm(d)
  BY <1>2, <1>3, RearmedCalm
<1> QED BY <1>1, <1>4 DEF e

\* A gap that is asked for, or that recovery is told of, is one it reaches;
\* only a ResendRequest a callback dropped leaves it unreached.
LEMMA RequestResendCalm ==
    ASSUME NEW c, Sound(c), Calm(c), NEW high \in SeqNums, c.target <= high,
           NEW sent \in SentOutcomes
    PROVE  /\ Calm(RequestResend(c, high, sent))
           /\ Reaches(RequestResend(c, high, sent), high)
           /\ RequestResend(c, high, sent).target = c.target
<1> DEFINE merged == MergedHighWater(c.resend, high)
           top == Larger(c.resend.highWater, high)
           raisedResend == [c.resend EXCEPT !.highWater = top]
           raised == IF c.resend.armed THEN [c EXCEPT !.resend = raisedResend] ELSE c
           firstResend == Armed(c.target, merged, 1)
           first == [c EXCEPT !.resend = firstResend]
           charged == [Armed(c.target, merged, 0) EXCEPT !.charge = TRUE]
           implied == [c EXCEPT !.resend = charged]
<1>0. /\ c \in CoreType /\ c.target \in SeqNums /\ c.resend \in ResendStates
      /\ c.resend.highWater \in 0 .. MaxSeq
      /\ c.resend.armed => c.resend.expected = c.target
  BY DEF Sound, CoreType, Tracks, ResendStates
<1>1. /\ merged \in SeqNums /\ merged >= high
      /\ c.resend.armed => c.resend.highWater <= merged
  <2>1. CASE c.resend.armed
    BY <1>0, <2>1 DEF MergedHighWater, Larger
  <2>2. CASE ~c.resend.armed
    BY <2>2 DEF MergedHighWater
  <2> QED BY <2>1, <2>2
<1>2. top \in 0 .. MaxSeq /\ top >= high /\ top >= c.resend.highWater
  BY <1>0 DEF Larger
<1>3. /\ firstResend \in ResendStates /\ firstResend.armed
      /\ firstResend.highWater = merged
  BY <1>0, <1>1 DEF Armed, ResendStates
<1>4. /\ charged \in ResendStates /\ charged.armed
      /\ charged.highWater = merged /\ charged.attempts = 0
  <2> DEFINE r == Armed(c.target, merged, 0)
  <2>1. r \in ResendStates /\ r.armed /\ r.highWater = merged /\ r.attempts = 0
    BY <1>0, <1>1 DEF Armed, ResendStates
  <2> HIDE DEF r
  <2>2. LET u == [r EXCEPT !.charge = TRUE]
        IN  /\ u \in ResendStates /\ u.armed
            /\ u.highWater = merged /\ u.attempts = 0
    BY <2>1 DEF ResendStates
  <2> QED BY <2>2 DEF r
<1>5. /\ raisedResend \in ResendStates /\ raisedResend.armed = c.resend.armed
      /\ raisedResend.highWater = top /\ raisedResend.attempts = c.resend.attempts
  BY <1>0, <1>2 DEF ResendStates
<1>6. CASE c.resend.armed
  <2>1. RequestResend(c, high, sent) = raised
    BY <1>0, <1>6 DEF RequestResend, CoreType, ResendStates
  <2> DEFINE d == [c EXCEPT !.resend = raisedResend]
  <2>2. raised = d
    BY <1>6
  <2> HIDE DEF raisedResend, raised, top
  <2>3. Calm(d)
    BY <1>2, <1>5, <1>6, ResendUpdateCalm
  <2>4. d.resend = raisedResend /\ d.target = c.target
    BY <1>0 DEF CoreType
  <2> HIDE DEF d
  <2> QED BY <1>2, <1>5, <1>6, <2>1, <2>2, <2>3, <2>4 DEF Reaches
<1>7. CASE ~c.resend.armed /\ c.replaying
  <2>1. RequestResend(c, high, sent) = HoldRequest(implied)
    BY <1>7 DEF RequestResend
  <2> HIDE DEF charged
  <2>2. /\ implied \in CoreType /\ implied.resend = charged
        /\ implied.target = c.target
    BY <1>0, <1>4 DEF CoreType
  <2>3. Calm(implied)
    BY <1>4, <1>7, ResendUpdateCalm
  <2>4. Sound(implied)
    <3>1. charged.expected = c.target
      BY <1>0, <1>1 DEF charged, Armed, ResendStates
    <3>2. c.target <= charged.highWater
      BY <1>0, <1>1, <1>4
    <3> QED BY <3>1, <3>2, <1>4, ResendUpdateAdvances DEF Advance
  <2> HIDE DEF implied
  <2>5. Calm(HoldRequest(implied))
    BY <2>3, <2>4, HoldRequestCalm
  <2>6. /\ HoldRequest(implied).resend = charged
        /\ HoldRequest(implied).target = c.target
    BY <2>2 DEF HoldRequest, Hold, CoreType
  <2> QED BY <1>1, <1>4, <2>1, <2>5, <2>6 DEF Reaches
<1>8. CASE ~c.resend.armed /\ ~c.replaying /\ sent # "Dropped"
  <2>1. RequestResend(c, high, sent) = RequestWritten(first)
    BY <1>8 DEF RequestResend
  <2> HIDE DEF firstResend
  <2>2. Calm(RequestWritten(first))
    BY <1>1, <1>3, <1>8, WrittenUpdateCalm
  <2>3. /\ first \in CoreType /\ first.resend = firstResend
        /\ first.target = c.target
    BY <1>0, <1>3 DEF CoreType
  <2> HIDE DEF first
  <2>4. /\ RequestWritten(first).resend = firstResend
        /\ RequestWritten(first).target = c.target
    BY <2>3 DEF RequestWritten, CoreType
  <2> QED BY <1>1, <1>3, <2>1, <2>2, <2>4 DEF Reaches
<1>9. CASE ~c.resend.armed /\ ~c.replaying /\ sent = "Dropped"
  <2>1. RequestResend(c, high, sent) = c
    BY <1>9 DEF RequestResend
  <2>2. CallbackDrops
    BY <1>9 DEF SentOutcomes
  <2> QED BY <2>1, <2>2 DEF Reaches
<1> QED BY <1>6, <1>7, <1>8, <1>9

LEMMA ArmUnchargedCalm ==
    ASSUME NEW c, Sound(c), Calm(c), NEW high \in SeqNums, c.target <= high
    PROVE  /\ Calm(ArmUncharged(c, high))
           /\ Calm(RequestWritten(ArmUncharged(c, high)))
<1>0. /\ c \in CoreType /\ c.target \in SeqNums /\ c.resend \in ResendStates
      /\ c.resend.highWater \in 0 .. MaxSeq /\ c.target \in 0 .. MaxSeq
  BY DEF Sound, CoreType, ResendStates
<1>1. CASE ~c.resend.armed
  <2> DEFINE r == Armed(c.target, high, 0)
  <2>1. r \in ResendStates /\ r.armed
    BY <1>0 DEF Armed, ResendStates
  <2>2. ArmUncharged(c, high) = [c EXCEPT !.resend = r]
    BY <1>1 DEF ArmUncharged
  <2> HIDE DEF r
  <2> QED BY <1>1, <2>1, <2>2, ResendUpdateCalm, WrittenUpdateCalm
<1>2. CASE c.resend.armed
  <2> DEFINE top == Larger(c.resend.highWater, high)
             r == [c.resend EXCEPT !.expected = c.target, !.highWater = top]
  <2>1. top \in 0 .. MaxSeq /\ c.resend.highWater <= top
    BY <1>0 DEF Larger
  <2>2. ArmUncharged(c, high) = [c EXCEPT !.resend = r]
    BY <1>2, <1>0 DEF ArmUncharged, CoreType, ResendStates
  <2> HIDE DEF top
  <2>3. /\ r \in ResendStates /\ r.armed /\ r.highWater = top
        /\ r.attempts = c.resend.attempts
    BY <1>0, <1>2, <2>1 DEF ResendStates
  <2> HIDE DEF r
  <2> QED BY <2>1, <2>2, <2>3, ResendUpdateCalm, WrittenUpdateCalm
<1> QED BY <1>1, <1>2

LEMMA RerequestSpannedCalm ==
    ASSUME NEW c, Sound(c), Calm(c), NEW new \in 0 .. MaxSeq, c.target < new, NEW sent
    PROVE  Calm(RerequestSpanned(c, new, sent))
<1> DEFINE noted == [c EXCEPT !.spanned = c.target]
           high == Larger(new - 1, c.target)
           armed == ArmUncharged(noted, high)
<1>0. c.target \in SeqNums /\ c.target \in 0 .. MaxSeq
  BY DEF Sound, CoreType
<1>1. /\ noted \in CoreType /\ noted.target = c.target /\ noted.fate = c.fate
      /\ noted.resend = c.resend /\ noted.heldLogon = c.heldLogon /\ SameExit(c, noted)
  BY <1>0 DEF Sound, CoreType, SameExit
<1>2. RerequestSpanned(c, new, sent) \in {noted, HoldRequest(armed), RequestWritten(armed)}
  BY DEF RerequestSpanned
<1> HIDE DEF noted
<1>3. Sound(noted) /\ Calm(noted)
  BY <1>1, QuietAdvance, SameCalm DEF Advance
<1>4. high \in SeqNums /\ noted.target <= high
  BY <1>0, <1>1 DEF Larger
<1> HIDE DEF high
<1>5. Calm(armed) /\ Sound(armed) /\ Calm(RequestWritten(armed))
  BY <1>3, <1>4, ArmUnchargedCalm, ArmUnchargedAdvances DEF Advance
<1> HIDE DEF armed
<1> QED BY <1>2, <1>3, <1>5, HoldRequestCalm

(* ------------------------------------------------------------- handlers *)

\* A Sound, Calm core that another operator led to.
Settled(c) == Sound(c) /\ Calm(c)

LEMMA TakenSettled ==
    ASSUME NEW c, Settled(c), CanAdvance(c), NEW fate \in {"app", "acted"}
    PROVE  Settled(Consume(c, c.target, fate))
<1>1. fate \in Fates \ {"none"}
  BY DEF Fates
<1> QED BY <1>1, ConsumeAdvances, ConsumeCalm DEF Settled, Advance

LEMMA ReplySettled == ASSUME NEW c, Settled(c) PROVE Settled(Reply(c))
BY ReplyAdvances, ReplyCalm DEF Settled, Advance

LEMMA CloseSettled ==
    ASSUME NEW c, Settled(c) PROVE Settled(Close(c)) /\ Settled(Exhausted(c))
BY CloseAdvances, CloseCalm DEF Settled, Advance, Exhausted

LEMMA AppTakenSettled ==
    ASSUME NEW c, Settled(c), NEW ok \in BOOLEAN
    PROVE  Settled(AppTaken(c, c.target, ok))
<1>1. CASE ~CanAdvance(c)
  BY <1>1, CloseSettled DEF AppTaken
<1>2. CASE CanAdvance(c) /\ ok
  BY <1>2, TakenSettled DEF AppTaken
<1>3. CASE CanAdvance(c) /\ ~ok
  <2> DEFINE acted == Consume(c, c.target, "acted")
  <2>1. Settled(acted)
    BY <1>3, TakenSettled
  <2> HIDE DEF acted
  <2>2. Settled(Reply(acted))
    BY <2>1, ReplySettled
  <2> QED BY <1>3, <2>2 DEF AppTaken, acted
<1> QED BY <1>1, <1>2, <1>3

LEMMA FillTakenSettled ==
    ASSUME NEW c, Settled(c), NEW new \in 0 .. MaxSeq, NEW ok \in BOOLEAN
    PROVE  Settled(FillTaken(c, c.target, new, ok))
<1>0. c.target \in SeqNums /\ Sound(c) /\ Calm(c)
  BY DEF Settled, Sound, CoreType
<1>1. CASE ~CanAdvance(c)
  BY <1>1, CloseSettled DEF FillTaken
<1>2. CASE CanAdvance(c) /\ ok /\ new > c.target
  <2> DEFINE d == JumpTo(c, new)
  <2>1. new \in SeqNums /\ new >= c.target
    BY <1>0, <1>2
  <2>2. d \in CoreType /\ Calm(d)
    BY <1>0, <2>1, JumpCalm
  <2>3. Sound(NoteProgress(d))
    BY <1>0, <2>1, JumpAdvances DEF Advance
  <2>4. FillTaken(c, c.target, new, ok) = NoteProgress(d)
    BY <1>2 DEF FillTaken
  <2> HIDE DEF d
  <2> QED BY <2>2, <2>3, <2>4, NoteProgressCalm DEF Settled
<1>3. CASE CanAdvance(c) /\ ~(ok /\ new > c.target)
  <2> DEFINE acted == Consume(c, c.target, "acted")
  <2>1. Settled(acted)
    BY <1>3, TakenSettled
  <2> HIDE DEF acted
  <2>2. Settled(Reply(acted))
    BY <2>1, ReplySettled
  <2> QED BY <1>3, <2>2 DEF FillTaken, acted
<1> QED BY <1>1, <1>2, <1>3

LEMMA ResetTakenSettled ==
    ASSUME NEW c, Settled(c), NEW new \in 0 .. MaxSeq, NEW ok \in BOOLEAN
    PROVE  Settled(ResetTaken(c, new, ok))
<1>0. c.target \in SeqNums /\ Sound(c) /\ Calm(c)
  BY DEF Settled, Sound, CoreType
<1>1. CASE ~ok \/ new < c.target
  BY <1>1, ReplySettled DEF ResetTaken
<1>2. CASE ok /\ ~(new < c.target)
  <2> DEFINE jumped == JumpTo(c, new)
             moved == ClearQueue(jumped)
  <2>1. new \in SeqNums /\ new >= c.target
    BY <1>0, <1>2
  <2>2. jumped \in CoreType /\ Calm(jumped)
    BY <1>0, <2>1, JumpCalm
  <2> HIDE DEF jumped
  <2>3. moved \in CoreType /\ Calm(moved)
    BY <2>2, ClearQueueCalm DEF Calm
  <2>4. ResetTaken(c, new, ok) = IF new > c.target THEN NoteProgress(moved) ELSE moved
    BY <1>2 DEF ResetTaken, jumped
  <2> HIDE DEF moved
  <2>5. Calm(ResetTaken(c, new, ok))
    BY <2>3, <2>4, NoteProgressCalm
  <2> QED BY <1>0, <2>5, ResetTakenAdvances DEF Settled, Advance
<1> QED BY <1>1, <1>2

\* A Logout that cannot be answered yet: the queue was emptied before it is owed.
LEMMA OnLogoutCalm ==
    ASSUME NEW c, Settled(c) PROVE Calm(OnLogout(ClearQueue(c)))
<1> DEFINE e == ClearQueue(c)
<1>1. Sound(e) /\ Calm(e) /\ \A n \in SeqNums : ~Kept(e, n)
  BY ClearQueueCalm, ClearQueueAdvances DEF Settled, Sound, Calm, Advance
<1> HIDE DEF e
<1>2. ASSUME e.phase = "Active", e.replaying PROVE Calm(OnLogout(e))
  <2> DEFINE d == [e EXCEPT !.owed = TRUE]
  <2>1. OnLogout(e) = d
    BY <1>2 DEF OnLogout
  <2>2. /\ d.target = e.target /\ d.resend = e.resend /\ d.heldLogon = e.heldLogon
        /\ d.queue = e.queue
    BY <1>1 DEF Sound, CoreType
  <2> HIDE DEF d
  <2>3. LeavesEmpty(d) /\ LogonCovered(d) /\ KeptCovered(d)
    BY <1>1, <2>2 DEF Calm, LeavesEmpty, LogonCovered, KeptCovered, Kept, Reaches
  <2> QED BY <2>1, <2>3 DEF Calm
<1>3. ASSUME ~(e.phase = "Active" /\ e.replaying) PROVE Calm(OnLogout(e))
  BY <1>1, <1>3, CloseCalm DEF OnLogout
<1> QED BY <1>2, <1>3 DEF e

LEMMA DispatchAdminSettled ==
    ASSUME NEW c, Settled(c), NEW f \in Frames, f.kind \in AdminKinds, NEW ok \in BOOLEAN
    PROVE  Settled(DispatchAdmin(c, f, ok))
<1>0. Sound(c) /\ Calm(c) /\ c \in CoreType
  BY DEF Settled, Sound
<1>1. Calm(Reply(c)) /\ Calm([c EXCEPT !.replaying = TRUE]) /\ Calm(OnLogout(ClearQueue(c)))
  BY <1>0, ReplyCalm, FlagCalm, OnLogoutCalm
<1>2. Calm(DispatchAdmin(c, f, ok))
  BY <1>0, <1>1 DEF DispatchAdmin, AdminKinds
<1> QED BY <1>0, <1>2, DispatchAdminAdvances DEF Settled, Advance

LEMMA BeginLogoutCalm ==
    ASSUME NEW c, Settled(c), NEW sent
    PROVE  /\ Calm(BeginLogout(c, sent))
           /\ \/ BeginLogout(c, sent) = c
              \/ \A n \in SeqNums : ~Kept(BeginLogout(c, sent), n)
<1> DEFINE d == [c EXCEPT !.phase = "LogoutQueued", !.resend = NoResend, !.heldLogon = 0]
<1>1. NoResend \in ResendStates /\ "LogoutQueued" \in Phases /\ 0 \in 0 .. MaxSeq
  BY DEF NoResend, ResendStates, Phases
<1> HIDE DEF NoResend
<1>2. d \in CoreType /\ d.heldLogon = 0
  BY <1>1 DEF Settled, Sound, CoreType
<1>3. BeginLogout(c, sent) = c \/ BeginLogout(c, sent) = ClearQueue(d)
  BY DEF BeginLogout
<1> HIDE DEF d
<1>4. LogonCovered(d)
  BY <1>2 DEF LogonCovered, CoreType
<1> QED BY <1>2, <1>3, <1>4, ClearQueueCalm DEF Settled

\* What the hold released: recovery reaches as far as it did.
LEMMA HeldWrittenSettled ==
    ASSUME NEW c, Settled(c), NEW sent
    PROVE  Settled(HeldWritten(c, sent))
<1> DEFINE freed == [c EXCEPT !.replaying = FALSE, !.heldSends = 0, !.heldRequest = FALSE]
           quiet == [freed.resend EXCEPT !.charge = FALSE]
           counted == [quiet EXCEPT !.attempts = freed.resend.attempts + 1]
           uncharged == [freed EXCEPT !.resend = quiet]
           charged == [freed EXCEPT !.resend = counted]
<1>0. Sound(c) /\ Calm(c) /\ c \in CoreType
  BY DEF Settled, Sound
<1>1. /\ freed \in CoreType /\ freed.target = c.target /\ freed.fate = c.fate
      /\ freed.resend = c.resend /\ freed.heldLogon = c.heldLogon /\ SameExit(c, freed)
  BY <1>0 DEF CoreType, SameExit
<1>2. Calm(HeldWritten(c, sent))
  <2>1. CASE ~c.heldRequest \/ ~c.resend.armed
    <3>1. HeldWritten(c, sent) = freed
      BY <2>1 DEF HeldWritten
    <3> HIDE DEF freed
    <3> QED BY <1>0, <1>1, <3>1, SameCalm
  <2>2. CASE c.heldRequest /\ c.resend.armed
    <3>1. [uncharged EXCEPT !.resend.attempts = uncharged.resend.attempts + 1] = charged
      BY <1>1 DEF CoreType, ResendStates
    <3>2. HeldWritten(c, sent) =
            IF sent = "Dropped" THEN uncharged
            ELSE RequestWritten(IF c.resend.charge THEN charged ELSE uncharged)
      BY <2>2, <3>1 DEF HeldWritten
    <3> HIDE DEF freed
    <3>3. Sound(freed) /\ Calm(freed) /\ freed.resend \in ResendStates
          /\ freed.resend.attempts \in Nat
      BY <1>0, <1>1, QuietAdvance, SameCalm DEF Advance, CoreType, ResendStates
    <3>4. /\ quiet \in ResendStates /\ quiet.armed = freed.resend.armed
          /\ quiet.highWater = freed.resend.highWater
          /\ quiet.attempts = freed.resend.attempts
      BY <3>3 DEF ResendStates
    <3> HIDE DEF quiet
    <3>5. /\ counted \in ResendStates /\ counted.armed = freed.resend.armed
          /\ counted.highWater = freed.resend.highWater
      BY <3>3, <3>4 DEF ResendStates
    <3> HIDE DEF counted
    <3>6. freed.resend.highWater <= freed.resend.highWater
      BY <3>3 DEF ResendStates
    <3>7. Calm(uncharged) /\ Calm(RequestWritten(uncharged)) /\ Calm(RequestWritten(charged))
      BY <1>1, <2>2, <3>3, <3>4, <3>5, <3>6, ResendUpdateCalm, WrittenUpdateCalm
    <3> HIDE DEF uncharged, charged
    <3> QED BY <3>2, <3>7
  <2> QED BY <2>1, <2>2
<1> QED BY <1>0, <1>2, HeldWrittenAdvances DEF Settled, Advance

(* ---------------------------------------------------------------- steps *)

LEMMA ReceiveGappedCalm ==
    ASSUME Settled(core), NEW f \in Frames, ReceiveGapped(f)
    PROVE  Calm(core')
<1>1. PICK sent \in SentOutcomes, ok \in BOOLEAN, fits \in BOOLEAN :
        LET asked == RequestResend(core, f.seq, sent)
        IN  \/ /\ f.kind = "app"
               /\ core' = QueueGapped(asked, f.seq, [kind |-> "app", new |-> 0], fits)
            \/ /\ f.kind = "fill"
               /\ core' = QueueGapped(asked, f.seq, [kind |-> "fill", new |-> f.new], fits)
            \/ /\ f.kind = "malformed"
               /\ core' = asked
            \/ /\ f.kind = "logout"
               /\ core' = DispatchAdmin(asked, f, ok)
            \/ /\ f.kind \in AdminKinds \ {"logout"}
               /\ core' = IF IsHeldCopy(asked, f.seq) THEN asked
                          ELSE DispatchAdmin(
                                 QueueGapped(asked, f.seq,
                                             [kind |-> "processed", new |-> 0], TRUE),
                                 f, ok)
  BY DEF ReceiveGapped
<1> DEFINE asked == RequestResend(core, f.seq, sent)
           kept == QueueGapped(asked, f.seq, [kind |-> "processed", new |-> 0], TRUE)
<1>2. f.seq \in SeqNums /\ f.new \in 0 .. MaxSeq /\ core.target <= f.seq
  <2>1. f.seq \in SeqNums /\ f.new \in 0 .. MaxSeq
    BY DEF Frames
  <2>2. core.target \in SeqNums /\ f.seq > core.target
    BY DEF Settled, Sound, CoreType, ReceiveGapped, Gapped
  <2> QED BY <2>1, <2>2
<1>3. Sound(asked) /\ Calm(asked) /\ Reaches(asked, f.seq)
  BY <1>2, RequestResendAdvances, RequestResendCalm DEF Settled, Advance
<1>4. /\ [kind |-> "app", new |-> 0] \in GapEntries
      /\ [kind |-> "fill", new |-> f.new] \in GapEntries
      /\ [kind |-> "processed", new |-> 0] \in GapEntries
  BY <1>2 DEF GapEntries
<1> HIDE DEF asked
<1>5. CASE f.kind = "app" /\ core' = QueueGapped(asked, f.seq, [kind |-> "app", new |-> 0], fits)
  BY <1>2, <1>3, <1>4, <1>5, QueueGappedCalm
<1>6. CASE f.kind = "fill"
           /\ core' = QueueGapped(asked, f.seq, [kind |-> "fill", new |-> f.new], fits)
  BY <1>2, <1>3, <1>4, <1>6, QueueGappedCalm
<1>7. CASE f.kind = "logout" /\ core' = DispatchAdmin(asked, f, ok)
  <2>1. f.kind \in AdminKinds
    BY <1>7 DEF AdminKinds
  <2> QED BY <1>3, <1>7, <2>1, DispatchAdminSettled DEF Settled
<1>8. CASE f.kind \in AdminKinds \ {"logout"} /\ core' = DispatchAdmin(kept, f, ok)
  <2>1. Settled(kept)
    BY <1>2, <1>3, <1>4, QueueGappedCalm, QueueGappedAdvances DEF Settled, Advance
  <2> HIDE DEF kept
  <2>2. f.kind \in AdminKinds
    BY <1>8
  <2> QED BY <1>8, <2>1, <2>2, DispatchAdminSettled DEF Settled
<1> QED BY <1>1, <1>3, <1>5, <1>6, <1>7, <1>8 DEF asked, kept

LEMMA ReceiveCalm ==
    ASSUME Settled(core), NEW f \in Frames,
           \/ ReceiveApp(f) \/ ReceiveAdmin(f) \/ ReceiveMalformed(f) \/ ReceiveFill(f)
           \/ ReceiveReset(f) \/ ReceiveBadFlag(f) \/ ReceiveDuplicate(f)
           \/ ReceiveTooLow(f) \/ ReceiveGapped(f)
    PROVE  Calm(core')
<1>0. f.seq \in SeqNums /\ f.new \in 0 .. MaxSeq /\ Sound(core) /\ Calm(core)
  BY DEF Frames, Settled
<1>1. CASE ReceiveApp(f)
  BY <1>1, AppTakenSettled DEF ReceiveApp, InSequence, Settled
<1>2. CASE ReceiveAdmin(f)
  <2>1. PICK ok \in BOOLEAN :
          core' = IF CanAdvance(core)
                  THEN DispatchAdmin(Consume(core, f.seq, "acted"), f, ok)
                  ELSE Exhausted(core)
    BY <1>2 DEF ReceiveAdmin
  <2>2. f.seq = core.target /\ f.kind \in AdminKinds
    BY <1>2 DEF ReceiveAdmin, InSequence
  <2>3. CanAdvance(core) => Settled(Consume(core, core.target, "acted"))
    BY TakenSettled
  <2> QED BY <2>1, <2>2, <2>3, DispatchAdminSettled, CloseSettled DEF Settled
<1>3. CASE ReceiveMalformed(f)
  BY <1>3, AppTakenSettled DEF ReceiveMalformed, InSequence, Settled
<1>4. CASE ReceiveFill(f)
  BY <1>0, <1>4, FillTakenSettled DEF ReceiveFill, InSequence, Settled
<1>5. CASE ReceiveReset(f)
  BY <1>0, <1>5, ResetTakenSettled DEF ReceiveReset, Settled
<1>6. CASE ReceiveBadFlag(f)
  BY <1>6, ReplySettled DEF ReceiveBadFlag, Settled
<1>7. CASE ReceiveDuplicate(f)
  <2>1. CASE SpansMissing(f)
    <3>1. core.target < f.new
      BY <1>0, <2>1 DEF SpansMissing, Sound, CoreType
    <3> QED BY <1>0, <1>7, <2>1, <3>1, RerequestSpannedCalm DEF ReceiveDuplicate
  <2>2. CASE ~SpansMissing(f)
    BY <1>0, <1>7, <2>2 DEF ReceiveDuplicate
  <2> QED BY <2>1, <2>2
<1>8. CASE ReceiveTooLow(f)
  BY <1>8, CloseSettled DEF ReceiveTooLow, Settled
<1>9. CASE ReceiveGapped(f)
  BY <1>9, ReceiveGappedCalm
<1> QED BY <1>1, <1>2, <1>3, <1>4, <1>5, <1>6, <1>7, <1>8, <1>9

LEMMA ReleaseCalm == ASSUME Settled(core), Release PROVE Calm(core')
<1>0. Sound(core) /\ Calm(core) /\ core \in CoreType
  BY DEF Settled, Sound
<1>1. CASE ReleaseHeldLogon
  <2> DEFINE c == [core EXCEPT !.heldLogon = 0]
  <2>a. core.target \in SeqNums /\ core.heldLogon \in 0 .. MaxSeq /\ 0 \in 0 .. MaxSeq
    BY <1>0 DEF CoreType
  <2>0. c \in CoreType /\ c.target = core.target /\ c.fate = core.fate
        /\ c.resend = core.resend /\ c.heldLogon = 0 /\ SameExit(core, c)
    BY <1>0, <2>a DEF CoreType, SameExit
  <2>1. core' = IF core.heldLogon < core.target THEN c
                ELSE IF CanAdvance(c) THEN Consume(c, core.heldLogon, "acted")
                ELSE Exhausted(c)
    BY <1>1 DEF ReleaseHeldLogon
  <2>2. core.heldLogon <= core.target
    BY <1>1 DEF ReleaseHeldLogon, LogonDue
  <2> HIDE DEF c
  <2>3. Settled(c)
    <3>1. Sound(c)
      BY <1>0, <2>0, QuietAdvance DEF Advance
    <3>2. LeavesEmpty(c) /\ LogonCovered(c) /\ KeptCovered(c)
      BY <1>0, <2>0, <2>a DEF Calm, SameExit, LeavesEmpty, Leaving, LogonCovered,
                              KeptCovered, Kept, Reaches
    <3> QED BY <3>1, <3>2 DEF Settled, Calm
  <2>4. CASE core.heldLogon < core.target
    BY <2>1, <2>3, <2>4 DEF Settled
  <2>5. CASE ~(core.heldLogon < core.target)
    <3>1. core.heldLogon = c.target
      BY <2>a, <2>0, <2>2, <2>5
    <3>2. CanAdvance(c) => Settled(Consume(c, c.target, "acted"))
      BY <2>3, TakenSettled
    <3> QED BY <2>1, <2>3, <2>5, <3>1, <3>2, CloseSettled DEF Settled
  <2> QED BY <2>4, <2>5
<1>2. CASE ReleaseEntry
  <2> DEFINE entry == core.queue[core.target]
             c == TakeReady(core)
  <2>1. PICK ok \in BOOLEAN :
          \/ entry.kind = "app" /\ core' = AppTaken(c, core.target, ok)
          \/ entry.kind = "fill" /\ core' = FillTaken(c, core.target, entry.new, ok)
          \/ /\ entry.kind = "processed"
             /\ core' = IF CanAdvance(c) THEN Consume(c, core.target, "acted")
                        ELSE Exhausted(c)
    BY <1>2 DEF ReleaseEntry
  <2>2. entry.new \in 0 .. MaxSeq
    BY <1>0 DEF CoreType, GapEntries
  <2>3. Settled(c) /\ c.target = core.target
    BY <1>0, TakeReadyCalm, TakeReadyAdvances DEF Settled, Advance
  <2> HIDE DEF c, entry
  <2>4. /\ Settled(AppTaken(c, c.target, ok))
        /\ Settled(FillTaken(c, c.target, entry.new, ok))
        /\ CanAdvance(c) => Settled(Consume(c, c.target, "acted"))
        /\ Settled(Exhausted(c))
    BY <2>2, <2>3, AppTakenSettled, FillTakenSettled, TakenSettled, CloseSettled
  <2> QED BY <2>1, <2>3, <2>4 DEF Settled
<1>3. CASE ReleaseDone
  BY <1>0, <1>3, TakeReadyCalm DEF ReleaseDone
<1> QED BY <1>1, <1>2, <1>3 DEF Release

\* What is due while the reactor reads frames is due because the hold is full.
Paused(c) == c.replaying /\ c.heldSends >= HoldMax
DueOnlyPaused(c) ==
    \A n \in SeqNums : Kept(c, n) => n > c.target \/ c.phase = "Closed" \/ Paused(c)

\* The session's inbound state between two steps of the reactor.
Rested == /\ pc = "open" => \A n \in SeqNums : ~Kept(core, n)
          /\ pc = "idle" => DueOnlyPaused(core)

LEMMA RequestResendSameExit ==
    ASSUME NEW c \in CoreType, NEW high, NEW sent
    PROVE  SameExit(c, RequestResend(c, high, sent))
<1>1. \A r : LET d == [c EXCEPT !.resend = r] IN
          SameExit(c, d) /\ SameExit(c, RequestWritten(d)) /\ SameExit(c, HoldRequest(d))
  BY DEF SameExit, CoreType, RequestWritten, HoldRequest, Hold
<1>2. SameExit(c, [c EXCEPT !.resend.highWater = Larger(@, high)]) /\ SameExit(c, c)
  BY DEF SameExit, CoreType
<1> QED BY <1>1, <1>2 DEF RequestResend

LEMMA OpenCalm ==
    ASSUME Settled(core), Rested, Open PROVE Calm(core') /\ DueOnlyPaused(core')
<1>0. /\ Sound(core) /\ Calm(core) /\ core \in CoreType
      /\ \A n \in SeqNums : ~Kept(core, n)
  BY DEF Settled, Sound, Open, Rested
<1>1. PICK replay \in BOOLEAN :
        \/ OpenPlain(replay)
        \/ \E logonSeq \in SeqNums :
              /\ logonSeq > core.target
              /\ OpenGap(logonSeq, replay) \/ OpenHeldLogon(logonSeq, replay)
  BY DEF Open
<1>2. \A d : SameExit(core, d) => DueOnlyPaused(d)
  BY <1>0 DEF SameExit, DueOnlyPaused, Kept
<1>3. CASE OpenPlain(replay)
  BY <1>0, <1>2, <1>3, FlagCalm DEF OpenPlain, SameExit, CoreType
<1>4. ASSUME NEW logonSeq \in SeqNums, logonSeq > core.target, OpenGap(logonSeq, replay)
      PROVE  Calm(core') /\ DueOnlyPaused(core')
  <2>1. PICK sent \in SentOutcomes :
          core' = [RequestResend(core, logonSeq, sent) EXCEPT !.replaying = replay]
    BY <1>4 DEF OpenGap
  <2> DEFINE d == RequestResend(core, logonSeq, sent)
             e == [d EXCEPT !.replaying = replay]
  <2>2. core.target <= logonSeq
    BY <1>0, <1>4 DEF CoreType
  <2>3. Calm(d) /\ d \in CoreType /\ SameExit(core, d)
    BY <1>0, <2>2, RequestResendCalm, RequestResendAdvances, RequestResendSameExit
       DEF Advance, Sound
  <2> HIDE DEF d
  <2>4. Calm(e) /\ SameExit(core, e)
    BY <2>3, FlagCalm DEF SameExit, CoreType
  <2> HIDE DEF e
  <2> QED BY <1>2, <2>1, <2>4 DEF d, e
<1>5. ASSUME NEW logonSeq \in SeqNums, logonSeq > core.target,
             OpenHeldLogon(logonSeq, replay)
      PROVE  Calm(core') /\ DueOnlyPaused(core')
  <2> DEFINE r == Armed(core.target, logonSeq, 0)
             d == [core EXCEPT !.resend = r, !.heldLogon = logonSeq, !.replaying = replay]
  <2>1. r.armed /\ r.highWater = logonSeq /\ r.attempts = 0
    BY DEF Armed
  <2>2. core' = d
    BY <1>5 DEF OpenHeldLogon
  <2> HIDE DEF r
  <2>3. d.target = core.target /\ d.resend = r /\ d.heldLogon = logonSeq /\ SameExit(core, d)
    BY <1>0 DEF CoreType, SameExit
  <2> HIDE DEF d
  <2>4. LeavesEmpty(d) /\ LogonCovered(d) /\ KeptCovered(d)
    BY <1>0, <2>1, <2>3 DEF SameExit, LeavesEmpty, LogonCovered, KeptCovered, Kept
  <2> QED BY <1>2, <2>2, <2>3, <2>4 DEF Calm
<1> QED BY <1>1, <1>3, <1>4, <1>5

LEMMA LogoutBegunRests ==
    ASSUME Settled(core), DueOnlyPaused(core), NEW sent, core' = BeginLogout(core, sent)
    PROVE  Calm(core') /\ DueOnlyPaused(core')
BY BeginLogoutCalm DEF DueOnlyPaused

LEMMA ClosedRests ==
    ASSUME Settled(core), core' = Close(core) PROVE Calm(core') /\ DueOnlyPaused(core')
BY CloseSettled DEF Settled, Sound, CoreType, Close, DueOnlyPaused

LEMMA TickCalm ==
    ASSUME Settled(core), Rested, Tick PROVE Calm(core') /\ DueOnlyPaused(core')
<1>0. Sound(core) /\ Calm(core) /\ core \in CoreType /\ DueOnlyPaused(core)
  BY DEF Settled, Sound, Tick, RetryStalled, AbandonStalled, CutResend, LogoutTimeout,
         Stalled, Rested
<1>1. CASE RetryStalled
  <2> DEFINE attempts == core.resend.attempts + 1
             r == [core.resend EXCEPT !.attempts = attempts, !.charge = FALSE]
             d == [core EXCEPT !.resend = r]
  <2>0. core.resend \in ResendStates
    BY <1>0 DEF CoreType
  <2>1. core' = core \/ core' = RequestWritten(d)
    BY <1>1, <2>0 DEF RetryStalled, CoreType, ResendStates
  <2>2. attempts \in Nat
    BY <2>0 DEF ResendStates
  <2> HIDE DEF attempts
  <2>3. /\ r \in ResendStates /\ r.armed = core.resend.armed
        /\ r.highWater = core.resend.highWater
    <3> DEFINE u == [core.resend EXCEPT !.attempts = attempts]
    <3>1. /\ u \in ResendStates /\ u.armed = core.resend.armed
          /\ u.highWater = core.resend.highWater
      BY <2>0, <2>2 DEF ResendStates
    <3>2. r = [u EXCEPT !.charge = FALSE]
      OBVIOUS
    <3> HIDE DEF u
    <3> QED BY <3>1, <3>2 DEF ResendStates
  <2>3a. core.resend.highWater <= core.resend.highWater
    BY <2>0 DEF ResendStates
  <2> HIDE DEF r
  <2>4. Calm(RequestWritten(d))
    BY <1>0, <2>3, <2>3a, WrittenUpdateCalm
  <2>5. RequestWritten(d).queue = core.queue /\ RequestWritten(d).target = core.target
    BY <1>0 DEF CoreType, RequestWritten
  <2>6. \A n \in SeqNums : Kept(core, n) => n > core.target
    BY <1>0, <1>1 DEF RetryStalled, Stalled, DueOnlyPaused, Paused
  <2>7. DueOnlyPaused(RequestWritten(d))
    <3> HIDE DEF d
    <3> QED BY <2>5, <2>6 DEF DueOnlyPaused, Kept
  <2> HIDE DEF d
  <2> QED BY <1>0, <2>1, <2>4, <2>7
<1>2. CASE AbandonStalled
  BY <1>0, <1>2, LogoutBegunRests DEF AbandonStalled
<1>3. CASE CutResend
  BY <1>3, ClosedRests DEF CutResend
<1>4. CASE LogoutTimeout
  BY <1>4, ClosedRests DEF LogoutTimeout
<1> QED BY <1>1, <1>2, <1>3, <1>4 DEF Tick

LEMMA LogoutWrittenCalm ==
    ASSUME Settled(core), LogoutWritten PROVE Calm(core') /\ DueOnlyPaused(core')
<1> DEFINE d == [core EXCEPT !.phase = "LogoutPending"]
<1>0. Calm(core) /\ core \in CoreType
  BY DEF Settled, Sound
<1>1. core' = d /\ \A n \in SeqNums : ~Kept(core, n)
  BY <1>0 DEF LogoutWritten, Calm, LeavesEmpty, Leaving
<1>2. /\ d.target = core.target /\ d.resend = core.resend
      /\ d.heldLogon = core.heldLogon /\ d.queue = core.queue
  BY <1>0 DEF CoreType
<1> HIDE DEF d
<1>3. LeavesEmpty(d) /\ LogonCovered(d) /\ KeptCovered(d) /\ DueOnlyPaused(d)
  BY <1>0, <1>1, <1>2 DEF Calm, LeavesEmpty, LogonCovered, KeptCovered, Kept, Reaches,
                          DueOnlyPaused
<1> QED BY <1>1, <1>3 DEF Calm

LEMMA FinishResendsCalm == ASSUME Settled(core), FinishResends PROVE Calm(core')
<1>1. PICK sent \in SentOutcomes :
        core' = IF core.owed THEN Close(HeldWritten(core, sent)) ELSE HeldWritten(core, sent)
  BY DEF FinishResends
<1>2. Settled(HeldWritten(core, sent))
  BY HeldWrittenSettled
<1> QED BY <1>1, <1>2, CloseSettled DEF Settled

\* The inductive invariant: Sound, Calm and Rested.
IndInv == Settled(core) /\ PcType /\ Rested

LEMMA NextKeepsIndInv == ASSUME IndInv, [Next]_vars PROVE IndInv'
<1>0. /\ Settled(core) /\ Rested /\ PcType' /\ Sound(core') /\ Sound(core)
      /\ Calm(core) /\ core \in CoreType
  BY NextAdvances, NextKeepsPc DEF IndInv, Settled, Advance, Sound
<1> SUFFICES Calm(core') /\ Rested'
  BY <1>0 DEF IndInv, Settled
<1>1. CASE Open
  BY <1>0, <1>1, OpenCalm DEF Open, Rested
<1>2. CASE Receive
  BY <1>0, <1>2, ReceiveCalm DEF Receive, Rested, Reading, ReceiveApp, ReceiveAdmin,
     ReceiveMalformed, ReceiveFill, ReceiveReset, ReceiveBadFlag, ReceiveDuplicate,
     ReceiveTooLow, ReceiveGapped
<1>3. CASE Release
  <2>1. Calm(core')
    BY <1>0, <1>3, ReleaseCalm
  <2>2. CASE ReleaseDone
    <3>1. CASE ReleasePaused
      BY <2>1, <2>2, <3>1 DEF ReleaseDone, ReleasePaused, Paused, DueOnlyPaused, Rested
    <3>2. CASE ~ReleasePaused
      BY <1>0, <2>1, <2>2, <3>2, TakeReadyCalm DEF ReleaseDone, DueOnlyPaused, Rested
    <3> QED BY <2>1, <3>1, <3>2
  <2>3. CASE ReleaseHeldLogon \/ ReleaseEntry
    BY <2>1, <2>3 DEF ReleaseHeldLogon, ReleaseEntry, Releasing, Rested
  <2> QED BY <1>3, <2>2, <2>3 DEF Release
<1>4. CASE FinishResends
  BY <1>0, <1>4, FinishResendsCalm DEF FinishResends, Rested
<1>5. CASE Tick
  BY <1>0, <1>5, TickCalm DEF Tick, RetryStalled, AbandonStalled, CutResend, LogoutTimeout,
     Stalled, Rested
<1>6. CASE LocalLogout
  BY <1>0, <1>6, LogoutBegunRests DEF LocalLogout, Rested
<1>7. CASE LogoutWritten
  BY <1>0, <1>7, LogoutWrittenCalm DEF LogoutWritten, Rested
<1>8. CASE Abort
  <2>1. Calm(core') /\ DueOnlyPaused(core') /\ core'.queue = core.queue
    BY <1>0, <1>8, ClosedRests DEF Abort, Close, CoreType
  <2> QED BY <1>0, <1>8, <2>1 DEF Abort, Rested, Kept
<1>9. CASE UNCHANGED vars
  BY <1>0, <1>9 DEF vars, Rested
<1> QED BY <1>1, <1>2, <1>3, <1>4, <1>5, <1>6, <1>7, <1>8, <1>9 DEF Next

LEMMA InitIndInv == ASSUME Init PROVE IndInv
<1>1. \A n \in SeqNums : ~Kept(core, n)
  BY NoEntryKind DEF Init, Kept
<1>2. core.heldLogon = 0 /\ core.target = 1 /\ pc = "open"
  BY DEF Init
<1>3. LeavesEmpty(core) /\ LogonCovered(core) /\ KeptCovered(core) /\ Rested
  BY <1>1, <1>2 DEF LeavesEmpty, LogonCovered, KeptCovered, Rested
<1> QED BY <1>3, InitSound DEF IndInv, Settled, Calm

(* ------------------------------------------------------------- theorems *)

THEOREM IndInvAlways == Spec => []IndInv
<1>1. IndInv /\ [Next]_vars => IndInv'
  BY NextKeepsIndInv
<1> QED BY <1>1, InitIndInv, PTL DEF Spec

\* A session on its way out releases nothing more: whichever Logout it was,
\* the gap queue was emptied and nothing enters it again.
THEOREM LeavesEmptyHanded == Spec => []LeavingHoldsNothing
<1>1. IndInv => LeavingHoldsNothing
  BY DEF IndInv, Settled, Calm, LeavesEmpty, Leaving, Kept, LeavingHoldsNothing, Queued
<1> QED BY <1>1, IndInvAlways, PTL

\* No ResendRequest this session wrote asked for the Logon it still holds.
THEOREM HeldLogonNeverAsked == Spec => []HeldLogonUnrequested
<1>1. IndInv => HeldLogonUnrequested
  BY DEF IndInv, Settled, Calm, LogonCovered, HeldLogonUnrequested
<1> QED BY <1>1, IndInvAlways, PTL

\* Nothing kept above a gap is stranded: recovery reaches it, or the hold is
\* full and the release resumes with it.
THEOREM KeptIsCovered == Spec => []QueueCovered
<1>1. IndInv => QueueCovered
  <2> SUFFICES ASSUME IndInv, ~CallbackDrops, NEW n \in Queued(core),
                      n > core.target \/ pc = "idle"
               PROVE  \/ core.phase = "Closed" \/ ReleasePaused
                      \/ core.resend.armed /\ n <= core.resend.highWater
    BY DEF QueueCovered
  <2>1. n \in SeqNums /\ Kept(core, n)
    BY DEF Queued, Kept
  <2>2. CASE n > core.target
    BY <2>1, <2>2 DEF IndInv, Settled, Calm, KeptCovered, Reaches
  <2>3. CASE ~(n > core.target)
    BY <2>1, <2>3 DEF IndInv, Rested, DueOnlyPaused, Paused, ReleasePaused
  <2> QED BY <2>2, <2>3
<1> QED BY <1>1, IndInvAlways, PTL

-----------------------------------------------------------------------------
(* How many ResendRequests are written for one expectation                   *)
(*                                                                           *)
(* RequestsBounded says how many were written and nothing of what is still   *)
(* to come.  Budget also counts the uncharged request held behind a resend   *)
(* (it will be written) against the attempts charged so far, the spanning    *)
(* fill seen at this expectation and one carried over from an earlier one.   *)

One(b) == IF b THEN 1 ELSE 0

\* A held ResendRequest that no attempt will be charged for.
Carried(c) == c.heldRequest /\ c.resend.armed /\ ~c.resend.charge
SpannedHere(c) == c.spanned = c.target

\* What the attempts counter may say, whatever was written.
Charges(c) == /\ c.heldRequest => c.replaying
              /\ c.resend.charge => c.resend.attempts = 0
              /\ ~c.resend.armed => c.resend.attempts = 0
              /\ c.resend.attempts <= ResendLimit

Budget(c) == /\ Charges(c)
             /\ c.phase = "Active" =>
                  c.asked + One(Carried(c)) <= c.resend.attempts + One(SpannedHere(c)) + 1

USE ResendLimitAssumption

(* ------------------------------------------------ changes of one part *)

\* Nothing of what is counted changes.
LEMMA SameBudget ==
    ASSUME NEW c, Budget(c), NEW d, d.resend = c.resend, d.asked = c.asked,
           d.spanned = c.spanned, d.target = c.target, d.heldRequest = c.heldRequest,
           c.replaying => d.replaying, d.phase = "Active" => c.phase = "Active"
    PROVE  Budget(d)
BY DEF Budget, Charges, Carried, SpannedHere

\* At a new expectation nothing was asked yet.
LEMMA FreshBudget ==
    ASSUME NEW d \in CoreType, Charges(d), d.asked = 0 PROVE Budget(d)
<1>1. d.resend.attempts \in Nat
  BY DEF CoreType, ResendStates
<1> QED BY <1>1 DEF Budget, One

LEMMA NoteProgressBudget ==
    ASSUME NEW c \in CoreType, Charges(c), c.asked = 0
    PROVE  Budget(NoteProgress(c)) /\ NoteProgress(c).asked = 0
<1>0. /\ c.resend \in ResendStates /\ c.target \in 0 .. MaxSeq
      /\ c.resend.attempts \in Nat
  BY DEF CoreType, ResendStates
<1>1. CASE ~c.resend.armed
  BY <1>1, FreshBudget DEF NoteProgress
<1>2. CASE c.resend.armed /\ c.target > c.resend.highWater
  <2> DEFINE d == [c EXCEPT !.resend = NoResend]
  <2>1. NoteProgress(c) = d
    BY <1>2 DEF NoteProgress
  <2>2. /\ NoResend \in ResendStates /\ ~NoResend.armed /\ ~NoResend.charge
        /\ NoResend.attempts = 0
    BY DEF NoResend, ResendStates
  <2>3. /\ d \in CoreType /\ d.resend = NoResend /\ d.asked = 0
        /\ d.heldRequest = c.heldRequest /\ d.replaying = c.replaying
    BY <2>2 DEF CoreType
  <2> HIDE DEF d
  <2>4. Charges(d)
    BY <2>2, <2>3 DEF Charges
  <2> QED BY <2>1, <2>3, <2>4, FreshBudget
<1>3. CASE c.resend.armed /\ ~(c.target > c.resend.highWater)
  <2> DEFINE attempts == Smaller(c.resend.attempts, 1)
             r == [c.resend EXCEPT !.expected = c.target, !.attempts = attempts]
             d == [c EXCEPT !.resend = r]
  <2>1. NoteProgress(c) = d
    BY <1>3, <1>0 DEF NoteProgress, CoreType, ResendStates
  <2>2. attempts \in Nat /\ (c.resend.attempts = 0 => attempts = 0) /\ attempts <= ResendLimit
    BY <1>0 DEF Smaller
  <2> HIDE DEF attempts
  <2>3. /\ r \in ResendStates /\ r.armed = c.resend.armed
        /\ r.charge = c.resend.charge /\ r.attempts = attempts
    BY <1>0, <2>2 DEF ResendStates
  <2> HIDE DEF r
  <2>4. /\ d \in CoreType /\ d.resend = r /\ d.asked = 0
        /\ d.heldRequest = c.heldRequest /\ d.replaying = c.replaying
    BY <2>3 DEF CoreType
  <2> HIDE DEF d
  <2>5. Charges(d)
    BY <1>3, <2>2, <2>3, <2>4 DEF Charges
  <2> QED BY <2>1, <2>4, <2>5, FreshBudget
<1> QED BY <1>1, <1>2, <1>3

LEMMA ConsumeBudget ==
    ASSUME NEW c, Sound(c), Budget(c), CanAdvance(c), NEW fate \in Fates \ {"none"}
    PROVE  Budget(Consume(c, c.target, fate))
<1> DEFINE fates == [c.fate EXCEPT ![c.target] = fate]
           d == [c EXCEPT !.target = c.target + 1, !.fate = fates, !.asked = 0]
<1>1. c.target + 1 \in SeqNums /\ c \in CoreType
  BY DEF Sound, CoreType, CanAdvance
<1>2. fates \in [SeqNums -> Fates]
  BY <1>1 DEF CoreType
<1>3. Consume(c, c.target, fate) = NoteProgress(d)
  BY DEF Consume, Sound, CoreType
<1> HIDE DEF fates
<1>4. /\ d \in CoreType /\ d.resend = c.resend /\ d.asked = 0
      /\ d.heldRequest = c.heldRequest /\ d.replaying = c.replaying
  BY <1>1, <1>2 DEF CoreType
<1> HIDE DEF d
<1>5. Charges(d)
  BY <1>4 DEF Budget, Charges
<1> QED BY <1>3, <1>4, <1>5, NoteProgressBudget

LEMMA JumpBudget ==
    ASSUME NEW c, Sound(c), Budget(c), NEW new \in SeqNums, new >= c.target
    PROVE  /\ JumpTo(c, new) \in CoreType
           /\ Budget(JumpTo(c, new))
           /\ new > c.target => JumpTo(c, new).asked = 0
<1> DEFINE d == JumpTo(c, new)
<1>0. c.target \in SeqNums
  BY DEF Sound, CoreType
<1>1. d \in CoreType /\ d.target = new /\ d.resend = c.resend
  BY JumpSound
<1>2. /\ d.asked = IF new > c.target THEN 0 ELSE c.asked
      /\ d.heldRequest = c.heldRequest /\ d.replaying = c.replaying
      /\ d.spanned = c.spanned /\ d.phase = c.phase
  BY DEF JumpTo, Sound, CoreType
<1> HIDE DEF d
<1>3. CASE new > c.target
  <2>1. Charges(d)
    BY <1>1, <1>2 DEF Budget, Charges
  <2>2. Budget(d)
    BY <1>1, <1>2, <1>3, <2>1, FreshBudget
  <2> QED BY <1>1, <1>2, <1>3, <2>2 DEF d
<1>4. CASE ~(new > c.target)
  <2>1. new = c.target
    BY <1>0, <1>4
  <2>2. Budget(d)
    BY <1>1, <1>2, <2>1, SameBudget
  <2> QED BY <1>0, <1>1, <1>4, <2>2 DEF d
<1> QED BY <1>3, <1>4

(* ------------------------------------------- what counts nothing at all *)

LEMMA QuietBudget ==
    ASSUME NEW c, Sound(c), Budget(c)
    PROVE  /\ Budget(Hold(c)) /\ Budget(Reply(c)) /\ Budget(ClearQueue(c))
           /\ Budget(TakeReady(c)) /\ Budget(Close(c)) /\ Budget(Exhausted(c))
           /\ Budget([c EXCEPT !.owed = TRUE]) /\ Budget([c EXCEPT !.replaying = TRUE])
           /\ Budget([c EXCEPT !.heldLogon = 0])
<1>0. c \in CoreType
  BY DEF Sound
<1>1. Budget(Hold(c))
  BY <1>0, SameBudget DEF Hold, CoreType
<1>2. Budget(ClearQueue(c))
  BY <1>0, SameBudget DEF ClearQueue, CoreType
<1>3. Budget(TakeReady(c))
  BY <1>0, SameBudget DEF TakeReady, CoreType
<1>4. Budget(Close(c))
  BY <1>0, SameBudget DEF Close, CoreType
<1>5. /\ Budget([c EXCEPT !.owed = TRUE]) /\ Budget([c EXCEPT !.replaying = TRUE])
      /\ Budget([c EXCEPT !.heldLogon = 0])
  BY <1>0, SameBudget DEF CoreType
<1> QED BY <1>1, <1>2, <1>3, <1>4, <1>5 DEF Reply, Exhausted

LEMMA QueueGappedBudget ==
    ASSUME NEW c, Sound(c), Budget(c), NEW n, NEW entry, NEW fits
    PROVE  Budget(QueueGapped(c, n, entry, fits))
<1> DEFINE d == [c EXCEPT !.queue = [c.queue EXCEPT ![n] = entry]]
<1>1. QueueGapped(c, n, entry, fits) \in {c, d}
  BY DEF QueueGapped, Sound, CoreType
<1>2. Budget(d)
  BY SameBudget DEF Sound, CoreType
<1> HIDE DEF d
<1> QED BY <1>1, <1>2

(* --------------------------------------------------------------- recovery *)

\* Recovery reaches higher; the count is untouched.
LEMMA RaisedBudget ==
    ASSUME NEW c \in CoreType, Budget(c), NEW r \in ResendStates, r.armed = c.resend.armed,
           r.attempts = c.resend.attempts, r.charge = c.resend.charge
    PROVE  Budget([c EXCEPT !.resend = r])
<1> DEFINE d == [c EXCEPT !.resend = r]
<1>1. /\ d.resend = r /\ d.asked = c.asked /\ d.spanned = c.spanned
      /\ d.target = c.target /\ d.heldRequest = c.heldRequest
      /\ d.replaying = c.replaying /\ d.phase = c.phase
  BY DEF CoreType
<1> HIDE DEF d
<1>2. Budget(d)
  BY <1>1 DEF Budget, Charges, Carried, SpannedHere
<1> QED BY <1>2 DEF d

\* A request is written: one more was asked for this expectation.
LEMMA WrittenFields ==
    ASSUME NEW c \in CoreType
    PROVE  LET d == RequestWritten(c) IN
           /\ d.resend = c.resend /\ d.asked = c.asked + 1 /\ d.spanned = c.spanned
           /\ d.target = c.target /\ d.heldRequest = c.heldRequest
           /\ d.replaying = c.replaying /\ d.phase = c.phase
BY DEF RequestWritten, CoreType

LEMMA HeldFields ==
    ASSUME NEW c \in CoreType
    PROVE  LET d == HoldRequest(c) IN
           /\ d.resend = c.resend /\ d.asked = c.asked /\ d.spanned = c.spanned
           /\ d.target = c.target /\ d.heldRequest
           /\ d.replaying = c.replaying /\ d.phase = c.phase
BY DEF HoldRequest, Hold, CoreType

\* A gap asked for is charged now, or will be when the hold releases it.
LEMMA RequestResendBudget ==
    ASSUME NEW c, Sound(c), Budget(c), NEW high \in SeqNums, c.target <= high, NEW sent
    PROVE  /\ Budget(RequestResend(c, high, sent))
           /\ RequestResend(c, high, sent).heldRequest => c.replaying
<1> DEFINE merged == MergedHighWater(c.resend, high)
           top == Larger(c.resend.highWater, high)
           raisedResend == [c.resend EXCEPT !.highWater = top]
           raised == [c EXCEPT !.resend = raisedResend]
           firstResend == Armed(c.target, merged, 1)
           first == [c EXCEPT !.resend = firstResend]
           impliedResend == Armed(c.target, merged, 0)
           charged == [impliedResend EXCEPT !.charge = TRUE]
           implied == [c EXCEPT !.resend = charged]
<1>0. /\ c \in CoreType /\ c.target \in SeqNums /\ c.resend \in ResendStates
      /\ c.resend.highWater \in 0 .. MaxSeq /\ c.resend.attempts \in Nat
      /\ c.asked \in Nat
      /\ c.resend.armed => c.resend.expected = c.target
  BY DEF Sound, CoreType, Tracks, ResendStates
<1>1. CASE c.resend.armed
  <2>1. RequestResend(c, high, sent) = raised
    BY <1>0, <1>1 DEF RequestResend, CoreType, ResendStates
  <2>2. top \in 0 .. MaxSeq
    BY <1>0 DEF Larger
  <2> HIDE DEF top
  <2>3. /\ raisedResend \in ResendStates /\ raisedResend.armed = c.resend.armed
        /\ raisedResend.attempts = c.resend.attempts
        /\ raisedResend.charge = c.resend.charge
    BY <1>0, <2>2 DEF ResendStates
  <2> HIDE DEF raisedResend
  <2>4. Budget(raised) /\ raised.heldRequest = c.heldRequest
    BY <1>0, <2>3, RaisedBudget DEF CoreType
  <2> QED BY <2>1, <2>4 DEF Budget, Charges
<1>2. CASE ~c.resend.armed
  <2>0. merged \in SeqNums
    BY <1>2 DEF MergedHighWater
  <2> HIDE DEF merged
  <2>1. /\ firstResend \in ResendStates /\ firstResend.armed
        /\ firstResend.attempts = 1 /\ ~firstResend.charge
        /\ impliedResend \in ResendStates /\ impliedResend.armed
        /\ impliedResend.attempts = 0
    BY <1>0, <2>0 DEF Armed, ResendStates
  <2> HIDE DEF firstResend, impliedResend
  <2>2. /\ charged \in ResendStates /\ charged.armed /\ charged.charge
        /\ charged.attempts = 0
    BY <2>1 DEF ResendStates
  <2> HIDE DEF charged
  <2>3. /\ first \in CoreType /\ first.resend = firstResend /\ first.asked = c.asked
        /\ first.spanned = c.spanned /\ first.target = c.target
        /\ first.heldRequest = c.heldRequest /\ first.replaying = c.replaying
        /\ first.phase = c.phase
    BY <1>0, <2>1 DEF CoreType
  <2>4. /\ implied \in CoreType /\ implied.resend = charged /\ implied.asked = c.asked
        /\ implied.spanned = c.spanned /\ implied.target = c.target
        /\ implied.replaying = c.replaying /\ implied.phase = c.phase
    BY <1>0, <2>2 DEF CoreType
  <2>5. CASE c.replaying
    <3> DEFINE d == HoldRequest(implied)
    <3>1. RequestResend(c, high, sent) = d
      BY <1>2, <2>5 DEF RequestResend, charged, impliedResend, merged
    <3> HIDE DEF implied
    <3>2. /\ d.resend = charged /\ d.asked = c.asked /\ d.spanned = c.spanned
          /\ d.target = c.target /\ d.replaying = c.replaying /\ d.phase = c.phase
      BY <2>4, HeldFields
    <3> HIDE DEF d
    <3>3. Budget(d)
      BY <1>0, <1>2, <2>2, <2>5, <3>2 DEF Budget, Charges, Carried, SpannedHere, One
    <3> QED BY <2>5, <3>1, <3>3
  <2>6. CASE ~c.replaying /\ sent # "Dropped"
    <3> DEFINE d == RequestWritten(first)
    <3>1. RequestResend(c, high, sent) = d
      BY <1>2, <2>6 DEF RequestResend, firstResend, merged
    <3> HIDE DEF first
    <3>2. /\ d.resend = firstResend /\ d.asked = c.asked + 1 /\ d.spanned = c.spanned
          /\ d.target = c.target /\ d.heldRequest = c.heldRequest
          /\ d.replaying = c.replaying /\ d.phase = c.phase
      BY <2>3, WrittenFields
    <3> HIDE DEF d
    <3>3. Budget(d)
      <4>1. Charges(d) /\ ~Carried(d) /\ ~Carried(c) /\ c.resend.attempts = 0
        BY <1>2, <2>1, <2>6, <3>2 DEF Budget, Charges, Carried
      <4>2. SpannedHere(d) = SpannedHere(c)
        BY <3>2 DEF SpannedHere
      <4> QED BY <1>0, <2>1, <3>2, <4>1, <4>2 DEF Budget, One
    <3> QED BY <3>1, <3>2, <3>3 DEF Budget, Charges
  <2>7. CASE ~c.replaying /\ sent = "Dropped"
    BY <1>2, <2>7 DEF RequestResend, Budget, Charges
  <2> QED BY <2>5, <2>6, <2>7
<1> QED BY <1>1, <1>2

\* A spanning fill asks once for this expectation, uncharged, held or not.
LEMMA RerequestSpannedBudget ==
    ASSUME NEW c, Sound(c), Budget(c), NEW new \in 0 .. MaxSeq, c.target < new, NEW sent,
           c.phase = "Active", c.spanned # c.target
    PROVE  Budget(RerequestSpanned(c, new, sent))
<1> DEFINE noted == [c EXCEPT !.spanned = c.target]
           high == Larger(new - 1, c.target)
           armed == ArmUncharged(noted, high)
<1>0. /\ c.target \in SeqNums /\ c.target \in 0 .. MaxSeq /\ c.asked \in Nat
      /\ c.resend \in ResendStates /\ c.resend.attempts \in Nat
      /\ c.resend.highWater \in 0 .. MaxSeq
  BY DEF Sound, CoreType, ResendStates
<1>1. /\ noted \in CoreType /\ noted.target = c.target /\ noted.resend = c.resend
      /\ noted.spanned = c.target /\ noted.asked = c.asked
      /\ noted.heldRequest = c.heldRequest /\ noted.replaying = c.replaying
      /\ noted.phase = c.phase
  BY <1>0 DEF Sound, CoreType
<1>2. RerequestSpanned(c, new, sent) =
        IF c.replaying THEN HoldRequest(armed)
        ELSE IF sent = "Dropped" THEN noted ELSE RequestWritten(armed)
  BY DEF RerequestSpanned
<1> HIDE DEF noted
<1>3. high \in SeqNums
  BY <1>0 DEF Larger
<1> HIDE DEF high
<1>4. /\ armed \in CoreType /\ armed.target = c.target /\ armed.resend.armed
      /\ armed.resend.attempts = c.resend.attempts
      /\ armed.resend.charge => c.resend.charge
      /\ armed.spanned = c.target /\ armed.asked = c.asked
      /\ armed.heldRequest = c.heldRequest /\ armed.replaying = c.replaying
      /\ armed.phase = c.phase
  <2>1. CASE ~c.resend.armed
    <3> DEFINE r == Armed(c.target, high, 0)
    <3>1. r \in ResendStates /\ r.armed /\ ~r.charge /\ r.attempts = 0
      BY <1>0, <1>3 DEF Armed, ResendStates
    <3>2. armed = [noted EXCEPT !.resend = r]
      BY <1>1, <2>1 DEF ArmUncharged
    <3> HIDE DEF r, armed
    <3>3. c.resend.attempts = 0
      BY <2>1 DEF Budget, Charges
    <3> QED BY <1>1, <3>1, <3>2, <3>3 DEF CoreType
  <2>2. CASE c.resend.armed
    <3> DEFINE top == Larger(c.resend.highWater, high)
               r == [c.resend EXCEPT !.expected = c.target, !.highWater = top]
    <3>1. top \in 0 .. MaxSeq
      BY <1>0, <1>3 DEF Larger
    <3>2. armed = [noted EXCEPT !.resend = r]
      BY <1>0, <1>1, <2>2 DEF ArmUncharged, CoreType, ResendStates
    <3> HIDE DEF top
    <3>3. /\ r \in ResendStates /\ r.armed /\ r.attempts = c.resend.attempts
          /\ r.charge = c.resend.charge
      BY <1>0, <2>2, <3>1 DEF ResendStates
    <3> HIDE DEF r, armed
    <3> QED BY <1>1, <3>2, <3>3 DEF CoreType
  <2> QED BY <2>1, <2>2
<1> HIDE DEF armed
<1>5. CASE c.replaying
  <2> DEFINE d == HoldRequest(armed)
  <2>1. /\ d.resend = armed.resend /\ d.asked = c.asked /\ d.spanned = c.target
        /\ d.target = c.target /\ d.replaying = c.replaying /\ d.phase = c.phase
    BY <1>4, HeldFields
  <2> HIDE DEF d
  <2>2. Budget(d)
    BY <1>0, <1>4, <1>5, <2>1 DEF Budget, Charges, Carried, SpannedHere, One
  <2> QED BY <1>2, <1>5, <2>2 DEF d
<1>6. CASE ~c.replaying /\ sent = "Dropped"
  <2>1. Budget(noted)
    BY <1>0, <1>1 DEF Budget, Charges, Carried, SpannedHere, One
  <2> QED BY <1>2, <1>6, <2>1
<1>7. CASE ~c.replaying /\ sent # "Dropped"
  <2> DEFINE d == RequestWritten(armed)
  <2>1. /\ d.resend = armed.resend /\ d.asked = c.asked + 1 /\ d.spanned = c.target
        /\ d.target = c.target /\ d.heldRequest = c.heldRequest
        /\ d.replaying = c.replaying /\ d.phase = c.phase
    BY <1>4, WrittenFields
  <2> HIDE DEF d
  <2>2. Budget(d)
    BY <1>0, <1>4, <1>7, <2>1 DEF Budget, Charges, Carried, SpannedHere, One
  <2> QED BY <1>2, <1>7, <2>2 DEF d
<1> QED BY <1>5, <1>6, <1>7

\* What the hold released: a request charged here, or the one it carried.
LEMMA HeldWrittenBudget ==
    ASSUME NEW c, Sound(c), Budget(c), NEW sent
    PROVE  Budget(HeldWritten(c, sent))
<1> DEFINE freed == [c EXCEPT !.replaying = FALSE, !.heldSends = 0, !.heldRequest = FALSE]
           attempts == freed.resend.attempts + 1
           quiet == [freed.resend EXCEPT !.charge = FALSE]
           counted == [quiet EXCEPT !.attempts = attempts]
           uncharged == [freed EXCEPT !.resend = quiet]
           charged == [freed EXCEPT !.resend = counted]
<1>0. /\ c \in CoreType /\ c.resend \in ResendStates /\ c.resend.attempts \in Nat
      /\ c.asked \in Nat
  BY DEF Sound, CoreType, ResendStates
<1>1. /\ freed \in CoreType /\ freed.target = c.target /\ freed.resend = c.resend
      /\ freed.asked = c.asked /\ freed.spanned = c.spanned /\ freed.phase = c.phase
      /\ ~freed.heldRequest
  BY <1>0 DEF CoreType
<1>2. CASE ~c.heldRequest \/ ~c.resend.armed
  <2>1. HeldWritten(c, sent) = freed
    BY <1>2 DEF HeldWritten
  <2> HIDE DEF freed
  <2>2. ~Carried(c) /\ ~Carried(freed) /\ SpannedHere(freed) = SpannedHere(c)
    BY <1>1, <1>2 DEF Carried, SpannedHere
  <2>3. Charges(freed)
    BY <1>1 DEF Budget, Charges
  <2> QED BY <1>1, <2>1, <2>2, <2>3 DEF Budget, One
<1>3. CASE c.heldRequest /\ c.resend.armed
  <2>1. [uncharged EXCEPT !.resend.attempts = uncharged.resend.attempts + 1] = charged
    BY <1>1 DEF CoreType, ResendStates
  <2>2. HeldWritten(c, sent) =
          IF sent = "Dropped" THEN uncharged
          ELSE RequestWritten(IF c.resend.charge THEN charged ELSE uncharged)
    BY <1>3, <2>1 DEF HeldWritten
  <2> HIDE DEF freed
  <2>3. attempts \in Nat /\ attempts = c.resend.attempts + 1
    BY <1>0, <1>1
  <2> HIDE DEF attempts
  <2>4. /\ quiet \in ResendStates /\ quiet.armed = c.resend.armed
        /\ quiet.attempts = c.resend.attempts /\ ~quiet.charge
    BY <1>0, <1>1 DEF ResendStates
  <2> HIDE DEF quiet
  <2>5. /\ counted \in ResendStates /\ counted.armed = c.resend.armed
        /\ counted.attempts = c.resend.attempts + 1 /\ ~counted.charge
    BY <2>3, <2>4 DEF ResendStates
  <2> HIDE DEF counted
  <2>6. /\ uncharged \in CoreType /\ uncharged.resend = quiet
        /\ uncharged.target = c.target /\ uncharged.asked = c.asked
        /\ uncharged.spanned = c.spanned /\ uncharged.phase = c.phase
        /\ ~uncharged.heldRequest
    BY <1>1, <2>4 DEF CoreType
  <2>7. /\ charged \in CoreType /\ charged.resend = counted
        /\ charged.target = c.target /\ charged.asked = c.asked
        /\ charged.spanned = c.spanned /\ charged.phase = c.phase
        /\ ~charged.heldRequest
    BY <1>1, <2>5 DEF CoreType
  <2> HIDE DEF uncharged, charged
  <2>8. Budget(uncharged)
    <3>1. Charges(uncharged) /\ ~Carried(uncharged)
      BY <1>3, <2>4, <2>6 DEF Budget, Charges, Carried
    <3>2. SpannedHere(uncharged) = SpannedHere(c)
      BY <2>6 DEF SpannedHere
    <3> QED BY <1>0, <2>4, <2>6, <3>1, <3>2 DEF Budget, One
  <2>9. ~c.resend.charge => Budget(RequestWritten(uncharged))
    <3> SUFFICES ASSUME ~c.resend.charge PROVE Budget(RequestWritten(uncharged))
      OBVIOUS
    <3> DEFINE d == RequestWritten(uncharged)
    <3>1. /\ d.resend = quiet /\ d.asked = c.asked + 1 /\ d.spanned = c.spanned
          /\ d.target = c.target /\ ~d.heldRequest /\ d.phase = c.phase
      BY <2>6, WrittenFields
    <3> HIDE DEF d
    <3>2. Charges(d) /\ ~Carried(d) /\ Carried(c)
      BY <1>3, <2>4, <3>1 DEF Budget, Charges, Carried
    <3>3. SpannedHere(d) = SpannedHere(c)
      BY <3>1 DEF SpannedHere
    <3>4. Budget(d)
      BY <1>0, <2>4, <3>1, <3>2, <3>3 DEF Budget, One
    <3> QED BY <3>4 DEF d
  <2>10. c.resend.charge => Budget(RequestWritten(charged))
    <3> SUFFICES ASSUME c.resend.charge PROVE Budget(RequestWritten(charged))
      OBVIOUS
    <3> DEFINE d == RequestWritten(charged)
    <3>1. /\ d.resend = counted /\ d.asked = c.asked + 1 /\ d.spanned = c.spanned
          /\ d.target = c.target /\ ~d.heldRequest /\ d.phase = c.phase
      BY <2>7, WrittenFields
    <3> HIDE DEF d
    <3>a. c.resend.attempts = 0 /\ counted.attempts <= ResendLimit
      BY <1>0, <2>5 DEF Budget, Charges
    <3>2. Charges(d) /\ ~Carried(d) /\ ~Carried(c)
      BY <1>3, <2>5, <3>1, <3>a DEF Budget, Charges, Carried
    <3>3. SpannedHere(d) = SpannedHere(c)
      BY <3>1 DEF SpannedHere
    <3>4. Budget(d)
      BY <1>0, <2>5, <3>1, <3>2, <3>3 DEF Budget, One
    <3> QED BY <3>4 DEF d
  <2> QED BY <2>2, <2>8, <2>9, <2>10
<1> QED BY <1>2, <1>3

(* ------------------------------------------------------------- handlers *)

\* A Sound core within its Budget that another operator led to.
Within(c) == Sound(c) /\ Budget(c)

LEMMA QuietWithin ==
    ASSUME NEW c, Within(c)
    PROVE  /\ Within(Reply(c)) /\ Within(ClearQueue(c)) /\ Within(TakeReady(c))
           /\ Within(Close(c)) /\ Within(Exhausted(c))
           /\ TakeReady(c).target = c.target
<1>1. TakeReady(c).target = c.target
  BY DEF TakeReady, Within, Sound, CoreType
<1> QED BY <1>1, QuietBudget, ReplyAdvances, ClearQueueAdvances, TakeReadyAdvances,
        CloseAdvances, ExhaustedAdvances DEF Within, Advance

LEMMA ActedWithin ==
    ASSUME NEW c, Within(c), CanAdvance(c), NEW fate \in {"app", "acted"}
    PROVE  /\ Within(Consume(c, c.target, fate))
           /\ Within(Reply(Consume(c, c.target, fate)))
<1> DEFINE d == Consume(c, c.target, fate)
<1>1. fate \in Fates \ {"none"}
  BY DEF Fates
<1>2. Within(d)
  BY <1>1, ConsumeAdvances, ConsumeBudget DEF Within, Advance
<1> HIDE DEF d
<1>3. Within(Reply(d))
  BY <1>2, QuietWithin
<1> QED BY <1>2, <1>3 DEF d

LEMMA AppTakenWithin ==
    ASSUME NEW c, Within(c), NEW ok \in BOOLEAN
    PROVE  Within(AppTaken(c, c.target, ok))
BY ActedWithin, QuietWithin DEF AppTaken

LEMMA FillTakenWithin ==
    ASSUME NEW c, Within(c), NEW new \in 0 .. MaxSeq, NEW ok \in BOOLEAN
    PROVE  Within(FillTaken(c, c.target, new, ok))
<1>0. c.target \in SeqNums /\ Sound(c) /\ Budget(c)
  BY DEF Within, Sound, CoreType
<1>1. CASE CanAdvance(c) /\ ok /\ new > c.target
  <2> DEFINE d == JumpTo(c, new)
  <2>1. new \in SeqNums /\ new >= c.target
    BY <1>0, <1>1
  <2>2. d \in CoreType /\ Budget(d) /\ d.asked = 0
    BY <1>0, <1>1, <2>1, JumpBudget
  <2>3. Sound(NoteProgress(d))
    BY <1>0, <2>1, JumpAdvances DEF Advance
  <2>4. FillTaken(c, c.target, new, ok) = NoteProgress(d)
    BY <1>1 DEF FillTaken
  <2> HIDE DEF d
  <2> QED BY <2>2, <2>3, <2>4, NoteProgressBudget DEF Within, Budget
<1>2. CASE ~(CanAdvance(c) /\ ok /\ new > c.target)
  BY <1>2, ActedWithin, QuietWithin DEF FillTaken
<1> QED BY <1>1, <1>2

LEMMA ResetTakenWithin ==
    ASSUME NEW c, Within(c), NEW new \in 0 .. MaxSeq, NEW ok \in BOOLEAN
    PROVE  Within(ResetTaken(c, new, ok))
<1>0. c.target \in SeqNums /\ Sound(c) /\ Budget(c)
  BY DEF Within, Sound, CoreType
<1>1. CASE ~ok \/ new < c.target
  BY <1>1, QuietWithin DEF ResetTaken
<1>2. CASE ok /\ ~(new < c.target)
  <2> DEFINE jumped == JumpTo(c, new)
             moved == ClearQueue(jumped)
  <2>1. new \in SeqNums /\ new >= c.target
    BY <1>0, <1>2
  <2>2. /\ jumped \in CoreType /\ Budget(jumped)
        /\ new > c.target => jumped.asked = 0
    BY <1>0, <2>1, JumpBudget
  <2> HIDE DEF jumped
  <2>3. /\ moved.target = jumped.target /\ moved.resend = jumped.resend
        /\ moved.asked = jumped.asked /\ moved.spanned = jumped.spanned
        /\ moved.heldRequest = jumped.heldRequest /\ moved.phase = jumped.phase
        /\ moved.replaying = jumped.replaying
    BY <2>2 DEF ClearQueue, CoreType
  <2>4. moved \in CoreType
    <3>1. [n \in SeqNums |-> NoEntry] \in [SeqNums -> GapEntries]
      BY NoEntryType
    <3> QED BY <2>2, <3>1 DEF ClearQueue, CoreType
  <2>5. ResetTaken(c, new, ok) = IF new > c.target THEN NoteProgress(moved) ELSE moved
    BY <1>2 DEF ResetTaken, jumped
  <2> HIDE DEF moved
  <2>6. Budget(moved)
    BY <2>2, <2>3, SameBudget
  <2>7. Budget(ResetTaken(c, new, ok))
    BY <2>2, <2>3, <2>4, <2>5, <2>6, NoteProgressBudget DEF Budget
  <2> QED BY <1>0, <2>7, ResetTakenAdvances DEF Within, Advance
<1> QED BY <1>1, <1>2

LEMMA DispatchAdminWithin ==
    ASSUME NEW c, Within(c), NEW f \in Frames, f.kind \in AdminKinds, NEW ok \in BOOLEAN
    PROVE  Within(DispatchAdmin(c, f, ok))
<1>0. Sound(c) /\ Budget(c)
  BY DEF Within
<1>1. Budget(OnLogout(ClearQueue(c)))
  <2> DEFINE e == ClearQueue(c)
  <2>1. Within(e)
    BY QuietWithin
  <2> HIDE DEF e
  <2>2. Budget(OnLogout(e))
    BY <2>1, QuietBudget DEF OnLogout, Within
  <2> QED BY <2>2 DEF e
<1>2. Budget(DispatchAdmin(c, f, ok))
  BY <1>0, <1>1, QuietBudget DEF DispatchAdmin, AdminKinds
<1> QED BY <1>0, <1>2, DispatchAdminAdvances DEF Within, Advance

LEMMA BeginLogoutBudget ==
    ASSUME NEW c, Within(c), NEW sent PROVE Budget(BeginLogout(c, sent))
<1> DEFINE d == [c EXCEPT !.phase = "LogoutQueued", !.resend = NoResend, !.heldLogon = 0]
           e == ClearQueue(d)
<1>1. ~NoResend.armed /\ ~NoResend.charge /\ NoResend.attempts = 0
  BY DEF NoResend
<1> HIDE DEF NoResend
<1>2. /\ d.phase = "LogoutQueued" /\ d.resend = NoResend
      /\ d.heldRequest = c.heldRequest /\ d.replaying = c.replaying
  BY DEF Within, Sound, CoreType
<1>3. /\ e.phase = "LogoutQueued" /\ e.resend = NoResend
      /\ e.heldRequest = c.heldRequest /\ e.replaying = c.replaying
  BY DEF ClearQueue, Within, Sound, CoreType
<1>4. BeginLogout(c, sent) = c \/ BeginLogout(c, sent) = e
  BY DEF BeginLogout
<1> HIDE DEF e
<1>5. Budget(e)
  BY <1>1, <1>3 DEF Within, Budget, Charges
<1> QED BY <1>4, <1>5 DEF Within

(* ---------------------------------------------------------------- steps *)

LEMMA ReceiveGappedBudget ==
    ASSUME Within(core), NEW f \in Frames, ReceiveGapped(f)
    PROVE  Budget(core')
<1>1. PICK sent \in SentOutcomes, ok \in BOOLEAN, fits \in BOOLEAN :
        LET asked == RequestResend(core, f.seq, sent)
        IN  \/ /\ f.kind = "app"
               /\ core' = QueueGapped(asked, f.seq, [kind |-> "app", new |-> 0], fits)
            \/ /\ f.kind = "fill"
               /\ core' = QueueGapped(asked, f.seq, [kind |-> "fill", new |-> f.new], fits)
            \/ /\ f.kind = "malformed"
               /\ core' = asked
            \/ /\ f.kind = "logout"
               /\ core' = DispatchAdmin(asked, f, ok)
            \/ /\ f.kind \in AdminKinds \ {"logout"}
               /\ core' = IF IsHeldCopy(asked, f.seq) THEN asked
                          ELSE DispatchAdmin(
                                 QueueGapped(asked, f.seq,
                                             [kind |-> "processed", new |-> 0], TRUE),
                                 f, ok)
  BY DEF ReceiveGapped
<1> DEFINE asked == RequestResend(core, f.seq, sent)
           kept == QueueGapped(asked, f.seq, [kind |-> "processed", new |-> 0], TRUE)
<1>2. f.seq \in SeqNums /\ core.target <= f.seq
  <2>1. f.seq \in SeqNums
    BY DEF Frames
  <2>2. core.target \in SeqNums /\ f.seq > core.target
    BY DEF Within, Sound, CoreType, ReceiveGapped, Gapped
  <2> QED BY <2>1, <2>2
<1>3. Within(asked)
  BY <1>2, RequestResendAdvances, RequestResendBudget DEF Within, Advance
<1> HIDE DEF asked
<1>4. \A entry : Budget(QueueGapped(asked, f.seq, entry, fits))
  BY <1>3, QueueGappedBudget DEF Within
<1>5. CASE f.kind = "logout" /\ core' = DispatchAdmin(asked, f, ok)
  <2>1. f.kind \in AdminKinds
    BY <1>5 DEF AdminKinds
  <2> QED BY <1>3, <1>5, <2>1, DispatchAdminWithin DEF Within
<1>6. CASE f.kind \in AdminKinds \ {"logout"} /\ core' = DispatchAdmin(kept, f, ok)
  <2>1. [kind |-> "processed", new |-> 0] \in GapEntries
    BY DEF GapEntries
  <2>2. Within(kept)
    BY <1>2, <1>3, <2>1, QueueGappedBudget, QueueGappedAdvances DEF Within, Advance
  <2> HIDE DEF kept
  <2>3. f.kind \in AdminKinds
    BY <1>6
  <2> QED BY <1>6, <2>2, <2>3, DispatchAdminWithin DEF Within
<1>7. CASE f.kind \notin AdminKinds
  <2>1. core' = asked \/ \E entry : core' = QueueGapped(asked, f.seq, entry, fits)
    BY <1>1, <1>7 DEF AdminKinds, asked
  <2> QED BY <1>3, <1>4, <2>1 DEF Within
<1>8. CASE core' = asked
  BY <1>3, <1>8 DEF Within
<1> QED BY <1>1, <1>5, <1>6, <1>7, <1>8 DEF AdminKinds, asked, kept

LEMMA ReceiveBudget ==
    ASSUME Within(core), NEW f \in Frames,
           \/ ReceiveApp(f) \/ ReceiveAdmin(f) \/ ReceiveMalformed(f) \/ ReceiveFill(f)
           \/ ReceiveReset(f) \/ ReceiveBadFlag(f) \/ ReceiveDuplicate(f)
           \/ ReceiveTooLow(f) \/ ReceiveGapped(f)
    PROVE  Budget(core')
<1>0. f.seq \in SeqNums /\ f.new \in 0 .. MaxSeq /\ Sound(core) /\ Budget(core)
  BY DEF Frames, Within
<1>1. CASE ReceiveApp(f)
  BY <1>1, AppTakenWithin DEF ReceiveApp, InSequence, Within
<1>2. CASE ReceiveAdmin(f)
  <2>1. PICK ok \in BOOLEAN :
          core' = IF CanAdvance(core)
                  THEN DispatchAdmin(Consume(core, f.seq, "acted"), f, ok)
                  ELSE Exhausted(core)
    BY <1>2 DEF ReceiveAdmin
  <2>2. f.seq = core.target /\ f.kind \in AdminKinds
    BY <1>2 DEF ReceiveAdmin, InSequence
  <2>3. CanAdvance(core) => Within(Consume(core, core.target, "acted"))
    BY ActedWithin
  <2> QED BY <2>1, <2>2, <2>3, DispatchAdminWithin, QuietWithin DEF Within
<1>3. CASE ReceiveMalformed(f)
  BY <1>3, AppTakenWithin DEF ReceiveMalformed, InSequence, Within
<1>4. CASE ReceiveFill(f)
  BY <1>0, <1>4, FillTakenWithin DEF ReceiveFill, InSequence, Within
<1>5. CASE ReceiveReset(f)
  BY <1>0, <1>5, ResetTakenWithin DEF ReceiveReset, Within
<1>6. CASE ReceiveBadFlag(f)
  BY <1>6, QuietWithin DEF ReceiveBadFlag, Within
<1>7. CASE ReceiveDuplicate(f)
  <2>1. CASE SpansMissing(f)
    <3>1. core.target < f.new /\ core.phase = "Active" /\ core.spanned # core.target
      BY <1>0, <2>1 DEF SpansMissing, Sound, CoreType
    <3> QED BY <1>0, <1>7, <2>1, <3>1, RerequestSpannedBudget DEF ReceiveDuplicate
  <2>2. CASE ~SpansMissing(f)
    BY <1>0, <1>7, <2>2 DEF ReceiveDuplicate
  <2> QED BY <2>1, <2>2
<1>8. CASE ReceiveTooLow(f)
  BY <1>8, QuietWithin DEF ReceiveTooLow, Within
<1>9. CASE ReceiveGapped(f)
  BY <1>9, ReceiveGappedBudget
<1> QED BY <1>1, <1>2, <1>3, <1>4, <1>5, <1>6, <1>7, <1>8, <1>9

LEMMA ReleaseBudget == ASSUME Within(core), Release PROVE Budget(core')
<1>0. Sound(core) /\ Budget(core) /\ core \in CoreType
  BY DEF Within, Sound
<1>1. CASE ReleaseHeldLogon
  <2> DEFINE c == [core EXCEPT !.heldLogon = 0]
  <2>a. core.target \in SeqNums /\ core.heldLogon \in 0 .. MaxSeq /\ 0 \in 0 .. MaxSeq
    BY <1>0 DEF CoreType
  <2>0. c \in CoreType /\ c.target = core.target /\ c.fate = core.fate
        /\ c.resend = core.resend
    BY <1>0, <2>a DEF CoreType
  <2>1. core' = IF core.heldLogon < core.target THEN c
                ELSE IF CanAdvance(c) THEN Consume(c, core.heldLogon, "acted")
                ELSE Exhausted(c)
    BY <1>1 DEF ReleaseHeldLogon
  <2>2. core.heldLogon <= core.target
    BY <1>1 DEF ReleaseHeldLogon, LogonDue
  <2>3. Budget(c)
    BY <1>0, QuietBudget
  <2> HIDE DEF c
  <2>4. Within(c)
    BY <1>0, <2>0, <2>3, QuietAdvance DEF Within, Advance
  <2>5. CASE core.heldLogon < core.target
    BY <2>1, <2>3, <2>5
  <2>6. CASE ~(core.heldLogon < core.target)
    <3>1. core.heldLogon = c.target
      BY <2>a, <2>0, <2>2, <2>6
    <3>2. CanAdvance(c) => Within(Consume(c, c.target, "acted"))
      BY <2>4, ActedWithin
    <3> QED BY <2>1, <2>4, <2>6, <3>1, <3>2, QuietWithin DEF Within
  <2> QED BY <2>5, <2>6
<1>2. CASE ReleaseEntry
  <2> DEFINE entry == core.queue[core.target]
             c == TakeReady(core)
  <2>1. PICK ok \in BOOLEAN :
          \/ entry.kind = "app" /\ core' = AppTaken(c, core.target, ok)
          \/ entry.kind = "fill" /\ core' = FillTaken(c, core.target, entry.new, ok)
          \/ /\ entry.kind = "processed"
             /\ core' = IF CanAdvance(c) THEN Consume(c, core.target, "acted")
                        ELSE Exhausted(c)
    BY <1>2 DEF ReleaseEntry
  <2>2. entry.new \in 0 .. MaxSeq
    BY <1>0 DEF CoreType, GapEntries
  <2>3. Within(c) /\ c.target = core.target
    BY QuietWithin
  <2> HIDE DEF c, entry
  <2>4. /\ Within(AppTaken(c, c.target, ok))
        /\ Within(FillTaken(c, c.target, entry.new, ok))
        /\ CanAdvance(c) => Within(Consume(c, c.target, "acted"))
        /\ Within(Exhausted(c))
    BY <2>2, <2>3, AppTakenWithin, FillTakenWithin, ActedWithin, QuietWithin
  <2> QED BY <2>1, <2>3, <2>4 DEF Within
<1>3. CASE ReleaseDone
  BY <1>0, <1>3, QuietWithin DEF ReleaseDone, Within
<1> QED BY <1>1, <1>2, <1>3 DEF Release

\* Before the session opens nothing was asked for and nothing is held.
Unopened == pc = "open" => ~core.replaying /\ ~core.heldRequest /\ core.asked = 0

LEMMA OpenBudget == ASSUME Within(core), Unopened, Open PROVE Budget(core')
<1>0. /\ Sound(core) /\ Budget(core) /\ core \in CoreType
      /\ ~core.replaying /\ ~core.heldRequest /\ core.asked = 0
  BY DEF Within, Sound, Open, Unopened
<1>1. PICK replay \in BOOLEAN :
        \/ OpenPlain(replay)
        \/ \E logonSeq \in SeqNums :
              /\ logonSeq > core.target
              /\ OpenGap(logonSeq, replay) \/ OpenHeldLogon(logonSeq, replay)
  BY DEF Open
\* Raising the flag, or lowering it where nothing is held, counts nothing.
<1>2. ASSUME NEW d \in CoreType, Budget(d), ~d.heldRequest
      PROVE  Budget([d EXCEPT !.replaying = replay])
  <2> DEFINE e == [d EXCEPT !.replaying = replay]
  <2>1. /\ e.resend = d.resend /\ e.asked = d.asked /\ e.spanned = d.spanned
        /\ e.target = d.target /\ e.heldRequest = d.heldRequest /\ e.phase = d.phase
    BY DEF CoreType
  <2> HIDE DEF e
  <2>2. Budget(e)
    BY <1>2, <2>1 DEF Budget, Charges, Carried, SpannedHere
  <2> QED BY <2>2 DEF e
<1>3. CASE OpenPlain(replay)
  BY <1>0, <1>2, <1>3 DEF OpenPlain
<1>4. ASSUME NEW logonSeq \in SeqNums, logonSeq > core.target, OpenGap(logonSeq, replay)
      PROVE  Budget(core')
  <2>1. PICK sent \in SentOutcomes :
          core' = [RequestResend(core, logonSeq, sent) EXCEPT !.replaying = replay]
    BY <1>4 DEF OpenGap
  <2> DEFINE d == RequestResend(core, logonSeq, sent)
  <2>2. core.target <= logonSeq
    BY <1>0, <1>4 DEF CoreType
  <2>3. d \in CoreType /\ Budget(d) /\ ~d.heldRequest
    BY <1>0, <2>2, RequestResendBudget, RequestResendAdvances DEF Advance, Sound
  <2> HIDE DEF d
  <2> QED BY <1>2, <2>1, <2>3 DEF d
<1>5. ASSUME NEW logonSeq \in SeqNums, logonSeq > core.target,
             OpenHeldLogon(logonSeq, replay)
      PROVE  Budget(core')
  <2> DEFINE r == Armed(core.target, logonSeq, 0)
             d == [core EXCEPT !.resend = r, !.heldLogon = logonSeq, !.replaying = replay]
  <2>0. core.target \in SeqNums /\ logonSeq \in 0 .. MaxSeq /\ core.target \in 0 .. MaxSeq
    BY <1>0 DEF CoreType
  <2>1. r \in ResendStates /\ r.armed /\ ~r.charge /\ r.attempts = 0
    BY <2>0 DEF Armed, ResendStates
  <2>2. core' = d
    BY <1>5 DEF OpenHeldLogon
  <2> HIDE DEF r
  <2>3. d \in CoreType /\ d.resend = r /\ d.asked = 0 /\ ~d.heldRequest
    BY <1>0, <2>0, <2>1 DEF CoreType
  <2> HIDE DEF d
  <2>4. Charges(d)
    BY <2>1, <2>3 DEF Charges
  <2> QED BY <2>2, <2>3, <2>4, FreshBudget
<1> QED BY <1>1, <1>3, <1>4, <1>5

LEMMA TickBudget == ASSUME Within(core), Tick PROVE Budget(core')
<1>0. /\ Sound(core) /\ Budget(core) /\ core \in CoreType
      /\ core.resend \in ResendStates /\ core.resend.attempts \in Nat /\ core.asked \in Nat
  BY DEF Within, Sound, CoreType, ResendStates
<1>1. CASE RetryStalled
  <2> DEFINE attempts == core.resend.attempts + 1
             u == [core.resend EXCEPT !.attempts = attempts]
             r == [core.resend EXCEPT !.attempts = attempts, !.charge = FALSE]
             d == [core EXCEPT !.resend = r]
             e == RequestWritten(d)
  <2>1. core' = core \/ core' = e
    BY <1>0, <1>1 DEF RetryStalled, CoreType, ResendStates
  <2>2. attempts \in Nat /\ attempts <= ResendLimit
    BY <1>0, <1>1 DEF RetryStalled
  <2>3. r = [u EXCEPT !.charge = FALSE]
    OBVIOUS
  <2>4. /\ u \in ResendStates /\ u.armed = core.resend.armed /\ u.attempts = attempts
    <3> HIDE DEF attempts
    <3> QED BY <1>0, <2>2 DEF ResendStates
  <2> HIDE DEF u
  <2>5. /\ r \in ResendStates /\ r.armed = core.resend.armed /\ r.attempts = attempts
        /\ ~r.charge
    <3> HIDE DEF attempts, r
    <3> QED BY <2>3, <2>4 DEF ResendStates
  <2> HIDE DEF r
  <2>6. /\ d \in CoreType /\ d.resend = r /\ d.asked = core.asked
        /\ d.spanned = core.spanned /\ d.target = core.target
        /\ d.heldRequest = core.heldRequest /\ d.phase = core.phase
    BY <1>0, <2>5 DEF CoreType
  <2> HIDE DEF d
  <2>7. /\ e.resend = r /\ e.asked = core.asked + 1
        /\ e.spanned = core.spanned /\ e.target = core.target
        /\ e.heldRequest = core.heldRequest /\ e.phase = core.phase
    BY <2>6, WrittenFields
  <2> HIDE DEF e
  <2>8. ~core.heldRequest
    BY <1>0, <1>1 DEF RetryStalled, Stalled, Budget, Charges
  <2>9. Charges(e) /\ ~Carried(e) /\ ~Carried(core)
    BY <1>1, <2>2, <2>5, <2>7, <2>8 DEF Charges, Carried, RetryStalled, Stalled
  <2>10. SpannedHere(e) = SpannedHere(core)
    BY <2>7 DEF SpannedHere
  <2>11. Budget(e)
    BY <1>0, <2>5, <2>7, <2>9, <2>10 DEF Budget, One
  <2> QED BY <1>0, <2>1, <2>11
<1>2. CASE AbandonStalled
  BY <1>2, BeginLogoutBudget DEF AbandonStalled
<1>3. CASE CutResend
  BY <1>3, QuietWithin DEF CutResend, Within
<1>4. CASE LogoutTimeout
  BY <1>4, QuietWithin DEF LogoutTimeout, Within
<1> QED BY <1>1, <1>2, <1>3, <1>4 DEF Tick

LEMMA FinishResendsBudget == ASSUME Within(core), FinishResends PROVE Budget(core')
<1>1. PICK sent \in SentOutcomes :
        core' = IF core.owed THEN Close(HeldWritten(core, sent)) ELSE HeldWritten(core, sent)
  BY DEF FinishResends
<1>2. Within(HeldWritten(core, sent))
  BY HeldWrittenBudget, HeldWrittenAdvances DEF Within, Advance
<1> QED BY <1>1, <1>2, QuietWithin DEF Within

LEMMA LogoutWrittenBudget == ASSUME Within(core), LogoutWritten PROVE Budget(core')
BY SameBudget DEF LogoutWritten, Within, Sound, CoreType

\* The inductive invariant: Sound, within Budget, and nothing asked before it opens.
CountInv == Within(core) /\ PcType /\ Unopened

LEMMA NextKeepsCountInv == ASSUME CountInv, [Next]_vars PROVE CountInv'
<1>0. /\ Within(core) /\ Unopened /\ PcType' /\ Sound(core') /\ Sound(core)
      /\ Budget(core) /\ core \in CoreType
  BY NextAdvances, NextKeepsPc DEF CountInv, Within, Advance, Sound
<1> SUFFICES Budget(core') /\ Unopened'
  BY <1>0 DEF CountInv, Within
<1>1. CASE Open
  BY <1>0, <1>1, OpenBudget DEF Open, Unopened
<1>2. CASE Receive
  BY <1>0, <1>2, ReceiveBudget DEF Receive, Unopened, Reading, ReceiveApp, ReceiveAdmin,
     ReceiveMalformed, ReceiveFill, ReceiveReset, ReceiveBadFlag, ReceiveDuplicate,
     ReceiveTooLow, ReceiveGapped
<1>3. CASE Release
  BY <1>0, <1>3, ReleaseBudget DEF Release, ReleaseHeldLogon, ReleaseEntry, ReleaseDone,
     Releasing, Unopened
<1>4. CASE FinishResends
  BY <1>0, <1>4, FinishResendsBudget DEF FinishResends, Unopened
<1>5. CASE Tick
  BY <1>0, <1>5, TickBudget DEF Tick, RetryStalled, AbandonStalled, CutResend, LogoutTimeout,
     Stalled, Unopened
<1>6. CASE LocalLogout
  BY <1>0, <1>6, BeginLogoutBudget DEF LocalLogout, Unopened
<1>7. CASE LogoutWritten
  BY <1>0, <1>7, LogoutWrittenBudget DEF LogoutWritten, Unopened
<1>8. CASE Abort
  <2>1. /\ Budget(core') /\ core'.replaying = core.replaying
        /\ core'.heldRequest = core.heldRequest /\ core'.asked = core.asked
    BY <1>0, <1>8, QuietWithin DEF Abort, Within, Close, CoreType
  <2> QED BY <1>0, <1>8, <2>1 DEF Abort, Unopened
<1>9. CASE UNCHANGED vars
  BY <1>0, <1>9 DEF vars, Unopened
<1> QED BY <1>1, <1>2, <1>3, <1>4, <1>5, <1>6, <1>7, <1>8, <1>9 DEF Next

LEMMA InitCountInv == ASSUME Init PROVE CountInv
<1>1. Charges(core)
  BY DEF Init, Charges, NoResend
<1>2. core.asked = 0 /\ Unopened
  BY DEF Init, Unopened
<1> QED BY <1>1, <1>2, InitSound, FreshBudget DEF CountInv, Within, Sound

(* ------------------------------------------------------------- theorems *)

THEOREM CountInvAlways == Spec => []CountInv
<1>1. CountInv /\ [Next]_vars => CountInv'
  BY NextKeepsCountInv
<1> QED BY <1>1, InitCountInv, PTL DEF Spec

\* For one expectation an Active session writes at most resend_attempt_limit
\* ResendRequests and two uncharged ones.
THEOREM RequestsAreBounded == Spec => []RequestsBounded
<1>1. CountInv => RequestsBounded
  <2> SUFFICES ASSUME CountInv, core.phase = "Active"
               PROVE  core.asked <= ResendLimit + 2
    BY DEF RequestsBounded
  <2>1. core.asked \in Nat /\ core.resend.attempts \in Nat
    BY DEF CountInv, Within, Sound, CoreType, ResendStates
  <2> QED BY <2>1 DEF CountInv, Within, Budget, Charges, One
<1> QED BY <1>1, CountInvAlways, PTL
=============================================================================
