---------------------------- MODULE ResendReplay ----------------------------
(***************************************************************************)
(* The resends an ironfix session owes its counterparty: ResendRequests and *)
(* the resend of the Logon exchange (789), answered from the message store  *)
(* page by page and a frame at a time, between inbound frames, while what   *)
(* takes a new number is held back.  ironfix-session/src/replay.rs and      *)
(* session_core.rs decide; ironfix-engine/src/reactor.rs drives.            *)
(*                                                                         *)
(* One action is one call of advance_resend, one turn of the loop that      *)
(* writes what was held, or one inbound frame.  The reactor may feed more   *)
(* frames before it reads again; every such step is a run of these.         *)
(***************************************************************************)
EXTENDS Integers, SequencesExt

CONSTANTS
  Sent,        \* the numbers 1 .. Sent were used before the session is modelled
  MaxSeq,      \* the last number but the Logout's that the session may use
  PageLimit,   \* REPLAY_PAGE_LIMIT
  MaxQueued,   \* MAX_QUEUED_REPLAYS
  MaxHeld,     \* MAX_HELD_SENDS
  MaxReads     \* MAX_READS_PER_REPLAY_STEP

ASSUME ResendAssumption ==
  /\ {Sent, MaxSeq, PageLimit, MaxQueued, MaxHeld, MaxReads} \subseteq Nat \ {0}
  /\ Sent <= MaxSeq
  /\ MaxQueued >= 2

Numbers == 1 .. MaxSeq + 1

(* What the store holds under a number: nothing; an application message     *)
(* that is replayed; or an entry that never is (administrative, vetoed by   *)
(* the application, or one that does not rebuild).                          *)
Entries == {"none", "app", "silent"}

VARIABLES
  store,       \* what is filed under each number
  nextSender,  \* the next new number
  replays,     \* the resends owed, oldest first (ResendReplay and its pages)
  held,        \* how many messages wait behind them
  finishing,   \* finish_resends is writing what was held
  phase,       \* "active", "out" (our Logout was fed) or "closed"
  owedLogout,  \* a Logout of the counterparty to answer: "no", "owed", "due"
  reads,       \* inbound frames read since the last replay step
  said,        \* history: the kind of the last frame fed
  peer         \* history: what the counterparty has

vars == <<store, nextSender, replays, held, finishing, phase, owedLogout,
          reads, said, peer>>

spent == <<store, nextSender>>
logouts == <<phase, owedLogout>>
wire == <<said, peer>>

Replaying == replays # <<>>

-----------------------------------------------------------------------------
(* One resend: ironfix-session/src/replay.rs                                *)

\* The resend of begin .. newSeq - 1.  `blind` (history) is the first number
\* that no read of the store covers because one failed, or 0.
ResendOf(begin, newSeq) ==
  [cursor |-> begin, to |-> newSeq, from |-> begin, done |-> FALSE,
   page |-> {}, pending |-> 0, blind |-> 0]

EndSeq(job) == job.to - 1

Lower(m, n) == IF m < n THEN m ELSE n
Higher(m, n) == IF m < n THEN n ELSE m

\* ResendReplay::widen
Widen(job, other) ==
  LET begin == Lower(job.cursor, other.cursor)
  IN [job EXCEPT !.cursor = begin, !.from = begin, !.to = Higher(job.to, other.to)]

\* A request past the limit is dropped.
QueueReplayDropping(begin, newSeq) ==
  IF Len(replays) >= MaxQueued
  THEN replays
  ELSE Append(replays, ResendOf(begin, newSeq))

\* SessionCore::queue_replay: past the limit a resend joins the last one.
QueueReplay(begin, newSeq) ==
  IF Len(replays) >= MaxQueued
  THEN Append(Front(replays), Widen(Last(replays), ResendOf(begin, newSeq)))
  ELSE Append(replays, ResendOf(begin, newSeq))

\* screen_entry and the replay gate: whether an entry is written.
Replayed(job, seq) ==
  /\ seq \in job.cursor .. EndSeq(job)
  /\ store[seq] = "app"

\* get_page: the first PageLimit entries filed between two numbers.  A page is
\* in the order of its numbers, so it is the set of them.
Page(from, through) ==
  LET filed == { n \in from .. through : store[n] # "none" }
  IN { n \in filed : Cardinality({ k \in filed : k < n }) < PageLimit }

\* The next page starts at the last entry read, not after it.
OnPageAgain(job, page) ==
  LET more == Cardinality(page) >= PageLimit /\ Max(page) <= EndSeq(job)
  IN [job EXCEPT !.page = page,
                 !.done = ~more,
                 !.from = IF more THEN Max(page) ELSE @]

\* Every page is taken for the last one.
OnPageOnce(job, page) == [job EXCEPT !.page = page, !.done = TRUE]

\* ResendReplay::on_page: a short page ends the store's part, and so does a
\* full one that reaches the end of the range.
OnPage(job, page) ==
  LET more == Cardinality(page) >= PageLimit /\ Max(page) + 1 <= EndSeq(job)
  IN [job EXCEPT !.page = page,
                 !.done = ~more,
                 !.from = IF more THEN Max(page) + 1 ELSE @]

\* ResendReplay::on_page with PageRead::Failed.
PageFailed(job) == [job EXCEPT !.done = TRUE, !.blind = job.from]

\* decide_resend_request
Answerable(begin, end) ==
  begin \in 1 .. nextSender - 1 /\ (end = 0 \/ end >= begin)

AnswerEnd(end) ==
  IF end # 0 /\ end + 1 < nextSender THEN end + 1 ELSE nextSender

-----------------------------------------------------------------------------
(* The counterparty                                                         *)

\* It takes frames in order and ignores the others.  `logon` is the number of
\* a Logon it holds until the resend of the Logon exchange reaches it, or 0.
\* A gap fill that starts below what it expects and ends beyond is ignored as
\* well, and it must ask again (rerequest_spanned_gap, were it this engine).
Reaches(p, at, to) ==
  LET e == IF at = p.expect THEN to ELSE p.expect
  IN [p EXCEPT !.expect = IF e = p.logon THEN e + 1 ELSE e,
               !.asked = @ /\ ~(at < p.expect /\ p.expect < to)]

-----------------------------------------------------------------------------
(* Writing                                                                  *)

\* Writer::feed of a frame under numbers the session has used.
FeedOld(kind, at, to) ==
  /\ said' = kind
  /\ peer' = Reaches(peer, at, to)

\* send_now: the next number is filed, spent and fed.
FeedNew(entry) ==
  /\ said' = "new"
  /\ peer' = Reaches(peer, nextSender, nextSender + 1)
  /\ store' = [store EXCEPT ![nextSender] = entry]
  /\ nextSender' = nextSender + 1

\* A new number is left; bounds the run.
Room == nextSender <= MaxSeq

\* Nothing waits behind a resend.
SendAtOnce == Room /\ FeedNew("silent") /\ UNCHANGED held

\* Reactor::send of an administrative message: behind a resend it is held.
SendOrHold ==
  \/ /\ Replaying
     /\ held' = held + 1
     /\ UNCHANGED <<spent, wire>>
  \/ /\ ~Replaying
     /\ Room
     /\ FeedNew("silent")
     /\ UNCHANGED held

\* A frame past a gap, read behind a resend: this session's own request for
\* the gap is held, and the answer to the frame as well.  One request at most
\* is held at a time; which holds of `held' are requests is not told apart.
HoldTwo ==
  /\ Replaying
  /\ held' = held + 2
  /\ UNCHANGED <<spent, wire>>

\* The session is over: nothing it owes or holds is written.
Dropped ==
  /\ phase' = "closed"
  /\ replays' = <<>>
  /\ held' = 0
  /\ finishing' = FALSE

\* reply_owed_logout: the Logout goes out and the session closes.
ReplyLogout ==
  /\ FeedNew("silent")
  /\ Dropped
  /\ owedLogout' = "no"

-----------------------------------------------------------------------------
(* A resend step: advance_resend                                            *)

\* The entries of the page that are written; the others are skipped, and a
\* page without one is spent.
ToReplay(job) == { seq \in job.page : Replayed(job, seq) }

Advanced(job) == replays' = [replays EXCEPT ![1] = job]

\* A replay fed; one that grew past max_message_size ends the session.
SendReplay(job, seq) ==
  \/ /\ FeedOld("replay", seq, seq + 1)
     /\ Advanced(job)
     /\ UNCHANGED <<held, finishing, phase>>
  \/ Dropped /\ UNCHANGED wire

\* The rebuilt message whose gap fill went out on the call before.
SendPending(job) ==
  /\ job.pending # 0
  /\ SendReplay([job EXCEPT !.pending = 0], job.pending)

\* The next message of the page, behind a gap fill for what precedes it.
SendNext(job) ==
  /\ job.pending = 0
  /\ \E seq \in ToReplay(job) :
       LET rest == [job EXCEPT !.cursor = seq + 1,
                               !.page = { n \in @ : n > seq }]
       IN /\ \A other \in ToReplay(job) : seq <= other
          /\ IF seq = job.cursor
             THEN SendReplay(rest, seq)
             ELSE /\ FeedOld("fill", job.cursor, seq)
                  /\ Advanced([rest EXCEPT !.pending = seq])
                  /\ UNCHANGED <<held, finishing, phase>>

\* What the store has next.  A read may fail, and a store that calls itself
\* corrupted ends the session.
ReadPage(job) ==
  /\ job.pending = 0
  /\ ToReplay(job) = {}
  /\ ~job.done
  /\ UNCHANGED wire
  /\ \/ /\ job.from <= EndSeq(job)
        /\ \/ Advanced(OnPage(job, Page(job.from, EndSeq(job))))
           \/ Advanced(PageFailed([job EXCEPT !.page = {}]))
        /\ UNCHANGED <<held, finishing, phase>>
     \/ /\ job.from <= EndSeq(job)
        /\ Dropped
     \/ /\ job.from > EndSeq(job)
        /\ Advanced([job EXCEPT !.page = {}, !.done = TRUE])
        /\ UNCHANGED <<held, finishing, phase>>

\* The trailing gap fill, and the end of the resend; after the last one what
\* was held is written.
Complete(job) ==
  /\ job.pending = 0
  /\ ToReplay(job) = {}
  /\ job.done
  /\ IF job.cursor < job.to
     THEN FeedOld("fill", job.cursor, job.to)
     ELSE UNCHANGED wire
  /\ replays' = Tail(replays)
  /\ finishing' = (Tail(replays) = <<>>)
  /\ UNCHANGED <<held, phase>>

\* Reading that the hold does not stop.
ReadingUnheld ==
  /\ phase # "closed"
  /\ ~finishing
  /\ Replaying => reads < MaxReads

\* Whether the next pass reads: not behind a full hold, and not once a resend
\* has waited through MaxReads frames.
Reading ==
  /\ phase # "closed"
  /\ ~finishing
  /\ Replaying => held < MaxHeld /\ reads < MaxReads

\* resend_step, when nothing is read first: whether a Logout has waited its
\* time is seen before every step.
ResendStep ==
  /\ Replaying
  /\ ~Reading
  /\ \/ /\ owedLogout = "due"
        /\ ReplyLogout
     \/ /\ owedLogout # "due"
        /\ LET job == Head(replays)
           IN \/ SendPending(job)
              \/ SendNext(job)
              \/ ReadPage(job)
              \/ Complete(job)
        /\ UNCHANGED <<spent, owedLogout>>
  /\ reads' = 0

\* finish_resends, one turn of its loop: a message goes out, or has nothing to
\* say any more (a request whose gap has closed, one a callback refused).
WriteHeld ==
  /\ finishing
  /\ owedLogout # "due"
  /\ held > 0
  /\ held' = held - 1
  /\ \/ Room /\ FeedNew("silent")
     \/ UNCHANGED <<spent, wire>>
  /\ UNCHANGED <<replays, finishing, logouts, reads>>

Finish ==
  /\ finishing
  /\ \/ /\ owedLogout = "due" \/ (owedLogout = "owed" /\ held = 0)
        /\ ReplyLogout
     \/ /\ owedLogout = "no"
        /\ held = 0
        /\ finishing' = FALSE
        /\ UNCHANGED <<spent, replays, held, logouts, wire>>
  /\ UNCHANGED reads

-----------------------------------------------------------------------------
(* What the reactor does between resend steps.  The counterparty always has *)
(* another frame ready: a resend step waits for the reading to yield.       *)

\* A frame read behind a resend counts against MaxReads.
ReadOne ==
  /\ Reading
  /\ reads' = IF Replaying THEN reads + 1 ELSE reads

\* A frame that asks for nothing.
RecvOther ==
  /\ ReadOne
  /\ UNCHANGED <<spent, replays, held, finishing, logouts, wire>>

\* A frame that gets an answer, or shows a gap to be requested, or both.  With
\* no resend under way what a frame past a gap causes is written at once, so
\* the request is a SendAdmin and the answer the step after it.
RecvAnswered ==
  /\ ReadOne
  /\ SendOrHold \/ HoldTwo
  /\ UNCHANGED <<replays, finishing, logouts>>

\* on_resend_request.  A request for all that the counterparty lacks is one
\* that must catch it up; a Logon it held is then left to the answer.  One
\* past a gap holds this session's own request as well.
RecvResendRequest ==
  /\ ReadOne
  /\ \E begin \in 1 .. nextSender, end \in 0 .. nextSender :
       IF Answerable(begin, end)
       THEN /\ replays' = QueueReplay(begin, AnswerEnd(end))
            /\ peer' = IF begin = peer.expect /\ AnswerEnd(end) = nextSender
                       THEN [peer EXCEPT !.logon = 0, !.asked = TRUE]
                       ELSE peer
            /\ held' \in IF Replaying THEN {held, held + 1} ELSE {held}
            /\ UNCHANGED <<spent, said>>
       ELSE /\ SendOrHold \/ HoldTwo
            /\ UNCHANGED replays
  /\ UNCHANGED <<finishing, logouts>>

\* A repeated Logout starts the deadline anew.
RecvLogoutAnew ==
  /\ ReadOne
  /\ phase = "active"
  /\ IF Replaying
     THEN /\ owedLogout' = "owed"
          /\ UNCHANGED <<spent, replays, held, finishing, phase, wire>>
     ELSE ReplyLogout

\* on_logout.  A Logout repeated while the first one waits changes nothing.
RecvLogout ==
  /\ ReadOne
  /\ \/ /\ phase = "out"
        /\ Dropped
        /\ UNCHANGED <<spent, owedLogout, wire>>
     \/ /\ phase = "active"
        /\ Replaying
        /\ owedLogout = "no"
        /\ owedLogout' = "owed"
        /\ UNCHANGED <<spent, replays, held, finishing, phase, wire>>
     \/ /\ phase = "active"
        /\ ~Replaying
        /\ ReplyLogout

\* A Reject of the dispatcher, or a Heartbeat, between two frames; behind a
\* resend only Rejects are written, and not once the hold is full.
SendAdmin ==
  /\ phase # "closed"
  /\ ~finishing
  /\ Replaying => held < MaxHeld
  /\ SendOrHold
  /\ UNCHANGED <<replays, finishing, logouts, reads>>

\* on_command of an application message: not taken while a resend is under
\* way.  Under StoreFailurePolicy::Continue it may go out unfiled.
SendApplication ==
  /\ phase = "active"
  /\ ~Replaying /\ ~finishing
  /\ Room
  /\ \E entry \in {"app", "none"} : FeedNew(entry)
  /\ UNCHANGED <<replays, held, finishing, logouts, reads>>

\* begin_logout, at the application's request or for a gap nobody fills.
SendLogout ==
  /\ phase = "active"
  /\ ~Replaying /\ ~finishing
  /\ Room
  /\ FeedNew("silent")
  /\ phase' = "out"
  /\ UNCHANGED <<replays, held, finishing, owedLogout, reads>>

\* The logout timeout runs out since the counterparty's Logout.
LogoutDeadline ==
  /\ phase # "closed"
  /\ owedLogout = "owed"
  /\ owedLogout' = "due"
  /\ UNCHANGED <<spent, replays, held, finishing, phase, reads, wire>>

\* on_tick: the Logout is answered also when no step can run.
TickCut ==
  /\ Replaying
  /\ owedLogout = "due"
  /\ ReplyLogout
  /\ UNCHANGED reads

\* The session closes: a write timeout, a transport or store failure, our own
\* Logout unanswered, any fatal frame.
Close == /\ phase # "closed"
         /\ Dropped
         /\ UNCHANGED <<spent, owedLogout, reads, wire>>

Over == phase = "closed" /\ UNCHANGED vars

-----------------------------------------------------------------------------
Init ==
  \* The last number used is this session's own Logon.
  /\ store \in [Numbers -> Entries]
  /\ store[Sent] \in {"silent", "none"}
  /\ \A n \in Numbers : n > Sent => store[n] = "none"
  /\ nextSender = Sent + 1
  /\ held = 0
  /\ finishing = FALSE
  /\ phase = "active"
  /\ owedLogout = "no"
  /\ reads = 0
  /\ said = "none"
  \* What the Logon exchange found missing below it is resent first.
  /\ \E expect \in 1 .. Sent + 1 :
       \/ /\ peer = [expect |-> expect, logon |-> 0, asked |-> expect > Sent]
          /\ replays = <<>>
       \/ /\ expect < Sent
          /\ peer = [expect |-> expect, logon |-> Sent, asked |-> TRUE]
          /\ replays = <<ResendOf(expect, Sent)>>

Inbound == RecvOther \/ RecvAnswered \/ RecvResendRequest \/ RecvLogout

Next == \/ ResendStep \/ WriteHeld \/ Finish
        \/ Inbound
        \/ SendAdmin \/ SendApplication \/ SendLogout
        \/ LogoutDeadline \/ TickCut
        \/ Close \/ Over

Spec == Init /\ [][Next]_vars

\* A ready branch of the reactor's select is taken sooner or later, and time
\* passes.
Fairness == /\ WF_vars(ResendStep \/ RecvOther)
            /\ WF_vars(WriteHeld \/ Finish)
            /\ WF_vars(LogoutDeadline)
            /\ WF_vars(TickCut)

FairSpec == Spec /\ Fairness

-----------------------------------------------------------------------------
(* Properties                                                               *)

Resends == [cursor : Numbers, to : Numbers, from : Numbers, done : BOOLEAN,
            page : SUBSET Numbers,
            pending : Numbers \cup {0}, blind : Numbers \cup {0}]

(* The shapes of the state, the bound on the queue of resends, and the bound *)
(* on what is held behind them: reading stops at MaxHeld, so the hold passes *)
(* it only by what the last frame produced, which is two messages at most.   *)
TypeOK ==
  /\ store \in [Numbers -> Entries]
  /\ nextSender \in 1 .. MaxSeq + 2
  /\ replays \in Seq(Resends) /\ Len(replays) <= MaxQueued
  /\ held \in 0 .. MaxHeld + 1
  /\ finishing \in BOOLEAN
  /\ phase \in {"active", "out", "closed"}
  /\ owedLogout \in {"no", "owed", "due"}
  /\ reads \in 0 .. MaxReads
  /\ said \in {"none", "new", "replay", "fill"}
  /\ peer \in [expect : 1 .. MaxSeq + 2, logon : Numbers \cup {0}, asked : BOOLEAN]

Owed == [i \in DOMAIN replays |->
           [next |-> IF replays[i].pending # 0 THEN replays[i].pending ELSE replays[i].cursor,
            to   |-> replays[i].to]]

(* The session keeps the promise of ReplayPromise: each range is answered in *)
(* order and without a hole across pages, steps, gap fills and the frames    *)
(* they precede, never past its end, and no new number is written meanwhile. *)
Promised == INSTANCE ReplayPromise WITH
  LastNumber <- MaxSeq + 1, owed <- Owed, over <- (phase = "closed")
KeepsPromise == Promised!PromiseSpec

(* A counterparty that ignores what is out of order, and asked for all it     *)
(* lacked, lacks nothing once no resend is under way: no frame of an answer   *)
(* is missing or misplaced and no new number overtakes one.                   *)
NeverStranded ==
  peer.asked /\ ~Replaying /\ ~finishing /\ phase # "closed"
    => peer.expect = nextSender

HonestFill ==
  Replaying /\ said' = "fill" /\ phase' # "closed" =>
    LET filled == IF Len(replays') < Len(replays)
                  THEN Owed[1].next .. Owed[1].to - 1
                  ELSE Owed[1].next .. Owed'[1].next - 1
        blind == Head(replays).blind
    IN \A n \in filled :
         store[n] \in {"none", "silent"} \/ (blind # 0 /\ n >= blind)

(* A gap fill tells the counterparty that there is nothing to resend: it      *)
(* never covers a message the store holds and the application lets through,   *)
(* save where a read of the store failed.                                     *)
FillsHideNothing == [][HonestFill]_vars

(* A counterparty that asked is caught up or sees the session end, also when  *)
(* it never stops sending: reading yields to the resend.                      *)
CatchesUp ==
  peer.asked ~> (peer.expect = nextSender \/ phase = "closed" \/ ~peer.asked)

(* A Logout that waits behind resends is answered or the session ends, also   *)
(* when the counterparty keeps asking for more.                               *)
LogoutAnswered == owedLogout # "no" ~> phase = "closed"
=============================================================================
