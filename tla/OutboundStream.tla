-------------------------- MODULE OutboundStream --------------------------
(***************************************************************************)
(* The outbound half of a FIX session across failing stores, lost          *)
(* connections and crashes (ADR-0005, ADR-0023, ADR-0029): a frame is      *)
(* filed and its number spent before it is fed to the write buffer; a      *)
(* tracked send resolves once, as sent, not sent or unknown; a reset of    *)
(* the sequence is owed, marked in the store, made, declared (141=Y) and   *)
(* paid in separate steps, in a Logon, for an acknowledgement that         *)
(* declares one, and at a close.                                           *)
(*                                                                         *)
(* A frame is its number and its content: a tracked message or an          *)
(* administrative one.  The inbound half is GapRecovery and                *)
(* InboundWatermark; a resend answered frame by frame is ResendReplay,     *)
(* here it is what the store would replay.                                 *)
(***************************************************************************)
EXTENDS Naturals, Sequences, FiniteSets

CONSTANTS
    Roles,       \* the roles the engine may be run in
    MaxMessage,  \* messages 1 .. MaxMessage are sent, each once
    MaxSeq,      \* the largest MsgSeqNum
    MaxFaults,   \* store calls that fail
    MaxCrashes,  \* times the process dies
    Policies,    \* the StoreFailurePolicy values it may be configured with
    ResetOnLogout \* reset_on_logout, on both sides

ASSUME RolesAssumption == Roles \subseteq {"initiator", "acceptor"}
ASSUME BoundsAssumption ==
    /\ MaxMessage \in Nat /\ MaxSeq \in Nat \ {0}
    /\ MaxFaults \in Nat /\ MaxCrashes \in Nat
ASSUME PoliciesAssumption == Policies \subseteq {"CloseSession", "Continue"}
ASSUME ResetOnLogoutAssumption == ResetOnLogout \in BOOLEAN

VARIABLES
    role,    \* initiator or acceptor
    policy,  \* the configured StoreFailurePolicy
    disk,    \* the store: next sender number, filed frames, owed-reset marker
    debt,    \* the OwedReset record
    eng,     \* the session: handshake, reactor, close
    buffer,  \* frames fed and not yet accepted by the stream
    wire,    \* frames accepted and not yet read by the counterparty
    peer,    \* the counterparty
    fate,    \* what each message's sender has been told
    book,    \* the content each number of the current stream was spent on
    doubt,   \* whether a write failed since the store was last reset
    budget   \* faults and crashes left

config == <<role, policy>>
vars == <<config, disk, debt, eng, buffer, wire, peer, fate, book, doubt, budget>>

Messages == 1 .. MaxMessage
Admin == MaxMessage + 1
Nothing == 0
Seqs == 1 .. MaxSeq
Contents == 0 .. MaxMessage + 1
NoFrames == [n \in Seqs |-> Nothing]

Stages == {"down", "refuse", "mark", "reset", "logon", "wait", "adopt", "adoptReset", "settle",
           "active", "leaving", "closing", "drain", "closeReset", "closeClear", "counters"}

\* What the counterparty and this side last agreed on.  "unread": this side
\* declared a reset the other has not read.  "asked": the other declared one
\* and has not read ours.  "theirs": the other reset with us, and nothing
\* durable here says so; "due": the marker does.
Streams == {"agreed", "unread", "asked", "theirs", "due"}

Settled == {"sent", "refused", "unknown"}
Live == {"queued", "fed"}

\* A Logon, the end of a handshake that is refused, or a frame of the session.
Kinds == {"logon", "refusal", "data"}
Frame == [seq : Seqs, what : Contents, kind : Kinds, resets : BOOLEAN]

TypeOK ==
    /\ role \in Roles /\ policy \in Policies
    /\ disk \in [next : 1 .. MaxSeq + 1, filed : [Seqs -> Contents], marker : BOOLEAN]
    /\ debt \in [owed : BOOLEAN, later : BOOLEAN]
    /\ eng \in [pc : Stages, next : 1 .. MaxSeq + 1, recorded : 1 .. MaxSeq + 1,
                resets : BOOLEAN, ticket : BOOLEAN, graceful : BOOLEAN]
    /\ buffer \in Seq(Frame) /\ wire \in Seq(Frame)
    /\ peer \in [next : 1 .. MaxSeq + 1, stream : Streams]
    /\ fate \in [Messages -> {"new"} \union Live \union Settled]
    /\ book \in [Seqs -> Contents]
    /\ doubt \in {"none", "known", "forgotten"}
    /\ budget \in [faults : 0 .. MaxFaults, crashes : 0 .. MaxCrashes]

Closed == [pc |-> "down", next |-> 1, recorded |-> 1, resets |-> FALSE, ticket |-> FALSE,
           graceful |-> FALSE]
Init ==
    /\ role \in Roles /\ policy \in Policies
    /\ disk = [next |-> 1, filed |-> NoFrames, marker |-> FALSE]
    /\ debt = [owed |-> FALSE, later |-> FALSE]
    /\ eng = Closed
    /\ buffer = <<>> /\ wire = <<>>
    /\ peer = [next |-> 1, stream |-> "agreed"]
    /\ fate = [m \in Messages |-> "new"]
    /\ book = NoFrames
    /\ doubt = "none"
    /\ budget = [faults |-> MaxFaults, crashes |-> MaxCrashes]

At(pc) == eng.pc = pc

(* ------------------------------------------------- the owed-reset record *)

\* OwedReset::owe.  `later' says whether anything was recorded after the
\* ticket now held, so that paying it settles the rest.
Owe(d) == [owed |-> TRUE, later |-> TRUE]
Ticket(d) == [owed |-> TRUE, later |-> FALSE]

\* Mutant: paying a ticket settles whatever was owed since.
PayAll(d) == [owed |-> FALSE, later |-> FALSE]

\* OwedReset::pay.
Pay(d) == [d EXCEPT !.owed = d.later]

Spend(n) == budget' = [budget EXCEPT !.faults = @ - n]
Affordable(outcomes, spent) == {o \in outcomes : o.faults + spent <= budget.faults}

\* A write has failed, and the store cannot say what it holds.
Doubted == doubt' = IF doubt = "none" THEN "known" ELSE doubt
DoubtedIf(failed) == IF failed THEN Doubted ELSE UNCHANGED doubt

\* sync_marker: the outcomes of bringing the marker in line with record `d'.
\* A write that failed may have landed; a failed clear owes again.
SyncMarker(marker, d) ==
    IF marker = d.owed
    THEN {[faults |-> 0, marker |-> marker, debt |-> d]}
    ELSE {[faults |-> 0, marker |-> d.owed, debt |-> d]}
         \union [faults : {1}, marker : BOOLEAN, debt : {IF d.owed THEN d ELSE Owe(d)}]

\* The marker becoming durable is what makes this side remember a reset the
\* counterparty has made.
Remembered(marker) ==
    peer' = IF marker /\ peer.stream = "theirs" THEN [peer EXCEPT !.stream = "due"] ELSE peer

(* ------------------------------------------------------ filing a frame  *)

\* MessageStore::file_outbound, its outcomes: done, or failed with nothing,
\* the frame alone, or all of it in the store.
Filings == {"ok", "lost", "partial", "landed"}
FaultsOf(filing) == IF filing = "ok" THEN 0 ELSE 1

\* Mutant: the number is not written with the frame.
FiledOnly(d, n, what, filing) ==
    [d EXCEPT !.filed[n] = IF filing = "lost" THEN @ ELSE what]

FiledOn(d, n, what, filing) ==
    [d EXCEPT !.filed[n] = IF filing = "lost" THEN @ ELSE what,
              !.next = IF filing \in {"ok", "landed"} THEN n + 1 ELSE @]

\* SessionStore::file_outbound.  A failure owes a reset and tries to mark it;
\* under Continue the counter is then written on its own, and may fail too.
FileOutbound(d, n, what, filing) ==
    LET store == FiledOn(d, n, what, filing)
        failed(s, faults) ==
            {[store |-> [s EXCEPT !.marker = o.marker], debt |-> o.debt,
              faults |-> o.faults + faults] : o \in SyncMarker(s.marker, Owe(debt))}
    IN  CASE filing = "ok" -> {[store |-> store, debt |-> debt, faults |-> 0]}
          [] filing # "ok" /\ policy = "CloseSession" -> failed(store, 1)
          [] OTHER -> failed([store EXCEPT !.next = n + 1], 1) \union failed(store, 2)

\* file_and_spend.  The number the store holds is recorded before the call is
\* made; it is spent, and the frame may go out, unless the call failed under
\* CloseSession.
Goes(filing) == filing = "ok" \/ policy = "Continue"
Numbered(filing) ==
    [eng EXCEPT !.recorded = eng.next + 1, !.next = IF Goes(filing) THEN @ + 1 ELSE @]

\* Every mutation of the reactor and the handshakes that is not of this
\* half (the target counter, the watermark): it fails, owes, and marks.
FailedMutation ==
    \E o \in Affordable(SyncMarker(disk.marker, Owe(debt)), 1) :
       /\ disk' = [disk EXCEPT !.marker = o.marker]
       /\ debt' = o.debt
       /\ Spend(o.faults + 1) /\ Doubted
       /\ Remembered(o.marker)

(* ------------------------------------------------------- the handshake  *)

\* Mutant: the marker is not read at the start of a session.
RecoveredNot == debt

\* StoreAttachment::reset_is_owed takes a marker it finds into the record.
Recovered == IF disk.marker /\ ~debt.owed THEN Owe(debt) ELSE debt

\* A connection, up to the decision to reset.  `inbound': the initiator's
\* Logon declares a reset, and keeps declaring it until it is acknowledged.
Start ==
    /\ At("down")
    /\ \E inbound \in IF peer.stream = "asked" THEN {TRUE}
                      ELSE IF role = "acceptor" THEN BOOLEAN ELSE {FALSE} :
         LET resets == inbound \/ Recovered.owed IN
         /\ eng' = IF resets THEN [Closed EXCEPT !.pc = "mark", !.resets = TRUE]
                   ELSE [Closed EXCEPT !.pc = "logon", !.next = disk.next,
                                       !.recorded = disk.next]
         /\ peer' = [peer EXCEPT !.stream = IF inbound THEN "asked" ELSE @]
    /\ debt' = Recovered
    /\ buffer' = <<>> /\ wire' = <<>>
    /\ UNCHANGED <<config, disk, fate, book, doubt, budget>>

\* owe_durably: a marker that cannot be written refuses the session.
OweDurably(next) ==
    \E o \in Affordable(SyncMarker(disk.marker, Ticket(debt)), 0) :
       /\ debt' = o.debt
       /\ disk' = [disk EXCEPT !.marker = o.marker]
       /\ Remembered(o.marker)
       /\ Spend(o.faults)
       /\ eng' = IF o.faults = 0 THEN [eng EXCEPT !.pc = next, !.ticket = TRUE] ELSE Closed
       /\ UNCHANGED <<config, buffer, wire, fate, book, doubt>>

MarkReset == At("mark") /\ OweDurably("reset")

\* Mutant: the frames of the old stream are kept.
ResetToKeeping(d, next) == [d EXCEPT !.next = next]

\* Mutant: the counter is set to the number before the next.
ResetToLast(d, next) == [d EXCEPT !.next = next - 1, !.filed = NoFrames]

\* MessageStore::reset_to and reset: one call, the marker is kept.
ResetTo(d, next) == [d EXCEPT !.next = next, !.filed = NoFrames]

\* seed_session with a reset: one reset_to call, any failure refuses.
SeedReset ==
    /\ At("reset")
    /\ \/ /\ disk' = ResetTo(disk, 1)
          /\ eng' = [eng EXCEPT !.pc = "logon", !.next = 1, !.recorded = 1]
          /\ doubt' = "none"
          /\ UNCHANGED budget
       \/ /\ budget.faults > 0 /\ Spend(1) /\ Doubted
          /\ disk' \in {disk, ResetTo(disk, 1)}
          /\ eng' = Closed
    /\ UNCHANGED <<config, debt, buffer, wire, peer, fate, book>>

\* The Logon, or its acknowledgement: filed, spent, written whole.  One that
\* cannot be filed under CloseSession refuses the session.
LogonFrame == [seq |-> eng.next, what |-> Admin, kind |-> "logon", resets |-> eng.resets]
LogonBook == IF eng.resets THEN [NoFrames EXCEPT ![eng.next] = Admin]
             ELSE [book EXCEPT ![eng.next] = Admin]
SendLogon ==
    /\ At("logon") /\ eng.next <= MaxSeq
    /\ \E filing \in Filings :
       \E o \in Affordable(FileOutbound(disk, eng.next, Admin, filing), 0) :
          /\ disk' = o.store /\ debt' = o.debt /\ Spend(o.faults)
          /\ DoubtedIf(filing # "ok")
          /\ IF Goes(filing)
             THEN /\ eng' = [Numbered(filing) EXCEPT
                               !.pc = IF role = "initiator" THEN "wait" ELSE "settle"]
                  /\ wire' = <<LogonFrame>>
                  /\ book' = LogonBook
                  /\ peer' = [peer EXCEPT !.stream =
                                IF ~eng.resets THEN @ ELSE IF @ = "asked" THEN @ ELSE "unread"]
             ELSE eng' = Closed /\ UNCHANGED <<wire, book, peer>>
    /\ UNCHANGED <<config, buffer, fate>>

\* refuse_authenticated: an acceptor that refuses a Logon before it has seeded
\* its session reads the counters as they are.  It never resets, whatever is
\* owed and whatever the Logon declares, and it does not look for a marker.
SeedRefusal ==
    /\ At("down") /\ role = "acceptor"
    /\ eng' = [Closed EXCEPT !.pc = "refuse", !.next = disk.next, !.recorded = disk.next]
    /\ \E stream \in {peer.stream, "asked"} : peer' = [peer EXCEPT !.stream = stream]
    /\ buffer' = <<>> /\ wire' = <<>>
    /\ UNCHANGED <<config, disk, debt, fate, book, doubt, budget>>

\* refuse_handshake: the Logout of a refusal, with the Reject before it, is
\* filed and spent like any other frame, written or not, and the session is
\* over.  The initiator refuses an acknowledgement; the acceptor a Logon,
\* before it has seeded its session or, unless it reset, after that.
RefusalFrame == [seq |-> eng.next, what |-> Admin, kind |-> "refusal", resets |-> FALSE]
Refuse ==
    /\ \/ At("wait") /\ wire = <<>>
       \/ At("refuse")
       \/ At("logon") /\ role = "acceptor" /\ ~eng.resets
    /\ eng.next <= MaxSeq
    /\ \E filing \in Filings :
       \E o \in Affordable(FileOutbound(disk, eng.next, Admin, filing), 0) :
          /\ disk' = o.store /\ debt' = o.debt /\ Spend(o.faults)
          /\ DoubtedIf(filing # "ok")
          /\ Remembered(o.store.marker)
          /\ IF Goes(filing)
             THEN /\ book' = [book EXCEPT ![eng.next] = Admin]
                  /\ wire' \in {<<>>, <<RefusalFrame>>}
             ELSE UNCHANGED book /\ wire' = <<>>
    /\ eng' = Closed
    /\ UNCHANGED <<config, buffer, fate>>

\* A mutation of the inbound half fails in the handshake: the watermark of
\* messages reported lost, before the session is seeded, or the number of the
\* Logon an acceptor has taken.
HandshakeWriteFails ==
    /\ At("down") \/ (At("logon") /\ role = "acceptor")
    /\ budget.faults > 0 /\ FailedMutation
    /\ eng' = IF policy = "CloseSession" THEN Closed ELSE eng
    /\ UNCHANGED <<config, buffer, wire, fate, book>>

\* The acknowledgement of the Logon, accepted; the write of its own number
\* may fail.
AckReceived ==
    /\ At("wait") /\ wire = <<>> /\ peer.stream = "agreed"
    /\ \/ /\ eng' = [eng EXCEPT !.pc = "settle"]
          /\ UNCHANGED <<disk, debt, budget, peer, doubt>>
       \/ /\ budget.faults > 0 /\ FailedMutation
          /\ eng' = IF policy = "CloseSession" THEN Closed ELSE [eng EXCEPT !.pc = "settle"]
    /\ UNCHANGED <<config, buffer, wire, fate, book>>

\* An acknowledgement that declares a reset the Logon did not: the
\* counterparty has restarted, with that Logon as message 1.
PeerResets ==
    /\ At("wait") /\ wire = <<>> /\ ~eng.resets /\ peer.stream # "due"
    /\ peer' = [next |-> 2, stream |-> "theirs"]
    /\ book' = NoFrames
    /\ eng' = [eng EXCEPT !.pc = "adopt"]
    /\ UNCHANGED <<config, disk, debt, buffer, wire, fate, doubt, budget>>

AdoptMark == At("adopt") /\ OweDurably("adoptReset")

\* HandshakeStore::reset_to, then the ticket is paid and the counters are 2.
AdoptReset ==
    /\ At("adoptReset")
    /\ \/ /\ disk' = ResetTo(disk, 2)
          /\ debt' = Pay(debt)
          /\ eng' = [eng EXCEPT !.pc = "settle", !.next = 2, !.recorded = 2, !.ticket = FALSE]
          /\ peer' = [peer EXCEPT !.stream = "agreed"]
          /\ doubt' = "none"
          /\ UNCHANGED budget
       \/ \E d \in {disk, ResetTo(disk, 2)} :
          \E o \in Affordable(SyncMarker(disk.marker, Owe(debt)), 1) :
             /\ disk' = [d EXCEPT !.marker = o.marker]
             /\ debt' = o.debt
             /\ Spend(o.faults + 1) /\ Doubted
             /\ eng' = Closed
             /\ UNCHANGED peer
    /\ UNCHANGED <<config, buffer, wire, fate, book>>

\* StoreAttachment::settle.  The acceptor settles once its acknowledgement is
\* written, read or not.
Settle ==
    /\ At("settle")
    /\ \E o \in Affordable(SyncMarker(disk.marker, IF eng.ticket THEN Pay(debt) ELSE debt), 0) :
          /\ disk' = [disk EXCEPT !.marker = o.marker]
          /\ debt' = o.debt
          /\ Remembered(o.marker)
          /\ Spend(o.faults)
          /\ eng' = IF o.faults > 0 /\ policy = "CloseSession" THEN Closed
                    ELSE [eng EXCEPT !.pc = "active", !.ticket = FALSE]
    /\ UNCHANGED <<config, buffer, wire, fate, book, doubt>>

\* The handshake fails before the session is active: refused, timed out, the
\* transport lost.  An acceptor whose acknowledgement fails to be written does
\* not settle; what the stream took of it may still be read.
HandshakeLost ==
    /\ \/ eng.pc \in {"refuse", "logon", "wait", "adopt"}
       \/ At("settle") /\ role = "acceptor"
    /\ eng' = Closed
    /\ UNCHANGED <<config, disk, debt, buffer, wire, peer, fate, book, doubt, budget>>

(* ---------------------------------------------------- the live session  *)

Queued == {m \in Messages : fate[m] = "queued"}

\* send_tracked, from the application: a command in the outbound queue.
Submit(m) ==
    /\ At("active") /\ fate[m] = "new"
    /\ eng.next + Cardinality(Queued) <= MaxSeq
    /\ fate' = [fate EXCEPT ![m] = "queued"]
    /\ UNCHANGED <<config, disk, debt, eng, buffer, wire, peer, book, doubt, budget>>

DataFrame(what) == [seq |-> eng.next, what |-> what, kind |-> "data", resets |-> FALSE]

\* write_at: filed and spent, then fed.  Under CloseSession a frame that
\* could not be filed is not fed, its sender is told it was not sent, and the
\* session closes.
WriteAt(what, pc) ==
    \E filing \in Filings :
    \E o \in Affordable(FileOutbound(disk, eng.next, what, filing), 0) :
       /\ disk' = o.store /\ debt' = o.debt /\ Spend(o.faults)
       /\ eng' = [Numbered(filing) EXCEPT !.pc = IF Goes(filing) THEN pc ELSE "closing"]
       /\ IF Goes(filing)
          THEN /\ buffer' = Append(buffer, DataFrame(what))
               /\ book' = [book EXCEPT ![eng.next] = what]
          ELSE UNCHANGED <<buffer, book>>
       /\ fate' = [m \in Messages |-> IF m # what THEN fate[m]
                                      ELSE IF Goes(filing) THEN "fed" ELSE "refused"]
       /\ Remembered(o.store.marker) /\ DoubtedIf(filing # "ok")
       /\ UNCHANGED <<config, wire>>

Send(m) == At("active") /\ fate[m] = "queued" /\ WriteAt(m, "active")

\* This session's Logout.
BeginLogout ==
    /\ At("active") /\ eng.next <= MaxSeq
    /\ WriteAt(Admin, "leaving")

\* An inbound message whose counter, or watermark, could not be written.
InboundWriteFails ==
    /\ At("active") /\ budget.faults > 0
    /\ FailedMutation
    /\ eng' = IF policy = "CloseSession" THEN [eng EXCEPT !.pc = "closing"] ELSE eng
    /\ UNCHANGED <<config, buffer, wire, fate, book>>

Told(m, what) == [fate EXCEPT ![m] = what]

\* Writer::wrote and resolve_accepted: the stream has taken a whole frame.
Accept ==
    /\ eng.pc \in {"active", "leaving"} /\ buffer # <<>>
    /\ wire' = Append(wire, Head(buffer))
    /\ buffer' = Tail(buffer)
    /\ fate' = IF Head(buffer).what \in Messages THEN Told(Head(buffer).what, "sent") ELSE fate
    /\ UNCHANGED <<config, disk, debt, eng, peer, book, doubt, budget>>

\* Mutant: what was waiting to be written is reported as not sent.
FailReceiptsNotSent(sent) ==
    [m \in Messages |-> IF fate[m] # "fed" THEN fate[m]
                        ELSE IF m \in sent THEN "sent" ELSE "refused"]

\* fail_receipts, for what is still in the buffer.
FailReceipts(sent) ==
    [m \in Messages |-> IF fate[m] # "fed" THEN fate[m]
                        ELSE IF m \in sent THEN "sent" ELSE "unknown"]

\* A write fails, or makes no progress for the write timeout.
WriteFails ==
    /\ eng.pc \in {"active", "leaving"} /\ buffer # <<>>
    /\ fate' = FailReceipts({})
    /\ buffer' = <<>>
    /\ eng' = [eng EXCEPT !.pc = "closing"]
    /\ UNCHANGED <<config, disk, debt, wire, peer, book, doubt, budget>>

\* The transport is closed by the counterparty, or the session ends itself.
Disconnect ==
    /\ eng.pc \in {"active", "leaving"}
    /\ eng' = [eng EXCEPT !.pc = "closing"]
    /\ UNCHANGED <<config, disk, debt, buffer, wire, peer, fate, book, doubt, budget>>

\* The counterparty answers a Logout it has read; configured alike, it
\* restarts its sequence.
LogoutDone ==
    /\ At("leaving") /\ buffer = <<>> /\ wire = <<>>
    /\ peer.stream = "agreed" /\ peer.next = eng.next
    /\ eng' = [eng EXCEPT !.pc = "closing", !.graceful = TRUE]
    /\ IF ResetOnLogout
       THEN peer' = [next |-> 1, stream |-> "theirs"] /\ book' = NoFrames
       ELSE UNCHANGED <<peer, book>>
    /\ UNCHANGED <<config, disk, debt, buffer, wire, fate, doubt, budget>>

(* ------------------------------------------------------------ the close *)

\* Mutant: the commands still queued are dropped without a word.
DrainQuietly ==
    /\ At("closing")
    /\ \E flushed \in {0, Len(buffer)} :
          /\ wire' = wire \o SubSeq(buffer, 1, flushed)
          /\ fate' = [m \in Messages |->
                        FailReceipts(IF flushed = 0 THEN {} ELSE Messages)[m]]
    /\ buffer' = <<>>
    /\ eng' = [eng EXCEPT !.pc = "drain"]
    /\ UNCHANGED <<config, disk, debt, peer, book, doubt, budget>>

\* discard_unsent, then the last flush: `flushed' frames of the buffer are
\* accepted, and their senders told; the rest are unknown.
Drain ==
    /\ At("closing")
    /\ \E flushed \in {0, Len(buffer)} :
          /\ wire' = wire \o SubSeq(buffer, 1, flushed)
          /\ fate' = [m \in Messages |->
                        IF fate[m] = "queued" THEN "refused"
                        ELSE FailReceipts(IF flushed = 0 THEN {} ELSE Messages)[m]]
    /\ buffer' = <<>>
    /\ eng' = [eng EXCEPT !.pc = "drain"]
    /\ UNCHANGED <<config, disk, debt, peer, book, doubt, budget>>

\* The dispatcher has drained.  close_resets: the reset is owed, and marked
\* if it can be, before it is made.
Drained ==
    /\ At("drain")
    /\ IF eng.graceful /\ ResetOnLogout
       THEN \E o \in Affordable(SyncMarker(disk.marker, Ticket(debt)), 0) :
               /\ debt' = o.debt /\ disk' = [disk EXCEPT !.marker = o.marker]
               /\ Remembered(o.marker) /\ Spend(o.faults)
               /\ eng' = [eng EXCEPT !.pc = "closeReset", !.next = 1]
       ELSE eng' = [eng EXCEPT !.pc = "counters"] /\ UNCHANGED <<disk, debt, budget, peer>>
    /\ UNCHANGED <<config, buffer, wire, fate, book, doubt>>

\* MessageStore::reset; on a failure the counters are left alone.
CloseReset ==
    /\ At("closeReset")
    /\ \/ /\ disk' = ResetTo(disk, 1)
          /\ debt' = Pay(debt)
          /\ peer' = [peer EXCEPT !.stream = "agreed"]
          /\ eng' = [eng EXCEPT !.pc = "closeClear"]
          /\ doubt' = "none"
          /\ UNCHANGED budget
       \/ /\ budget.faults > 0 /\ Spend(1) /\ Doubted
          /\ disk' \in {disk, ResetTo(disk, 1)}
          /\ eng' = Closed
          /\ UNCHANGED <<debt, peer>>
    /\ UNCHANGED <<config, buffer, wire, fate, book>>

CloseClear ==
    /\ At("closeClear")
    /\ \E o \in Affordable(SyncMarker(disk.marker, debt), 0) :
          /\ disk' = [disk EXCEPT !.marker = o.marker]
          /\ debt' = o.debt
          /\ Spend(o.faults)
    /\ eng' = [eng EXCEPT !.pc = "counters"]
    /\ UNCHANGED <<config, buffer, wire, peer, fate, book, doubt>>

\* persist_counters: the next sender number, if it is not the one recorded.
WriteCounters ==
    /\ At("counters")
    /\ \/ /\ disk' = IF eng.next = eng.recorded THEN disk ELSE [disk EXCEPT !.next = eng.next]
          /\ UNCHANGED <<debt, budget, peer, doubt>>
       \/ /\ eng.next # eng.recorded
          /\ \E d \in {disk, [disk EXCEPT !.next = eng.next]} :
             \E o \in Affordable(SyncMarker(disk.marker, Owe(debt)), 1) :
                /\ disk' = [d EXCEPT !.marker = o.marker]
                /\ debt' = o.debt /\ Spend(o.faults + 1) /\ Doubted
                /\ Remembered(o.marker)
    /\ eng' = Closed
    /\ UNCHANGED <<config, buffer, wire, fate, book>>

(* ------------------------------------------------- counterparty, crash  *)

\* The next frame on the wire is read.  A Logon that resets restarts the
\* counterparty; one beyond its expectation is accepted and opens a gap, and so
\* far beyond it a refusal changes nothing; what is below it ends the connection.
Deliver ==
    /\ wire # <<>>
    /\ LET frame == Head(wire) IN
       /\ \/ /\ frame.resets
             /\ peer' = [next |-> 2, stream |-> "agreed"]
          \/ /\ ~frame.resets /\ frame.seq = peer.next
             /\ peer' = [peer EXCEPT !.next = @ + 1]
          \/ /\ frame.kind # "data" /\ ~frame.resets /\ frame.seq > peer.next
             /\ UNCHANGED peer
       /\ wire' = Tail(wire)
    /\ UNCHANGED <<config, disk, debt, eng, buffer, fate, book, doubt, budget>>

\* A gap is asked for and answered from the store, in front of what is fed.
Resend ==
    /\ eng.pc \in {"active", "leaving"} /\ peer.stream = "agreed"
    /\ LET waiting == wire \o buffer
           next == IF waiting = <<>> THEN eng.next ELSE Head(waiting).seq
       IN  peer.next < next /\ peer' = [peer EXCEPT !.next = next]
    /\ UNCHANGED <<config, disk, debt, eng, buffer, wire, fate, book, doubt, budget>>

\* The receipts dropped with the reactor: only a message still queued is
\* known not to have been sent, not one that was being filed.
Dropped(filing) ==
    [m \in Messages |-> CASE fate[m] = "fed" \/ m = filing -> "unknown"
                          [] fate[m] = "queued" /\ m # filing -> "refused"
                          [] OTHER -> fate[m]]

\* The process dies and takes its record with it; what the stream accepted
\* may still be read.  Continue gives no guarantee after a crash.
Dies(filing) ==
    /\ policy = "CloseSession" /\ budget.crashes > 0
    /\ budget' = [budget EXCEPT !.crashes = @ - 1]
    /\ doubt' = IF doubt = "known" /\ ~disk.marker THEN "forgotten" ELSE doubt
    /\ debt' = [owed |-> FALSE, later |-> FALSE]
    /\ eng' = Closed
    /\ buffer' = <<>>
    /\ fate' = Dropped(filing)
    /\ UNCHANGED <<config, wire, peer>>

Crash == Dies(Nothing) /\ UNCHANGED <<disk, book>>

\* It dies inside file_outbound, or after it and before the frame is fed.
CrashInFiling ==
    /\ \E what \in {Admin} \union Messages, filing \in {"partial", "landed"} :
          /\ Dies(what)
          /\ \/ what = Admin /\ eng.pc \in {"active", "logon", "refuse"}
             \/ what # Admin /\ eng.pc = "active" /\ fate[what] = "queued"
          /\ eng.next <= MaxSeq
          /\ disk' = FiledOn(disk, eng.next, what, filing)
          /\ book' = IF filing = "partial" THEN book
                     ELSE IF At("logon") THEN LogonBook ELSE [book EXCEPT ![eng.next] = what]

Next ==
    \/ Start \/ MarkReset \/ SeedReset \/ SendLogon
    \/ SeedRefusal \/ Refuse \/ HandshakeWriteFails
    \/ AckReceived \/ PeerResets \/ AdoptMark \/ AdoptReset \/ Settle \/ HandshakeLost
    \/ \E m \in Messages : Submit(m) \/ Send(m)
    \/ BeginLogout \/ InboundWriteFails \/ Accept \/ WriteFails \/ Disconnect \/ LogoutDone
    \/ Drain \/ Drained \/ CloseReset \/ CloseClear \/ WriteCounters
    \/ Deliver \/ Resend \/ Crash \/ CrashInFiling

Spec == Init /\ [][Next]_vars

\* The reactor takes the commands queued, and its close runs to its end; a
\* write either progresses or meets the write timeout.
FairSpec ==
    /\ Spec
    /\ WF_vars(\E m \in Messages : Send(m))
    /\ WF_vars(Accept \/ WriteFails)
    /\ WF_vars(Drain)
    /\ WF_vars(LogoutDone \/ (At("leaving") /\ Disconnect))

(* ----------------------------------------------------------- properties *)

Running == eng.pc \in {"active", "leaving"}

\* What the acceptor's refusal leaves out: it is numbered from the store as it
\* is while a reset is owed there, or asked for by the Logon it refuses, and
\* does not declare it.  What the counterparty expects of it is a later stream.
RefusedOwing ==
    /\ role = "acceptor" /\ Head(wire).kind = "refusal"
    /\ disk.marker \/ debt.owed \/ peer.stream = "asked"

\* No number is used twice in the stream the counterparty is in: what reaches
\* it next is never below what it expects (file_and_spend; the reset Logons).
\* Except by an acceptor whose acknowledgement declared a reset and was lost
\* (it is paid once written, not once read), or which refuses a Logon while a
\* reset is owed (refuse_authenticated never resets).
NumbersNeverReused ==
    (/\ wire # <<>>
     /\ ~(role = "acceptor" /\ peer.stream = "unread")
     /\ ~RefusedOwing) =>
        Head(wire).resets \/ Head(wire).seq >= peer.next

\* A resend answers every number of the stream with what that number was
\* spent on, whatever stream, refusal or crash left in the store before; under
\* Continue a frame that could not be filed leaves its number empty.  Only a
\* failed write that left neither a marker nor a process to remember it
\* escapes (ADR-0029).
ReplayFaithful ==
    (Running /\ peer.stream = "agreed" /\ doubt # "forgotten") =>
        \A n \in 1 .. eng.next - 1 :
            disk.filed[n] \in {book[n]} \union (IF policy = "Continue" THEN {Nothing} ELSE {})

\* A reset the counterparty has made, or been sent and not read, is declared
\* by the next Logon once its marker is durable, through any crash
\* (owe_durably before reset_to, settle after the acknowledgement).
ResetRemembered ==
    (/\ eng.pc \in {"wait", "settle"} /\ wire # <<>>
     /\ peer.stream = "due" \/ (peer.stream = "unread" /\ role = "initiator")) =>
        Head(wire).resets

\* A failed write stays owed until a reset made after it, in memory or by the
\* marker, and on a live session the record never says less than the store
\* (OwedReset, settle).  A refusal does not look for the marker.
DebtKept ==
    /\ doubt = "known" /\ eng.pc \notin {"down", "refuse"} => debt.owed
    /\ Running /\ disk.marker => debt.owed

InFlight(frames) == {frames[i].what : i \in DOMAIN frames}

\* What a sender is told is true: sent, its frame was taken by the stream
\* whole; not sent, no number was spent on it and nothing of it went out;
\* still waiting, its frame is in the buffer, and never past the close.
OutcomeHonest ==
    \A m \in Messages :
        /\ fate[m] = "refused" =>
              m \notin InFlight(buffer) \union InFlight(wire) \union {book[n] : n \in Seqs}
        /\ m \in InFlight(buffer) <=> fate[m] = "fed"
        /\ m \in InFlight(wire) => fate[m] \in {"sent"}
        /\ fate[m] \in Live => eng.pc \in {"active", "leaving", "closing"}

\* Every tracked send is told its outcome (the write timeout, the close).
OutcomeArrives == \A m \in Messages : fate[m] \in Live ~> fate[m] \in Settled
=============================================================================
