------------------------ MODULE OutboundSafetyProofs ------------------------
(***************************************************************************)
(* The outbound half for every value of the constants: a failed store write *)
(* stays owed, what a sender is told is true, no number of a stream is used *)
(* twice, a resend answers with what was sent, and a reset the counterparty *)
(* made is declared.                                                       *)
(***************************************************************************)
EXTENDS OutboundStream, SequenceTheorems, FiniteSetTheorems, TLAPS

-----------------------------------------------------------------------------
(* What a failed store write owes.  DebtKept is not inductive on its own:   *)
(* paying the ticket of one reset must leave what was recorded after it,    *)
(* and a crash must leave the marker.  DebtInv says both.                   *)

Debts == [owed : BOOLEAN, later : BOOLEAN]
Stores == [next : Nat, filed : [Seqs -> Contents], marker : BOOLEAN]
Engines == [pc : Stages, next : Nat, recorded : Nat, resets : BOOLEAN, ticket : BOOLEAN,
            graceful : BOOLEAN]

Shape ==
    /\ debt \in Debts
    /\ disk \in Stores
    /\ eng \in Engines
    /\ doubt \in {"none", "known", "forgotten"}

\* The ticket held pays a reset already made: what was recorded since is all
\* that stays owed.
Paying == eng.ticket /\ eng.pc \in {"logon", "wait", "settle"}

\* A reset is owed from before it is made.
Resetting == eng.pc \in {"reset", "adoptReset", "closeReset"}

\* Where the marker has not been looked at: between sessions, and where an
\* acceptor refuses a Logon without a session.
Unread == {"down", "refuse"}

DebtInv ==
    /\ Shape
    /\ doubt = "known" => debt.owed \/ (eng.pc \in Unread /\ disk.marker)
    /\ doubt = "known" /\ Paying => debt.later
    /\ Running /\ disk.marker => debt.owed
    /\ Resetting => debt.owed

Outcome == [faults : {0, 1}, marker : BOOLEAN, debt : Debts]

\* sync_marker settles nothing: what was owed is owed after it, a failed write
\* leaves a reset owed, and one that did not fail leaves the marker in line.
LEMMA SyncMarkerOwes ==
    ASSUME NEW marker \in BOOLEAN, NEW d \in Debts, NEW o \in SyncMarker(marker, d)
    PROVE  /\ o \in Outcome
           /\ d.owed => o.debt.owed
           /\ d.later => o.debt.later
           /\ o.marker => o.debt.owed
<1>1. CASE marker = d.owed
  <2>1. o = [faults |-> 0, marker |-> marker, debt |-> d]
    BY <1>1 DEF SyncMarker
  <2> QED BY <1>1, <2>1 DEF Outcome
<1>2. CASE marker # d.owed
  <2> DEFINE owed == IF d.owed THEN d ELSE Owe(d)
  <2>1. owed \in Debts /\ owed.owed /\ (d.later => owed.later)
    BY DEF Owe, Debts
  <2>2. CASE o = [faults |-> 0, marker |-> d.owed, debt |-> d]
    BY <2>2 DEF Outcome, Debts
  <2>3. CASE o \in [faults : {1}, marker : BOOLEAN, debt : {owed}]
    <3>1. o.faults = 1 /\ o.marker \in BOOLEAN /\ o.debt = owed
      BY <2>3
    <3>2. o \in Outcome
      BY <2>1, <2>3 DEF Outcome
    <3> QED BY <2>1, <3>1, <3>2
  <2> QED BY <1>2, <2>2, <2>3 DEF SyncMarker
<1> QED BY <1>1, <1>2

LEMMA OweType ==
    ASSUME NEW d \in Debts
    PROVE  /\ Owe(d) \in Debts /\ Owe(d).owed /\ Owe(d).later
           /\ Ticket(d) \in Debts /\ Ticket(d).owed
           /\ Pay(d) \in Debts /\ Pay(d).owed = d.later /\ Pay(d).later = d.later
BY DEF Debts, Owe, Ticket, Pay

LEMMA FiledType ==
    ASSUME NEW d \in Stores, NEW n \in Nat, NEW what \in Contents, NEW filing \in Filings
    PROVE  FiledOn(d, n, what, filing) \in Stores /\ FiledOn(d, n, what, filing).marker = d.marker
<1> DEFINE filed == [d.filed EXCEPT ![n] = IF filing = "lost" THEN @ ELSE what]
           next == IF filing \in {"ok", "landed"} THEN n + 1 ELSE d.next
           entry == IF filing = "lost" THEN d.filed[n] ELSE what
<1>1. filed \in [Seqs -> Contents] /\ next \in Nat
  <2>1. d.filed \in [Seqs -> Contents] /\ d.next \in Nat
    BY DEF Stores
  <2>2. next \in Nat
    BY <2>1
  <2>3. n \in Seqs => entry \in Contents
    BY <2>1
  <2>4. filed = [k \in Seqs |-> IF k = n THEN entry ELSE d.filed[k]]
    BY <2>1
  <2> QED BY <2>1, <2>2, <2>3, <2>4
<1>2. FiledOn(d, n, what, filing) = [d EXCEPT !.filed = filed, !.next = next]
  BY DEF FiledOn, Stores
<1> QED BY <1>1, <1>2 DEF Stores

\* file_outbound: a filing that fails is owed, and one that succeeds touches
\* neither the record nor the marker.
LEMMA FileOutboundOwes ==
    ASSUME NEW n \in Nat, NEW what \in Contents, NEW filing \in Filings, Shape,
           NEW o \in FileOutbound(disk, n, what, filing)
    PROVE  /\ o.store \in Stores /\ o.debt \in Debts
           /\ filing = "ok" => o.debt = debt /\ o.store.marker = disk.marker
           /\ filing # "ok" => o.debt.owed /\ o.debt.later
<1> DEFINE store == FiledOn(disk, n, what, filing)
           failed(s, faults) ==
               {[store |-> [s EXCEPT !.marker = p.marker], debt |-> p.debt,
                 faults |-> p.faults + faults] : p \in SyncMarker(s.marker, Owe(debt))}
<1>1. store \in Stores /\ store.marker = disk.marker
  BY FiledType DEF Shape
<1>2. [store EXCEPT !.next = n + 1] \in Stores
  BY <1>1 DEF Stores
<1>3. ASSUME NEW s \in Stores, NEW faults, o \in failed(s, faults)
      PROVE  o.store \in Stores /\ o.debt \in Debts /\ o.debt.owed /\ o.debt.later
  <2>1. PICK p \in SyncMarker(s.marker, Owe(debt)) :
            o = [store |-> [s EXCEPT !.marker = p.marker], debt |-> p.debt,
                 faults |-> p.faults + faults]
    BY <1>3
  <2>2. s.marker \in BOOLEAN /\ Owe(debt) \in Debts /\ Owe(debt).owed /\ Owe(debt).later
    BY OweType DEF Shape, Stores
  <2>3. p \in Outcome /\ p.debt.owed /\ p.debt.later
    BY <2>2, SyncMarkerOwes
  <2>4. p.marker \in BOOLEAN /\ p.debt \in Debts
    BY <2>3 DEF Outcome
  <2>5. [s EXCEPT !.marker = p.marker] \in Stores
    BY <2>4 DEF Stores
  <2> QED BY <2>1, <2>3, <2>4, <2>5
<1>4. CASE filing = "ok"
  <2>1. o = [store |-> store, debt |-> debt, faults |-> 0]
    BY <1>4 DEF FileOutbound
  <2> QED BY <1>1, <1>4, <2>1 DEF Shape
<1>5. CASE filing # "ok" /\ policy = "CloseSession"
  <2>1. o \in failed(store, 1)
    BY <1>5 DEF FileOutbound
  <2> QED BY <1>1, <1>3, <1>5, <2>1
<1>6. CASE filing # "ok" /\ policy # "CloseSession"
  <2>1. o \in failed([store EXCEPT !.next = n + 1], 1) \/ o \in failed(store, 2)
    BY <1>6 DEF FileOutbound
  <2> QED BY <1>1, <1>2, <1>3, <1>6, <2>1
<1> QED BY <1>4, <1>5, <1>6

\* A step that leaves the record, the store and the doubt alone keeps the
\* invariant wherever it leads to: into or out of a live session aside.
LEMMA QuietStep ==
    ASSUME DebtInv, eng' \in Engines, UNCHANGED <<debt, disk, doubt>>,
           eng'.pc \in Unread \/ eng.pc \notin Unread \/ doubt # "known",
           Paying' => Paying \/ doubt # "known", Running' => Running, ~Resetting'
    PROVE  DebtInv'
BY DEF DebtInv, Shape, At, Running

\* A step whose writes end with the record owing everything recorded so far.
LEMMA OwingStep ==
    ASSUME DebtInv, eng' \in Engines, disk' \in Stores, debt' \in Debts,
           debt'.owed, debt'.later,
           doubt' \in {"none", "known", "forgotten"}
    PROVE  DebtInv'
BY DEF DebtInv, Shape

LEMMA DoubtType ==
    ASSUME Shape, Doubted \/ UNCHANGED doubt
    PROVE  doubt' \in {"none", "known", "forgotten"}
BY DEF Shape, Doubted

\* Any store write that fails, of the half of the session modelled elsewhere
\* or of this one, ends so.
LEMMA FailedMutationOwes ==
    ASSUME Shape, FailedMutation
    PROVE  /\ disk' \in Stores /\ debt' \in Debts /\ debt'.owed /\ debt'.later
           /\ doubt' \in {"none", "known", "forgotten"}
<1>1. PICK o \in SyncMarker(disk.marker, Owe(debt)) :
          disk' = [disk EXCEPT !.marker = o.marker] /\ debt' = o.debt /\ Doubted
  BY DEF FailedMutation, Affordable
<1>2. disk.marker \in BOOLEAN /\ Owe(debt) \in Debts /\ Owe(debt).owed /\ Owe(debt).later
  BY OweType DEF Shape, Stores
<1>3. o \in Outcome /\ o.debt.owed /\ o.debt.later
  BY <1>2, SyncMarkerOwes
<1>4. o.marker \in BOOLEAN /\ o.debt \in Debts
  BY <1>3 DEF Outcome
<1>5. disk' \in Stores
  BY <1>1, <1>4 DEF Shape, Stores
<1>6. doubt' \in {"none", "known", "forgotten"}
  BY <1>1, DoubtType
<1> QED BY <1>1, <1>3, <1>4, <1>5, <1>6

\* Taking a ticket for a reset, marked or refused: the older debts are under
\* the ticket, and nothing is paid before the reset is made.
LEMMA OweDurablyKeeps ==
    ASSUME DebtInv, NEW next \in {"reset", "adoptReset"}, OweDurably(next)
    PROVE  DebtInv'
<1>1. PICK o \in SyncMarker(disk.marker, Ticket(debt)) :
          /\ debt' = o.debt /\ disk' = [disk EXCEPT !.marker = o.marker]
          /\ eng' = IF o.faults = 0 THEN [eng EXCEPT !.pc = next, !.ticket = TRUE] ELSE Closed
          /\ UNCHANGED doubt
  BY DEF OweDurably, Affordable
<1>2. disk.marker \in BOOLEAN /\ Ticket(debt) \in Debts /\ Ticket(debt).owed
  BY OweType DEF DebtInv, Shape, Stores
<1>3. o \in Outcome /\ o.debt.owed
  BY <1>2, SyncMarkerOwes
<1>4. o.marker \in BOOLEAN /\ o.debt \in Debts
  BY <1>3 DEF Outcome
<1>5. disk' \in Stores
  BY <1>1, <1>4 DEF DebtInv, Shape, Stores
<1>6. eng' \in Engines /\ ~Paying' /\ ~Running'
  BY <1>1 DEF DebtInv, Shape, Engines, Closed, Stages, Paying, Running
<1> QED BY <1>1, <1>3, <1>4, <1>5, <1>6 DEF DebtInv, Shape

\* A write through file_outbound: filed, and nothing else changes, or owed.
LEMMA FilingKeeps ==
    ASSUME DebtInv, NEW what \in Contents, NEW filing \in Filings,
           eng.pc \in Unread => eng'.pc = "down",
           NEW o \in FileOutbound(disk, eng.next, what, filing),
           disk' = o.store, debt' = o.debt, DoubtedIf(filing # "ok"), eng' \in Engines,
           Paying' => Paying, Running' => Running, ~Resetting'
    PROVE  DebtInv'
<1>1. eng.next \in Nat /\ Shape
  BY DEF DebtInv, Shape, Engines
<1>2. /\ o.store \in Stores /\ o.debt \in Debts
      /\ filing = "ok" => o.debt = debt /\ o.store.marker = disk.marker
      /\ filing # "ok" => o.debt.owed /\ o.debt.later
  BY <1>1, FileOutboundOwes
<1>3. CASE filing = "ok"
  BY <1>2, <1>3 DEF DebtInv, Shape, DoubtedIf, Unread
<1>4. CASE filing # "ok"
  <2>1. doubt' \in {"none", "known", "forgotten"}
    BY <1>1, <1>4, DoubtType DEF DoubtedIf
  <2> QED BY <1>2, <1>4, <2>1, OwingStep
<1> QED BY <1>3, <1>4

\* No step, failed and cut short or not, forgets what the store is owed
\* (owe_durably, file_outbound, the ticket of a reset).
THEOREM DebtInvInductive ==
    ASSUME DebtInv, [Next]_vars
    PROVE  DebtInv'
<1> USE DEF At, Unread
<1>0. Shape /\ eng \in Engines /\ disk \in Stores /\ debt \in Debts
      /\ eng.next \in Nat /\ eng.recorded \in Nat /\ eng.pc \in Stages
      /\ disk.next \in Nat /\ disk.marker \in BOOLEAN
  BY DEF DebtInv, Shape, Engines, Stores
<1>c. Closed \in Engines
  BY DEF Closed, Engines, Stages
<1>a. Admin \in Contents /\ Messages \subseteq Contents
  BY BoundsAssumption DEF Admin, Contents, Messages
<1>r. ASSUME NEW d \in Stores, NEW n \in Nat
      PROVE  ResetTo(d, n) \in Stores
  <2>1. NoFrames \in [Seqs -> Contents]
    BY BoundsAssumption DEF NoFrames, Nothing, Contents
  <2> QED BY <2>1 DEF ResetTo, Stores
<1>n. ASSUME NEW filing
      PROVE  Numbered(filing) \in Engines /\ Numbered(filing).ticket = eng.ticket
  <2> DEFINE next == IF Goes(filing) THEN eng.next + 1 ELSE eng.next
  <2>1. next \in Nat /\ eng.next + 1 \in Nat
    BY <1>0
  <2>2. Numbered(filing) = [eng EXCEPT !.recorded = eng.next + 1, !.next = next]
    BY DEF Numbered
  <2> HIDE DEF next
  <2> QED BY <1>0, <2>1, <2>2 DEF Engines
<1>1. CASE Start
  <2>1. /\ Recovered \in Debts /\ (debt.owed \/ disk.marker => Recovered.owed)
        /\ (debt.later => Recovered.later)
    BY <1>0, OweType DEF Recovered
  <2>2. /\ eng' \in Engines /\ ~Paying' /\ ~Running' /\ ~Resetting'
    <3>1. \/ eng' = [Closed EXCEPT !.pc = "mark", !.resets = TRUE]
          \/ eng' = [Closed EXCEPT !.pc = "logon", !.next = disk.next, !.recorded = disk.next]
      BY <1>1 DEF Start
    <3>2. CASE eng' = [Closed EXCEPT !.pc = "mark", !.resets = TRUE]
      BY <3>2 DEF Closed, Engines, Stages, Paying, Running, Resetting
    <3>3. CASE eng' = [Closed EXCEPT !.pc = "logon", !.next = disk.next, !.recorded = disk.next]
      BY <1>0, <3>3 DEF Closed, Engines, Stages, Paying, Running, Resetting
    <3> QED BY <3>1, <3>2, <3>3
  <2> QED BY <1>0, <1>1, <2>1, <2>2 DEF Start, DebtInv, Shape
<1>2. CASE MarkReset \/ AdoptMark
  BY <1>2, OweDurablyKeeps DEF MarkReset, AdoptMark
<1>3. CASE SeedReset
  <2>1. ResetTo(disk, 1) \in Stores
    BY <1>0, <1>r
  <2>2. CASE disk' = ResetTo(disk, 1) /\ doubt' = "none"
             /\ eng' = [eng EXCEPT !.pc = "logon", !.next = 1, !.recorded = 1]
    <3>1. eng' \in Engines /\ ~Running' /\ ~Resetting'
      BY <1>0, <2>2 DEF Engines, Stages, Running, Resetting
    <3> QED BY <1>0, <1>3, <2>1, <2>2, <3>1 DEF SeedReset, DebtInv, Shape
  <2>3. CASE Doubted /\ disk' \in {disk, ResetTo(disk, 1)} /\ eng' = Closed
    <3>1. doubt' \in {"none", "known", "forgotten"}
      BY <1>0, <2>3, DoubtType
    <3>2. ~Running' /\ ~Resetting' /\ ~Paying'
      BY <2>3 DEF Closed, Running, Resetting, Paying
    <3>3. debt' = debt /\ debt.owed
      BY <1>3 DEF SeedReset, DebtInv, Resetting
    <3> QED BY <1>0, <1>c, <2>1, <2>3, <3>1, <3>2, <3>3 DEF DebtInv, Shape
  <2> QED BY <1>3, <2>2, <2>3 DEF SeedReset
<1>4. CASE SendLogon
  <2>0. PICK filing \in Filings : \E o \in FileOutbound(disk, eng.next, Admin, filing) :
            /\ disk' = o.store /\ debt' = o.debt /\ DoubtedIf(filing # "ok")
            /\ eng' = IF Goes(filing)
                      THEN [Numbered(filing) EXCEPT
                              !.pc = IF role = "initiator" THEN "wait" ELSE "settle"]
                      ELSE Closed
    BY <1>4 DEF SendLogon, Affordable
  <2>1. PICK o \in FileOutbound(disk, eng.next, Admin, filing) :
            /\ disk' = o.store /\ debt' = o.debt /\ DoubtedIf(filing # "ok")
            /\ eng' = IF Goes(filing)
                      THEN [Numbered(filing) EXCEPT
                              !.pc = IF role = "initiator" THEN "wait" ELSE "settle"]
                      ELSE Closed
    BY <2>0
  <2>2. eng' \in Engines /\ ~Running' /\ ~Resetting' /\ (Paying' => Paying)
    <3>1. Numbered(filing) \in Engines /\ Numbered(filing).ticket = eng.ticket
      BY <1>n
    <3>2. CASE eng' = Closed
      BY <1>c, <3>2 DEF Closed, Running, Resetting, Paying
    <3>3. CASE \E pc \in {"wait", "settle"} : eng' = [Numbered(filing) EXCEPT !.pc = pc]
      <4>1. eng' \in Engines /\ eng'.ticket = eng.ticket /\ eng'.pc \in {"wait", "settle"}
        BY <3>1, <3>3 DEF Engines, Stages
      <4>2. At("logon")
        BY <1>4 DEF SendLogon
      <4> QED BY <4>1, <4>2 DEF Running, Resetting, Paying
    <3> QED BY <2>1, <3>2, <3>3
  <2> QED BY <1>0, <1>a, <1>4, <2>1, <2>2, FilingKeeps DEF SendLogon
<1>5. CASE Refuse
  <2>0. PICK filing \in Filings : \E o \in FileOutbound(disk, eng.next, Admin, filing) :
            disk' = o.store /\ debt' = o.debt /\ DoubtedIf(filing # "ok")
    BY <1>5 DEF Refuse, Affordable
  <2>1. PICK o \in FileOutbound(disk, eng.next, Admin, filing) :
            disk' = o.store /\ debt' = o.debt /\ DoubtedIf(filing # "ok")
    BY <2>0
  <2>2. eng' \in Engines /\ ~Running' /\ ~Resetting' /\ ~Paying' /\ eng'.pc = "down"
    BY <1>c, <1>5 DEF Refuse, Closed, Running, Resetting, Paying
  <2> QED BY <1>a, <1>5, <2>1, <2>2, FilingKeeps DEF Refuse
<1>30. CASE SeedRefusal
  <2>1. /\ eng' \in Engines /\ ~Resetting' /\ ~Paying' /\ ~Running' /\ eng'.pc = "refuse"
    BY <1>0, <1>c, <1>30
    DEF SeedRefusal, Engines, Stages, Paying, Running, Resetting, Closed
  <2> QED BY <1>30, <2>1, QuietStep DEF SeedRefusal
<1>31. CASE HandshakeWriteFails
  <2>1. eng' \in Engines
    BY <1>0, <1>c, <1>31 DEF HandshakeWriteFails
  <2> QED BY <1>0, <1>31, <2>1, FailedMutationOwes, OwingStep DEF HandshakeWriteFails
<1>6. CASE AckReceived
  <2>1. /\ eng' \in Engines /\ ~Resetting' /\ ~Running' /\ (Paying' => Paying)
        /\ eng'.pc \in Unread \/ eng.pc \notin Unread
    BY <1>0, <1>c, <1>6
    DEF AckReceived, Engines, Stages, Closed, Running, Resetting, Paying
  <2>2. CASE UNCHANGED <<disk, debt, budget, peer, doubt>>
    BY <2>1, <2>2, QuietStep
  <2>3. CASE FailedMutation
    BY <1>0, <2>1, <2>3, FailedMutationOwes, OwingStep
  <2> QED BY <1>6, <2>2, <2>3 DEF AckReceived
<1>7. CASE PeerResets
  <2>1. /\ eng' \in Engines /\ ~Resetting' /\ ~Paying' /\ ~Running' /\ ~At("down")
    BY <1>0, <1>7 DEF PeerResets, Engines, Stages, Paying, Running, Resetting
  <2> QED BY <1>7, <2>1, QuietStep DEF PeerResets
<1>8. CASE AdoptReset
  <2>1. ResetTo(disk, 2) \in Stores
    BY <1>0, <1>r
  <2>2. CASE /\ disk' = ResetTo(disk, 2) /\ debt' = Pay(debt) /\ doubt' = "none"
             /\ eng' = [eng EXCEPT !.pc = "settle", !.next = 2, !.recorded = 2,
                                   !.ticket = FALSE]
    <3>1. eng' \in Engines /\ ~Running' /\ ~Resetting'
      BY <1>0, <2>2 DEF Engines, Stages, Running, Resetting
    <3>2. Pay(debt) \in Debts
      BY <1>0, OweType
    <3> QED BY <2>1, <2>2, <3>1, <3>2 DEF DebtInv, Shape
  <2>3. ASSUME NEW d \in {disk, ResetTo(disk, 2)},
               NEW o \in SyncMarker(disk.marker, Owe(debt)),
               disk' = [d EXCEPT !.marker = o.marker], debt' = o.debt, Doubted, eng' = Closed
        PROVE  DebtInv'
    <3>1. Owe(debt) \in Debts /\ Owe(debt).owed /\ Owe(debt).later
      BY <1>0, OweType
    <3>2. o \in Outcome /\ o.debt.owed /\ o.debt.later
      BY <1>0, <3>1, SyncMarkerOwes
    <3>3. o.debt \in Debts /\ o.marker \in BOOLEAN
      BY <3>2 DEF Outcome
    <3>4. d \in Stores
      BY <1>0, <2>1
    <3>5. [d EXCEPT !.marker = o.marker] \in Stores
      BY <3>3, <3>4 DEF Stores
    <3>6. doubt' \in {"none", "known", "forgotten"}
      BY <1>0, <2>3, DoubtType
    <3> QED BY <1>c, <2>3, <3>2, <3>3, <3>5, <3>6, OwingStep
  <2> QED BY <1>8, <2>2, <2>3 DEF AdoptReset, Affordable
<1>9. CASE Settle
  <2> DEFINE paid == IF eng.ticket THEN Pay(debt) ELSE debt
  <2>1. PICK o \in SyncMarker(disk.marker, paid) :
            /\ disk' = [disk EXCEPT !.marker = o.marker] /\ debt' = o.debt
            /\ UNCHANGED doubt
            /\ eng' = IF o.faults > 0 /\ policy = "CloseSession" THEN Closed
                      ELSE [eng EXCEPT !.pc = "active", !.ticket = FALSE]
    BY <1>9 DEF Settle, Affordable
  <2>2. paid \in Debts /\ (doubt = "known" => paid.owed)
    BY <1>0, <1>9, OweType DEF Settle, DebtInv, Paying
  <2>3. o \in Outcome /\ (paid.owed => o.debt.owed) /\ (o.marker => o.debt.owed)
    BY <1>0, <2>2, SyncMarkerOwes
  <2>4. o.marker \in BOOLEAN /\ o.debt \in Debts
    BY <2>3 DEF Outcome
  <2>5. disk' \in Stores /\ disk'.marker = o.marker
    BY <1>0, <2>1, <2>4 DEF Stores
  <2>6. eng' \in Engines /\ ~Paying' /\ ~Resetting'
    BY <1>0, <1>c, <2>1 DEF Engines, Stages, Closed, Paying, Resetting
  <2>7. (doubt' = "known" => debt'.owed) /\ (disk'.marker => debt'.owed)
    BY <2>1, <2>2, <2>3, <2>5
  <2> QED BY <1>0, <2>1, <2>4, <2>5, <2>6, <2>7 DEF DebtInv, Shape
<1>10. CASE HandshakeLost
  <2>1. /\ eng' \in Engines /\ ~Resetting'
        /\ (Paying' => Paying) /\ (Running' => Running)
        /\ eng'.pc \in Unread \/ eng.pc \notin Unread
    BY <1>0, <1>c, <1>10 DEF HandshakeLost, Engines, Stages, Paying, Running, Resetting, Closed
  <2> QED BY <1>10, <2>1, QuietStep DEF HandshakeLost
<1>11. ASSUME NEW m \in Messages, Submit(m)
       PROVE  DebtInv'
  BY <1>0, <1>11, QuietStep DEF Submit, Paying, Running, Resetting
<1>12. ASSUME NEW what \in Contents, NEW pc \in {"active", "leaving"}, At("active"),
              WriteAt(what, pc)
       PROVE  DebtInv'
  <2>0. PICK filing \in Filings : \E o \in FileOutbound(disk, eng.next, what, filing) :
            /\ disk' = o.store /\ debt' = o.debt /\ DoubtedIf(filing # "ok")
            /\ eng' = [Numbered(filing) EXCEPT !.pc = IF Goes(filing) THEN pc ELSE "closing"]
    BY <1>12 DEF WriteAt, Affordable
  <2>1. PICK o \in FileOutbound(disk, eng.next, what, filing) :
            /\ disk' = o.store /\ debt' = o.debt /\ DoubtedIf(filing # "ok")
            /\ eng' = [Numbered(filing) EXCEPT !.pc = IF Goes(filing) THEN pc ELSE "closing"]
    BY <2>0
  <2>2. eng' \in Engines /\ Running /\ ~Resetting' /\ ~Paying'
    <3>1. Numbered(filing) \in Engines
      BY <1>n
    <3>2. eng' \in Engines /\ eng'.pc \in {"active", "leaving", "closing"}
      BY <2>1, <3>1 DEF Engines, Stages
    <3>3. Running
      BY <1>12 DEF Running
    <3> QED BY <3>2, <3>3 DEF Running, Resetting, Paying
  <2> QED BY <1>12, <2>1, <2>2, FilingKeeps
<1>13. ASSUME NEW m \in Messages, Send(m)
       PROVE  DebtInv'
  BY <1>12, <1>13, <1>a DEF Send
<1>14. CASE BeginLogout
  BY <1>12, <1>14, <1>a DEF BeginLogout
<1>15. CASE InboundWriteFails
  <2>1. eng' \in Engines
    BY <1>0, <1>15 DEF InboundWriteFails, Engines, Stages
  <2> QED BY <1>0, <1>15, <2>1, FailedMutationOwes, OwingStep DEF InboundWriteFails
<1>16. CASE Accept
  <2>1. /\ eng' \in Engines /\ ~Resetting'
        /\ (Paying' => Paying) /\ (Running' => Running)
        /\ eng'.pc \in Unread \/ eng.pc \notin Unread
    BY <1>0, <1>c, <1>16 DEF Accept, Engines, Stages, Paying, Running, Resetting, Closed
  <2> QED BY <1>16, <2>1, QuietStep DEF Accept
<1>17. CASE WriteFails
  <2>1. /\ eng' \in Engines /\ ~Resetting'
        /\ (Paying' => Paying) /\ (Running' => Running)
        /\ eng'.pc \in Unread \/ eng.pc \notin Unread
    BY <1>0, <1>c, <1>17 DEF WriteFails, Engines, Stages, Paying, Running, Resetting, Closed
  <2> QED BY <1>17, <2>1, QuietStep DEF WriteFails
<1>18. CASE Disconnect
  <2>1. /\ eng' \in Engines /\ ~Resetting'
        /\ (Paying' => Paying) /\ (Running' => Running)
        /\ eng'.pc \in Unread \/ eng.pc \notin Unread
    BY <1>0, <1>c, <1>18 DEF Disconnect, Engines, Stages, Paying, Running, Resetting, Closed
  <2> QED BY <1>18, <2>1, QuietStep DEF Disconnect
<1>19. CASE LogoutDone
  <2>1. /\ eng' \in Engines /\ ~Resetting'
        /\ (Paying' => Paying) /\ (Running' => Running)
        /\ eng'.pc \in Unread \/ eng.pc \notin Unread
    BY <1>0, <1>c, <1>19 DEF LogoutDone, Engines, Stages, Paying, Running, Resetting, Closed
  <2> QED BY <1>19, <2>1, QuietStep DEF LogoutDone
<1>20. CASE Drain
  <2>1. /\ eng' \in Engines /\ ~Resetting'
        /\ (Paying' => Paying) /\ (Running' => Running)
        /\ eng'.pc \in Unread \/ eng.pc \notin Unread
    BY <1>0, <1>c, <1>20 DEF Drain, Engines, Stages, Paying, Running, Resetting, Closed
  <2> QED BY <1>20, <2>1, QuietStep DEF Drain
<1>21. CASE Drained
  <2>1. CASE eng' = [eng EXCEPT !.pc = "counters"] /\ UNCHANGED <<disk, debt, budget, peer>>
    <3>1. eng' \in Engines /\ ~Resetting' /\ ~Paying' /\ ~Running' /\ ~At("down")
      BY <1>0, <1>21, <2>1 DEF Drained, Engines, Stages, Paying, Running, Resetting
    <3> QED BY <1>21, <2>1, <3>1, QuietStep DEF Drained
  <2>2. ASSUME NEW o \in SyncMarker(disk.marker, Ticket(debt)),
               debt' = o.debt, disk' = [disk EXCEPT !.marker = o.marker], UNCHANGED doubt,
               eng' = [eng EXCEPT !.pc = "closeReset", !.next = 1]
        PROVE  DebtInv'
    <3>1. Ticket(debt) \in Debts /\ Ticket(debt).owed
      BY <1>0, OweType
    <3>2. o \in Outcome /\ o.debt.owed
      BY <1>0, <3>1, SyncMarkerOwes
    <3>3. o.debt \in Debts /\ o.marker \in BOOLEAN
      BY <3>2 DEF Outcome
    <3>4. disk' \in Stores
      BY <1>0, <2>2, <3>3 DEF Stores
    <3>5. eng' \in Engines /\ ~Paying' /\ ~Running'
      BY <1>0, <2>2 DEF Engines, Stages, Paying, Running
    <3> QED BY <1>0, <2>2, <3>2, <3>3, <3>4, <3>5 DEF DebtInv, Shape
  <2> QED BY <1>21, <2>1, <2>2 DEF Drained, Affordable
<1>22. CASE CloseReset
  <2>1. ResetTo(disk, 1) \in Stores /\ Pay(debt) \in Debts
    BY <1>0, <1>r, OweType
  <2>2. CASE /\ disk' = ResetTo(disk, 1) /\ debt' = Pay(debt) /\ doubt' = "none"
             /\ eng' = [eng EXCEPT !.pc = "closeClear"]
    <3>1. eng' \in Engines /\ ~Running' /\ ~Resetting'
      BY <1>0, <2>2 DEF Engines, Stages, Running, Resetting
    <3> QED BY <2>1, <2>2, <3>1 DEF DebtInv, Shape
  <2>3. CASE Doubted /\ disk' \in {disk, ResetTo(disk, 1)} /\ eng' = Closed /\ debt' = debt
    <3>1. doubt' \in {"none", "known", "forgotten"}
      BY <1>0, <2>3, DoubtType
    <3>2. ~Running' /\ ~Resetting' /\ ~Paying'
      BY <2>3 DEF Closed, Running, Resetting, Paying
    <3>3. debt.owed
      BY <1>22 DEF CloseReset, DebtInv, Resetting
    <3> QED BY <1>0, <1>c, <2>1, <2>3, <3>1, <3>2, <3>3 DEF DebtInv, Shape
  <2> QED BY <1>22, <2>2, <2>3 DEF CloseReset
<1>23. CASE CloseClear
  <2>1. PICK o \in SyncMarker(disk.marker, debt) :
            disk' = [disk EXCEPT !.marker = o.marker] /\ debt' = o.debt
    BY <1>23 DEF CloseClear, Affordable
  <2>2. o \in Outcome /\ (debt.owed => o.debt.owed)
    BY <1>0, SyncMarkerOwes
  <2>3. o.debt \in Debts /\ o.marker \in BOOLEAN
    BY <2>2 DEF Outcome
  <2>4. disk' \in Stores
    BY <1>0, <2>1, <2>3 DEF Stores
  <2>5. eng' \in Engines /\ ~Paying' /\ ~Running' /\ ~Resetting'
    BY <1>0, <1>23 DEF CloseClear, Engines, Stages, Paying, Running, Resetting
  <2> QED BY <1>0, <1>23, <2>1, <2>2, <2>3, <2>4, <2>5 DEF CloseClear, DebtInv, Shape
<1>24. CASE WriteCounters
  <2>1. eng' \in Engines /\ ~Paying' /\ ~Running' /\ ~Resetting'
    BY <1>c, <1>24 DEF WriteCounters, Closed, Paying, Running, Resetting
  <2>2. disk \in Stores /\ [disk EXCEPT !.next = eng.next] \in Stores
    BY <1>0 DEF Stores
  <2>3. CASE /\ UNCHANGED <<debt, budget, peer, doubt>>
             /\ disk' = IF eng.next = eng.recorded THEN disk ELSE [disk EXCEPT !.next = eng.next]
    <3>1. disk' \in Stores
      BY <2>2, <2>3
    <3> QED BY <1>0, <1>24, <2>1, <2>3, <3>1 DEF WriteCounters, DebtInv, Shape
  <2>4. ASSUME NEW d \in {disk, [disk EXCEPT !.next = eng.next]},
               NEW o \in SyncMarker(disk.marker, Owe(debt)),
               disk' = [d EXCEPT !.marker = o.marker], debt' = o.debt, Doubted
        PROVE  DebtInv'
    <3>1. Owe(debt) \in Debts /\ Owe(debt).owed /\ Owe(debt).later
      BY <1>0, OweType
    <3>2. o \in Outcome /\ o.debt.owed /\ o.debt.later
      BY <1>0, <3>1, SyncMarkerOwes
    <3>3. o.debt \in Debts /\ o.marker \in BOOLEAN
      BY <3>2 DEF Outcome
    <3>4. d \in Stores
      BY <2>2
    <3>5. [d EXCEPT !.marker = o.marker] \in Stores
      BY <3>3, <3>4 DEF Stores
    <3>6. doubt' \in {"none", "known", "forgotten"}
      BY <1>0, <2>4, DoubtType
    <3> QED BY <2>1, <2>4, <3>2, <3>3, <3>5, <3>6, OwingStep
  <2> QED BY <1>24, <2>3, <2>4 DEF WriteCounters, Affordable
<1>25. CASE Deliver \/ Resend
  BY <1>0, <1>25 DEF Deliver, Resend, DebtInv, Shape, Paying, Running, Resetting
<1>26. ASSUME NEW what, Dies(what), disk' \in Stores, disk'.marker = disk.marker
       PROVE  DebtInv'
  <2>1. debt' \in Debts
    BY <1>26 DEF Dies, Debts
  <2>2. eng' = Closed /\ doubt' \in {"none", "known", "forgotten"}
    BY <1>0, <1>26 DEF Dies, Shape
  <2>3. doubt' = "known" => disk.marker
    BY <1>26 DEF Dies
  <2>4. At("down")' /\ ~Paying' /\ ~Running' /\ ~Resetting'
    BY <2>2 DEF Closed, Paying, Running, Resetting
  <2> QED BY <1>c, <1>26, <2>1, <2>2, <2>3, <2>4 DEF DebtInv, Shape
<1>27. CASE Crash
  BY <1>0, <1>26, <1>27 DEF Crash
<1>28. CASE CrashInFiling
  <2>1. PICK what \in {Admin} \union Messages, filing \in {"partial", "landed"} :
            Dies(what) /\ disk' = FiledOn(disk, eng.next, what, filing)
    BY <1>28 DEF CrashInFiling
  <2>2. what \in Contents /\ filing \in Filings
    BY <1>a DEF Filings
  <2>3. disk' \in Stores /\ disk'.marker = disk.marker
    BY <1>0, <2>1, <2>2, FiledType
  <2> QED BY <1>26, <2>1, <2>3
<1>29. CASE UNCHANGED vars
  BY <1>29 DEF vars, DebtInv, Shape, Paying, Running, Resetting
<1> QED
  BY <1>1, <1>2, <1>3, <1>4, <1>5, <1>6, <1>7, <1>8, <1>9, <1>10, <1>11, <1>13, <1>14, <1>15,
     <1>16, <1>17, <1>18, <1>19, <1>20, <1>21, <1>22, <1>23, <1>24, <1>25, <1>27, <1>28, <1>29,
     <1>30, <1>31
  DEF Next

LEMMA DebtInvInitially == Init => DebtInv
<1>1. NoFrames \in [Seqs -> Contents]
  BY BoundsAssumption DEF NoFrames, Nothing, Contents
<1> QED BY <1>1 DEF Init, DebtInv, Shape, Debts, Stores, Engines, Closed, Stages, Paying,
     Running, Resetting

\* A write that failed stays owed, across sessions and crashes, until a reset
\* made after it: OwedReset::pay settles no later obligation, sync_marker's
\* failed clear owes again, and reset_is_owed reads the marker back.
THEOREM DebtIsKept == Spec => []DebtKept
<1>1. DebtInv => DebtKept
  BY DEF DebtInv, DebtKept, Unread
<1> QED BY <1>1, DebtInvInitially, DebtInvInductive, PTL DEF Spec

-----------------------------------------------------------------------------
(* The shape of the state                                                   *)

Disks == [next : 1 .. MaxSeq + 1, filed : [Seqs -> Contents], marker : BOOLEAN]
Sessions == [pc : Stages, next : 1 .. MaxSeq + 1, recorded : 1 .. MaxSeq + 1,
             resets : BOOLEAN, ticket : BOOLEAN, graceful : BOOLEAN]
Peers == [next : 1 .. MaxSeq + 1, stream : Streams]
Fates == {"new"} \union Live \union Settled
Budgets == [faults : 0 .. MaxFaults, crashes : 0 .. MaxCrashes]

\* A command queued in a live session has a number left for it.
Room == At("active") => eng.next + Cardinality(Queued) <= MaxSeq + 1

LEMMA Constants ==
    /\ MaxSeq \in Nat \ {0} /\ MaxMessage \in Nat /\ MaxFaults \in Nat /\ MaxCrashes \in Nat
    /\ Admin \in Contents /\ Admin \notin Messages /\ Messages \subseteq Contents
    /\ Nothing \in Contents /\ Nothing \notin Messages
    /\ Closed \in Sessions /\ Closed.pc = "down" /\ ~Closed.graceful
    /\ NoFrames \in [Seqs -> Contents]
    /\ 1 \in Seqs /\ \A n \in Seqs : n \in 1 .. MaxSeq + 1 /\ n + 1 \in 1 .. MaxSeq + 1
    /\ \A n \in 1 .. MaxSeq + 1 : n \in Nat \ {0} /\ (n <= MaxSeq => n \in Seqs)
<1>1. /\ MaxSeq \in Nat \ {0} /\ MaxMessage \in Nat /\ MaxFaults \in Nat /\ MaxCrashes \in Nat
  BY BoundsAssumption
<1>2. /\ Admin \in Contents /\ Admin \notin Messages /\ Messages \subseteq Contents
      /\ Nothing \in Contents /\ Nothing \notin Messages
  BY <1>1 DEF Admin, Contents, Messages, Nothing
<1>3. /\ 1 \in Seqs /\ \A n \in Seqs : n \in 1 .. MaxSeq + 1 /\ n + 1 \in 1 .. MaxSeq + 1
      /\ \A n \in 1 .. MaxSeq + 1 : n \in Nat \ {0} /\ (n <= MaxSeq => n \in Seqs)
  BY <1>1 DEF Seqs
<1>4. Closed \in Sessions /\ Closed.pc = "down" /\ ~Closed.graceful
  BY <1>3 DEF Closed, Sessions, Stages
<1>5. NoFrames \in [Seqs -> Contents]
  BY <1>2 DEF NoFrames
<1> QED BY <1>1, <1>2, <1>3, <1>4, <1>5

LEMMA Parts ==
    ASSUME TypeOK
    PROVE  /\ disk \in Disks /\ debt \in Debts /\ eng \in Sessions /\ peer \in Peers
           /\ budget \in Budgets
           /\ disk.next \in 1 .. MaxSeq + 1 /\ disk.filed \in [Seqs -> Contents]
           /\ disk.marker \in BOOLEAN
           /\ eng.pc \in Stages /\ eng.next \in 1 .. MaxSeq + 1 /\ eng.recorded \in 1 .. MaxSeq + 1
           /\ eng.resets \in BOOLEAN /\ eng.ticket \in BOOLEAN /\ eng.graceful \in BOOLEAN
           /\ peer.next \in 1 .. MaxSeq + 1 /\ peer.stream \in Streams
           /\ budget.faults \in Nat /\ budget.crashes \in Nat
BY Constants DEF TypeOK, Disks, Debts, Sessions, Peers, Budgets

\* sync_marker once more: it never loses a marker that is owed, and what it
\* spends is a fault.
LEMMA SyncMarkerEffect ==
    ASSUME NEW marker \in BOOLEAN, NEW d \in Debts, NEW o \in SyncMarker(marker, d)
    PROVE  /\ o.faults \in {0, 1} /\ o.marker \in BOOLEAN /\ o.debt \in Debts
           /\ d.owed => o.debt.owed
           /\ d.later => o.debt.later
           /\ o.marker => o.debt.owed
           /\ marker /\ d.owed => o.marker
           /\ o.faults = 0 => o.marker = d.owed
<1>1. /\ o \in Outcome /\ (d.owed => o.debt.owed) /\ (d.later => o.debt.later)
      /\ o.marker => o.debt.owed
  BY SyncMarkerOwes
<1>2. o.faults \in {0, 1} /\ o.marker \in BOOLEAN /\ o.debt \in Debts
  BY SyncMarkerOwes DEF Outcome
<1>3. marker /\ d.owed => o.marker
  BY DEF SyncMarker
<1>4. o.faults = 0 => o.marker = d.owed
  BY DEF SyncMarker
<1> QED BY <1>2, <1>3, <1>4, SyncMarkerOwes

\* SessionStore::file_outbound, all it may do: a filing that succeeds files and
\* counts, one that fails may have done either, is owed, and loses no marker.
LEMMA FileOutboundEffect ==
    ASSUME TypeOK, NEW n \in Seqs, NEW what \in Contents, NEW filing \in Filings,
           NEW o \in FileOutbound(disk, n, what, filing)
    PROVE  /\ o.store \in Disks /\ o.debt \in Debts /\ o.faults \in Nat
           /\ filing = "ok" => /\ o.debt = debt /\ o.store.marker = disk.marker
                               /\ o.store.filed[n] = what /\ o.store.next = n + 1
           /\ filing # "ok" => /\ o.debt.owed /\ o.debt.later
                               /\ disk.marker => o.store.marker
           /\ o.store.filed[n] \in {disk.filed[n], what}
           /\ \A k \in Seqs : k # n => o.store.filed[k] = disk.filed[k]
           /\ o.store.next \in {disk.next, n + 1}
<1> DEFINE store == FiledOn(disk, n, what, filing)
           failed(s, faults) ==
               {[store |-> [s EXCEPT !.marker = p.marker], debt |-> p.debt,
                 faults |-> p.faults + faults] : p \in SyncMarker(s.marker, Owe(debt))}
           Good(s) == /\ s \in Disks /\ s.marker = disk.marker
                      /\ s.filed[n] \in {disk.filed[n], what}
                      /\ \A k \in Seqs : k # n => s.filed[k] = disk.filed[k]
                      /\ s.next \in {disk.next, n + 1}
<1>0. disk \in Disks /\ debt \in Debts /\ n + 1 \in 1 .. MaxSeq + 1
  BY Parts, Constants
<1>1. Good(store) /\ (filing = "ok" => store.filed[n] = what /\ store.next = n + 1)
  <2> DEFINE filed == [disk.filed EXCEPT ![n] = IF filing = "lost" THEN @ ELSE what]
             next == IF filing \in {"ok", "landed"} THEN n + 1 ELSE disk.next
  <2>1. filed \in [Seqs -> Contents] /\ next \in 1 .. MaxSeq + 1
    BY <1>0 DEF Disks
  <2>2. store = [disk EXCEPT !.filed = filed, !.next = next]
    BY <1>0 DEF FiledOn, Disks
  <2>3. /\ filed[n] \in {disk.filed[n], what} /\ (filing = "ok" => filed[n] = what)
        /\ \A k \in Seqs : k # n => filed[k] = disk.filed[k]
    BY <1>0 DEF Disks
  <2> HIDE DEF filed, next
  <2>4. store \in Disks /\ store.marker = disk.marker /\ store.filed = filed /\ store.next = next
    BY <1>0, <2>1, <2>2 DEF Disks
  <2> QED BY <2>3, <2>4 DEF next
<1>2. Good([store EXCEPT !.next = n + 1])
  <2> HIDE DEF store
  <2> QED BY <1>0, <1>1 DEF Disks
<1>3. ASSUME NEW s, Good(s), NEW faults \in {1, 2}, o \in failed(s, faults)
      PROVE  /\ o.store \in Disks /\ o.debt \in Debts /\ o.faults \in Nat
             /\ o.debt.owed /\ o.debt.later /\ (disk.marker => o.store.marker)
             /\ o.store.filed = s.filed /\ o.store.next = s.next
  <2>1. PICK p \in SyncMarker(s.marker, Owe(debt)) :
            o = [store |-> [s EXCEPT !.marker = p.marker], debt |-> p.debt,
                 faults |-> p.faults + faults]
    BY <1>3
  <2>2. s \in Disks /\ s.marker \in BOOLEAN /\ Owe(debt) \in Debts /\ Owe(debt).owed /\ Owe(debt).later
    BY <1>0, <1>3, OweType DEF Disks
  <2>3. /\ p.faults \in {0, 1} /\ p.marker \in BOOLEAN /\ p.debt \in Debts
        /\ p.debt.owed /\ p.debt.later /\ (s.marker => p.marker)
    BY <2>2, SyncMarkerEffect
  <2>4. [s EXCEPT !.marker = p.marker] \in Disks
    BY <2>2, <2>3 DEF Disks
  <2>5. o.store = [s EXCEPT !.marker = p.marker] /\ o.debt = p.debt /\ o.faults = p.faults + faults
    BY <2>1
  <2>6. o.faults \in Nat
    BY <2>3, <2>5
  <2>7. o.store.marker = p.marker /\ o.store.filed = s.filed /\ o.store.next = s.next
    BY <2>2, <2>5 DEF Disks
  <2> QED BY <1>3, <2>3, <2>4, <2>5, <2>6, <2>7
<1> HIDE DEF Good, store, failed
<1>4. CASE filing = "ok"
  <2>1. o = [store |-> store, debt |-> debt, faults |-> 0]
    BY <1>4 DEF FileOutbound, store
  <2> QED BY <1>0, <1>1, <1>4, <2>1 DEF Good
<1>5. CASE filing # "ok"
  <2>1. \/ o \in failed(store, 1) \/ o \in failed(store, 2)
        \/ o \in failed([store EXCEPT !.next = n + 1], 1)
    BY <1>5 DEF FileOutbound, store, failed
  <2>2. PICK s : Good(s) /\ (o \in failed(s, 1) \/ o \in failed(s, 2))
    BY <1>1, <1>2, <2>1
  <2>3. /\ o.store \in Disks /\ o.debt \in Debts /\ o.faults \in Nat
        /\ o.debt.owed /\ o.debt.later /\ (disk.marker => o.store.marker)
        /\ o.store.filed = s.filed /\ o.store.next = s.next
    BY <1>3, <2>2
  <2> QED BY <1>5, <2>2, <2>3 DEF Good
<1> QED BY <1>4, <1>5

\* What a write that touches the marker alone leaves, and the counterparty's
\* place once the marker is durable.
SameBut(marker) ==
    disk' \in Disks /\ disk'.next = disk.next /\ disk'.filed = disk.filed /\ disk'.marker = marker
Minded(marker) ==
    /\ peer' \in Peers /\ peer'.next = peer.next
    /\ \/ peer'.stream = peer.stream
       \/ marker /\ peer.stream = "theirs" /\ peer'.stream = "due"

LEMMA MarkerWritten ==
    ASSUME disk \in Disks, NEW marker \in BOOLEAN, disk' = [disk EXCEPT !.marker = marker]
    PROVE  SameBut(marker)
BY DEF SameBut, Disks

LEMMA RememberedMinds ==
    ASSUME peer \in Peers, NEW marker, Remembered(marker)
    PROVE  Minded(marker)
BY DEF Remembered, Minded, Peers, Streams

LEMMA SpendType ==
    ASSUME budget \in Budgets, NEW n \in Nat, n <= budget.faults, Spend(n)
    PROVE  budget' \in Budgets
<1>1. budget.faults - n \in 0 .. MaxFaults
  BY Constants DEF Budgets
<1> QED BY <1>1 DEF Spend, Budgets

LEMMA FailedMutationEffect ==
    ASSUME TypeOK, FailedMutation
    PROVE  /\ SameBut(disk'.marker) /\ Minded(disk'.marker) /\ (disk.marker => disk'.marker)
           /\ debt' \in Debts /\ debt'.owed /\ debt'.later
           /\ budget' \in Budgets
           /\ doubt' = IF doubt = "none" THEN "known" ELSE doubt
<1>0. disk \in Disks /\ debt \in Debts /\ peer \in Peers /\ budget \in Budgets /\ disk.marker \in BOOLEAN
  BY Parts
<1>1. PICK o \in SyncMarker(disk.marker, Owe(debt)) :
         /\ o.faults + 1 <= budget.faults
         /\ disk' = [disk EXCEPT !.marker = o.marker]
         /\ debt' = o.debt /\ Spend(o.faults + 1) /\ Doubted
         /\ Remembered(o.marker)
  BY DEF FailedMutation, Affordable
<1>2. Owe(debt) \in Debts /\ Owe(debt).owed /\ Owe(debt).later
  BY <1>0, OweType
<1>3. /\ o.faults \in {0, 1} /\ o.marker \in BOOLEAN /\ o.debt \in Debts
      /\ o.debt.owed /\ o.debt.later /\ (disk.marker => o.marker)
  BY <1>0, <1>2, SyncMarkerEffect
<1>4. SameBut(o.marker) /\ disk'.marker = o.marker
  BY <1>0, <1>1, <1>3, MarkerWritten DEF SameBut
<1>5. Minded(o.marker)
  BY <1>0, <1>1, RememberedMinds
<1>6. budget' \in Budgets
  <2>1. o.faults + 1 \in Nat
    BY <1>3
  <2> QED BY <1>0, <1>1, <2>1, SpendType
<1>7. doubt' = IF doubt = "none" THEN "known" ELSE doubt
  BY <1>1 DEF Doubted
<1> QED BY <1>1, <1>3, <1>4, <1>5, <1>6, <1>7

LEMMA DoubtTypes ==
    ASSUME TypeOK, NEW failed \in BOOLEAN, DoubtedIf(failed)
    PROVE  /\ doubt' \in {"none", "known", "forgotten"}
           /\ doubt' = IF failed /\ doubt = "none" THEN "known" ELSE doubt
BY DEF TypeOK, DoubtedIf, Doubted

\* The number of a frame being filed is recorded, and spent if it goes out.
LEMMA NumberedType ==
    ASSUME TypeOK, NEW filing, eng.next \in Seqs
    PROVE  /\ Numbered(filing) \in Sessions
           /\ Numbered(filing).next = IF Goes(filing) THEN eng.next + 1 ELSE eng.next
           /\ Numbered(filing).resets = eng.resets /\ Numbered(filing).graceful = eng.graceful
           /\ Numbered(filing).ticket = eng.ticket
<1> DEFINE next == IF Goes(filing) THEN eng.next + 1 ELSE eng.next
<1>1. eng \in Sessions /\ next \in 1 .. MaxSeq + 1 /\ eng.next + 1 \in 1 .. MaxSeq + 1
  BY Parts, Constants
<1>2. Numbered(filing) = [eng EXCEPT !.recorded = eng.next + 1, !.next = next]
  BY DEF Numbered
<1> HIDE DEF next
<1>3. /\ Numbered(filing) \in Sessions /\ Numbered(filing).next = next
      /\ Numbered(filing).resets = eng.resets /\ Numbered(filing).graceful = eng.graceful
      /\ Numbered(filing).ticket = eng.ticket
  BY <1>1, <1>2 DEF Sessions
<1> QED BY <1>3 DEF next

\* A frame filed: what write_at, send_logon and a refusal do to the store, the
\* record and the doubt, `filing' being how the call ended.
Filed(what, filing) ==
    /\ disk' \in Disks /\ debt' \in Debts /\ budget' \in Budgets
    /\ filing = "ok" => /\ debt' = debt /\ disk'.marker = disk.marker
                        /\ disk'.filed[eng.next] = what /\ disk'.next = eng.next + 1
                        /\ doubt' = doubt
    /\ filing # "ok" => /\ debt'.owed /\ debt'.later
                        /\ disk.marker => disk'.marker
                        /\ doubt' = IF doubt = "none" THEN "known" ELSE doubt
    /\ disk'.filed[eng.next] \in {disk.filed[eng.next], what}
    /\ \A k \in Seqs : k # eng.next => disk'.filed[k] = disk.filed[k]
    /\ disk'.next \in {disk.next, eng.next + 1}

LEMMA FilingEffect ==
    ASSUME TypeOK, eng.next \in Seqs, NEW what \in Contents, NEW filing \in Filings,
           NEW o \in Affordable(FileOutbound(disk, eng.next, what, filing), 0),
           disk' = o.store, debt' = o.debt, Spend(o.faults), DoubtedIf(filing # "ok")
    PROVE  Filed(what, filing)
<1>1. o \in FileOutbound(disk, eng.next, what, filing) /\ o.faults + 0 <= budget.faults
  BY DEF Affordable
<1>2. /\ disk' \in Disks /\ debt' \in Debts /\ o.faults \in Nat
      /\ filing = "ok" => /\ debt' = debt /\ disk'.marker = disk.marker
                          /\ disk'.filed[eng.next] = what /\ disk'.next = eng.next + 1
      /\ filing # "ok" => /\ debt'.owed /\ debt'.later
                          /\ disk.marker => disk'.marker
      /\ disk'.filed[eng.next] \in {disk.filed[eng.next], what}
      /\ \A k \in Seqs : k # eng.next => disk'.filed[k] = disk.filed[k]
      /\ disk'.next \in {disk.next, eng.next + 1}
  BY <1>1, FileOutboundEffect
<1>3. budget' \in Budgets
  <2>1. o.faults <= budget.faults /\ budget \in Budgets
    BY <1>1, <1>2, Parts
  <2> QED BY <1>2, <2>1, SpendType
<1>4. doubt' = IF filing # "ok" /\ doubt = "none" THEN "known" ELSE doubt
  BY DoubtTypes
<1> QED BY <1>2, <1>3, <1>4 DEF Filed

-----------------------------------------------------------------------------
(* What the steps that write do, field by field                             *)

LEMMA OweDurablyEffect ==
    ASSUME TypeOK, NEW next \in {"reset", "adoptReset"}, OweDurably(next)
    PROVE  /\ SameBut(disk'.marker) /\ Minded(disk'.marker) /\ (disk.marker => disk'.marker)
           /\ debt' \in Debts /\ debt'.owed /\ budget' \in Budgets
           /\ \/ eng' = Closed
              \/ /\ disk'.marker
                 /\ eng' \in Sessions /\ eng'.pc = next /\ eng'.next = eng.next
                 /\ eng'.resets = eng.resets /\ eng'.graceful = eng.graceful
           /\ UNCHANGED <<config, buffer, wire, fate, book, doubt>>
<1>0. disk \in Disks /\ debt \in Debts /\ peer \in Peers /\ budget \in Budgets
      /\ eng \in Sessions /\ disk.marker \in BOOLEAN /\ budget.faults \in Nat
  BY Parts
<1>1. PICK o \in SyncMarker(disk.marker, Ticket(debt)) :
         /\ o.faults + 0 <= budget.faults
         /\ disk' = [disk EXCEPT !.marker = o.marker]
         /\ debt' = o.debt /\ Spend(o.faults) /\ Remembered(o.marker)
         /\ eng' = IF o.faults = 0 THEN [eng EXCEPT !.pc = next, !.ticket = TRUE] ELSE Closed
         /\ UNCHANGED <<config, buffer, wire, fate, book, doubt>>
  BY DEF OweDurably, Affordable
<1>2. Ticket(debt) \in Debts /\ Ticket(debt).owed
  BY <1>0, OweType
<1>3. /\ o.faults \in {0, 1} /\ o.marker \in BOOLEAN /\ o.debt \in Debts /\ o.debt.owed
      /\ disk.marker => o.marker
      /\ o.faults = 0 => o.marker
  BY <1>0, <1>2, SyncMarkerEffect
<1>4. SameBut(o.marker) /\ disk'.marker = o.marker
  BY <1>0, <1>1, <1>3, MarkerWritten DEF SameBut
<1>5. Minded(o.marker)
  BY <1>0, <1>1, RememberedMinds
<1>6. budget' \in Budgets
  <2>1. o.faults \in Nat /\ o.faults <= budget.faults
    BY <1>0, <1>1, <1>3
  <2> QED BY <1>0, <1>1, <2>1, SpendType
<1>7. [eng EXCEPT !.pc = next, !.ticket = TRUE] \in Sessions
  BY <1>0 DEF Sessions, Stages
<1>8. \/ eng' = Closed
      \/ /\ o.marker /\ eng' \in Sessions /\ eng'.pc = next /\ eng'.next = eng.next
         /\ eng'.resets = eng.resets /\ eng'.graceful = eng.graceful
  BY <1>0, <1>1, <1>3, <1>7 DEF Sessions
<1> QED BY <1>1, <1>3, <1>4, <1>5, <1>6, <1>8

LEMMA SendLogonEffect ==
    ASSUME TypeOK, SendLogon
    PROVE  \E filing \in Filings :
           /\ eng.next \in Seqs /\ At("logon") /\ Filed(Admin, filing)
           /\ \/ /\ Goes(filing)
                 /\ eng' \in Sessions /\ eng'.next = eng.next + 1
                 /\ eng'.pc = IF role = "initiator" THEN "wait" ELSE "settle"
                 /\ eng'.resets = eng.resets /\ eng'.graceful = eng.graceful
                 /\ wire' = <<LogonFrame>> /\ book' = LogonBook
                 /\ peer' \in Peers /\ peer'.next = peer.next
                 /\ ~eng.resets => peer'.stream = peer.stream
                 /\ eng.resets => peer'.stream = IF peer.stream = "asked" THEN "asked" ELSE "unread"
              \/ ~Goes(filing) /\ eng' = Closed /\ UNCHANGED <<wire, book, peer>>
           /\ UNCHANGED <<config, buffer, fate>>
<1>1. eng.next \in Seqs /\ At("logon") /\ UNCHANGED <<config, buffer, fate>>
  BY Parts, Constants DEF SendLogon
<1>2. PICK filing \in Filings : \E o \in Affordable(FileOutbound(disk, eng.next, Admin, filing), 0) :
          /\ disk' = o.store /\ debt' = o.debt /\ Spend(o.faults)
          /\ DoubtedIf(filing # "ok")
          /\ IF Goes(filing)
             THEN /\ eng' = [Numbered(filing) EXCEPT
                               !.pc = IF role = "initiator" THEN "wait" ELSE "settle"]
                  /\ wire' = <<LogonFrame>>
                  /\ book' = LogonBook
                  /\ peer' = [peer EXCEPT !.stream =
                                IF ~eng.resets THEN @ ELSE IF @ = "asked" THEN @ ELSE "unread"]
             ELSE eng' = Closed /\ UNCHANGED <<wire, book, peer>>
  BY DEF SendLogon
<1>3. Filed(Admin, filing)
  <2>1. Admin \in Contents
    BY Constants
  <2> QED BY <1>1, <1>2, <2>1, FilingEffect
<1>4. CASE Goes(filing)
  <2>1. Numbered(filing) \in Sessions /\ Numbered(filing).next = eng.next + 1
        /\ Numbered(filing).resets = eng.resets /\ Numbered(filing).graceful = eng.graceful
    BY <1>1, <1>4, NumberedType
  <2>2. /\ eng' \in Sessions /\ eng'.next = eng.next + 1
        /\ eng'.pc = IF role = "initiator" THEN "wait" ELSE "settle"
        /\ eng'.resets = eng.resets /\ eng'.graceful = eng.graceful
    BY <1>2, <1>4, <2>1 DEF Sessions, Stages
  <2>3. peer \in Peers
    BY Parts
  <2>4. /\ peer' \in Peers /\ peer'.next = peer.next
        /\ ~eng.resets => peer'.stream = peer.stream
        /\ eng.resets => peer'.stream = IF peer.stream = "asked" THEN "asked" ELSE "unread"
    BY <1>2, <1>4, <2>3 DEF Peers, Streams
  <2> QED BY <1>1, <1>2, <1>3, <1>4, <2>2, <2>4
<1>5. CASE ~Goes(filing)
  BY <1>1, <1>2, <1>3, <1>5
<1> QED BY <1>4, <1>5

LEMMA RefuseEffect ==
    ASSUME TypeOK, Refuse
    PROVE  \E filing \in Filings :
           /\ eng.next \in Seqs /\ Filed(Admin, filing)
           /\ \/ At("wait") /\ wire = <<>>
              \/ At("refuse")
              \/ At("logon") /\ role = "acceptor" /\ ~eng.resets
           /\ book' = IF Goes(filing) THEN [book EXCEPT ![eng.next] = Admin] ELSE book
           /\ wire' = <<>> \/ (Goes(filing) /\ wire' = <<RefusalFrame>>)
           /\ Minded(disk'.marker) /\ eng' = Closed
           /\ UNCHANGED <<config, buffer, fate>>
<1>1. /\ eng.next \in Seqs /\ eng' = Closed /\ UNCHANGED <<config, buffer, fate>>
      /\ \/ At("wait") /\ wire = <<>>
         \/ At("refuse")
         \/ At("logon") /\ role = "acceptor" /\ ~eng.resets
  BY Parts, Constants DEF Refuse
<1>2. PICK filing \in Filings : \E o \in Affordable(FileOutbound(disk, eng.next, Admin, filing), 0) :
          /\ disk' = o.store /\ debt' = o.debt /\ Spend(o.faults)
          /\ DoubtedIf(filing # "ok")
          /\ Remembered(o.store.marker)
          /\ IF Goes(filing)
             THEN /\ book' = [book EXCEPT ![eng.next] = Admin]
                  /\ wire' \in {<<>>, <<RefusalFrame>>}
             ELSE UNCHANGED book /\ wire' = <<>>
  BY DEF Refuse
<1>3. Filed(Admin, filing)
  <2>1. Admin \in Contents
    BY Constants
  <2> QED BY <1>1, <1>2, <2>1, FilingEffect
<1>4. Minded(disk'.marker)
  BY <1>2, Parts, RememberedMinds
<1> QED BY <1>1, <1>2, <1>3, <1>4

LEMMA WriteAtEffect ==
    ASSUME TypeOK, eng.next \in Seqs, NEW what \in Contents, NEW pc \in {"active", "leaving"},
           WriteAt(what, pc)
    PROVE  \E filing \in Filings :
           /\ Filed(what, filing) /\ Minded(disk'.marker)
           /\ eng' \in Sessions /\ eng'.resets = eng.resets /\ eng'.graceful = eng.graceful
           /\ \/ /\ Goes(filing) /\ eng'.pc = pc /\ eng'.next = eng.next + 1
                 /\ buffer' = Append(buffer, DataFrame(what))
                 /\ book' = [book EXCEPT ![eng.next] = what]
                 /\ fate' = [m \in Messages |-> IF m = what THEN "fed" ELSE fate[m]]
              \/ /\ ~Goes(filing) /\ eng'.pc = "closing" /\ eng'.next = eng.next
                 /\ UNCHANGED <<buffer, book>>
                 /\ fate' = [m \in Messages |-> IF m = what THEN "refused" ELSE fate[m]]
           /\ UNCHANGED <<config, wire>>
<1>2. PICK filing \in Filings : \E o \in Affordable(FileOutbound(disk, eng.next, what, filing), 0) :
       /\ disk' = o.store /\ debt' = o.debt /\ Spend(o.faults)
       /\ eng' = [Numbered(filing) EXCEPT !.pc = IF Goes(filing) THEN pc ELSE "closing"]
       /\ IF Goes(filing)
          THEN /\ buffer' = Append(buffer, DataFrame(what))
               /\ book' = [book EXCEPT ![eng.next] = what]
          ELSE UNCHANGED <<buffer, book>>
       /\ fate' = [m \in Messages |-> IF m # what THEN fate[m]
                                      ELSE IF Goes(filing) THEN "fed" ELSE "refused"]
       /\ Remembered(o.store.marker) /\ DoubtedIf(filing # "ok")
       /\ UNCHANGED <<config, wire>>
  BY DEF WriteAt
<1>3. Filed(what, filing)
  BY <1>2, FilingEffect
<1>4. Minded(disk'.marker)
  BY <1>2, Parts, RememberedMinds
<1>5. /\ Numbered(filing) \in Sessions
      /\ Numbered(filing).next = IF Goes(filing) THEN eng.next + 1 ELSE eng.next
      /\ Numbered(filing).resets = eng.resets /\ Numbered(filing).graceful = eng.graceful
  BY NumberedType
<1>6. /\ eng' \in Sessions /\ eng'.next = Numbered(filing).next
      /\ eng'.pc = IF Goes(filing) THEN pc ELSE "closing"
      /\ eng'.resets = eng.resets /\ eng'.graceful = eng.graceful
  BY <1>2, <1>5 DEF Sessions, Stages
<1>7. CASE Goes(filing)
  BY <1>2, <1>3, <1>4, <1>5, <1>6, <1>7
<1>8. CASE ~Goes(filing)
  BY <1>2, <1>3, <1>4, <1>5, <1>6, <1>8
<1> QED BY <1>7, <1>8

LEMMA ResetToType ==
    ASSUME disk \in Disks, NEW n \in 1 .. MaxSeq + 1
    PROVE  /\ ResetTo(disk, n) \in Disks /\ ResetTo(disk, n).next = n
           /\ ResetTo(disk, n).filed = NoFrames /\ ResetTo(disk, n).marker = disk.marker
BY Constants DEF ResetTo, Disks

\* A failed mutation of one half or the other: the store as it was or as it
\* would have been, the debt recorded and the marker tried.
LEMMA FailedWriteEffect ==
    ASSUME TypeOK, NEW d \in Disks, d.marker = disk.marker,
           NEW o \in Affordable(SyncMarker(disk.marker, Owe(debt)), 1),
           disk' = [d EXCEPT !.marker = o.marker], debt' = o.debt, Spend(o.faults + 1), Doubted
    PROVE  /\ disk' \in Disks /\ disk'.next = d.next /\ disk'.filed = d.filed
           /\ disk'.marker = o.marker /\ (disk.marker => disk'.marker)
           /\ debt' \in Debts /\ debt'.owed /\ debt'.later /\ budget' \in Budgets
           /\ doubt' = IF doubt = "none" THEN "known" ELSE doubt
<1>0. debt \in Debts /\ budget \in Budgets /\ disk.marker \in BOOLEAN /\ budget.faults \in Nat
  BY Parts
<1>1. o \in SyncMarker(disk.marker, Owe(debt)) /\ o.faults + 1 <= budget.faults
  BY DEF Affordable
<1>2. Owe(debt) \in Debts /\ Owe(debt).owed /\ Owe(debt).later
  BY <1>0, OweType
<1>3. /\ o.faults \in {0, 1} /\ o.marker \in BOOLEAN /\ o.debt \in Debts
      /\ o.debt.owed /\ o.debt.later /\ (disk.marker => o.marker)
  BY <1>0, <1>1, <1>2, SyncMarkerEffect
<1>4. /\ disk' \in Disks /\ disk'.next = d.next /\ disk'.filed = d.filed /\ disk'.marker = o.marker
  BY <1>3 DEF Disks
<1>5. budget' \in Budgets
  <2>1. o.faults + 1 \in Nat
    BY <1>3
  <2> QED BY <1>0, <1>1, <2>1, SpendType
<1>6. doubt' = IF doubt = "none" THEN "known" ELSE doubt
  BY DEF Doubted
<1> QED BY <1>3, <1>4, <1>5, <1>6

LEMMA SeedResetEffect ==
    ASSUME TypeOK, SeedReset
    PROVE  /\ At("reset") /\ disk' \in Disks /\ disk'.marker = disk.marker /\ budget' \in Budgets
           /\ \/ /\ disk'.next = 1 /\ disk'.filed = NoFrames /\ doubt' = "none"
                 /\ eng' \in Sessions /\ eng'.pc = "logon" /\ eng'.next = 1
                 /\ eng'.resets = eng.resets /\ eng'.graceful = eng.graceful
              \/ /\ disk'.next \in {disk.next, 1}
                 /\ doubt' = IF doubt = "none" THEN "known" ELSE doubt
                 /\ eng' = Closed
           /\ UNCHANGED <<config, debt, buffer, wire, peer, fate, book>>
<1>0. /\ disk \in Disks /\ eng \in Sessions /\ budget \in Budgets /\ 1 \in 1 .. MaxSeq + 1
      /\ budget.faults \in Nat
  BY Parts, Constants
<1>1. /\ ResetTo(disk, 1) \in Disks /\ ResetTo(disk, 1).next = 1
      /\ ResetTo(disk, 1).filed = NoFrames /\ ResetTo(disk, 1).marker = disk.marker
  BY <1>0, ResetToType
<1>2. At("reset") /\ UNCHANGED <<config, debt, buffer, wire, peer, fate, book>>
  BY DEF SeedReset
<1>3. CASE /\ disk' = ResetTo(disk, 1) /\ doubt' = "none" /\ UNCHANGED budget
           /\ eng' = [eng EXCEPT !.pc = "logon", !.next = 1, !.recorded = 1]
  <2>1. /\ eng' \in Sessions /\ eng'.pc = "logon" /\ eng'.next = 1
        /\ eng'.resets = eng.resets /\ eng'.graceful = eng.graceful
    BY <1>0, <1>3 DEF Sessions, Stages
  <2> QED BY <1>0, <1>1, <1>2, <1>3, <2>1
<1>4. CASE /\ budget.faults > 0 /\ Spend(1) /\ Doubted
           /\ disk' \in {disk, ResetTo(disk, 1)} /\ eng' = Closed
  <2>1. budget' \in Budgets
    BY <1>0, <1>4, SpendType
  <2> QED BY <1>0, <1>1, <1>2, <1>4, <2>1 DEF Doubted
<1> QED BY <1>3, <1>4 DEF SeedReset

LEMMA AdoptResetEffect ==
    ASSUME TypeOK, AdoptReset, 2 \in 1 .. MaxSeq + 1
    PROVE  /\ At("adoptReset") /\ disk' \in Disks /\ debt' \in Debts /\ budget' \in Budgets
           /\ \/ /\ disk'.next = 2 /\ disk'.filed = NoFrames /\ disk'.marker = disk.marker
                 /\ doubt' = "none"
                 /\ eng' \in Sessions /\ eng'.pc = "settle" /\ eng'.next = 2
                 /\ eng'.resets = eng.resets /\ eng'.graceful = eng.graceful
                 /\ peer' \in Peers /\ peer'.next = peer.next /\ peer'.stream = "agreed"
              \/ /\ disk'.next \in {disk.next, 2} /\ (disk.marker => disk'.marker)
                 /\ debt'.owed /\ eng' = Closed /\ UNCHANGED peer
                 /\ doubt' = IF doubt = "none" THEN "known" ELSE doubt
           /\ UNCHANGED <<config, buffer, wire, fate, book>>
<1>0. /\ disk \in Disks /\ eng \in Sessions /\ budget \in Budgets /\ debt \in Debts /\ peer \in Peers
  BY Parts
<1>1. /\ ResetTo(disk, 2) \in Disks /\ ResetTo(disk, 2).next = 2
      /\ ResetTo(disk, 2).filed = NoFrames /\ ResetTo(disk, 2).marker = disk.marker
  BY <1>0, ResetToType
<1>2. At("adoptReset") /\ UNCHANGED <<config, buffer, wire, fate, book>>
  BY DEF AdoptReset
<1>3. CASE /\ disk' = ResetTo(disk, 2) /\ debt' = Pay(debt) /\ doubt' = "none" /\ UNCHANGED budget
           /\ eng' = [eng EXCEPT !.pc = "settle", !.next = 2, !.recorded = 2, !.ticket = FALSE]
           /\ peer' = [peer EXCEPT !.stream = "agreed"]
  <2>1. /\ eng' \in Sessions /\ eng'.pc = "settle" /\ eng'.next = 2
        /\ eng'.resets = eng.resets /\ eng'.graceful = eng.graceful
    BY <1>0, <1>3 DEF Sessions, Stages
  <2>2. peer' \in Peers /\ peer'.next = peer.next /\ peer'.stream = "agreed"
    BY <1>0, <1>3 DEF Peers, Streams
  <2>3. debt' \in Debts
    BY <1>0, <1>3, OweType
  <2> QED BY <1>0, <1>1, <1>2, <1>3, <2>1, <2>2, <2>3
<1>4. ASSUME NEW d \in {disk, ResetTo(disk, 2)},
             NEW o \in Affordable(SyncMarker(disk.marker, Owe(debt)), 1),
             disk' = [d EXCEPT !.marker = o.marker], debt' = o.debt, Spend(o.faults + 1), Doubted,
             eng' = Closed, UNCHANGED peer
      PROVE  /\ disk' \in Disks /\ disk'.next \in {disk.next, 2} /\ (disk.marker => disk'.marker)
             /\ debt' \in Debts /\ debt'.owed /\ budget' \in Budgets
             /\ doubt' = IF doubt = "none" THEN "known" ELSE doubt
  <2>1. d \in Disks /\ d.marker = disk.marker /\ d.next \in {disk.next, 2}
    BY <1>0, <1>1
  <2> QED BY <1>4, <2>1, FailedWriteEffect
<1>5. CASE \E d \in {disk, ResetTo(disk, 2)} :
           \E o \in Affordable(SyncMarker(disk.marker, Owe(debt)), 1) :
             /\ disk' = [d EXCEPT !.marker = o.marker]
             /\ debt' = o.debt
             /\ Spend(o.faults + 1) /\ Doubted
             /\ eng' = Closed
             /\ UNCHANGED peer
  BY <1>2, <1>4, <1>5
<1> QED BY <1>3, <1>5 DEF AdoptReset

LEMMA SettleEffect ==
    ASSUME TypeOK, Settle
    PROVE  /\ At("settle") /\ SameBut(disk'.marker) /\ Minded(disk'.marker)
           /\ debt' \in Debts /\ budget' \in Budgets /\ (disk'.marker => debt'.owed)
           /\ \/ eng' = Closed
              \/ /\ eng' \in Sessions /\ eng'.pc = "active" /\ eng'.next = eng.next
                 /\ eng'.graceful = eng.graceful
           /\ UNCHANGED <<config, buffer, wire, fate, book, doubt>>
<1>0. disk \in Disks /\ debt \in Debts /\ peer \in Peers /\ budget \in Budgets
      /\ eng \in Sessions /\ disk.marker \in BOOLEAN /\ budget.faults \in Nat
  BY Parts
<1> DEFINE paid == IF eng.ticket THEN Pay(debt) ELSE debt
<1>1. PICK o \in SyncMarker(disk.marker, paid) :
         /\ o.faults + 0 <= budget.faults
         /\ disk' = [disk EXCEPT !.marker = o.marker]
         /\ debt' = o.debt /\ Spend(o.faults) /\ Remembered(o.marker)
         /\ eng' = IF o.faults > 0 /\ policy = "CloseSession" THEN Closed
                   ELSE [eng EXCEPT !.pc = "active", !.ticket = FALSE]
  BY DEF Settle, Affordable
<1>2. paid \in Debts
  BY <1>0, OweType
<1> HIDE DEF paid
<1>3. o.faults \in {0, 1} /\ o.marker \in BOOLEAN /\ o.debt \in Debts /\ (o.marker => o.debt.owed)
  BY <1>0, <1>2, SyncMarkerEffect
<1>4. SameBut(o.marker) /\ disk'.marker = o.marker
  BY <1>0, <1>1, <1>3, MarkerWritten DEF SameBut
<1>5. Minded(o.marker)
  BY <1>0, <1>1, RememberedMinds
<1>6. budget' \in Budgets
  <2>1. o.faults \in Nat /\ o.faults <= budget.faults
    BY <1>0, <1>1, <1>3
  <2> QED BY <1>0, <1>1, <2>1, SpendType
<1>7. \/ eng' = Closed
      \/ /\ eng' \in Sessions /\ eng'.pc = "active" /\ eng'.next = eng.next
         /\ eng'.graceful = eng.graceful
  BY <1>0, <1>1 DEF Sessions, Stages
<1> QED BY <1>1, <1>3, <1>4, <1>5, <1>6, <1>7 DEF Settle

LEMMA DrainedEffect ==
    ASSUME TypeOK, Drained
    PROVE  /\ At("drain") /\ eng' \in Sessions /\ eng'.graceful = eng.graceful
           /\ SameBut(disk'.marker) /\ Minded(disk'.marker) /\ (disk.marker => disk'.marker)
           /\ debt' \in Debts /\ budget' \in Budgets
           /\ \/ eng.graceful /\ ResetOnLogout /\ eng'.pc = "closeReset" /\ eng'.next = 1 /\ debt'.owed
              \/ /\ ~(eng.graceful /\ ResetOnLogout) /\ eng'.pc = "counters" /\ eng'.next = eng.next
                 /\ UNCHANGED <<disk, debt, budget, peer>>
           /\ UNCHANGED <<config, buffer, wire, fate, book, doubt>>
<1>0. disk \in Disks /\ debt \in Debts /\ peer \in Peers /\ budget \in Budgets
      /\ eng \in Sessions /\ disk.marker \in BOOLEAN /\ budget.faults \in Nat /\ 1 \in 1 .. MaxSeq + 1
  BY Parts, Constants
<1>d. At("drain") /\ UNCHANGED <<config, buffer, wire, fate, book, doubt>>
  BY DEF Drained
<1>1. CASE eng.graceful /\ ResetOnLogout
  <2>1. PICK o \in SyncMarker(disk.marker, Ticket(debt)) :
           /\ o.faults + 0 <= budget.faults
           /\ disk' = [disk EXCEPT !.marker = o.marker]
           /\ debt' = o.debt /\ Spend(o.faults) /\ Remembered(o.marker)
           /\ eng' = [eng EXCEPT !.pc = "closeReset", !.next = 1]
    BY <1>1 DEF Drained, Affordable
  <2>2. Ticket(debt) \in Debts /\ Ticket(debt).owed
    BY <1>0, OweType
  <2>3. /\ o.faults \in {0, 1} /\ o.marker \in BOOLEAN /\ o.debt \in Debts /\ o.debt.owed
        /\ disk.marker => o.marker
    BY <1>0, <2>2, SyncMarkerEffect
  <2>4. SameBut(o.marker) /\ disk'.marker = o.marker
    BY <1>0, <2>1, <2>3, MarkerWritten DEF SameBut
  <2>5. Minded(o.marker)
    BY <1>0, <2>1, RememberedMinds
  <2>6. budget' \in Budgets
    <3>1. o.faults \in Nat /\ o.faults <= budget.faults
      BY <1>0, <2>1, <2>3
    <3> QED BY <1>0, <2>1, <3>1, SpendType
  <2>7. eng' \in Sessions /\ eng'.pc = "closeReset" /\ eng'.next = 1 /\ eng'.graceful = eng.graceful
    BY <1>0, <2>1 DEF Sessions, Stages
  <2> QED BY <1>1, <1>d, <2>1, <2>3, <2>4, <2>5, <2>6, <2>7
<1>2. CASE ~(eng.graceful /\ ResetOnLogout)
  <2>1. eng' = [eng EXCEPT !.pc = "counters"] /\ UNCHANGED <<disk, debt, budget, peer>>
    BY <1>2 DEF Drained
  <2>2. /\ eng' \in Sessions /\ eng'.pc = "counters" /\ eng'.next = eng.next
        /\ eng'.graceful = eng.graceful
    BY <1>0, <2>1 DEF Sessions, Stages
  <2> QED BY <1>0, <1>2, <1>d, <2>1, <2>2 DEF SameBut, Minded
<1> QED BY <1>1, <1>2

LEMMA CloseResetEffect ==
    ASSUME TypeOK, CloseReset
    PROVE  /\ At("closeReset") /\ disk' \in Disks /\ disk'.marker = disk.marker
           /\ debt' \in Debts /\ budget' \in Budgets
           /\ \/ /\ disk'.next = 1 /\ disk'.filed = NoFrames /\ doubt' = "none"
                 /\ eng' \in Sessions /\ eng'.pc = "closeClear" /\ eng'.next = eng.next
                 /\ eng'.graceful = eng.graceful
                 /\ peer' \in Peers /\ peer'.next = peer.next /\ peer'.stream = "agreed"
              \/ /\ disk'.next \in {disk.next, 1}
                 /\ doubt' = IF doubt = "none" THEN "known" ELSE doubt
                 /\ eng' = Closed /\ UNCHANGED <<debt, peer>>
           /\ UNCHANGED <<config, buffer, wire, fate, book>>
<1>0. /\ disk \in Disks /\ eng \in Sessions /\ budget \in Budgets /\ 1 \in 1 .. MaxSeq + 1
      /\ budget.faults \in Nat /\ debt \in Debts /\ peer \in Peers
  BY Parts, Constants
<1>1. /\ ResetTo(disk, 1) \in Disks /\ ResetTo(disk, 1).next = 1
      /\ ResetTo(disk, 1).filed = NoFrames /\ ResetTo(disk, 1).marker = disk.marker
  BY <1>0, ResetToType
<1>2. At("closeReset") /\ UNCHANGED <<config, buffer, wire, fate, book>>
  BY DEF CloseReset
<1>3. CASE /\ disk' = ResetTo(disk, 1) /\ doubt' = "none" /\ UNCHANGED budget
           /\ debt' = Pay(debt) /\ peer' = [peer EXCEPT !.stream = "agreed"]
           /\ eng' = [eng EXCEPT !.pc = "closeClear"]
  <2>1. /\ eng' \in Sessions /\ eng'.pc = "closeClear" /\ eng'.next = eng.next
        /\ eng'.graceful = eng.graceful
    BY <1>0, <1>3 DEF Sessions, Stages
  <2>2. peer' \in Peers /\ peer'.next = peer.next /\ peer'.stream = "agreed" /\ debt' \in Debts
    BY <1>0, <1>3, OweType DEF Peers, Streams
  <2> QED BY <1>0, <1>1, <1>2, <1>3, <2>1, <2>2
<1>4. CASE /\ budget.faults > 0 /\ Spend(1) /\ Doubted
           /\ disk' \in {disk, ResetTo(disk, 1)} /\ eng' = Closed /\ UNCHANGED <<debt, peer>>
  <2>1. budget' \in Budgets
    BY <1>0, <1>4, SpendType
  <2> QED BY <1>0, <1>1, <1>2, <1>4, <2>1 DEF Doubted
<1> QED BY <1>3, <1>4 DEF CloseReset

LEMMA CloseClearEffect ==
    ASSUME TypeOK, CloseClear
    PROVE  /\ At("closeClear") /\ SameBut(disk'.marker) /\ debt' \in Debts /\ budget' \in Budgets
           /\ disk'.marker => debt'.owed
           /\ eng' \in Sessions /\ eng'.pc = "counters" /\ eng'.next = eng.next
           /\ eng'.graceful = eng.graceful
           /\ UNCHANGED <<config, buffer, wire, peer, fate, book, doubt>>
<1>0. disk \in Disks /\ debt \in Debts /\ budget \in Budgets
      /\ eng \in Sessions /\ disk.marker \in BOOLEAN /\ budget.faults \in Nat
  BY Parts
<1>1. PICK o \in SyncMarker(disk.marker, debt) :
         /\ o.faults + 0 <= budget.faults
         /\ disk' = [disk EXCEPT !.marker = o.marker]
         /\ debt' = o.debt /\ Spend(o.faults)
  BY DEF CloseClear, Affordable
<1>2. o.faults \in {0, 1} /\ o.marker \in BOOLEAN /\ o.debt \in Debts /\ (o.marker => o.debt.owed)
  BY <1>0, SyncMarkerEffect
<1>3. SameBut(o.marker) /\ disk'.marker = o.marker
  BY <1>0, <1>1, <1>2, MarkerWritten DEF SameBut
<1>4. budget' \in Budgets
  <2>1. o.faults \in Nat /\ o.faults <= budget.faults
    BY <1>0, <1>1, <1>2
  <2> QED BY <1>0, <1>1, <2>1, SpendType
<1>5. /\ eng' \in Sessions /\ eng'.pc = "counters" /\ eng'.next = eng.next
      /\ eng'.graceful = eng.graceful
  BY <1>0 DEF CloseClear, Sessions, Stages
<1> QED BY <1>1, <1>2, <1>3, <1>4, <1>5 DEF CloseClear

LEMMA WriteCountersEffect ==
    ASSUME TypeOK, WriteCounters
    PROVE  /\ At("counters") /\ disk' \in Disks /\ disk'.filed = disk.filed
           /\ disk'.next \in {disk.next, eng.next} /\ (disk.marker => disk'.marker)
           /\ debt' \in Debts /\ budget' \in Budgets /\ Minded(disk'.marker) /\ eng' = Closed
           /\ \/ disk'.marker = disk.marker /\ UNCHANGED <<debt, doubt, peer>>
              \/ debt'.owed /\ doubt' = IF doubt = "none" THEN "known" ELSE doubt
           /\ UNCHANGED <<config, buffer, wire, fate, book>>
<1>0. disk \in Disks /\ debt \in Debts /\ peer \in Peers /\ budget \in Budgets
      /\ eng.next \in 1 .. MaxSeq + 1
  BY Parts
<1>1. /\ At("counters") /\ eng' = Closed /\ UNCHANGED <<config, buffer, wire, fate, book>>
  BY DEF WriteCounters
<1>2. /\ [disk EXCEPT !.next = eng.next] \in Disks
      /\ [disk EXCEPT !.next = eng.next].next = eng.next
      /\ [disk EXCEPT !.next = eng.next].filed = disk.filed
      /\ [disk EXCEPT !.next = eng.next].marker = disk.marker
  BY <1>0 DEF Disks
<1>3. CASE /\ disk' = IF eng.next = eng.recorded THEN disk ELSE [disk EXCEPT !.next = eng.next]
           /\ UNCHANGED <<debt, budget, peer, doubt>>
  BY <1>0, <1>1, <1>2, <1>3 DEF Minded
<1>4. ASSUME NEW d \in {disk, [disk EXCEPT !.next = eng.next]},
             NEW o \in Affordable(SyncMarker(disk.marker, Owe(debt)), 1),
             disk' = [d EXCEPT !.marker = o.marker], debt' = o.debt, Spend(o.faults + 1), Doubted,
             Remembered(o.marker)
      PROVE  /\ disk' \in Disks /\ disk'.filed = disk.filed
             /\ disk'.next \in {disk.next, eng.next} /\ (disk.marker => disk'.marker)
             /\ debt' \in Debts /\ budget' \in Budgets /\ Minded(disk'.marker)
             /\ debt'.owed /\ doubt' = IF doubt = "none" THEN "known" ELSE doubt
  <2>1. d \in Disks /\ d.marker = disk.marker /\ d.next \in {disk.next, eng.next} /\ d.filed = disk.filed
    BY <1>0, <1>2
  <2>2. /\ disk' \in Disks /\ disk'.next = d.next /\ disk'.filed = d.filed
        /\ disk'.marker = o.marker /\ (disk.marker => disk'.marker)
        /\ debt' \in Debts /\ debt'.owed /\ budget' \in Budgets
        /\ doubt' = IF doubt = "none" THEN "known" ELSE doubt
    BY <1>4, <2>1, FailedWriteEffect
  <2>3. Minded(disk'.marker)
    BY <1>0, <1>4, <2>2, RememberedMinds
  <2> QED BY <2>1, <2>2, <2>3
<1>5. CASE \E d \in {disk, [disk EXCEPT !.next = eng.next]} :
           \E o \in Affordable(SyncMarker(disk.marker, Owe(debt)), 1) :
                /\ disk' = [d EXCEPT !.marker = o.marker]
                /\ debt' = o.debt /\ Spend(o.faults + 1) /\ Doubted
                /\ Remembered(o.marker)
  BY <1>1, <1>4, <1>5
<1> QED BY <1>3, <1>5 DEF WriteCounters

LEMMA DiesEffect ==
    ASSUME TypeOK, NEW filing, Dies(filing)
    PROVE  /\ policy = "CloseSession" /\ eng' = Closed /\ buffer' = <<>>
           /\ debt' \in Debts /\ budget' \in Budgets
           /\ doubt' = IF doubt = "known" /\ ~disk.marker THEN "forgotten" ELSE doubt
           /\ fate' = Dropped(filing) /\ UNCHANGED <<config, wire, peer>>
<1>1. budget \in Budgets /\ budget.crashes > 0
  BY Parts DEF Dies
<1>2. budget.crashes - 1 \in 0 .. MaxCrashes
  BY <1>1, Constants DEF Budgets
<1>3. budget' \in Budgets
  BY <1>1, <1>2 DEF Dies, Budgets
<1> QED BY <1>3 DEF Dies, Debts

LEMMA CrashInFilingEffect ==
    ASSUME TypeOK, CrashInFiling
    PROVE  \E what \in {Admin} \union Messages, filing \in {"partial", "landed"} :
           /\ Dies(what) /\ eng.next \in Seqs
           /\ \/ what = Admin /\ eng.pc \in {"active", "logon", "refuse"}
              \/ what \in Messages /\ eng.pc = "active" /\ fate[what] = "queued"
           /\ disk' \in Disks /\ disk'.marker = disk.marker
           /\ disk'.filed[eng.next] = what
           /\ \A k \in Seqs : k # eng.next => disk'.filed[k] = disk.filed[k]
           /\ disk'.next = IF filing = "landed" THEN eng.next + 1 ELSE disk.next
           /\ book' = IF filing = "partial" THEN book
                      ELSE IF At("logon") THEN LogonBook ELSE [book EXCEPT ![eng.next] = what]
<1>0. disk \in Disks /\ eng.next \in 1 .. MaxSeq + 1
  BY Parts
<1>1. PICK what \in {Admin} \union Messages, filing \in {"partial", "landed"} :
          /\ Dies(what)
          /\ \/ what = Admin /\ eng.pc \in {"active", "logon", "refuse"}
             \/ what # Admin /\ eng.pc = "active" /\ fate[what] = "queued"
          /\ eng.next <= MaxSeq
          /\ disk' = FiledOn(disk, eng.next, what, filing)
          /\ book' = IF filing = "partial" THEN book
                     ELSE IF At("logon") THEN LogonBook ELSE [book EXCEPT ![eng.next] = what]
  BY DEF CrashInFiling
<1>2. eng.next \in Seqs /\ eng.next + 1 \in 1 .. MaxSeq + 1 /\ what \in Contents
  BY <1>0, <1>1, Constants
<1> DEFINE filed == [disk.filed EXCEPT ![eng.next] = what]
           next == IF filing = "landed" THEN eng.next + 1 ELSE disk.next
<1>3. filed \in [Seqs -> Contents] /\ next \in 1 .. MaxSeq + 1
      /\ filed[eng.next] = what /\ \A k \in Seqs : k # eng.next => filed[k] = disk.filed[k]
  BY <1>0, <1>2 DEF Disks
<1>4. disk' = [disk EXCEPT !.filed = filed, !.next = next]
  BY <1>0, <1>1 DEF FiledOn, Disks
<1> HIDE DEF filed, next
<1>5. disk' \in Disks /\ disk'.marker = disk.marker /\ disk'.filed = filed /\ disk'.next = next
  BY <1>0, <1>3, <1>4 DEF Disks
<1> QED BY <1>1, <1>2, <1>3, <1>5 DEF next

-----------------------------------------------------------------------------
(* The line: the frames on the wire `w', then those in the buffer `b'       *)

\* Numbers grow along the line, and only its first frame resets, as number 1.
InOrder(w, b) ==
    /\ \A i, j \in 1 .. Len(w) : i < j => w[i].seq < w[j].seq
    /\ \A i, j \in 1 .. Len(b) : i < j => b[i].seq < b[j].seq
    /\ \A i \in 1 .. Len(w), j \in 1 .. Len(b) : w[i].seq < b[j].seq
    /\ \A i \in 1 .. Len(w) : w[i].resets => i = 1 /\ w[i].seq = 1
    /\ \A i \in 1 .. Len(b) : ~b[i].resets

Below(w, b, n) ==
    /\ \A i \in 1 .. Len(w) : w[i].seq < n
    /\ \A i \in 1 .. Len(b) : b[i].seq < n
From(w, b, n) ==
    /\ \A i \in 1 .. Len(w) : n <= w[i].seq
    /\ \A i \in 1 .. Len(b) : n <= b[i].seq
HeadResets(w) == w # <<>> /\ Head(w).resets

\* A tracked message is in the buffer once.
Distinct(b) ==
    \A i, j \in 1 .. Len(b) : b[i].what \in Messages /\ b[i].what = b[j].what => i = j

LEMMA FrameFields ==
    ASSUME NEW s \in Seq(Frame), NEW i \in 1 .. Len(s)
    PROVE  /\ s[i] \in Frame /\ s[i].seq \in Seqs /\ s[i].seq \in Nat
           /\ s[i].what \in Contents /\ s[i].resets \in BOOLEAN
<1>1. s[i] \in Frame
  BY ElementOfSeq
<1> QED BY <1>1, Constants DEF Frame, Seqs

LEMMA EmptyLine ==
    ASSUME NEW n \in Nat
    PROVE  /\ InOrder(<<>>, <<>>) /\ Below(<<>>, <<>>, n) /\ From(<<>>, <<>>, n)
           /\ ~HeadResets(<<>>) /\ Distinct(<<>>) /\ InFlight(<<>>) = {}
BY DEF InOrder, Below, From, HeadResets, Distinct, InFlight

\* What the stream has not taken is dropped.
LEMMA DropBuffer ==
    ASSUME NEW w, NEW b, InOrder(w, b), NEW n
    PROVE  /\ InOrder(w, <<>>)
           /\ Below(w, b, n) => Below(w, <<>>, n)
           /\ From(w, b, n) => From(w, <<>>, n)
<1>1. Len(<<>>) = 0
  OBVIOUS
<1> QED BY <1>1 DEF InOrder, Below, From

LEMMA BelowMore ==
    ASSUME NEW w \in Seq(Frame), NEW b \in Seq(Frame), NEW n \in Nat, NEW k \in Nat, n <= k, Below(w, b, n)
    PROVE  Below(w, b, k)
<1>1. /\ \A i \in 1 .. Len(w) : w[i].seq \in Nat
      /\ \A i \in 1 .. Len(b) : b[i].seq \in Nat
  BY FrameFields
<1>2. \A s \in Nat : s < n => s < k
  OBVIOUS
<1> QED BY ONLY <1>1, <1>2, Below(w, b, n) DEF Below

\* The handshake's Logon is alone on the line.
LEMMA OneFrame ==
    ASSUME NEW f \in Frame, f.resets => f.seq = 1
    PROVE  /\ <<f>> \in Seq(Frame) /\ InOrder(<<f>>, <<>>) /\ InFlight(<<f>>) = {f.what}
           /\ HeadResets(<<f>>) <=> f.resets
           /\ \A n \in Nat : f.seq < n => Below(<<f>>, <<>>, n)
           /\ \A n \in Nat : n <= f.seq => From(<<f>>, <<>>, n)
<1>1. Len(<<f>>) = 1 /\ <<f>>[1] = f /\ Len(<<>>) = 0 /\ <<f>> # <<>> /\ Head(<<f>>) = f
      /\ <<f>> \in Seq(Frame) /\ DOMAIN <<f>> = 1 .. 1
  OBVIOUS
<1>2. InFlight(<<f>>) = {f.what}
  BY <1>1 DEF InFlight
<1> QED BY <1>1, <1>2 DEF InOrder, HeadResets, Below, From

\* A frame is fed: it takes the next number.
LEMMA FeedFrame ==
    ASSUME NEW w \in Seq(Frame), NEW b \in Seq(Frame), InOrder(w, b),
           NEW f \in Frame, Below(w, b, f.seq), ~f.resets
    PROVE  /\ Append(b, f) \in Seq(Frame) /\ InOrder(w, Append(b, f))
           /\ Below(w, Append(b, f), f.seq + 1)
           /\ \A n \in Nat : From(w, b, n) /\ n <= f.seq => From(w, Append(b, f), n)
           /\ InFlight(Append(b, f)) = InFlight(b) \union {f.what}
           /\ Distinct(b) /\ (f.what \in Messages => f.what \notin InFlight(b)) => Distinct(Append(b, f))
<1> DEFINE fed == Append(b, f)
<1>1. /\ fed \in Seq(Frame) /\ Len(fed) = Len(b) + 1 /\ Len(b) \in Nat
      /\ fed[Len(b) + 1] = f /\ \A i \in 1 .. Len(b) : fed[i] = b[i]
  BY AppendProperties, LenProperties
<1>2. DOMAIN fed = 1 .. Len(b) + 1 /\ DOMAIN b = 1 .. Len(b)
  BY <1>1, LenProperties
<1>3. /\ \A i \in 1 .. Len(w) : w[i].seq \in Nat /\ w[i].seq < f.seq
      /\ \A i \in 1 .. Len(b) : b[i].seq \in Nat /\ b[i].seq < f.seq
      /\ f.seq \in Nat
  BY FrameFields, Constants DEF Below, Frame, Seqs
<1>4. \A i \in 1 .. Len(b) + 1 : i \in 1 .. Len(b) \/ i = Len(b) + 1
  BY <1>1
<1> HIDE DEF fed
<1>5. InOrder(w, fed)
  <2>1. \A i, j \in 1 .. Len(fed) : i < j => fed[i].seq < fed[j].seq
    <3>1. \A i \in 1 .. Len(b), j \in 1 .. Len(b) + 1 : j < i => j \in 1 .. Len(b)
      BY <1>1
    <3>2. \A i \in 1 .. Len(b) : i < Len(b) + 1 /\ ~(Len(b) + 1 < i) /\ i # Len(b) + 1
      BY <1>1
    <3>3. ~(Len(b) + 1 < Len(b) + 1)
      BY <1>1
    <3> QED BY ONLY <1>1, <1>3, <1>4, <3>1, <3>2, <3>3, InOrder(w, b) DEF InOrder
  <2>2. \A i \in 1 .. Len(w), j \in 1 .. Len(fed) : w[i].seq < fed[j].seq
    BY ONLY <1>1, <1>3, <1>4, InOrder(w, b) DEF InOrder
  <2>3. \A i \in 1 .. Len(fed) : ~fed[i].resets
    BY ONLY <1>1, <1>4, InOrder(w, b), ~f.resets DEF InOrder
  <2> QED BY <2>1, <2>2, <2>3 DEF InOrder
<1>6. Below(w, fed, f.seq + 1)
  <2>1. \A s \in Nat : s < f.seq => s < f.seq + 1
    BY <1>3
  <2>2. f.seq < f.seq + 1
    BY <1>3
  <2> QED BY ONLY <1>1, <1>3, <1>4, <2>1, <2>2 DEF Below
<1>7. \A n \in Nat : From(w, b, n) /\ n <= f.seq => From(w, fed, n)
  BY <1>1, <1>3, <1>4 DEF From
<1>8. InFlight(fed) = InFlight(b) \union {f.what}
  <2>1. \A i \in DOMAIN fed : fed[i].what \in InFlight(b) \union {f.what}
    BY <1>1, <1>2, <1>4 DEF InFlight
  <2>2. \A i \in DOMAIN b : b[i].what \in InFlight(fed)
    BY <1>1, <1>2 DEF InFlight
  <2>3. f.what \in InFlight(fed)
    BY <1>1, <1>2 DEF InFlight
  <2> QED BY <2>1, <2>2, <2>3 DEF InFlight
<1>9. ASSUME Distinct(b), f.what \in Messages => f.what \notin InFlight(b)
      PROVE  Distinct(fed)
  <2>1. \A i \in 1 .. Len(b) : b[i].what \in InFlight(b)
    BY <1>2 DEF InFlight
  <2> QED BY <1>1, <1>4, <1>9, <2>1 DEF Distinct
<1> QED BY <1>1, <1>5, <1>6, <1>7, <1>8, <1>9 DEF fed

\* The stream takes the first `k' frames of the buffer, and the rest waits.
LEMMA TakeFrame ==
    ASSUME NEW w \in Seq(Frame), NEW b \in Seq(Frame), b # <<>>, InOrder(w, b)
    PROVE  /\ Append(w, Head(b)) \in Seq(Frame) /\ Tail(b) \in Seq(Frame)
           /\ Head(b) \in Frame
           /\ InOrder(Append(w, Head(b)), Tail(b))
           /\ HeadResets(Append(w, Head(b))) <=> HeadResets(w)
           /\ \A n \in Nat : Below(w, b, n) => Below(Append(w, Head(b)), Tail(b), n)
           /\ \A n \in Nat : From(w, b, n) => From(Append(w, Head(b)), Tail(b), n)
           /\ InFlight(Append(w, Head(b))) = InFlight(w) \union {Head(b).what}
           /\ InFlight(b) = InFlight(Tail(b)) \union {Head(b).what}
           /\ Distinct(b) => /\ Distinct(Tail(b))
                             /\ Head(b).what \in Messages => Head(b).what \notin InFlight(Tail(b))
<1> DEFINE f == Head(b)
           t == Append(w, f)
           r == Tail(b)
<1>1. /\ b[1] = f /\ f \in Frame /\ r \in Seq(Frame) /\ Len(b) \in Nat \ {0} /\ Len(r) = Len(b) - 1
      /\ \A i \in 1 .. Len(b) - 1 : r[i] = b[i + 1]
  BY HeadTailProperties, LenProperties, EmptySeq
<1>2. /\ t \in Seq(Frame) /\ Len(t) = Len(w) + 1 /\ Len(w) \in Nat
      /\ t[Len(w) + 1] = f /\ \A i \in 1 .. Len(w) : t[i] = w[i]
  BY <1>1, AppendProperties, LenProperties
<1>3. \A i \in 1 .. Len(w) + 1 : i \in 1 .. Len(w) \/ i = Len(w) + 1
  BY <1>2
<1>4. \A i \in 1 .. Len(b) - 1 : i + 1 \in 1 .. Len(b) /\ 1 < i + 1
  BY <1>1
<1>5. 1 \in 1 .. Len(b) /\ \A i \in 1 .. Len(b) : i # 1 => i - 1 \in 1 .. Len(b) - 1 /\ i = (i - 1) + 1
  BY <1>1
<1>d. /\ DOMAIN t = 1 .. Len(w) + 1 /\ DOMAIN b = 1 .. Len(b) /\ DOMAIN r = 1 .. Len(b) - 1
      /\ DOMAIN w = 1 .. Len(w)
  BY <1>1, <1>2, LenProperties
<1> HIDE DEF f, t, r
<1>6. InOrder(t, r)
  <2>1. \A i, j \in 1 .. Len(b) - 1 : i < j => i + 1 < j + 1
    OBVIOUS
  <2>2. \A i, j \in 1 .. Len(t) : i < j => t[i].seq < t[j].seq
    BY <1>1, <1>2, <1>3, <1>5 DEF InOrder
  <2>3. \A i, j \in 1 .. Len(r) : i < j => r[i].seq < r[j].seq
    BY <1>1, <1>4, <2>1 DEF InOrder
  <2>4. \A i \in 1 .. Len(t), j \in 1 .. Len(r) : t[i].seq < r[j].seq
    <3>1. \A i \in 1 .. Len(w), j \in 1 .. Len(b) - 1 : w[i].seq < r[j].seq
      BY <1>1, <1>4 DEF InOrder
    <3>2. \A j \in 1 .. Len(b) - 1 : f.seq < r[j].seq
      BY <1>1, <1>4, <1>5 DEF InOrder
    <3> QED BY ONLY <1>1, <1>2, <1>3, <3>1, <3>2
  <2>5. \A i \in 1 .. Len(t) : t[i].resets => i = 1 /\ t[i].seq = 1
    BY <1>1, <1>2, <1>3, <1>5 DEF InOrder
  <2>6. \A i \in 1 .. Len(r) : ~r[i].resets
    BY <1>1, <1>4 DEF InOrder
  <2> QED BY <2>2, <2>3, <2>4, <2>5, <2>6 DEF InOrder
<1>7. HeadResets(t) <=> HeadResets(w)
  <2>1. t # <<>> /\ Head(t) = t[1]
    BY <1>2, EmptySeq, HeadTailProperties
  <2>2. CASE w = <<>>
    <3>1. Len(w) = 0
      BY <2>2
    <3>2. t[1] = f /\ ~f.resets
      BY <1>1, <1>2, <1>5, <3>1 DEF InOrder
    <3> QED BY <2>1, <2>2, <3>2 DEF HeadResets
  <2>3. CASE w # <<>>
    <3>1. Head(w) = w[1] /\ 1 \in 1 .. Len(w)
      BY <1>2, <2>3, EmptySeq, HeadTailProperties
    <3> QED BY <1>2, <2>1, <2>3, <3>1 DEF HeadResets
  <2> QED BY <2>2, <2>3
<1>8. \A n \in Nat : Below(w, b, n) => Below(t, r, n)
  BY <1>1, <1>2, <1>3, <1>4, <1>5 DEF Below
<1>9. \A n \in Nat : From(w, b, n) => From(t, r, n)
  BY <1>1, <1>2, <1>3, <1>4, <1>5 DEF From
<1>10. InFlight(t) = InFlight(w) \union {f.what}
  <2>1. \A i \in DOMAIN t : t[i].what \in InFlight(w) \union {f.what}
    BY <1>2, <1>3, <1>d DEF InFlight
  <2>2. \A i \in DOMAIN w : w[i].what \in InFlight(t)
    BY <1>2, <1>d DEF InFlight
  <2>3. f.what \in InFlight(t)
    BY <1>2, <1>d DEF InFlight
  <2> QED BY <2>1, <2>2, <2>3 DEF InFlight
<1>11. InFlight(b) = InFlight(r) \union {f.what}
  <2>1. ASSUME NEW i \in DOMAIN b
        PROVE  b[i].what \in InFlight(r) \union {f.what}
    <3>1. CASE i = 1
      BY <1>1, <3>1
    <3>2. CASE i # 1
      <4>1. i - 1 \in DOMAIN r /\ r[i - 1] = b[i]
        BY <1>1, <1>5, <1>d, <3>2
      <4> QED BY <4>1 DEF InFlight
    <3> QED BY <3>1, <3>2
  <2>2. \A i \in DOMAIN r : r[i].what \in InFlight(b)
    BY <1>1, <1>4, <1>d DEF InFlight
  <2>3. f.what \in InFlight(b)
    BY <1>1, <1>5, <1>d DEF InFlight
  <2> QED BY <2>1, <2>2, <2>3 DEF InFlight
<1>12. ASSUME Distinct(b)
       PROVE  Distinct(r) /\ (f.what \in Messages => f.what \notin InFlight(r))
  <2>1. \A i, j \in 1 .. Len(b) - 1 : i + 1 = j + 1 => i = j
    OBVIOUS
  <2>2. Distinct(r)
    BY <1>1, <1>4, <1>12, <2>1 DEF Distinct
  <2>3. ASSUME f.what \in Messages, NEW i \in DOMAIN r, r[i].what = f.what
        PROVE  FALSE
    BY <1>1, <1>4, <1>5, <1>12, <1>d, <2>3 DEF Distinct
  <2> QED BY <2>2, <2>3 DEF InFlight
<1> QED BY <1>1, <1>2, <1>6, <1>7, <1>8, <1>9, <1>10, <1>11, <1>12 DEF f, t, r

\* It takes the whole buffer.
LEMMA TakeAll ==
    ASSUME NEW w \in Seq(Frame), NEW b \in Seq(Frame), InOrder(w, b)
    PROVE  /\ w \o b \in Seq(Frame) /\ InOrder(w \o b, <<>>)
           /\ HeadResets(w \o b) <=> HeadResets(w)
           /\ \A n \in Nat : Below(w, b, n) => Below(w \o b, <<>>, n)
           /\ \A n \in Nat : From(w, b, n) => From(w \o b, <<>>, n)
           /\ InFlight(w \o b) = InFlight(w) \union InFlight(b)
<1> DEFINE t == w \o b
           n == Len(w)
           m == Len(b)
<1>1. /\ t \in Seq(Frame) /\ Len(t) = n + m /\ n \in Nat /\ m \in Nat
      /\ \A i \in 1 .. n : t[i] = w[i]
  BY ConcatProperties, LenProperties
<1>2. \A i \in 1 .. m : t[n + i] = b[i]
  BY ConcatProperties, LenProperties
<1>d. DOMAIN t = 1 .. n + m /\ DOMAIN b = 1 .. m /\ DOMAIN w = 1 .. n
  BY <1>1, LenProperties
<1>3. Len(<<>>) = 0
  OBVIOUS
<1>4. (w = <<>> <=> n = 0) /\ (b = <<>> <=> m = 0) /\ (t = <<>> <=> n + m = 0)
  BY <1>1, EmptySeq
<1>h. /\ w # <<>> => Head(w) = w[1]
      /\ t # <<>> => Head(t) = t[1]
  BY <1>1, HeadTailProperties
<1> HIDE DEF t, n, m
<1>5. /\ \A i \in 1 .. n + m : i \in 1 .. n \/ (i > n /\ i - n \in 1 .. m /\ i = n + (i - n))
      /\ \A i \in 1 .. n : i \in 1 .. n + m
      /\ \A i \in 1 .. m : n + i \in 1 .. n + m
  BY <1>1
<1>6. /\ \A i \in 1 .. n + m : i > n /\ i - n \in 1 .. m => t[i] = b[i - n]
  BY <1>1, <1>2, <1>5
<1>7. InOrder(t, <<>>)
  <2>1. ASSUME NEW i \in 1 .. n + m, NEW j \in 1 .. n + m, i < j
        PROVE  t[i].seq < t[j].seq
    <3>1. CASE j \in 1 .. n
      <4>1. i \in 1 .. n
        BY <1>1, <2>1, <3>1
      <4> QED BY <1>1, <2>1, <3>1, <4>1 DEF InOrder, n
    <3>2. CASE i \in 1 .. n /\ j > n /\ j - n \in 1 .. m
      BY <1>1, <1>6, <3>2 DEF InOrder, n, m
    <3>3. CASE i > n /\ i - n \in 1 .. m /\ j > n /\ j - n \in 1 .. m
      <4>1. i - n < j - n
        BY <1>1, <2>1
      <4> QED BY <1>6, <3>3, <4>1 DEF InOrder, m
    <3>4. j \in 1 .. n \/ (j > n /\ j - n \in 1 .. m)
      BY <1>5
    <3>5. i \in 1 .. n \/ (i > n /\ i - n \in 1 .. m)
      BY <1>5
    <3> QED BY <3>1, <3>2, <3>3, <3>4, <3>5
  <2>2. ASSUME NEW i \in 1 .. n + m, t[i].resets
        PROVE  i = 1 /\ t[i].seq = 1
    <3>1. CASE i \in 1 .. n
      BY <1>1, <2>2, <3>1 DEF InOrder, n
    <3>2. CASE i > n /\ i - n \in 1 .. m
      BY <1>6, <2>2, <3>2 DEF InOrder, m
    <3> QED BY <1>5, <3>1, <3>2
  <2>3. \A i, j \in 1 .. Len(t) : i < j => t[i].seq < t[j].seq
    BY <1>1, <2>1
  <2>4. \A i \in 1 .. Len(t) : t[i].resets => i = 1 /\ t[i].seq = 1
    BY <1>1, <2>2
  <2> QED BY <1>3, <2>3, <2>4 DEF InOrder
<1>8. HeadResets(t) <=> HeadResets(w)
  <2>1. CASE w # <<>>
    <3>1. 1 \in 1 .. n /\ t # <<>>
      BY <1>1, <1>4, <2>1
    <3>2. Head(t) = Head(w)
      BY <1>1, <1>h, <2>1, <3>1
    <3> QED BY <2>1, <3>1, <3>2 DEF HeadResets
  <2>2. CASE w = <<>>
    <3>1. n = 0
      BY <1>4, <2>2
    <3>2. CASE t # <<>>
      <4>1. 1 \in 1 .. m /\ 1 \in 1 .. n + m /\ 1 > n /\ 1 - n = 1
        BY <1>1, <1>4, <3>1, <3>2
      <4>2. t[1] = b[1] /\ ~b[1].resets
        BY <1>6, <4>1 DEF InOrder, m
      <4> QED BY <1>h, <2>2, <3>2, <4>2 DEF HeadResets
    <3>3. CASE t = <<>>
      BY <2>2, <3>3 DEF HeadResets
    <3> QED BY <3>2, <3>3
  <2> QED BY <2>1, <2>2
<1>9. ASSUME NEW k \in Nat
      PROVE  /\ Below(w, b, k) => Below(t, <<>>, k)
             /\ From(w, b, k) => From(t, <<>>, k)
  <2>1. \A i \in 1 .. n + m : \/ i \in 1 .. n /\ t[i] = w[i]
                              \/ i - n \in 1 .. m /\ t[i] = b[i - n]
    BY ONLY <1>1, <1>5, <1>6
  <2>0. 1 .. Len(<<>>) = {}
    BY <1>3
  <2>2. Below(w, b, k) => Below(t, <<>>, k)
    BY ONLY <1>1, <2>0, <2>1 DEF Below, n, m
  <2>3. From(w, b, k) => From(t, <<>>, k)
    BY ONLY <1>1, <2>0, <2>1 DEF From, n, m
  <2> QED BY <2>2, <2>3
<1>10. InFlight(t) = InFlight(w) \union InFlight(b)
  <2>1. \A i \in DOMAIN t : t[i].what \in InFlight(w) \union InFlight(b)
    BY <1>1, <1>5, <1>6, <1>d DEF InFlight
  <2>2. \A i \in DOMAIN w : w[i].what \in InFlight(t)
    BY <1>1, <1>5, <1>d DEF InFlight
  <2>3. \A i \in DOMAIN b : b[i].what \in InFlight(t)
    BY <1>2, <1>5, <1>d DEF InFlight, t
  <2> QED BY <2>1, <2>2, <2>3 DEF InFlight
<1> QED BY <1>1, <1>7, <1>8, <1>9, <1>10 DEF t

\* The counterparty reads the first frame on the wire.
LEMMA ReadFrame ==
    ASSUME NEW w \in Seq(Frame), NEW b \in Seq(Frame), w # <<>>, InOrder(w, b)
    PROVE  /\ Tail(w) \in Seq(Frame) /\ Head(w) \in Frame
           /\ InOrder(Tail(w), b) /\ ~HeadResets(Tail(w))
           /\ Head(w).resets => Head(w).seq = 1
           /\ From(Tail(w), b, Head(w).seq + 1)
           /\ \A n \in Nat : Below(w, b, n) => Below(Tail(w), b, n) /\ Head(w).seq < n
           /\ \A n \in Nat : From(w, b, n) => From(Tail(w), b, n) /\ n <= Head(w).seq
           /\ InFlight(Tail(w)) \subseteq InFlight(w)
<1> DEFINE f == Head(w)
           r == Tail(w)
<1>1. /\ w[1] = f /\ f \in Frame /\ r \in Seq(Frame) /\ Len(w) \in Nat \ {0} /\ Len(r) = Len(w) - 1
      /\ \A i \in 1 .. Len(w) - 1 : r[i] = w[i + 1]
  BY HeadTailProperties, LenProperties, EmptySeq
<1>2. 1 \in 1 .. Len(w) /\ \A i \in 1 .. Len(w) - 1 : i + 1 \in 1 .. Len(w) /\ 1 < i + 1 /\ i + 1 # 1
  BY <1>1
<1>3. r # <<>> => Head(r) = r[1] /\ 1 \in 1 .. Len(w) - 1
  BY <1>1, HeadTailProperties, EmptySeq
<1>4. /\ \A i \in 1 .. Len(w) : w[i].seq \in Nat
      /\ \A i \in 1 .. Len(b) : b[i].seq \in Nat
  BY FrameFields
<1>d. DOMAIN w = 1 .. Len(w) /\ DOMAIN r = 1 .. Len(w) - 1
  BY <1>1, LenProperties
<1> HIDE DEF f, r
<1>5. InOrder(r, b)
  <2>1. \A i, j \in 1 .. Len(w) - 1 : i < j => i + 1 < j + 1
    OBVIOUS
  <2>2. \A i, j \in 1 .. Len(r) : i < j => r[i].seq < r[j].seq
    BY <1>1, <1>2, <2>1 DEF InOrder
  <2>3. \A i \in 1 .. Len(r), j \in 1 .. Len(b) : r[i].seq < b[j].seq
    BY <1>1, <1>2 DEF InOrder
  <2>4. \A i \in 1 .. Len(r) : r[i].resets => i = 1 /\ r[i].seq = 1
    BY <1>1, <1>2 DEF InOrder
  <2> QED BY <2>2, <2>3, <2>4 DEF InOrder
<1>6. ~HeadResets(r)
  BY <1>1, <1>2, <1>3 DEF InOrder, HeadResets
<1>7. f.resets => f.seq = 1
  BY <1>1, <1>2 DEF InOrder
<1>8. From(r, b, f.seq + 1)
  <2>1. f.seq \in Nat
    BY <1>1, <1>2, <1>4
  <2>2. \A i \in 1 .. Len(r) : f.seq < r[i].seq /\ r[i].seq \in Nat
    BY <1>1, <1>2, <1>4 DEF InOrder
  <2>3. \A i \in 1 .. Len(b) : f.seq < b[i].seq
    BY <1>1, <1>2 DEF InOrder
  <2> QED BY <1>4, <2>1, <2>2, <2>3 DEF From
<1>9. \A n \in Nat : Below(w, b, n) => Below(r, b, n) /\ f.seq < n
  BY <1>1, <1>2 DEF Below
<1>10. \A n \in Nat : From(w, b, n) => From(r, b, n) /\ n <= f.seq
  BY <1>1, <1>2 DEF From
<1>11. InFlight(r) \subseteq InFlight(w)
  BY <1>1, <1>2, <1>d DEF InFlight
<1> QED BY <1>1, <1>5, <1>6, <1>7, <1>8, <1>9, <1>10, <1>11 DEF f, r

\* Where a resend leaves the counterparty: at the first frame of the line.
LEMMA FirstOfLine ==
    ASSUME NEW w \in Seq(Frame), NEW b \in Seq(Frame), w \o b # <<>>, InOrder(w, b)
    PROVE  /\ Head(w \o b) \in Frame /\ From(w, b, Head(w \o b).seq)
           /\ \A n \in Nat : Below(w, b, n) => Head(w \o b).seq < n
<1>1. /\ \A i \in 1 .. Len(w) : w[i].seq \in Nat
      /\ \A i \in 1 .. Len(b) : b[i].seq \in Nat
  BY FrameFields
<1>2. Len(w) \in Nat /\ Len(b) \in Nat
  BY LenProperties
<1>3. Head(w \o b) = (w \o b)[1] /\ w \o b \in Seq(Frame) /\ Head(w \o b) \in Frame
  BY ConcatProperties, HeadTailProperties
<1>4. CASE Len(w) # 0
  <2>1. 1 \in 1 .. Len(w) /\ (w \o b)[1] = w[1]
    BY <1>2, <1>4, ConcatProperties
  <2>2. \A i \in 1 .. Len(w) : w[1].seq <= w[i].seq
    BY <1>1, <2>1 DEF InOrder
  <2>3. \A i \in 1 .. Len(b) : w[1].seq <= b[i].seq
    BY <1>1, <2>1 DEF InOrder
  <2> QED BY <1>3, <2>1, <2>2, <2>3 DEF From, Below
<1>5. CASE Len(w) = 0
  <2>1. w = <<>> /\ w \o b = b
    BY <1>5, EmptySeq, ConcatEmptySeq
  <2>2. 1 \in 1 .. Len(b)
    BY <1>2, <2>1, EmptySeq
  <2>3. \A i \in 1 .. Len(b) : b[1].seq <= b[i].seq
    BY <1>1, <2>2 DEF InOrder
  <2> QED BY <1>3, <1>5, <2>1, <2>2, <2>3 DEF From, Below
<1> QED BY <1>4, <1>5

-----------------------------------------------------------------------------
(* The invariant                                                            *)

\* Nothing of a message not yet filed, or told as not sent, is on the line or
\* has a number; a message waits in the buffer while its sender waits.
Fresh == {"new", "queued", "refused"}
Spent(content) == {content[n] : n \in Seqs}
ReceiptInv ==
    /\ \A m \in Messages : fate[m] \in Fresh =>
          m \notin InFlight(buffer) /\ m \notin InFlight(wire) /\ m \notin Spent(book)
    /\ \A m \in Messages : m \in InFlight(buffer) <=> fate[m] = "fed"
    /\ \A m \in Messages : m \in InFlight(wire) => fate[m] = "sent"
    /\ \A m \in Messages : fate[m] \in Live => eng.pc \in {"active", "leaving", "closing"}
    /\ Distinct(buffer)

\* The acceptor's acknowledgement of a reset, paid once written and not read:
\* the one case the counterparty's place says nothing in.
Exempt == role = "acceptor" /\ peer.stream = "unread"
Idle == {"down", "refuse", "mark", "reset", "logon"}
Quiet == wire = <<>> /\ buffer = <<>>
Graceful == eng.graceful /\ ResetOnLogout

\* Where the handshake and the close are, and what that says of the reset they
\* are making: its marker, who has heard of it, what is still in flight.
StageInv ==
    /\ eng.pc \in {"refuse", "mark", "reset", "logon", "adopt", "adoptReset"} => Quiet
    /\ eng.pc \in {"down", "wait", "settle", "drain", "closeReset", "closeClear", "counters"} =>
          buffer = <<>>
    /\ HeadResets(wire) => peer.stream \in {"asked", "unread"}
    /\ role = "initiator" => peer.stream # "asked"
    /\ role = "acceptor" => eng.pc \notin {"wait", "adopt", "adoptReset"}
    /\ role = "initiator" => ~At("refuse")
    /\ eng.pc \in {"reset", "adoptReset"} => disk.marker
    /\ eng.pc \in {"mark", "reset"} => eng.resets
    /\ At("logon") /\ eng.resets => disk.marker /\ eng.next = 1
    /\ /\ At("logon")
       /\ (role = "initiator" /\ disk.marker) \/ peer.stream \in {"asked", "due"}
       => eng.resets
    /\ peer.stream = "due" => disk.marker /\ eng.pc \notin {"wait", "settle"}
    /\ role = "initiator" /\ peer.stream = "unread" =>
          /\ disk.marker /\ eng.pc \in Idle \union {"wait"}
          /\ At("wait") => HeadResets(wire)
    /\ role = "initiator" /\ At("settle") => wire = <<>>
    /\ eng.pc \in {"adopt", "adoptReset"} =>
          peer.stream \in {"theirs", "due"} /\ peer.next = 2 /\ book = NoFrames
    /\ Graceful =>
          /\ eng.pc \in {"closing", "drain", "closeReset", "closeClear", "counters"}
          /\ Quiet /\ peer.next = 1 /\ book = NoFrames
          /\ peer.stream \in IF eng.pc \in {"closeClear", "counters"} THEN {"agreed"}
                            ELSE {"theirs", "due"}
    /\ eng.pc \in {"closeReset", "closeClear"} => Graceful /\ eng.next = 1
    /\ role = "acceptor" /\ policy = "Continue" /\ peer.stream = "theirs" =>
          Graceful \/ (eng.pc \in Idle /\ debt.owed /\ (At("logon") => eng.resets))

\* The counterparty expects nothing above `n' but what is still on the line.
Expects(n) == Exempt \/ HeadResets(wire) \/ peer.next <= n

\* Where the number the store holds may lie below what the counterparty
\* expects, and the refusal that goes out under it.
Owing == disk.marker \/ (policy = "Continue" /\ debt.owed)
Refused == /\ At("down") /\ role = "acceptor" /\ (Owing \/ peer.stream = "asked")
           /\ Len(wire) = 1 /\ wire # <<>> /\ Head(wire).kind = "refusal"

\* What the counterparty expects is at most what reaches it next, and at most
\* what this session, or the one restarted from the store, numbers next.
NumberInv ==
    /\ Exempt \/ HeadResets(wire) \/ From(wire, buffer, peer.next) \/ Refused
    /\ eng.pc \notin Idle => Below(wire, buffer, eng.next) /\ Expects(eng.next)
    /\ eng.pc \in {"wait", "adopt", "adoptReset"} => eng.next >= 2
    /\ At("logon") /\ ~eng.resets => Expects(eng.next)
    /\ policy = "CloseSession" \/ eng.pc \in Unread =>
          \/ Owing
          \/ /\ Below(wire, buffer, disk.next)
             /\ Exempt \/ peer.stream = "asked" \/ peer.next <= disk.next

\* When the store's counter is the session's, and when a write that failed can
\* still be unresolved: under CloseSession no live session outlasts one.
CounterInv ==
    /\ eng.pc \in {"logon", "wait", "adopt", "adoptReset", "settle", "active", "leaving"}
          /\ (policy = "CloseSession" \/ doubt = "none") => disk.next = eng.next
    /\ eng.pc \in {"closing", "drain", "closeClear", "counters"} /\ doubt = "none" =>
          disk.next = eng.next
    /\ At("refuse") => disk.next = eng.next
    /\ policy = "Continue" => doubt # "forgotten"
    /\ doubt = "known" /\ policy = "CloseSession" =>
          eng.pc \in {"down", "refuse", "mark", "reset", "closing", "drain", "closeReset", "counters"}

\* What the store answers a resend with, for the numbers below `Upto'.
Shared == peer.stream = "agreed" \/ HeadResets(wire)
Unseeded == {"down", "refuse", "mark", "reset"}
Upto == IF eng.pc \in Unseeded THEN disk.next ELSE eng.next
Trusted == \/ doubt = "none"
           \/ doubt = "known" /\ policy = "Continue" /\ eng.pc \notin Unseeded
Gap == IF policy = "Continue" THEN {Nothing} ELSE {}
Kept(filed, content, upto, gap) ==
    \A n \in Seqs : n < upto => filed[n] \in {content[n]} \union gap
Blank(filed, from) == \A n \in Seqs : from <= n => filed[n] = Nothing
ReplayInv ==
    /\ Shared /\ Trusted => Kept(disk.filed, book, Upto, Gap)
    /\ policy = "Continue" /\ Trusted /\ ~At("closeReset") => Blank(disk.filed, Upto)

OutInv ==
    /\ TypeOK /\ DebtInv /\ Room /\ ReceiptInv /\ InOrder(wire, buffer)
    /\ StageInv /\ NumberInv /\ CounterInv /\ ReplayInv

-----------------------------------------------------------------------------
(* Steps alike                                                              *)

LiveStages == {"active", "leaving", "closing"}

LEMMA EmptySpent == Spent(NoFrames) \subseteq {Nothing}
BY DEF Spent, NoFrames

LEMMA SpentMore ==
    ASSUME NEW content \in [Seqs -> Contents], NEW n \in Seqs, NEW what
    PROVE  Spent([content EXCEPT ![n] = what]) \subseteq Spent(content) \union {what}
BY DEF Spent

\* No sender is told anything, and no message is filed or fed.
LEMMA ReceiptSame ==
    ASSUME ReceiptInv, UNCHANGED <<fate, buffer>>,
           InFlight(wire') \subseteq InFlight(wire) \union {Admin},
           Spent(book') \subseteq Spent(book) \union {Admin, Nothing},
           eng.pc \in LiveStages => eng'.pc \in LiveStages
    PROVE  ReceiptInv'
<1>1. \A m \in Messages : m # Admin /\ m # Nothing
  BY Constants
<1>2. \A m \in Messages : fate[m] \in Fresh =>
          m \notin InFlight(buffer) /\ m \notin InFlight(wire') /\ m \notin Spent(book')
  BY <1>1 DEF ReceiptInv
<1>3. \A m \in Messages : m \in InFlight(wire') => fate[m] = "sent"
  BY <1>1 DEF ReceiptInv
<1>4. \A m \in Messages : fate[m] \in Live => eng'.pc \in LiveStages
  BY DEF ReceiptInv, LiveStages
<1> QED BY <1>2, <1>3, <1>4 DEF ReceiptInv, LiveStages

LEMMA QueuedType ==
    Queued \subseteq Messages /\ IsFiniteSet(Queued) /\ Cardinality(Queued) \in Nat
<1>1. IsFiniteSet(Messages)
  BY Constants, FS_Interval DEF Messages
<1>2. Queued \subseteq Messages
  BY DEF Queued
<1>3. IsFiniteSet(Queued)
  BY <1>1, <1>2, FS_Subset
<1> QED BY <1>2, <1>3, FS_CardinalityType

\* No command arrives, and none is filed.
LEMMA RoomSame ==
    ASSUME TypeOK, Room, ReceiptInv, UNCHANGED fate, eng'.next \in 1 .. MaxSeq + 1,
           eng'.pc = "active" => (At("active") /\ eng'.next = eng.next) \/ eng.pc \notin LiveStages
    PROVE  Room'
<1>1. Queued' = Queued
  BY DEF Queued
<1>2. CASE At("active") /\ eng'.next = eng.next
  BY <1>1, <1>2 DEF Room, At
<1>3. CASE eng.pc \notin LiveStages
  <2>1. Queued = {}
    BY <1>3 DEF ReceiptInv, LiveStages, Queued, Live
  <2>2. Cardinality(Queued') = 0
    BY <1>1, <2>1, FS_EmptySet
  <2>3. eng'.next + Cardinality(Queued') <= MaxSeq + 1
    BY <2>2, Constants
  <2> QED BY <2>3 DEF Room
<1>4. CASE eng'.pc # "active"
  BY <1>4 DEF Room, At
<1> QED BY <1>2, <1>3, <1>4

\* A session that is not live ends, its number where the store's is, or a
\* reset marked or owed.
Restartable ==
    \/ disk'.marker
    \/ policy = "Continue" /\ (debt'.owed \/ doubt' = "known")
    \/ policy = "CloseSession" /\ disk'.next = disk.next /\ (disk.marker => disk'.marker)
    \/ Below(wire, buffer, disk'.next) /\ (peer.stream = "asked" \/ Expects(disk'.next))

LEMMA CloseKeeps ==
    ASSUME OutInv, DebtInv', TypeOK', eng' = Closed, eng.pc \notin LiveStages,
           UNCHANGED <<config, buffer, wire, fate>>, buffer = <<>>,
           Minded(disk'.marker), disk.marker => disk'.marker \/ At("settle"), ~At("drain"),
           policy = "Continue" /\ debt.owed => debt'.owed \/ eng.pc \in {"settle", "counters"},
           Spent(book') \subseteq Spent(book) \union {Admin, Nothing},
           doubt' \in {doubt, "known"}, doubt # "none" => doubt' = doubt,
           Restartable,
           doubt' = "none" => /\ Shared => Kept(disk'.filed, book', disk'.next, Gap)
                              /\ policy = "Continue" => Blank(disk'.filed, disk'.next)
    PROVE  OutInv'
<1>0. /\ eng'.pc = "down" /\ eng'.graceful = FALSE /\ buffer' = <<>>
      /\ wire' = wire /\ role' = role /\ policy' = policy
  BY Constants DEF Closed, config
<1>1. ReceiptInv'
  <2>1. InFlight(wire') \subseteq InFlight(wire) \union {Admin}
    BY <1>0
  <2> QED BY <2>1, ReceiptSame DEF OutInv
<1>2. Room'
  BY <1>0 DEF Room, At
<1>3. InOrder(wire, buffer)'
  BY DEF OutInv
<1>4. /\ peer'.next = peer.next
      /\ peer'.stream = peer.stream \/ (disk'.marker /\ peer.stream = "theirs" /\ peer'.stream = "due")
  BY DEF Minded
<1>5. StageInv'
  <2>1. ASSUME role = "acceptor", policy = "Continue", peer.stream = "theirs"
        PROVE  debt'.owed
    <3>1. CASE Graceful
      <4>1. eng.pc \in {"closing", "drain", "closeReset"}
        BY <2>1, <3>1 DEF OutInv, StageInv
      <4>2. eng.pc = "closeReset"
        BY <4>1 DEF LiveStages, At
      <4>3. debt.owed
        BY <4>2 DEF OutInv, DebtInv, Resetting
      <4> QED BY <2>1, <4>2, <4>3
    <3>2. CASE eng.pc \in Idle /\ debt.owed
      BY <2>1, <3>2 DEF Idle
    <3> QED BY <2>1, <3>1, <3>2 DEF OutInv, StageInv
  <2>2. peer'.stream = "theirs" => peer.stream = "theirs"
    BY <1>4
  <2>3. role' = "acceptor" /\ policy' = "Continue" /\ peer'.stream = "theirs" =>
           eng'.pc \in Idle /\ debt'.owed /\ (At("logon")' => eng'.resets)
    BY <1>0, <2>1, <2>2 DEF Idle, At
  <2> QED BY <1>0, <1>4, <2>3 DEF OutInv, StageInv, Idle, At, Graceful
<1>6. NumberInv'
  <2>1. Exempt' = Exempt /\ (peer.stream = "asked" => peer'.stream = "asked")
    BY <1>0, <1>4 DEF Exempt
  <2>2. (Exempt \/ HeadResets(wire) \/ From(wire, buffer, peer.next) \/ Refused)'
    <3>1. Refused => Refused'
      BY <1>0, <2>1 DEF Refused, Owing, At
    <3>2. CASE Exempt \/ HeadResets(wire) \/ From(wire, buffer, peer.next)
      BY <1>0, <1>4, <2>1, <3>2
    <3> QED BY <3>1, <3>2 DEF OutInv, NumberInv
  <2>3. \/ disk'.marker
        \/ policy' = "Continue" /\ debt'.owed
        \/ /\ Below(wire', buffer', disk'.next)
           /\ Exempt' \/ peer'.stream = "asked" \/ peer'.next <= disk'.next
    <3>1. CASE disk'.marker \/ (policy = "Continue" /\ debt'.owed)
      BY <1>0, <3>1
    <3>2. CASE doubt' = "known" /\ policy = "Continue"
      BY <1>0, <3>2 DEF DebtInv
    <3>3. CASE policy = "CloseSession" /\ disk'.next = disk.next /\ (disk.marker => disk'.marker)
      BY <1>0, <1>4, <2>1, <3>3 DEF OutInv, NumberInv, Owing, Refused, Unread
    <3>4. CASE Below(wire, buffer, disk'.next) /\ (peer.stream = "asked" \/ Expects(disk'.next))
      <4>1. HeadResets(wire) => Exempt \/ peer.stream = "asked" \/ disk'.marker
        <5>1. role \in {"initiator", "acceptor"}
          BY RolesAssumption DEF OutInv, TypeOK
        <5> QED BY <5>1 DEF OutInv, StageInv, Exempt, Idle, At
      <4> QED BY <1>0, <1>4, <2>1, <3>4, <4>1 DEF Expects
    <3> QED BY <3>1, <3>2, <3>3, <3>4 DEF Restartable
  <2> QED BY <1>0, <2>2, <2>3 DEF NumberInv, Idle, At, Owing, Refused, Unread
<1>7. CounterInv'
  BY <1>0 DEF OutInv, CounterInv, At
<1>8. ReplayInv'
  <2>1. Shared' => Shared
    BY <1>0, <1>4 DEF Shared
  <2>2. Gap' = Gap /\ Upto' = disk'.next /\ (Trusted' => doubt' = "none")
    BY <1>0 DEF Gap, Upto, Trusted, Unseeded
  <2> QED BY <1>0, <2>1, <2>2 DEF ReplayInv
<1> QED BY <1>1, <1>2, <1>3, <1>5, <1>6, <1>7, <1>8 DEF OutInv

LEMMA TypeStep ==
    ASSUME TypeOK, UNCHANGED config, disk' \in Disks, debt' \in Debts, eng' \in Sessions,
           buffer' \in Seq(Frame), wire' \in Seq(Frame), peer' \in Peers,
           fate' \in [Messages -> Fates], book' \in [Seqs -> Contents],
           doubt' \in {"none", "known", "forgotten"}, budget' \in Budgets
    PROVE  TypeOK'
BY DEF TypeOK, config, Disks, Debts, Sessions, Peers, Fates, Budgets

LEMMA TypeParts ==
    ASSUME TypeOK
    PROVE  /\ role \in {"initiator", "acceptor"} /\ policy \in {"CloseSession", "Continue"}
           /\ buffer \in Seq(Frame) /\ wire \in Seq(Frame)
           /\ fate \in [Messages -> Fates] /\ book \in [Seqs -> Contents]
           /\ doubt \in {"none", "known", "forgotten"} /\ budget \in Budgets
BY RolesAssumption, PoliciesAssumption DEF TypeOK, Fates, Budgets

\* With nothing in doubt the store's counter is where a resend would end.
LEMMA UptoStore ==
    ASSUME OutInv, doubt = "none", ~At("closeReset")
    PROVE  Upto = disk.next
<1>1. eng.pc \in Stages
  BY Parts DEF OutInv
<1> QED BY <1>1 DEF OutInv, CounterInv, Upto, Stages, At, Unseeded

\* Nothing filed and nothing sent: what a resend would answer is the same.
LEMMA ReplaySame ==
    ASSUME OutInv, UNCHANGED config, disk'.filed = disk.filed, book' = book, Upto' = Upto,
           Shared' => Shared, Trusted' => Trusted, At("closeReset") => eng'.pc = "closeReset"
    PROVE  ReplayInv'
<1>1. Gap' = Gap
  BY DEF Gap, config
<1> QED BY <1>1 DEF OutInv, ReplayInv, At, config

LEMMA OweDurablyCloses ==
    ASSUME OutInv, DebtInv', NEW next \in {"reset", "adoptReset"}, OweDurably(next),
           eng.pc \in {"mark", "adopt"}, next = "reset" <=> At("mark")
    PROVE  OutInv'
<1>1. /\ SameBut(disk'.marker) /\ Minded(disk'.marker) /\ (disk.marker => disk'.marker)
      /\ debt' \in Debts /\ debt'.owed /\ budget' \in Budgets
      /\ \/ eng' = Closed
         \/ /\ disk'.marker
            /\ eng' \in Sessions /\ eng'.pc = next /\ eng'.next = eng.next
            /\ eng'.resets = eng.resets /\ eng'.graceful = eng.graceful
      /\ UNCHANGED <<config, buffer, wire, fate, book, doubt>>
  BY OweDurablyEffect DEF OutInv
<1>2. disk' \in Disks /\ disk'.next = disk.next /\ disk'.filed = disk.filed
  BY <1>1 DEF SameBut
<1>3. /\ peer' \in Peers /\ peer'.next = peer.next
      /\ peer'.stream = peer.stream \/ (disk'.marker /\ peer.stream = "theirs" /\ peer'.stream = "due")
  BY <1>1 DEF Minded
<1>4. TypeOK'
  <2>1. eng' \in Sessions
    BY <1>1, Constants
  <2> QED BY <1>1, <1>2, <1>3, <2>1, TypeStep, TypeParts DEF OutInv
<1>5. wire = <<>> /\ buffer = <<>> /\ wire' = <<>> /\ buffer' = <<>> /\ role' = role /\ policy' = policy
  BY <1>1 DEF OutInv, StageInv, Quiet, config
<1>6. CASE eng' = Closed
  <2>1. Restartable
    BY <1>1, <1>2, TypeParts DEF Restartable, OutInv
  <2>2. doubt' = "none" => /\ Shared => Kept(disk'.filed, book', disk'.next, Gap)
                           /\ policy = "Continue" => Blank(disk'.filed, disk'.next)
    BY <1>1, <1>2, UptoStore DEF OutInv, ReplayInv, Trusted, At, Unseeded
  <2> QED BY <1>1, <1>4, <1>5, <1>6, <2>1, <2>2, CloseKeeps DEF LiveStages, At
<1>7. CASE /\ disk'.marker
           /\ eng' \in Sessions /\ eng'.pc = next /\ eng'.next = eng.next
           /\ eng'.resets = eng.resets /\ eng'.graceful = eng.graceful
  <2>1. ReceiptInv'
    BY <1>1, <1>7, ReceiptSame DEF OutInv, LiveStages
  <2>2. Room'
    BY <1>7 DEF Room, At
  <2>3. InOrder(wire, buffer)'
    BY <1>1 DEF OutInv
  <2>4. StageInv'
    BY <1>1, <1>3, <1>5, <1>7 DEF OutInv, StageInv, Idle, At, Graceful, Quiet
  <2>5. NumberInv'
    BY <1>1, <1>2, <1>3, <1>5, <1>7
    DEF OutInv, NumberInv, Expects, Exempt, Idle, At, Owing, Refused, Unread
  <2>6. CounterInv'
    BY <1>1, <1>2, <1>5, <1>7 DEF OutInv, CounterInv, At
  <2>7. ReplayInv'
    <3>1. Upto' = Upto
      BY <1>2, <1>7 DEF Upto, At, Unseeded
    <3>2. (Shared' => Shared) /\ (Trusted' => Trusted)
      BY <1>1, <1>3, <1>5, <1>7 DEF Shared, Trusted, At, Unseeded
    <3> QED BY <1>1, <1>2, <3>1, <3>2, ReplaySame DEF At
  <2> QED BY <1>4, <2>1, <2>2, <2>3, <2>4, <2>5, <2>6, <2>7 DEF OutInv
<1> QED BY <1>1, <1>6, <1>7

LEMMA SeedResetKeeps ==
    ASSUME OutInv, DebtInv', SeedReset
    PROVE  OutInv'
<1>1. /\ At("reset") /\ disk' \in Disks /\ disk'.marker = disk.marker /\ budget' \in Budgets
      /\ \/ /\ disk'.next = 1 /\ disk'.filed = NoFrames /\ doubt' = "none"
            /\ eng' \in Sessions /\ eng'.pc = "logon" /\ eng'.next = 1
            /\ eng'.resets = eng.resets /\ eng'.graceful = eng.graceful
         \/ /\ disk'.next \in {disk.next, 1}
            /\ doubt' = IF doubt = "none" THEN "known" ELSE doubt
            /\ eng' = Closed
      /\ UNCHANGED <<config, debt, buffer, wire, peer, fate, book>>
  BY SeedResetEffect DEF OutInv
<1>2. peer \in Peers /\ debt \in Debts
  BY Parts DEF OutInv
<1>3. TypeOK'
  <2>1. eng' \in Sessions /\ doubt' \in {"none", "known", "forgotten"}
    BY <1>1, Constants, TypeParts DEF OutInv
  <2> QED BY <1>1, <1>2, <2>1, TypeStep, TypeParts DEF OutInv
<1>4. /\ wire = <<>> /\ buffer = <<>> /\ wire' = <<>> /\ buffer' = <<>> /\ role' = role
      /\ policy' = policy /\ disk.marker /\ eng.resets
  BY <1>1 DEF OutInv, StageInv, Quiet, config, At
<1>5. CASE eng' = Closed
  <2>1. Restartable /\ Minded(disk'.marker)
    BY <1>1, <1>2, <1>4 DEF Restartable, Minded
  <2>2. doubt' \in {doubt, "known"} /\ (doubt # "none" => doubt' = doubt) /\ doubt' # "none"
    BY <1>1, <1>5, Constants DEF At, Closed
  <2> QED BY <1>1, <1>3, <1>4, <1>5, <2>1, <2>2, CloseKeeps DEF LiveStages, At
<1>6. CASE /\ disk'.next = 1 /\ disk'.filed = NoFrames /\ doubt' = "none"
           /\ eng' \in Sessions /\ eng'.pc = "logon" /\ eng'.next = 1
           /\ eng'.resets = eng.resets /\ eng'.graceful = eng.graceful
  <2>1. ReceiptInv'
    BY <1>1, <1>6, ReceiptSame DEF OutInv, LiveStages, At
  <2>2. Room'
    BY <1>6 DEF Room, At
  <2>3. InOrder(wire, buffer)'
    BY <1>1 DEF OutInv
  <2>4. StageInv'
    BY <1>1, <1>4, <1>6 DEF OutInv, StageInv, Idle, At, Graceful, Quiet
  <2>5. NumberInv'
    BY <1>1, <1>4, <1>6 DEF OutInv, NumberInv, Expects, Exempt, Idle, At, Owing, Refused, Unread
  <2>6. CounterInv'
    BY <1>4, <1>6 DEF CounterInv, At
  <2>7. ReplayInv'
    <3>1. Upto' = 1 /\ \A n \in Seqs : 1 <= n /\ ~(n < 1) /\ NoFrames[n] = Nothing
      BY <1>6 DEF Upto, Seqs, NoFrames, Unseeded
    <3> QED BY <1>6, <3>1 DEF ReplayInv, Kept, Blank
  <2> QED BY <1>3, <2>1, <2>2, <2>3, <2>4, <2>5, <2>6, <2>7 DEF OutInv
<1> QED BY <1>1, <1>5, <1>6

LEMMA AdoptResetKeeps ==
    ASSUME OutInv, DebtInv', AdoptReset
    PROVE  OutInv'
<1>0. 2 \in 1 .. MaxSeq + 1 /\ peer.next = 2 /\ book = NoFrames /\ peer.stream \in {"theirs", "due"}
      /\ disk.marker /\ wire = <<>> /\ buffer = <<>> /\ At("adoptReset") /\ eng.next \in Nat
      /\ role \in {"initiator", "acceptor"}
  BY Parts, TypeParts, Constants DEF OutInv, StageInv, AdoptReset, At, Quiet
<1>1. /\ At("adoptReset") /\ disk' \in Disks /\ debt' \in Debts /\ budget' \in Budgets
      /\ \/ /\ disk'.next = 2 /\ disk'.filed = NoFrames /\ disk'.marker = disk.marker
            /\ doubt' = "none"
            /\ eng' \in Sessions /\ eng'.pc = "settle" /\ eng'.next = 2
            /\ eng'.resets = eng.resets /\ eng'.graceful = eng.graceful
            /\ peer' \in Peers /\ peer'.next = peer.next /\ peer'.stream = "agreed"
         \/ /\ disk'.next \in {disk.next, 2} /\ (disk.marker => disk'.marker)
            /\ debt'.owed /\ eng' = Closed /\ UNCHANGED peer
            /\ doubt' = IF doubt = "none" THEN "known" ELSE doubt
      /\ UNCHANGED <<config, buffer, wire, fate, book>>
  BY <1>0, AdoptResetEffect DEF OutInv
<1>2. peer \in Peers
  BY Parts DEF OutInv
<1>3. TypeOK'
  <2>1. eng' \in Sessions /\ doubt' \in {"none", "known", "forgotten"} /\ peer' \in Peers
    BY <1>1, <1>2, Constants, TypeParts DEF OutInv
  <2> QED BY <1>1, <1>2, <2>1, TypeStep, TypeParts DEF OutInv
<1>4. wire' = <<>> /\ buffer' = <<>> /\ role' = role /\ policy' = policy /\ book' = NoFrames
  BY <1>0, <1>1 DEF config
<1>5. CASE /\ eng' = Closed /\ disk'.marker /\ debt'.owed /\ UNCHANGED peer
           /\ doubt' = IF doubt = "none" THEN "known" ELSE doubt
  <2>1. Restartable /\ Minded(disk'.marker)
    BY <1>1, <1>2, <1>5 DEF Restartable, Minded
  <2>2. doubt' \in {doubt, "known"} /\ (doubt # "none" => doubt' = doubt) /\ doubt' # "none"
    BY <1>5
  <2> QED BY <1>0, <1>1, <1>3, <1>5, <2>1, <2>2, CloseKeeps DEF LiveStages, At
<1>6. CASE /\ disk'.next = 2 /\ disk'.filed = NoFrames /\ disk'.marker = disk.marker
           /\ doubt' = "none"
           /\ eng' \in Sessions /\ eng'.pc = "settle" /\ eng'.next = 2
           /\ eng'.resets = eng.resets /\ eng'.graceful = eng.graceful
           /\ peer' \in Peers /\ peer'.next = peer.next /\ peer'.stream = "agreed"
  <2>1. ReceiptInv'
    BY <1>1, <1>6, ReceiptSame DEF OutInv, LiveStages, At
  <2>2. Room'
    BY <1>6 DEF Room, At
  <2>3. InOrder(wire, buffer)'
    BY <1>1 DEF OutInv
  <2>4. StageInv'
    BY <1>0, <1>1, <1>4, <1>6, EmptyLine DEF OutInv, StageInv, Idle, At, Graceful, Quiet
  <2>5. NumberInv'
    <3>1. Below(<<>>, <<>>, 2) /\ From(<<>>, <<>>, 2)
      BY EmptyLine
    <3> QED BY <1>0, <1>1, <1>4, <1>6, <3>1
       DEF NumberInv, Expects, Exempt, Idle, At, Owing, Refused, Unread
  <2>6. CounterInv'
    BY <1>4, <1>6 DEF CounterInv, At
  <2>7. ReplayInv'
    <3>1. \A n \in Seqs : NoFrames[n] = Nothing
      BY DEF Seqs, NoFrames
    <3> QED BY <1>4, <1>6, <3>1 DEF ReplayInv, Kept, Blank
  <2> QED BY <1>3, <2>1, <2>2, <2>3, <2>4, <2>5, <2>6, <2>7 DEF OutInv
<1> QED BY <1>0, <1>1, <1>5, <1>6

LEMMA StartKeeps ==
    ASSUME OutInv, DebtInv', Start
    PROVE  OutInv'
<1> DEFINE Plain == ~debt.owed /\ ~disk.marker /\ peer'.stream # "asked"
<1>1. /\ At("down") /\ UNCHANGED <<config, disk, fate, book, doubt, budget>>
      /\ buffer' = <<>> /\ wire' = <<>> /\ role' = role /\ policy' = policy
      /\ debt' = Recovered
  BY DEF Start, config
<1>2. /\ peer' \in Peers /\ peer'.next = peer.next
      /\ peer'.stream = peer.stream \/ (role = "acceptor" /\ peer'.stream = "asked")
      /\ eng' \in Sessions /\ ~eng'.graceful
      /\ \/ eng'.pc = "mark" /\ eng'.resets
         \/ eng'.pc = "logon" /\ ~eng'.resets /\ eng'.next = disk.next /\ Plain
  <2>0. peer \in Peers /\ disk.next \in 1 .. MaxSeq + 1 /\ disk.marker \in BOOLEAN /\ debt \in Debts
        /\ peer.stream \in Streams /\ role \in {"initiator", "acceptor"}
    BY Parts, TypeParts DEF OutInv
  <2>1. PICK inbound \in IF peer.stream = "asked" THEN {TRUE}
                         ELSE IF role = "acceptor" THEN BOOLEAN ELSE {FALSE} :
           /\ eng' = IF inbound \/ Recovered.owed
                     THEN [Closed EXCEPT !.pc = "mark", !.resets = TRUE]
                     ELSE [Closed EXCEPT !.pc = "logon", !.next = disk.next,
                                         !.recorded = disk.next]
           /\ peer' = [peer EXCEPT !.stream = IF inbound THEN "asked" ELSE @]
    BY DEF Start
  <2>2. /\ peer' \in Peers /\ peer'.next = peer.next
        /\ peer'.stream = IF inbound THEN "asked" ELSE peer.stream
    BY <2>0, <2>1 DEF Peers, Streams
  <2>3. peer.stream = "asked" => inbound = TRUE
    BY <2>1
  <2>4. inbound /\ peer.stream # "asked" => role = "acceptor"
    BY <2>1
  <2>5. debt.owed \/ disk.marker => Recovered.owed
    BY <2>0, OweType DEF Recovered
  <2>6. CASE inbound \/ Recovered.owed
    <3>1. eng' \in Sessions /\ eng'.pc = "mark" /\ eng'.resets /\ ~eng'.graceful
      BY <2>1, <2>6, Constants DEF Closed, Sessions, Stages
    <3> QED BY <2>2, <2>3, <2>4, <3>1
  <2>7. CASE ~(inbound \/ Recovered.owed)
    <3>1. eng' = [Closed EXCEPT !.pc = "logon", !.next = disk.next, !.recorded = disk.next]
      BY <2>1, <2>7
    <3>2. eng' \in Sessions /\ eng'.pc = "logon" /\ ~eng'.resets /\ ~eng'.graceful
          /\ eng'.next = disk.next
      BY <2>0, <3>1, Constants DEF Closed, Sessions, Stages
    <3>3. Plain
      BY <2>2, <2>3, <2>5, <2>7
    <3> QED BY <2>2, <2>3, <2>4, <3>2, <3>3
  <2> QED BY <2>6, <2>7
<1>3. TypeOK'
  <2>1. debt' \in Debts
    BY <1>1, Parts, OweType DEF OutInv, Recovered
  <2>2. disk' \in Disks /\ <<>> \in Seq(Frame)
    BY <1>1, Parts DEF OutInv
  <2> QED BY <1>1, <1>2, <2>1, <2>2, TypeStep, TypeParts DEF OutInv
<1>4. ReceiptInv'
  <2>1. InFlight(wire') \subseteq InFlight(wire) \union {Admin} /\ buffer' = buffer
    BY <1>1, EmptyLine DEF OutInv, StageInv, At
  <2>2. eng.pc \notin LiveStages
    BY <1>1 DEF LiveStages, At
  <2> QED BY <1>1, <2>1, <2>2, ReceiptSame DEF OutInv
<1>5. Room'
  BY <1>2 DEF Room, At
<1>6. InOrder(wire, buffer)'
  BY <1>1, EmptyLine
<1>7. ~HeadResets(wire')
  BY <1>1, EmptyLine
<1>8. StageInv'
  <2>1. debt.owed => debt'.owed
    BY <1>1 DEF Recovered
  <2>2. role = "acceptor" /\ policy = "Continue" /\ peer.stream = "theirs" => debt.owed
    BY <1>1 DEF OutInv, StageInv, Graceful, At
  <2>3. peer.stream = "due" => disk.marker
    BY DEF OutInv, StageInv
  <2> QED BY <1>1, <1>2, <1>7, <2>1, <2>2, <2>3 DEF OutInv, StageInv, Idle, At, Graceful, Quiet
<1>9. NumberInv'
  <2>1. From(wire', buffer', peer'.next) /\ Below(wire', buffer', disk.next)
    BY <1>1, <1>2, Parts, EmptyLine DEF OutInv
  <2>2. eng'.pc = "logon" => Expects(eng.next)' 
    BY <1>1, <1>2 DEF OutInv, NumberInv, Expects, Exempt, At, Owing, Refused, Unread
  <2>3. policy = "CloseSession" => \/ disk.marker
                                   \/ /\ Below(wire', buffer', disk.next)
                                      /\ Exempt' \/ peer'.stream = "asked" \/ peer'.next <= disk.next
    BY <1>1, <1>2, <2>1 DEF OutInv, NumberInv, Exempt, At, Owing, Refused, Unread
  <2> QED BY <1>1, <1>2, <2>1, <2>2, <2>3 DEF NumberInv, Idle, At, Owing, Refused, Unread
<1>10. CounterInv'
  BY <1>1, <1>2 DEF OutInv, CounterInv, At, DebtInv
<1>11. ReplayInv'
  <2>1. Upto' = Upto
    BY <1>1, <1>2 DEF Upto, At, Unseeded
  <2>2. Shared' => Shared
    BY <1>1, <1>2, <1>7 DEF Shared
  <2>3. Trusted' => Trusted
    BY <1>1, <1>2 DEF OutInv, DebtInv, Trusted, At, Unseeded
  <2> QED BY <1>1, <2>1, <2>2, <2>3, ReplaySame DEF At
<1> QED BY <1>3, <1>4, <1>5, <1>6, <1>8, <1>9, <1>10, <1>11 DEF OutInv

\* What a frame filed leaves for a resend.
LEMMA FiledKept ==
    ASSUME TypeOK, eng.next \in Seqs, NEW what \in Contents, NEW filing \in Filings,
           Filed(what, filing), Goes(filing), NEW content \in [Seqs -> Contents],
           policy = "Continue" => Blank(disk.filed, eng.next)
    PROVE  /\ Kept(disk.filed, content, eng.next, Gap)
                => Kept(disk'.filed, [content EXCEPT ![eng.next] = what], eng.next + 1, Gap)
           /\ policy = "Continue" => Blank(disk'.filed, eng.next + 1)
<1> DEFINE spent == [content EXCEPT ![eng.next] = what]
<1>1. /\ \A k \in Seqs : k # eng.next => disk'.filed[k] = disk.filed[k] /\ spent[k] = content[k]
      /\ spent[eng.next] = what
  BY DEF Filed
<1>2. disk'.filed[eng.next] \in {what} \union Gap
  <2>1. CASE filing = "ok"
    BY <2>1 DEF Filed
  <2>2. CASE filing # "ok"
    <3>1. policy = "Continue"
      BY <2>2 DEF Goes
    <3>2. disk.filed[eng.next] = Nothing
      BY <3>1, Constants DEF Blank, Seqs
    <3> QED BY <3>1, <3>2 DEF Filed, Gap
  <2> QED BY <2>1, <2>2
<1>3. \A k \in Seqs : /\ k < eng.next + 1 => k = eng.next \/ (k # eng.next /\ k < eng.next)
                      /\ eng.next + 1 <= k => k # eng.next /\ eng.next <= k
  BY DEF Seqs
<1> HIDE DEF spent
<1>4. Kept(disk.filed, content, eng.next, Gap) => Kept(disk'.filed, spent, eng.next + 1, Gap)
  BY ONLY <1>1, <1>2, <1>3 DEF Kept
<1>5. policy = "Continue" => Blank(disk'.filed, eng.next + 1)
  BY ONLY <1>1, <1>3, policy = "Continue" => Blank(disk.filed, eng.next) DEF Blank
<1> QED BY <1>4, <1>5 DEF spent

LEMMA SendLogonKeeps ==
    ASSUME OutInv, DebtInv', SendLogon
    PROVE  OutInv'
<1>1. PICK filing \in Filings :
         /\ eng.next \in Seqs /\ At("logon") /\ Filed(Admin, filing)
         /\ \/ /\ Goes(filing)
               /\ eng' \in Sessions /\ eng'.next = eng.next + 1
               /\ eng'.pc = IF role = "initiator" THEN "wait" ELSE "settle"
               /\ eng'.resets = eng.resets /\ eng'.graceful = eng.graceful
               /\ wire' = <<LogonFrame>> /\ book' = LogonBook
               /\ peer' \in Peers /\ peer'.next = peer.next
               /\ ~eng.resets => peer'.stream = peer.stream
               /\ eng.resets => peer'.stream = IF peer.stream = "asked" THEN "asked" ELSE "unread"
            \/ ~Goes(filing) /\ eng' = Closed /\ UNCHANGED <<wire, book, peer>>
         /\ UNCHANGED <<config, buffer, fate>>
  BY SendLogonEffect DEF OutInv
<1>2. /\ disk' \in Disks /\ debt' \in Debts /\ budget' \in Budgets
      /\ filing = "ok" => disk'.marker = disk.marker /\ disk'.next = eng.next + 1 /\ doubt' = doubt
      /\ filing # "ok" => /\ debt'.owed /\ (disk.marker => disk'.marker)
                          /\ doubt' = IF doubt = "none" THEN "known" ELSE doubt
      /\ disk'.next \in {disk.next, eng.next + 1}
  BY <1>1 DEF Filed
<1>3. /\ wire = <<>> /\ buffer = <<>> /\ buffer' = <<>> /\ role' = role /\ policy' = policy
      /\ eng.next \in Nat /\ peer.next \in Nat
      /\ role \in {"initiator", "acceptor"} /\ policy \in {"CloseSession", "Continue"}
      /\ doubt \in {"none", "known", "forgotten"}
  BY <1>1, Parts, TypeParts, Constants DEF OutInv, StageInv, CounterInv, Quiet, config, At
<1>4. /\ LogonFrame \in Frame /\ LogonFrame.seq = eng.next /\ LogonFrame.what = Admin
      /\ LogonFrame.resets = eng.resets /\ (eng.resets => eng.next = 1)
  BY <1>1, Parts, Constants DEF OutInv, StageInv, LogonFrame, Frame, Kinds, At
<1>5. /\ <<LogonFrame>> \in Seq(Frame) /\ InOrder(<<LogonFrame>>, <<>>)
      /\ InFlight(<<LogonFrame>>) = {Admin}
      /\ HeadResets(<<LogonFrame>>) <=> eng.resets
      /\ Below(<<LogonFrame>>, <<>>, eng.next + 1)
      /\ \A n \in Nat : n <= eng.next => From(<<LogonFrame>>, <<>>, n)
  BY <1>3, <1>4, OneFrame
<1>6. /\ LogonBook \in [Seqs -> Contents]
      /\ Spent(LogonBook) \subseteq Spent(book) \union {Admin, Nothing}
  <2>1. book \in [Seqs -> Contents] /\ NoFrames \in [Seqs -> Contents] /\ Admin \in Contents
    BY TypeParts, Constants DEF OutInv
  <2>2. CASE eng.resets
    BY <1>1, <2>1, <2>2, SpentMore, EmptySpent DEF LogonBook
  <2>3. CASE ~eng.resets
    BY <1>1, <2>1, <2>3, SpentMore DEF LogonBook
  <2> QED BY <2>2, <2>3
<1>7. TypeOK'
  <2>1. /\ eng' \in Sessions /\ doubt' \in {"none", "known", "forgotten"} /\ peer' \in Peers
        /\ wire' \in Seq(Frame) /\ book' \in [Seqs -> Contents]
    BY <1>1, <1>2, <1>3, <1>5, <1>6, Constants, TypeParts, Parts DEF OutInv
  <2> QED BY <1>1, <1>2, <2>1, TypeStep, TypeParts DEF OutInv
<1>8. CASE ~Goes(filing) /\ eng' = Closed /\ UNCHANGED <<wire, book, peer>>
  <2>1. filing # "ok" /\ policy = "CloseSession"
    BY <1>3, <1>8 DEF Goes
  <2>2. disk.next = eng.next
    BY <1>1, <2>1 DEF OutInv, CounterInv, At
  <2>3. Restartable
    <3>1. CASE disk'.next = disk.next
      BY <1>2, <2>1, <3>1 DEF Restartable
    <3>2. CASE disk'.next = eng.next + 1
      <4>1. Below(wire, buffer, disk'.next)
        BY <1>3, <3>2, EmptyLine
      <4>2. eng.resets => disk'.marker
        BY <1>1, <1>2 DEF OutInv, StageInv, At
      <4>3. ~eng.resets => Expects(disk'.next)
        BY <1>1, <1>3, <3>2 DEF OutInv, NumberInv, Expects, At, Owing, Refused, Unread
      <4> QED BY <4>1, <4>2, <4>3 DEF Restartable
    <3> QED BY <1>2, <3>1, <3>2
  <2>4. Minded(disk'.marker)
    BY <1>8, Parts DEF OutInv, Minded
  <2> QED BY <1>1, <1>2, <1>3, <1>7, <1>8, <2>1, <2>3, <2>4, CloseKeeps DEF LiveStages, At
<1>9. CASE /\ Goes(filing)
           /\ eng' \in Sessions /\ eng'.next = eng.next + 1
           /\ eng'.pc = IF role = "initiator" THEN "wait" ELSE "settle"
           /\ eng'.resets = eng.resets /\ eng'.graceful = eng.graceful
           /\ wire' = <<LogonFrame>> /\ book' = LogonBook
           /\ peer' \in Peers /\ peer'.next = peer.next
           /\ ~eng.resets => peer'.stream = peer.stream
           /\ eng.resets => peer'.stream = IF peer.stream = "asked" THEN "asked" ELSE "unread"
  <2>1. ReceiptInv'
    BY <1>1, <1>3, <1>5, <1>6, <1>9, ReceiptSame DEF OutInv, LiveStages, At
  <2>2. Room'
    BY <1>9 DEF Room, At
  <2>3. InOrder(wire, buffer)'
    BY <1>3, <1>5, <1>9
  <2>4. StageInv'
    <3>1. /\ eng'.pc \in {"wait", "settle"} /\ (role = "initiator" <=> eng'.pc = "wait")
          /\ (HeadResets(wire') <=> eng.resets)
      BY <1>3, <1>5, <1>9
    <3>2. disk.marker => disk'.marker
      BY <1>2
    <3> QED BY <1>1, <1>3, <1>9, <3>1, <3>2 DEF OutInv, StageInv, Idle, At, Graceful
  <2>5. NumberInv'
    <3>1. (HeadResets(wire') <=> eng.resets) /\ Below(wire', buffer', eng.next + 1) /\ eng.next + 1 >= 2
      BY <1>1, <1>3, <1>5, <1>9, Constants
    <3>2. ~eng.resets => Exempt' = Exempt
      BY <1>3, <1>9 DEF Exempt
    <3>3. ~eng.resets => Exempt \/ peer.next <= eng.next
      BY <1>1, <1>3 DEF OutInv, NumberInv, Expects, HeadResets, At, Owing, Refused, Unread
    <3>4. (Exempt \/ HeadResets(wire) \/ From(wire, buffer, peer.next))'
      BY <1>3, <1>5, <1>9, <3>1, <3>2, <3>3
    <3>5. Expects(eng.next)'
      BY <1>3, <1>9, <3>1, <3>2, <3>3 DEF Expects
    <3>6. policy = "CloseSession" => disk'.next = eng.next + 1
      BY <1>2, <1>9 DEF Goes
    <3>7. eng.resets => Exempt' \/ peer'.stream = "asked" \/ disk'.marker
      BY <1>1, <1>2, <1>3, <1>9 DEF OutInv, StageInv, Exempt, At
    <3>8. eng'.pc \in {"wait", "settle"}
      BY <1>9
    <3> QED BY <1>3, <1>9, <3>1, <3>2, <3>3, <3>4, <3>5, <3>6, <3>7, <3>8
       DEF NumberInv, Idle, At, Owing, Refused, Unread
  <2>6. CounterInv'
    BY <1>1, <1>2, <1>3, <1>9 DEF OutInv, CounterInv, Goes, At
  <2>7. ReplayInv'
    <3>1. Upto' = eng.next + 1 /\ Upto = eng.next /\ Gap' = Gap
      BY <1>1, <1>3, <1>9 DEF Upto, Gap, At, Unseeded
    <3>2. Trusted' => Trusted
      BY <1>1, <1>2, <1>3, <1>9 DEF OutInv, CounterInv, Trusted, Unseeded, At
    <3>3. ASSUME Trusted
          PROVE  policy = "Continue" => Blank(disk.filed, eng.next)
      BY <1>1, <3>1, <3>3 DEF OutInv, ReplayInv, At
    <3>4. Admin \in Contents /\ book \in [Seqs -> Contents] /\ NoFrames \in [Seqs -> Contents]
      BY Constants, TypeParts DEF OutInv
    <3>5. ASSUME Shared', Trusted
          PROVE  Kept(disk'.filed, book', eng.next + 1, Gap)
      <4>1. CASE eng.resets
        <5>1. Kept(disk.filed, NoFrames, eng.next, Gap)
          BY <1>4, <4>1 DEF Kept, Seqs
        <5>2. book' = [NoFrames EXCEPT ![eng.next] = Admin]
          BY <1>9, <4>1 DEF LogonBook
        <5> QED BY <1>1, <1>9, <3>3, <3>4, <3>5, <5>1, <5>2, FiledKept DEF OutInv
      <4>2. CASE ~eng.resets
        <5>1. Shared
          BY <1>5, <1>9, <3>5, <4>2 DEF Shared
        <5>2. Kept(disk.filed, book, eng.next, Gap)
          BY <3>1, <3>5, <5>1 DEF OutInv, ReplayInv
        <5>3. book' = [book EXCEPT ![eng.next] = Admin]
          BY <1>9, <4>2 DEF LogonBook
        <5> QED BY <1>1, <1>9, <3>3, <3>4, <3>5, <5>2, <5>3, FiledKept DEF OutInv
      <4> QED BY <4>1, <4>2
    <3>6. ASSUME Trusted, policy = "Continue"
          PROVE  Blank(disk'.filed, eng.next + 1)
      BY <1>1, <1>9, <3>3, <3>4, <3>6, FiledKept DEF OutInv
    <3> QED BY <1>3, <3>1, <3>2, <3>5, <3>6 DEF ReplayInv
  <2> QED BY <1>7, <2>1, <2>2, <2>3, <2>4, <2>5, <2>6, <2>7 DEF OutInv
<1> QED BY <1>1, <1>8, <1>9

\* A refusal ends the session, whether its Logout is written or not.
LEMMA RefuseKeeps ==
    ASSUME OutInv, DebtInv', Refuse
    PROVE  OutInv'
<1>1. PICK filing \in Filings :
         /\ eng.next \in Seqs /\ Filed(Admin, filing)
         /\ \/ At("wait") /\ wire = <<>>
            \/ At("refuse")
            \/ At("logon") /\ role = "acceptor" /\ ~eng.resets
         /\ book' = IF Goes(filing) THEN [book EXCEPT ![eng.next] = Admin] ELSE book
         /\ wire' = <<>> \/ (Goes(filing) /\ wire' = <<RefusalFrame>>)
         /\ Minded(disk'.marker) /\ eng' = Closed
         /\ UNCHANGED <<config, buffer, fate>>
  BY RefuseEffect DEF OutInv
<1>2. /\ disk' \in Disks /\ debt' \in Debts /\ budget' \in Budgets
      /\ filing = "ok" => /\ disk'.marker = disk.marker /\ disk'.next = eng.next + 1
                          /\ doubt' = doubt /\ debt' = debt
      /\ filing # "ok" => /\ debt'.owed /\ (disk.marker => disk'.marker)
                          /\ doubt' = IF doubt = "none" THEN "known" ELSE doubt
      /\ disk'.next \in {disk.next, eng.next + 1}
      /\ (disk.marker => disk'.marker) /\ (debt.owed => debt'.owed)
  BY <1>1 DEF Filed
<1>3. /\ wire = <<>> /\ buffer = <<>> /\ buffer' = <<>> /\ role' = role /\ policy' = policy
      /\ eng.next \in Nat /\ disk.next \in Nat /\ peer.next \in Nat
      /\ policy \in {"CloseSession", "Continue"} /\ role \in {"initiator", "acceptor"}
      /\ doubt \in {"none", "known", "forgotten"}
  BY <1>1, Parts, TypeParts, Constants DEF OutInv, StageInv, config, At, Quiet
<1>4. book \in [Seqs -> Contents] /\ Admin \in Contents
  BY Constants, TypeParts DEF OutInv
<1>5. book' \in [Seqs -> Contents] /\ Spent(book') \subseteq Spent(book) \union {Admin, Nothing}
  BY <1>1, <1>4, SpentMore
<1>f. /\ RefusalFrame \in Frame /\ RefusalFrame.seq = eng.next /\ RefusalFrame.what = Admin
      /\ RefusalFrame.kind = "refusal" /\ ~RefusalFrame.resets
  BY <1>1, <1>4 DEF RefusalFrame, Frame, Kinds
<1>g. /\ <<RefusalFrame>> \in Seq(Frame) /\ InOrder(<<RefusalFrame>>, <<>>)
      /\ InFlight(<<RefusalFrame>>) = {Admin} /\ ~HeadResets(<<RefusalFrame>>)
      /\ Below(<<RefusalFrame>>, <<>>, eng.next + 1)
      /\ \A n \in Nat : n <= eng.next => From(<<RefusalFrame>>, <<>>, n)
  BY <1>3, <1>f, OneFrame
<1>6. TypeOK'
  <2>1. /\ eng' \in Sessions /\ doubt' \in {"none", "known", "forgotten"} /\ peer' \in Peers
    BY <1>1, <1>2, <1>3, Constants DEF Minded
  <2>2. wire' \in Seq(Frame)
    BY <1>1, <1>3, <1>g, TypeParts DEF OutInv
  <2> QED BY <1>1, <1>2, <1>5, <2>1, <2>2, TypeStep, TypeParts DEF OutInv
\* Where the refusal takes its number from.
<1>p. Owing \/ Exempt \/ peer.stream = "asked" \/ peer.next <= eng.next
  <2>1. CASE At("refuse")
    BY <1>3, <2>1 DEF OutInv, NumberInv, CounterInv, Unread, At
  <2>2. CASE ~At("refuse")
    BY <1>1, <1>3, <2>2 DEF OutInv, NumberInv, Expects, HeadResets, Idle, At
  <2> QED BY <2>1, <2>2
<1>o. Owing => Owing'
  BY <1>2, <1>3 DEF Owing
<1>8. ASSUME doubt' = "none"
      PROVE  /\ Shared => Kept(disk'.filed, book', disk'.next, Gap)
             /\ policy = "Continue" => Blank(disk'.filed, disk'.next)
  <2>1. filing = "ok" /\ doubt = "none" /\ Goes(filing) /\ disk'.next = eng.next + 1
    BY <1>2, <1>8 DEF Goes
  <2>2. Upto = eng.next
    BY <1>1 DEF OutInv, CounterInv, Upto, At, Unseeded
  <2>3. /\ Shared => Kept(disk.filed, book, eng.next, Gap)
        /\ policy = "Continue" => Blank(disk.filed, eng.next)
    BY <1>1, <2>1, <2>2 DEF OutInv, ReplayInv, Trusted, At, Unseeded
  <2> QED BY <1>1, <1>4, <2>1, <2>3, FiledKept DEF OutInv
<1>c. ~At("drain") /\ ~At("settle") /\ eng.pc \notin LiveStages
  BY <1>1 DEF At, LiveStages
<1>9. CASE wire' = <<>>
  <2>1. Restartable
    <3>1. CASE disk'.marker \/ (policy = "Continue" /\ debt'.owed)
      BY <3>1 DEF Restartable
    <3>2. CASE policy = "CloseSession" /\ disk'.next = disk.next
      BY <1>2, <3>2 DEF Restartable
    <3>3. CASE ~Owing' /\ disk'.next = eng.next + 1
      <4>1. Below(wire, buffer, disk'.next)
        BY <1>3, <3>3, EmptyLine
      <4>2. peer.stream = "asked" \/ Exempt \/ peer.next <= disk'.next
        BY <1>3, <1>p, <1>o, <3>3
      <4> QED BY <4>1, <4>2 DEF Restartable, Expects
    <3>4. policy = "Continue" /\ ~debt'.owed => disk'.next = eng.next + 1
      BY <1>2
    <3> QED BY <1>2, <1>3, <3>1, <3>2, <3>3, <3>4 DEF Owing
  <2> QED BY <1>1, <1>2, <1>3, <1>5, <1>6, <1>8, <1>9, <1>c, <2>1, CloseKeeps
<1>10. CASE Goes(filing) /\ wire' = <<RefusalFrame>>
  <2>0. /\ eng'.pc = "down" /\ eng'.graceful = FALSE
        /\ peer'.next = peer.next
        /\ peer'.stream = peer.stream \/ (disk'.marker /\ peer.stream = "theirs" /\ peer'.stream = "due")
    BY <1>1, Constants DEF Minded, Closed
  <2>1. ReceiptInv'
    BY <1>1, <1>5, <1>c, <1>g, <1>10, ReceiptSame DEF OutInv
  <2>2. Room'
    BY <2>0 DEF Room, At
  <2>3. InOrder(wire, buffer)'
    BY <1>3, <1>g, <1>10
  <2>4. StageInv'
    <3>1. role = "acceptor" /\ policy = "Continue" /\ peer.stream = "theirs" => debt'.owed
      BY <1>1, <1>2 DEF OutInv, StageInv, Graceful, At
    <3>2. role' = "acceptor" /\ policy' = "Continue" /\ peer'.stream = "theirs" =>
             eng'.pc \in Idle /\ debt'.owed /\ (At("logon")' => eng'.resets)
      BY <1>3, <2>0, <3>1 DEF Idle, At
    <3>3. ~HeadResets(wire')
      BY <1>g, <1>10
    <3> QED BY <1>1, <1>2, <1>3, <1>c, <2>0, <3>2, <3>3
        DEF OutInv, StageInv, Idle, At, Graceful
  <2>5. NumberInv'
    <3>1. Exempt' = Exempt /\ (peer.stream = "asked" => peer'.stream = "asked")
      BY <1>3, <2>0 DEF Exempt
    <3>2. At("refuse") => role = "acceptor"
      BY <1>3 DEF OutInv, StageInv
    <3>3. ~At("refuse") => Exempt \/ peer.next <= eng.next
      BY <1>1, <1>3 DEF OutInv, NumberInv, Expects, HeadResets, Idle, At
    <3>4. (Exempt \/ HeadResets(wire) \/ From(wire, buffer, peer.next) \/ Refused)'
      <4>1. CASE Exempt
        BY <3>1, <4>1
      <4>2. CASE peer.next <= eng.next
        BY <1>3, <1>g, <1>10, <2>0, <4>2
      <4>3. CASE At("refuse") /\ (Owing \/ peer.stream = "asked")
        <5>1. Len(wire') = 1 /\ wire' # <<>> /\ Head(wire').kind = "refusal"
          BY <1>f, <1>10
        <5> QED BY <1>3, <1>o, <2>0, <3>1, <3>2, <4>3, <5>1 DEF Refused, At
      <4> QED BY <1>p, <3>3, <4>1, <4>2, <4>3
    <3>5. Owing' \/ /\ Below(wire', buffer', disk'.next)
                    /\ Exempt' \/ peer'.stream = "asked" \/ peer'.next <= disk'.next
      <4>1. CASE filing = "ok"
        BY <1>2, <1>3, <1>g, <1>10, <1>p, <1>o, <2>0, <3>1, <4>1
      <4>2. CASE filing # "ok"
        BY <1>2, <1>3, <1>10, <4>2 DEF Goes, Owing
      <4> QED BY <4>1, <4>2
    <3> QED BY <2>0, <3>4, <3>5 DEF NumberInv, Idle, At
  <2>6. CounterInv'
    BY <1>1, <1>2, <1>3, <2>0 DEF OutInv, CounterInv, At
  <2>7. ReplayInv'
    <3>1. Shared' => Shared
      BY <1>g, <1>10, <2>0 DEF Shared
    <3>2. Gap' = Gap /\ Upto' = disk'.next /\ (Trusted' => doubt' = "none")
      BY <1>3, <2>0 DEF Gap, Upto, Trusted, Unseeded
    <3> QED BY <1>3, <1>8, <3>1, <3>2 DEF ReplayInv
  <2> QED BY <1>6, <2>1, <2>2, <2>3, <2>4, <2>5, <2>6, <2>7 DEF OutInv
<1> QED BY <1>1, <1>9, <1>10

LEMMA SeedRefusalKeeps ==
    ASSUME OutInv, DebtInv', SeedRefusal
    PROVE  OutInv'
<1>1. /\ At("down") /\ role = "acceptor" /\ UNCHANGED <<config, disk, debt, fate, book, doubt, budget>>
      /\ buffer' = <<>> /\ wire' = <<>> /\ role' = role /\ policy' = policy
  BY DEF SeedRefusal, config
<1>2. /\ peer' \in Peers /\ peer'.next = peer.next
      /\ peer'.stream = peer.stream \/ peer'.stream = "asked"
  BY Parts DEF OutInv, SeedRefusal, Peers, Streams
<1>3. eng' \in Sessions /\ eng'.pc = "refuse" /\ ~eng'.graceful /\ eng'.next = disk.next
  <2>1. disk.next \in 1 .. MaxSeq + 1
    BY Parts DEF OutInv
  <2> QED BY <2>1, Constants DEF SeedRefusal, Closed, Sessions, Stages
<1>4. TypeOK'
  <2>1. disk' \in Disks /\ debt' \in Debts /\ <<>> \in Seq(Frame)
    BY <1>1, Parts DEF OutInv
  <2> QED BY <1>1, <1>2, <1>3, <2>1, TypeStep, TypeParts DEF OutInv
<1>5. ReceiptInv'
  <2>1. InFlight(wire') \subseteq InFlight(wire) \union {Admin} /\ buffer' = buffer
    BY <1>1, EmptyLine DEF OutInv, StageInv, At
  <2>2. eng.pc \notin LiveStages
    BY <1>1 DEF LiveStages, At
  <2> QED BY <1>1, <2>1, <2>2, ReceiptSame DEF OutInv
<1>6. Room'
  BY <1>3 DEF Room, At
<1>7. InOrder(wire, buffer)' /\ ~HeadResets(wire') /\ peer'.next \in Nat /\ disk.next \in Nat
  BY <1>1, <1>2, Parts, EmptyLine DEF OutInv
<1>8. StageInv'
  BY <1>1, <1>2, <1>3, <1>7 DEF OutInv, StageInv, Idle, At, Graceful, Quiet
<1>9. NumberInv'
  <2>1. From(wire', buffer', peer'.next) /\ Below(wire', buffer', disk.next)
    BY <1>1, <1>7, EmptyLine
  <2>2. Owing' \/ Exempt' \/ peer'.stream = "asked" \/ peer'.next <= disk.next
    BY <1>1, <1>2 DEF OutInv, NumberInv, Exempt, Owing, Unread, At
  <2> QED BY <1>1, <1>3, <2>1, <2>2 DEF NumberInv, Idle, At
<1>10. CounterInv'
  BY <1>1, <1>3 DEF OutInv, CounterInv, At
<1>11. ReplayInv'
  <2>1. Upto' = Upto
    BY <1>1, <1>3 DEF Upto, At, Unseeded
  <2>2. (Shared' => Shared) /\ (Trusted' => Trusted)
    BY <1>1, <1>2, <1>3, <1>7 DEF Shared, Trusted, At, Unseeded
  <2> QED BY <1>1, <2>1, <2>2, ReplaySame DEF At
<1> QED BY <1>4, <1>5, <1>6, <1>7, <1>8, <1>9, <1>10, <1>11 DEF OutInv

LEMMA HandshakeWriteFailsKeeps ==
    ASSUME OutInv, DebtInv', HandshakeWriteFails
    PROVE  OutInv'
<1>1. /\ At("down") \/ (At("logon") /\ role = "acceptor")
      /\ UNCHANGED <<config, buffer, wire, fate, book>> /\ FailedMutation
      /\ eng' = IF policy = "CloseSession" THEN Closed ELSE eng
  BY DEF HandshakeWriteFails
<1>2. /\ SameBut(disk'.marker) /\ Minded(disk'.marker) /\ (disk.marker => disk'.marker)
      /\ debt' \in Debts /\ debt'.owed /\ budget' \in Budgets
      /\ doubt' = IF doubt = "none" THEN "known" ELSE doubt
  BY <1>1, FailedMutationEffect DEF OutInv
<1>3. /\ disk' \in Disks /\ disk'.next = disk.next /\ disk'.filed = disk.filed
      /\ peer' \in Peers /\ peer'.next = peer.next
      /\ peer'.stream = peer.stream \/ (disk'.marker /\ peer.stream = "theirs" /\ peer'.stream = "due")
  BY <1>2 DEF SameBut, Minded
<1>4. /\ wire' = wire /\ buffer' = buffer /\ role' = role /\ policy' = policy /\ eng \in Sessions
      /\ role \in {"initiator", "acceptor"} /\ policy \in {"CloseSession", "Continue"}
      /\ doubt \in {"none", "known", "forgotten"} /\ buffer = <<>>
  BY <1>1, Parts, TypeParts DEF OutInv, StageInv, Quiet, At, config
<1>5. TypeOK'
  <2>1. eng' \in Sessions /\ doubt' \in {"none", "known", "forgotten"}
    BY <1>1, <1>2, <1>4, Constants
  <2> QED BY <1>1, <1>2, <1>3, <2>1, TypeStep, TypeParts DEF OutInv
<1>c. ~At("drain") /\ eng.pc \notin LiveStages /\ doubt' # "none" /\ doubt' \in {doubt, "known"}
      /\ (doubt # "none" => doubt' = doubt)
  BY <1>1, <1>2 DEF At, LiveStages
<1>6. CASE policy = "CloseSession"
  <2>1. Restartable
    BY <1>2, <1>3, <1>6 DEF Restartable
  <2> QED BY <1>1, <1>2, <1>4, <1>5, <1>6, <1>c, <2>1, CloseKeeps
<1>7. CASE policy = "Continue"
  <2>0. eng' = eng
    BY <1>1, <1>7
  <2>1. ReceiptInv'
    BY <1>1, <1>4, <2>0, ReceiptSame DEF OutInv
  <2>2. Room'
    BY <1>1, <2>0 DEF Room, At
  <2>3. InOrder(wire, buffer)'
    BY <1>1 DEF OutInv
  <2>4. StageInv'
    BY <1>1, <1>2, <1>3, <1>4, <1>7, <2>0 DEF OutInv, StageInv, Idle, At, Graceful, Quiet
  <2>5. NumberInv'
    <3>1. Exempt' = Exempt /\ (peer.stream = "asked" => peer'.stream = "asked")
      BY <1>3, <1>4 DEF Exempt
    <3>2. Owing'
      BY <1>2, <1>4, <1>7 DEF Owing
    <3>3. Refused => Refused'
      BY <1>4, <2>0, <3>2 DEF Refused, At
    <3>4. (Exempt \/ HeadResets(wire) \/ From(wire, buffer, peer.next) \/ Refused)'
      BY <1>3, <1>4, <3>1, <3>3 DEF OutInv, NumberInv
    <3>5. At("logon")' /\ ~eng'.resets => Expects(eng.next)'
      BY <1>3, <1>4, <2>0, <3>1 DEF OutInv, NumberInv, Expects, At
    <3> QED BY <1>1, <2>0, <3>2, <3>4, <3>5 DEF NumberInv, Idle, At
  <2>6. CounterInv'
    BY <1>1, <1>2, <1>3, <1>4, <1>7, <1>c, <2>0 DEF OutInv, CounterInv, At
  <2>7. ReplayInv'
    <3>1. Upto' = Upto
      BY <1>3, <2>0 DEF Upto
    <3>2. (Shared' => Shared) /\ (Trusted' => Trusted)
      BY <1>1, <1>2, <1>3, <1>4, <1>7, <1>c, <2>0 DEF OutInv, CounterInv, Shared, Trusted, Unseeded, At
    <3> QED BY <1>1, <1>3, <2>0, <3>1, <3>2, ReplaySame DEF At
  <2> QED BY <1>5, <2>1, <2>2, <2>3, <2>4, <2>5, <2>6, <2>7 DEF OutInv
<1> QED BY <1>4, <1>6, <1>7

LEMMA AckReceivedKeeps ==
    ASSUME OutInv, DebtInv', AckReceived
    PROVE  OutInv'
<1>1. /\ At("wait") /\ wire = <<>> /\ peer.stream = "agreed"
      /\ UNCHANGED <<config, buffer, wire, fate, book>>
  BY DEF AckReceived
<1>2. /\ buffer = <<>> /\ wire' = <<>> /\ buffer' = <<>> /\ role' = role /\ policy' = policy
      /\ policy \in {"CloseSession", "Continue"} /\ role \in {"initiator", "acceptor"}
      /\ doubt \in {"none", "known", "forgotten"} /\ ~HeadResets(wire) /\ eng.next \in Nat
      /\ eng \in Sessions /\ disk \in Disks /\ debt \in Debts /\ peer \in Peers /\ budget \in Budgets
  BY <1>1, Parts, TypeParts, Constants DEF OutInv, StageInv, config, At, HeadResets
<1>3. /\ disk' \in Disks /\ debt' \in Debts /\ budget' \in Budgets /\ peer' \in Peers
      /\ disk'.next = disk.next /\ disk'.filed = disk.filed /\ (disk.marker => disk'.marker)
      /\ peer'.next = peer.next /\ peer'.stream = "agreed"
      /\ \/ doubt' = doubt /\ eng' = [eng EXCEPT !.pc = "settle"]
         \/ /\ doubt' = IF doubt = "none" THEN "known" ELSE doubt
            /\ debt'.owed
            /\ eng' = IF policy = "CloseSession" THEN Closed ELSE [eng EXCEPT !.pc = "settle"]
  <2>1. CASE UNCHANGED <<disk, debt, budget, peer, doubt>> /\ eng' = [eng EXCEPT !.pc = "settle"]
    BY <1>1, <1>2, <2>1
  <2>2. CASE FailedMutation /\ eng' = IF policy = "CloseSession" THEN Closed ELSE [eng EXCEPT !.pc = "settle"]
    BY <1>1, <2>2, FailedMutationEffect DEF OutInv, SameBut, Minded
  <2> QED BY <2>1, <2>2 DEF AckReceived
<1>4. /\ [eng EXCEPT !.pc = "settle"] \in Sessions /\ [eng EXCEPT !.pc = "settle"].pc = "settle"
      /\ [eng EXCEPT !.pc = "settle"].next = eng.next
      /\ [eng EXCEPT !.pc = "settle"].graceful = eng.graceful
  BY <1>2 DEF Sessions, Stages
<1>5. TypeOK'
  <2>1. eng' \in Sessions /\ doubt' \in {"none", "known", "forgotten"}
    BY <1>2, <1>3, <1>4, Constants
  <2> QED BY <1>1, <1>3, <2>1, TypeStep, TypeParts DEF OutInv
<1>6. CASE policy = "CloseSession" /\ doubt' # doubt
  <2>1. eng' = Closed /\ doubt' = "known"
    BY <1>2, <1>3, <1>6
  <2>2. Restartable /\ Minded(disk'.marker)
    BY <1>1, <1>3, <1>6 DEF Restartable, Minded
  <2> QED BY <1>1, <1>2, <1>3, <1>5, <1>6, <2>1, <2>2, CloseKeeps DEF LiveStages, At
<1>7. CASE eng' = Closed
  <2>1. policy = "CloseSession" /\ doubt' = IF doubt = "none" THEN "known" ELSE doubt
    BY <1>1, <1>3, <1>4, <1>7, Constants DEF At
  <2>2. Restartable /\ Minded(disk'.marker)
    BY <1>1, <1>3, <2>1 DEF Restartable, Minded
  <2>3. doubt' \in {doubt, "known"} /\ (doubt # "none" => doubt' = doubt) /\ doubt' # "none"
    BY <2>1
  <2> QED BY <1>1, <1>2, <1>3, <1>5, <1>7, <2>1, <2>2, <2>3, CloseKeeps DEF LiveStages, At
<1>8. CASE eng' = [eng EXCEPT !.pc = "settle"] /\ (policy = "CloseSession" => doubt' = doubt)
  <2>1. ReceiptInv'
    BY <1>1, <1>4, <1>8, ReceiptSame DEF OutInv, LiveStages, At
  <2>2. Room'
    BY <1>4, <1>8 DEF Room, At
  <2>3. InOrder(wire, buffer)'
    BY <1>1 DEF OutInv
  <2>4. StageInv'
    BY <1>1, <1>2, <1>3, <1>4, <1>8 DEF OutInv, StageInv, Idle, At, Graceful
  <2>5. NumberInv'
    BY <1>1, <1>2, <1>3, <1>4, <1>8
    DEF OutInv, NumberInv, Expects, Exempt, Idle, At, Owing, Refused, Unread
  <2>6. CounterInv'
    BY <1>1, <1>2, <1>3, <1>4, <1>8 DEF OutInv, CounterInv, At
  <2>7. ReplayInv'
    <3>1. Upto' = Upto
      BY <1>1, <1>4, <1>8 DEF Upto, At, Unseeded
    <3>2. (Shared' => Shared) /\ (Trusted' => Trusted)
      BY <1>1, <1>2, <1>3, <1>4, <1>8 DEF Shared, Trusted, At, Unseeded
    <3> QED BY <1>1, <1>3, <3>1, <3>2, ReplaySame DEF At
  <2> QED BY <1>5, <2>1, <2>2, <2>3, <2>4, <2>5, <2>6, <2>7 DEF OutInv
<1> QED BY <1>2, <1>3, <1>6, <1>7, <1>8

LEMMA PeerResetsKeeps ==
    ASSUME OutInv, DebtInv', PeerResets
    PROVE  OutInv'
<1>1. /\ At("wait") /\ wire = <<>> /\ peer.stream # "due"
      /\ peer' = [next |-> 2, stream |-> "theirs"] /\ book' = NoFrames
      /\ UNCHANGED <<config, disk, debt, buffer, wire, fate, doubt, budget>>
  BY DEF PeerResets
<1>2. /\ buffer = <<>> /\ wire' = <<>> /\ buffer' = <<>> /\ role' = role /\ policy' = policy
      /\ role = "initiator" /\ eng.next \in Nat /\ disk.next \in Nat /\ eng.next >= 2
      /\ eng.next <= MaxSeq + 1 /\ eng \in Sessions /\ disk \in Disks /\ debt \in Debts
      /\ 2 \in 1 .. MaxSeq + 1 /\ book' \in [Seqs -> Contents]
  BY <1>1, Parts, TypeParts, Constants
  DEF OutInv, StageInv, NumberInv, config, At, Owing, Refused, Unread
<1>3. /\ eng' \in Sessions /\ eng'.pc = "adopt" /\ eng'.next = eng.next /\ eng'.graceful = eng.graceful
  BY <1>2 DEF PeerResets, Sessions, Stages
<1>4. peer' \in Peers /\ peer'.next = 2 /\ peer'.stream = "theirs"
  BY <1>1, <1>2 DEF Peers, Streams
<1>5. TypeOK'
  BY <1>1, <1>2, <1>3, <1>4, TypeStep, TypeParts DEF OutInv
<1>6. ReceiptInv'
  <2>1. Spent(book') \subseteq Spent(book) \union {Admin, Nothing}
    BY <1>1, EmptySpent
  <2> QED BY <1>1, <1>3, <2>1, ReceiptSame DEF OutInv, LiveStages, At
<1>7. Room'
  BY <1>3 DEF Room, At
<1>8. InOrder(wire, buffer)'
  BY <1>1 DEF OutInv
<1>9. ~HeadResets(wire') /\ From(wire', buffer', 2) /\ Below(wire', buffer', eng.next)
      /\ Below(wire', buffer', disk.next)
  BY <1>2, EmptyLine
<1>10. StageInv'
  BY <1>1, <1>2, <1>3, <1>4, <1>9 DEF OutInv, StageInv, Idle, At, Graceful, Quiet
<1>11. NumberInv'
  <2>1. policy = "CloseSession" => disk.next = eng.next
    BY <1>1 DEF OutInv, CounterInv, At
  <2> QED BY <1>1, <1>2, <1>3, <1>4, <1>9, <2>1
     DEF NumberInv, Expects, Exempt, Idle, At, Owing, Refused, Unread
<1>12. CounterInv'
  BY <1>1, <1>2, <1>3 DEF OutInv, CounterInv, At
<1>13. ReplayInv'
  <2>1. ~Shared' /\ Upto' = Upto /\ (Trusted' => Trusted)
    BY <1>1, <1>2, <1>3, <1>4, <1>9 DEF Shared, Upto, Trusted, At, Unseeded
  <2> QED BY <1>1, <1>2, <2>1 DEF OutInv, ReplayInv, At
<1> QED BY <1>5, <1>6, <1>7, <1>8, <1>10, <1>11, <1>12, <1>13 DEF OutInv

LEMMA SettleKeeps ==
    ASSUME OutInv, DebtInv', Settle
    PROVE  OutInv'
<1>1. /\ At("settle") /\ SameBut(disk'.marker) /\ Minded(disk'.marker)
      /\ debt' \in Debts /\ budget' \in Budgets /\ (disk'.marker => debt'.owed)
      /\ \/ eng' = Closed
         \/ /\ eng' \in Sessions /\ eng'.pc = "active" /\ eng'.next = eng.next
            /\ eng'.graceful = eng.graceful
      /\ UNCHANGED <<config, buffer, wire, fate, book, doubt>>
  BY SettleEffect DEF OutInv
<1>2. /\ disk' \in Disks /\ disk'.next = disk.next /\ disk'.filed = disk.filed
      /\ peer' \in Peers /\ peer'.next = peer.next
      /\ peer'.stream = peer.stream \/ (disk'.marker /\ peer.stream = "theirs" /\ peer'.stream = "due")
  BY <1>1 DEF SameBut, Minded
<1>3. /\ buffer = <<>> /\ buffer' = <<>> /\ wire' = wire /\ role' = role /\ policy' = policy
      /\ role \in {"initiator", "acceptor"} /\ policy \in {"CloseSession", "Continue"}
      /\ doubt \in {"none", "known", "forgotten"} /\ eng.next \in 1 .. MaxSeq + 1
  BY <1>1, Parts, TypeParts DEF OutInv, StageInv, config, At
<1>4. TypeOK'
  <2>1. eng' \in Sessions
    BY <1>1, Constants
  <2> QED BY <1>1, <1>2, <2>1, TypeStep, TypeParts DEF OutInv
<1>5. HeadResets(wire) => Exempt \/ peer.stream = "asked"
  BY <1>1, <1>3 DEF OutInv, StageInv, Exempt, Idle, At
<1>6. Below(wire, buffer, eng.next) /\ Expects(eng.next)
  BY <1>1 DEF OutInv, NumberInv, Idle, At, Owing, Refused, Unread
<1>7. policy = "CloseSession" \/ doubt = "none" => disk.next = eng.next
  BY <1>1 DEF OutInv, CounterInv, At
<1>8. CASE eng' = Closed
  <2>1. Restartable
    <3>1. CASE policy = "CloseSession" \/ doubt = "none"
      BY <1>2, <1>6, <1>7, <3>1 DEF Restartable
    <3>2. CASE policy = "Continue" /\ doubt # "none"
      <4>1. doubt' = "known"
        BY <1>1, <1>3, <3>2 DEF OutInv, CounterInv
      <4> QED BY <3>2, <4>1 DEF Restartable
    <3> QED BY <1>3, <3>1, <3>2
  <2>2. doubt' = "none" => /\ Shared => Kept(disk'.filed, book', disk'.next, Gap)
                           /\ policy = "Continue" => Blank(disk'.filed, disk'.next)
    BY <1>1, <1>2, UptoStore DEF OutInv, ReplayInv, Trusted, At, Unseeded
  <2> QED BY <1>1, <1>3, <1>4, <1>8, <2>1, <2>2, CloseKeeps DEF LiveStages, At
<1>9. CASE /\ eng' \in Sessions /\ eng'.pc = "active" /\ eng'.next = eng.next
           /\ eng'.graceful = eng.graceful
  <2>1. ReceiptInv'
    BY <1>1, <1>9, ReceiptSame DEF OutInv, LiveStages, At
  <2>2. Room'
    BY <1>1, <1>3, <1>9, RoomSame DEF OutInv, LiveStages, At
  <2>3. InOrder(wire, buffer)'
    BY <1>1 DEF OutInv
  <2>4. StageInv'
    BY <1>1, <1>2, <1>3, <1>9 DEF OutInv, StageInv, Idle, At, Graceful
  <2>5. NumberInv'
    BY <1>1, <1>2, <1>3, <1>5, <1>6, <1>7, <1>9
    DEF OutInv, NumberInv, Expects, Exempt, Idle, At, Owing, Refused, Unread
  <2>6. CounterInv'
    BY <1>1, <1>2, <1>3, <1>9 DEF OutInv, CounterInv, At
  <2>7. ReplayInv'
    <3>1. Upto' = Upto
      BY <1>1, <1>9 DEF Upto, At, Unseeded
    <3>2. (Shared' => Shared) /\ (Trusted' => Trusted)
      BY <1>1, <1>2, <1>3, <1>9 DEF Shared, Trusted, At, Unseeded
    <3> QED BY <1>1, <1>2, <3>1, <3>2, ReplaySame DEF At
  <2> QED BY <1>4, <2>1, <2>2, <2>3, <2>4, <2>5, <2>6, <2>7 DEF OutInv
<1> QED BY <1>1, <1>8, <1>9

LEMMA HandshakeLostKeeps ==
    ASSUME OutInv, DebtInv', HandshakeLost
    PROVE  OutInv'
<1>1. /\ eng.pc \in {"refuse", "logon", "wait", "adopt", "settle"} /\ eng' = Closed
      /\ UNCHANGED <<config, disk, debt, buffer, wire, peer, fate, book, doubt, budget>>
  BY DEF HandshakeLost, At
<1>2. /\ buffer = <<>> /\ policy \in {"CloseSession", "Continue"} /\ disk \in Disks /\ debt \in Debts
      /\ doubt \in {"none", "known", "forgotten"} /\ peer \in Peers /\ eng.next \in Nat
  BY <1>1, Parts, TypeParts, Constants DEF OutInv, StageInv, Quiet
<1>3. TypeOK'
  BY <1>1, <1>2, Constants, TypeStep, TypeParts DEF OutInv
<1>4. Restartable
  <2>1. CASE policy = "CloseSession"
    BY <1>1, <2>1 DEF Restartable
  <2>2. CASE policy = "Continue" /\ doubt # "none"
    BY <1>1, <1>2, <2>2 DEF OutInv, CounterInv, Restartable
  <2>3. CASE doubt = "none"
    <3>1. disk'.next = eng.next
      BY <1>1, <2>3 DEF OutInv, CounterInv, At
    <3>0. CASE At("refuse")
      BY <1>1, <3>0 DEF OutInv, NumberInv, Expects, Restartable, Owing, Unread, At
    <3>2. CASE eng.pc \notin {"refuse", "logon"}
      BY <1>1, <3>1, <3>2 DEF OutInv, NumberInv, Idle, Restartable, Owing, Refused, Unread
    <3>3. CASE At("logon") /\ eng.resets
      BY <1>1, <3>3 DEF OutInv, StageInv, Restartable
    <3>4. CASE At("logon") /\ ~eng.resets
      <4>1. Below(wire, buffer, eng.next)
        BY <1>2, <3>4, EmptyLine DEF OutInv, StageInv, Quiet, At
      <4> QED BY <3>1, <3>4, <4>1 DEF OutInv, NumberInv, Restartable, Owing, Refused, Unread
    <3> QED BY <3>0, <3>2, <3>3, <3>4 DEF At
  <2> QED BY <1>2, <2>1, <2>2, <2>3
<1>5. doubt' = "none" => /\ Shared => Kept(disk'.filed, book', disk'.next, Gap)
                         /\ policy = "Continue" => Blank(disk'.filed, disk'.next)
  BY <1>1, UptoStore DEF OutInv, ReplayInv, Trusted, At, Unseeded
<1>6. Minded(disk'.marker)
  BY <1>1, <1>2 DEF Minded
<1> QED BY <1>1, <1>2, <1>3, <1>4, <1>5, <1>6, CloseKeeps DEF LiveStages, At

-----------------------------------------------------------------------------
(* The live session                                                         *)

LEMMA SubmitKeeps ==
    ASSUME OutInv, DebtInv', NEW m \in Messages, Submit(m)
    PROVE  OutInv'
<1>1. /\ At("active") /\ fate[m] = "new" /\ eng.next + Cardinality(Queued) <= MaxSeq
      /\ fate' = [fate EXCEPT ![m] = "queued"]
      /\ UNCHANGED <<config, disk, debt, eng, buffer, wire, peer, book, doubt, budget>>
  BY DEF Submit
<1>2. fate \in [Messages -> Fates] /\ fate' \in [Messages -> Fates]
  <2>1. "queued" \in Fates
    BY DEF Fates, Live
  <2> QED BY <1>1, <2>1, TypeParts DEF OutInv
<1>3. TypeOK'
  BY <1>1, <1>2, Parts, TypeParts, TypeStep DEF OutInv
<1>4. ReceiptInv'
  <2>1. \A k \in Messages : k # m => fate'[k] = fate[k]
    BY <1>1, <1>2
  <2>2. fate'[m] = "queued" /\ fate[m] = "new" /\ fate[m] \in Fresh
    BY <1>1, <1>2 DEF Fresh
  <2>3. eng'.pc = "active"
    BY <1>1 DEF At
  <2> QED BY <1>1, <2>1, <2>2, <2>3 DEF OutInv, ReceiptInv
<1>5. Room'
  <2>1. Queued' = Queued \union {m} /\ m \notin Queued
    BY <1>1, <1>2 DEF Queued
  <2>2. Cardinality(Queued') = Cardinality(Queued) + 1 /\ Cardinality(Queued) \in Nat
    BY <2>1, QueuedType, FS_AddElement
  <2>3. eng' = eng /\ eng.next \in Nat /\ MaxSeq \in Nat
    BY <1>1, Parts, Constants DEF OutInv
  <2>4. eng.next + (Cardinality(Queued) + 1) <= MaxSeq + 1
    BY <1>1, <2>2, <2>3
  <2> QED BY <2>2, <2>3, <2>4 DEF Room
<1>6. InOrder(wire, buffer)' /\ StageInv' /\ NumberInv' /\ CounterInv'
  BY <1>1
  DEF OutInv, StageInv, NumberInv, CounterInv, Quiet, Graceful, Exempt, Expects, At, config, Owing, Refused, Unread
<1>7. ReplayInv'
  BY <1>1, ReplaySame DEF Upto, Shared, Trusted, At, config, Unseeded
<1> QED BY <1>3, <1>4, <1>5, <1>6, <1>7 DEF OutInv

LEMMA WriteAtKeeps ==
    ASSUME OutInv, DebtInv', At("active"), eng.next \in Seqs, NEW what \in Contents,
           NEW pc \in {"active", "leaving"}, WriteAt(what, pc),
           what \in Messages => fate[what] = "queued",
           pc = "active" => what \in Messages
    PROVE  OutInv'
<1>1. PICK filing \in Filings :
           /\ Filed(what, filing) /\ Minded(disk'.marker)
           /\ eng' \in Sessions /\ eng'.resets = eng.resets /\ eng'.graceful = eng.graceful
           /\ \/ /\ Goes(filing) /\ eng'.pc = pc /\ eng'.next = eng.next + 1
                 /\ buffer' = Append(buffer, DataFrame(what))
                 /\ book' = [book EXCEPT ![eng.next] = what]
                 /\ fate' = [m \in Messages |-> IF m = what THEN "fed" ELSE fate[m]]
              \/ /\ ~Goes(filing) /\ eng'.pc = "closing" /\ eng'.next = eng.next
                 /\ UNCHANGED <<buffer, book>>
                 /\ fate' = [m \in Messages |-> IF m = what THEN "refused" ELSE fate[m]]
           /\ UNCHANGED <<config, wire>>
  BY WriteAtEffect DEF OutInv
<1>2. /\ disk' \in Disks /\ debt' \in Debts /\ budget' \in Budgets
      /\ filing = "ok" => disk'.marker = disk.marker /\ disk'.next = eng.next + 1 /\ doubt' = doubt
      /\ filing # "ok" => /\ debt'.owed /\ (disk.marker => disk'.marker)
                          /\ doubt' = IF doubt = "none" THEN "known" ELSE doubt
      /\ disk'.next \in {disk.next, eng.next + 1}
  BY <1>1 DEF Filed
<1>3. /\ wire' = wire /\ role' = role /\ policy' = policy /\ wire \in Seq(Frame) /\ buffer \in Seq(Frame)
      /\ eng.next \in Nat /\ peer.next \in Nat
      /\ role \in {"initiator", "acceptor"} /\ policy \in {"CloseSession", "Continue"}
      /\ doubt \in {"none", "known", "forgotten"}
      /\ fate \in [Messages -> Fates] /\ book \in [Seqs -> Contents]
  BY <1>1, Parts, TypeParts, Constants DEF OutInv, config
<1>4. /\ peer' \in Peers /\ peer'.next = peer.next
      /\ peer'.stream = peer.stream \/ (disk'.marker /\ peer.stream = "theirs" /\ peer'.stream = "due")
      /\ disk.marker => disk'.marker
  BY <1>1, <1>2 DEF Minded
<1>5. /\ DataFrame(what) \in Frame /\ DataFrame(what).seq = eng.next
      /\ DataFrame(what).what = what /\ ~DataFrame(what).resets
  BY DEF DataFrame, Frame, Kinds
<1>6. Below(wire, buffer, eng.next) /\ Expects(eng.next) /\ InOrder(wire, buffer)
  BY DEF OutInv, NumberInv, Idle, At, Owing, Refused, Unread
<1>7. /\ Append(buffer, DataFrame(what)) \in Seq(Frame)
      /\ InOrder(wire, Append(buffer, DataFrame(what)))
      /\ Below(wire, Append(buffer, DataFrame(what)), eng.next + 1)
      /\ \A n \in Nat : From(wire, buffer, n) /\ n <= eng.next => From(wire, Append(buffer, DataFrame(what)), n)
      /\ InFlight(Append(buffer, DataFrame(what))) = InFlight(buffer) \union {what}
      /\ Distinct(buffer) /\ (what \in Messages => what \notin InFlight(buffer))
            => Distinct(Append(buffer, DataFrame(what)))
  BY <1>3, <1>5, <1>6, FeedFrame
<1>8. Exempt' = Exempt /\ (HeadResets(wire) => Exempt \/ peer.stream = "asked")
      /\ (peer.stream = "asked" => peer'.stream = "asked")
  BY <1>3, <1>4 DEF OutInv, StageInv, Exempt, Idle, At
<1>9. policy = "CloseSession" \/ doubt = "none" => disk.next = eng.next
  BY DEF OutInv, CounterInv, At
<1>10. doubt = "known" => policy = "Continue"
  BY <1>3 DEF OutInv, CounterInv, At
<1>11. eng.graceful => ~ResetOnLogout
  BY DEF OutInv, StageInv, Graceful, At
<1>12. CASE /\ Goes(filing) /\ eng'.pc = pc /\ eng'.next = eng.next + 1
            /\ buffer' = Append(buffer, DataFrame(what))
            /\ book' = [book EXCEPT ![eng.next] = what]
            /\ fate' = [m \in Messages |-> IF m = what THEN "fed" ELSE fate[m]]
  <2>1. fate' \in [Messages -> Fates] /\ book' \in [Seqs -> Contents]
    <3>1. "fed" \in Fates
      BY DEF Fates, Live
    <3> QED BY <1>3, <1>12, <3>1
  <2>2. TypeOK'
    <3>1. doubt' \in {"none", "known", "forgotten"} /\ buffer' \in Seq(Frame)
      BY <1>2, <1>3, <1>7, <1>12
    <3> QED BY <1>1, <1>2, <1>3, <1>4, <2>1, <3>1, TypeStep DEF OutInv
  <2>3. ReceiptInv'
    <3>1. /\ \A m \in Messages : m # what => fate'[m] = fate[m]
          /\ what \in Messages => fate'[what] = "fed" /\ fate[what] \in Fresh
      BY <1>12 DEF Fresh
    <3>2. InFlight(buffer') = InFlight(buffer) \union {what} /\ wire' = wire
      BY <1>3, <1>7, <1>12
    <3>3. Spent(book') \subseteq Spent(book) \union {what}
      BY <1>3, <1>12, SpentMore
    <3>4. \A m \in Messages : fate'[m] \in Fresh =>
             m \notin InFlight(buffer') /\ m \notin InFlight(wire') /\ m \notin Spent(book')
      BY <3>1, <3>2, <3>3 DEF OutInv, ReceiptInv, Fresh
    <3>5. \A m \in Messages : m \in InFlight(buffer') <=> fate'[m] = "fed"
      BY <3>1, <3>2 DEF OutInv, ReceiptInv
    <3>6. \A m \in Messages : m \in InFlight(wire') => fate'[m] = "sent"
      BY <3>1, <3>2 DEF OutInv, ReceiptInv
    <3>7. Distinct(buffer')
      BY <1>7, <1>12, <3>1 DEF OutInv, ReceiptInv
    <3> QED BY <1>12, <3>4, <3>5, <3>6, <3>7 DEF ReceiptInv
  <2>4. Room'
    <3>1. CASE pc = "leaving"
      BY <1>12, <3>1 DEF Room, At
    <3>2. CASE pc = "active"
      <4>1. what \in Queued /\ Queued' = Queued \ {what}
        BY <1>3, <1>12, <3>2 DEF Queued
      <4>2. Cardinality(Queued') = Cardinality(Queued) - 1 /\ Cardinality(Queued) \in Nat
        BY <4>1, QueuedType, FS_RemoveElement
      <4>3. eng.next + Cardinality(Queued) <= MaxSeq + 1
        BY DEF OutInv, Room
      <4>4. (eng.next + 1) + (Cardinality(Queued) - 1) <= MaxSeq + 1
        BY <1>3, <4>2, <4>3, Constants
      <4> QED BY <1>12, <4>2, <4>4 DEF Room
    <3> QED BY <3>1, <3>2
  <2>5. InOrder(wire, buffer)'
    BY <1>3, <1>7, <1>12
  <2>6. StageInv'
    BY <1>1, <1>3, <1>4, <1>11, <1>12 DEF OutInv, StageInv, Idle, At, Graceful
  <2>7. NumberInv'
    <3>1. (Exempt \/ HeadResets(wire) \/ From(wire, buffer, peer.next))'
      BY <1>3, <1>4, <1>6, <1>7, <1>8, <1>12 DEF OutInv, NumberInv, Expects, At, Refused
    <3>2. Below(wire', buffer', eng.next + 1) /\ Expects(eng.next)'
      BY <1>3, <1>4, <1>6, <1>7, <1>8, <1>12 DEF Expects
    <3>3. policy = "CloseSession" => disk'.next = eng.next + 1
      BY <1>2, <1>12 DEF Goes
    <3>4. Exempt \/ peer.stream = "asked" \/ peer'.next <= eng.next + 1
      BY <1>3, <1>4, <1>6, <1>8 DEF Expects
    <3> QED BY <1>3, <1>8, <1>12, <3>1, <3>2, <3>3, <3>4
       DEF NumberInv, Idle, At, Owing, Refused, Unread
  <2>8. CounterInv'
    BY <1>2, <1>3, <1>10, <1>12 DEF OutInv, CounterInv, Goes, At
  <2>9. ReplayInv'
    <3>1. Upto' = eng.next + 1 /\ Upto = eng.next /\ Gap' = Gap
      BY <1>3, <1>12 DEF Upto, Gap, At, Unseeded
    <3>2. (Shared' => Shared) /\ (Trusted' => Trusted)
      BY <1>2, <1>3, <1>4, <1>12 DEF Shared, Trusted, At, Unseeded
    <3>3. ASSUME Trusted
          PROVE  policy = "Continue" => Blank(disk.filed, eng.next)
      BY <3>1, <3>3 DEF OutInv, ReplayInv, At
    <3>4. ASSUME Shared, Trusted
          PROVE  Kept(disk'.filed, book', eng.next + 1, Gap)
      <4>1. Kept(disk.filed, book, eng.next, Gap)
        BY <3>1, <3>4 DEF OutInv, ReplayInv
      <4> QED BY <1>1, <1>3, <1>12, <3>3, <3>4, <4>1, FiledKept DEF OutInv
    <3>5. ASSUME Trusted, policy = "Continue"
          PROVE  Blank(disk'.filed, eng.next + 1)
      BY <1>1, <1>3, <1>12, <3>3, <3>5, FiledKept DEF OutInv
    <3> QED BY <1>3, <3>1, <3>2, <3>4, <3>5 DEF ReplayInv
  <2> QED BY <2>2, <2>3, <2>4, <2>5, <2>6, <2>7, <2>8, <2>9 DEF OutInv
<1>13. CASE /\ ~Goes(filing) /\ eng'.pc = "closing" /\ eng'.next = eng.next
            /\ UNCHANGED <<buffer, book>>
            /\ fate' = [m \in Messages |-> IF m = what THEN "refused" ELSE fate[m]]
  <2>0. filing # "ok" /\ policy = "CloseSession" /\ doubt' # "none"
    BY <1>2, <1>3, <1>13 DEF Goes
  <2>1. fate' \in [Messages -> Fates]
    <3>1. "refused" \in Fates
      BY DEF Fates, Settled
    <3> QED BY <1>3, <1>13, <3>1
  <2>2. TypeOK'
    <3>1. doubt' \in {"none", "known", "forgotten"}
      BY <1>2, <1>3
    <3> QED BY <1>1, <1>2, <1>3, <1>4, <1>13, <2>1, <3>1, TypeStep DEF OutInv
  <2>3. ReceiptInv'
    <3>1. /\ \A m \in Messages : m # what => fate'[m] = fate[m]
          /\ what \in Messages => fate'[what] = "refused" /\ fate[what] = "queued" /\ fate[what] \in Fresh
      BY <1>13 DEF Fresh
    <3>2. buffer' = buffer /\ wire' = wire /\ book' = book /\ eng'.pc = "closing"
      BY <1>3, <1>13
    <3>3. \A m \in Messages : fate'[m] \in Fresh => fate[m] \in Fresh
      BY <3>1
    <3> QED BY <3>1, <3>2, <3>3 DEF OutInv, ReceiptInv
  <2>4. Room'
    BY <1>13 DEF Room, At
  <2>5. InOrder(wire, buffer)'
    BY <1>3, <1>6, <1>13
  <2>6. StageInv'
    BY <1>1, <1>3, <1>4, <1>11, <1>13 DEF OutInv, StageInv, Idle, At, Graceful
  <2>7. NumberInv'
    <3>1. (Exempt \/ HeadResets(wire) \/ From(wire, buffer, peer.next))'
      BY <1>3, <1>4, <1>8, <1>13 DEF OutInv, NumberInv, At, Refused
    <3>2. Below(wire', buffer', eng.next) /\ Expects(eng.next)'
      BY <1>3, <1>4, <1>6, <1>8, <1>13 DEF Expects
    <3>3. disk'.next \in {eng.next, eng.next + 1} /\ Below(wire, buffer, eng.next + 1)
      BY <1>2, <1>3, <1>6, <1>9, <2>0, BelowMore
    <3>4. Exempt \/ peer.stream = "asked" \/ peer'.next <= disk'.next
      BY <1>3, <1>4, <1>6, <1>8, <3>3 DEF Expects
    <3>5. Below(wire', buffer', disk'.next)
      BY <1>3, <1>6, <1>13, <3>3
    <3> QED BY <1>3, <1>8, <1>13, <3>1, <3>2, <3>4, <3>5
       DEF NumberInv, Idle, At, Owing, Refused, Unread
  <2>8. CounterInv'
    BY <1>2, <1>3, <1>13, <2>0 DEF OutInv, CounterInv, At
  <2>9. ReplayInv'
    <3>1. ~Trusted'
      BY <1>3, <2>0 DEF Trusted, Unseeded
    <3> QED BY <3>1 DEF ReplayInv
  <2> QED BY <2>2, <2>3, <2>4, <2>5, <2>6, <2>7, <2>8, <2>9 DEF OutInv
<1> QED BY <1>1, <1>12, <1>13

LEMMA SendKeeps ==
    ASSUME OutInv, DebtInv', NEW m \in Messages, Send(m)
    PROVE  OutInv'
<1>1. At("active") /\ fate[m] = "queued" /\ WriteAt(m, "active")
  BY DEF Send
<1>2. eng.next \in Seqs
  <2>1. Cardinality(Queued) # 0
    <3>1. m \in Queued
      BY <1>1 DEF Queued
    <3> QED BY <3>1, QueuedType, FS_EmptySet
  <2>2. eng.next + Cardinality(Queued) <= MaxSeq + 1 /\ eng.next \in 1 .. MaxSeq + 1
    BY <1>1, Parts DEF OutInv, Room
  <2>3. eng.next <= MaxSeq
    BY <2>1, <2>2, QueuedType, Constants
  <2> QED BY <2>2, <2>3, Constants
<1> QED BY <1>1, <1>2, WriteAtKeeps, Constants

LEMMA BeginLogoutKeeps ==
    ASSUME OutInv, DebtInv', BeginLogout
    PROVE  OutInv'
<1>1. At("active") /\ eng.next \in Seqs /\ WriteAt(Admin, "leaving")
  BY Parts, Constants DEF BeginLogout, OutInv
<1> QED BY <1>1, WriteAtKeeps, Constants

LEMMA InboundWriteFailsKeeps ==
    ASSUME OutInv, DebtInv', InboundWriteFails
    PROVE  OutInv'
<1>1. /\ At("active") /\ UNCHANGED <<config, buffer, wire, fate, book>>
      /\ FailedMutation
      /\ eng' = IF policy = "CloseSession" THEN [eng EXCEPT !.pc = "closing"] ELSE eng
  BY DEF InboundWriteFails
<1>2. /\ SameBut(disk'.marker) /\ Minded(disk'.marker) /\ (disk.marker => disk'.marker)
      /\ debt' \in Debts /\ debt'.owed /\ budget' \in Budgets
      /\ doubt' = IF doubt = "none" THEN "known" ELSE doubt
  BY <1>1, FailedMutationEffect DEF OutInv
<1>3. /\ disk' \in Disks /\ disk'.next = disk.next /\ disk'.filed = disk.filed
      /\ peer' \in Peers /\ peer'.next = peer.next
      /\ peer'.stream = peer.stream \/ (disk'.marker /\ peer.stream = "theirs" /\ peer'.stream = "due")
  BY <1>2 DEF SameBut, Minded
<1>4. /\ wire' = wire /\ buffer' = buffer /\ role' = role /\ policy' = policy /\ eng \in Sessions
      /\ role \in {"initiator", "acceptor"} /\ policy \in {"CloseSession", "Continue"}
      /\ doubt \in {"none", "known", "forgotten"} /\ eng.next \in 1 .. MaxSeq + 1
  BY <1>1, Parts, TypeParts DEF OutInv, config
<1>5. /\ eng' \in Sessions /\ eng'.next = eng.next /\ eng'.graceful = eng.graceful
      /\ eng'.pc = IF policy = "CloseSession" THEN "closing" ELSE "active"
  BY <1>1, <1>4 DEF Sessions, Stages, At
<1>6. TypeOK'
  <2>1. doubt' \in {"none", "known", "forgotten"}
    BY <1>2, <1>4
  <2> QED BY <1>1, <1>2, <1>3, <1>5, <2>1, TypeStep, TypeParts DEF OutInv
<1>7. ReceiptInv'
  BY <1>1, <1>4, <1>5, ReceiptSame DEF OutInv, LiveStages
<1>8. Room'
  BY <1>1, <1>4, <1>5, RoomSame DEF OutInv
<1>9. InOrder(wire, buffer)'
  BY <1>1 DEF OutInv
<1>10. StageInv'
  BY <1>1, <1>2, <1>3, <1>4, <1>5 DEF OutInv, StageInv, Idle, At, Graceful
<1>11. NumberInv'
  BY <1>1, <1>2, <1>3, <1>4, <1>5
  DEF OutInv, NumberInv, Expects, Exempt, Idle, At, Owing, Refused, Unread
<1>12. CounterInv'
  BY <1>1, <1>2, <1>3, <1>4, <1>5 DEF OutInv, CounterInv, At
<1>13. ReplayInv'
  <2>1. Upto' = Upto
    BY <1>1, <1>5 DEF Upto, At, Unseeded
  <2>2. (Shared' => Shared) /\ (Trusted' => Trusted)
    BY <1>1, <1>2, <1>3, <1>4, <1>5 DEF Shared, Trusted, At, Unseeded
  <2> QED BY <1>1, <1>3, <2>1, <2>2, ReplaySame DEF At
<1> QED BY <1>6, <1>7, <1>8, <1>9, <1>10, <1>11, <1>12, <1>13 DEF OutInv

\* The stream takes frames from the front of the buffer: the line is the same.
LEMMA LineMoves ==
    ASSUME OutInv, eng.pc \in LiveStages, eng'.pc \notin Idle, eng'.pc \in LiveStages \union {"drain"},
           eng'.next = eng.next, eng'.graceful = eng.graceful,
           UNCHANGED <<config, disk, debt, peer, book, doubt>>,
           HeadResets(wire') <=> HeadResets(wire),
           \A n \in Nat : Below(wire, buffer, n) => Below(wire', buffer', n),
           \A n \in Nat : From(wire, buffer, n) => From(wire', buffer', n),
           Quiet => Quiet', eng'.pc = "drain" => buffer' = <<>>,
           eng.pc = eng'.pc \/ eng'.pc \in {"closing", "drain"}
    PROVE  StageInv' /\ NumberInv' /\ CounterInv' /\ ReplayInv'
<1>1. /\ role' = role /\ policy' = policy /\ eng.next \in Nat /\ disk.next \in Nat /\ peer.next \in Nat
      /\ policy \in {"CloseSession", "Continue"} /\ doubt \in {"none", "known", "forgotten"}
  BY Parts, TypeParts, Constants DEF OutInv, config
<1>2. StageInv'
  BY <1>1 DEF OutInv, StageInv, Idle, At, Graceful, LiveStages
<1>3. NumberInv'
  BY <1>1 DEF OutInv, NumberInv, Expects, Exempt, Idle, At, LiveStages, Owing, Refused, Unread
<1>4. CounterInv'
  BY <1>1 DEF OutInv, CounterInv, At, LiveStages
<1>5. ReplayInv'
  <2>1. Upto' = Upto
    BY DEF Upto, LiveStages, Idle, Unseeded
  <2>2. (Shared' => Shared) /\ (Trusted' => Trusted)
    BY <1>1 DEF Shared, Trusted, LiveStages, Idle, Unseeded
  <2> QED BY <2>1, <2>2, ReplaySame DEF At, LiveStages
<1> QED BY <1>2, <1>3, <1>4, <1>5

LEMMA AcceptKeeps ==
    ASSUME OutInv, DebtInv', Accept
    PROVE  OutInv'
<1>1. /\ eng.pc \in {"active", "leaving"} /\ buffer # <<>>
      /\ wire' = Append(wire, Head(buffer)) /\ buffer' = Tail(buffer)
      /\ fate' = IF Head(buffer).what \in Messages THEN Told(Head(buffer).what, "sent") ELSE fate
      /\ UNCHANGED <<config, disk, debt, eng, peer, book, doubt, budget>>
  BY DEF Accept
<1>2. wire \in Seq(Frame) /\ buffer \in Seq(Frame) /\ InOrder(wire, buffer) /\ fate \in [Messages -> Fates]
  BY TypeParts DEF OutInv
<1>3. /\ wire' \in Seq(Frame) /\ buffer' \in Seq(Frame)
      /\ InOrder(wire', buffer')
      /\ HeadResets(wire') <=> HeadResets(wire)
      /\ \A n \in Nat : Below(wire, buffer, n) => Below(wire', buffer', n)
      /\ \A n \in Nat : From(wire, buffer, n) => From(wire', buffer', n)
      /\ InFlight(wire') = InFlight(wire) \union {Head(buffer).what}
      /\ InFlight(buffer) = InFlight(buffer') \union {Head(buffer).what}
      /\ Distinct(buffer')
      /\ Head(buffer).what \in Messages => Head(buffer).what \notin InFlight(buffer')
  BY <1>1, <1>2, TakeFrame DEF OutInv, ReceiptInv
<1>4. /\ fate' \in [Messages -> Fates]
      /\ \A m \in Messages : fate'[m] = IF m = Head(buffer).what THEN "sent" ELSE fate[m]
  <2>1. "sent" \in Fates
    BY DEF Fates, Settled
  <2> QED BY <1>1, <1>2, <2>1 DEF Told
<1>5. TypeOK'
  BY <1>1, <1>3, <1>4, TypeStep, TypeParts, Parts DEF OutInv
<1>6. \A m \in Messages : m = Head(buffer).what => fate[m] = "fed"
  BY <1>3 DEF OutInv, ReceiptInv
<1>7. ReceiptInv'
  <2>1. \A m \in Messages : fate'[m] \in Fresh =>
           m \notin InFlight(buffer') /\ m \notin InFlight(wire') /\ m \notin Spent(book')
    BY <1>1, <1>3, <1>4 DEF OutInv, ReceiptInv, Fresh
  <2>2. \A m \in Messages : m \in InFlight(buffer') <=> fate'[m] = "fed"
    BY <1>3, <1>4 DEF OutInv, ReceiptInv
  <2>3. \A m \in Messages : m \in InFlight(wire') => fate'[m] = "sent"
    BY <1>3, <1>4 DEF OutInv, ReceiptInv
  <2> QED BY <1>1, <1>3, <2>1, <2>2, <2>3 DEF ReceiptInv
<1>8. Room'
  <2>1. Queued' = Queued
    BY <1>4, <1>6 DEF Queued
  <2> QED BY <1>1, <2>1 DEF OutInv, Room, At
<1>9. StageInv' /\ NumberInv' /\ CounterInv' /\ ReplayInv'
  BY <1>1, <1>3, LineMoves DEF LiveStages, Idle, Quiet
<1> QED BY <1>3, <1>5, <1>7, <1>8, <1>9 DEF OutInv

\* What was fed and not taken is told so, and its frame is gone.
LEMMA FailedReceipts ==
    ASSUME OutInv, NEW sent, eng.pc \in LiveStages
    PROVE  /\ FailReceipts(sent) \in [Messages -> Fates]
           /\ \A m \in Messages :
                 FailReceipts(sent)[m] = IF fate[m] # "fed" THEN fate[m]
                                         ELSE IF m \in sent THEN "sent" ELSE "unknown"
<1>1. fate \in [Messages -> Fates] /\ "sent" \in Fates /\ "unknown" \in Fates
  BY TypeParts DEF OutInv, Fates, Settled
<1> QED BY <1>1 DEF FailReceipts

LEMMA WriteFailsKeeps ==
    ASSUME OutInv, DebtInv', WriteFails
    PROVE  OutInv'
<1>1. /\ eng.pc \in {"active", "leaving"} /\ fate' = FailReceipts({}) /\ buffer' = <<>> /\ buffer # <<>>
      /\ wire' = wire /\ UNCHANGED <<config, disk, debt, peer, book, doubt, budget>>
  BY DEF WriteFails
<1>2. eng' \in Sessions /\ eng'.pc = "closing" /\ eng'.next = eng.next /\ eng'.graceful = eng.graceful
  BY Parts DEF OutInv, WriteFails, Sessions, Stages
<1>3. /\ fate' \in [Messages -> Fates]
      /\ \A m \in Messages : fate'[m] = IF fate[m] # "fed" THEN fate[m] ELSE "unknown"
  BY <1>1, FailedReceipts DEF LiveStages
<1>4. TypeOK'
  <2>1. <<>> \in Seq(Frame)
    OBVIOUS
  <2> QED BY <1>1, <1>2, <1>3, <2>1, TypeStep, TypeParts, Parts DEF OutInv
<1>5. ReceiptInv'
  <2>1. InFlight(buffer') = {} /\ Distinct(buffer') /\ wire' = wire /\ book' = book
    BY <1>1, EmptyLine
  <2>2. \A m \in Messages : fate'[m] \in Fresh =>
           m \notin InFlight(buffer') /\ m \notin InFlight(wire') /\ m \notin Spent(book')
    BY <1>3, <2>1 DEF OutInv, ReceiptInv, Fresh
  <2>3. \A m \in Messages : fate'[m] # "fed"
    BY <1>3
  <2>4. \A m \in Messages : m \in InFlight(wire') => fate'[m] = "sent"
    BY <1>3, <2>1 DEF OutInv, ReceiptInv
  <2> QED BY <1>2, <2>1, <2>2, <2>3, <2>4 DEF ReceiptInv
<1>6. Room'
  BY <1>2 DEF Room, At
<1>7. /\ InOrder(wire, <<>>)
      /\ \A n : Below(wire, buffer, n) => Below(wire, <<>>, n)
      /\ \A n : From(wire, buffer, n) => From(wire, <<>>, n)
  BY DropBuffer DEF OutInv
<1>8. StageInv' /\ NumberInv' /\ CounterInv' /\ ReplayInv'
  BY <1>1, <1>2, <1>7, LineMoves DEF LiveStages, Idle, Quiet
<1> QED BY <1>1, <1>4, <1>5, <1>6, <1>7, <1>8 DEF OutInv

LEMMA DisconnectKeeps ==
    ASSUME OutInv, DebtInv', Disconnect
    PROVE  OutInv'
<1>1. /\ eng.pc \in {"active", "leaving"} /\ buffer' = buffer /\ wire' = wire
      /\ UNCHANGED <<config, disk, debt, peer, fate, book, doubt, budget>>
  BY DEF Disconnect
<1>2. eng' \in Sessions /\ eng'.pc = "closing" /\ eng'.next = eng.next /\ eng'.graceful = eng.graceful
  BY Parts DEF OutInv, Disconnect, Sessions, Stages
<1>3. TypeOK'
  BY <1>1, <1>2, TypeStep, TypeParts, Parts DEF OutInv
<1>4. ReceiptInv'
  BY <1>1, <1>2, ReceiptSame DEF OutInv, LiveStages
<1>5. Room'
  BY <1>2 DEF Room, At
<1>6. InOrder(wire, buffer)'
  BY <1>1 DEF OutInv
<1>7. StageInv' /\ NumberInv' /\ CounterInv' /\ ReplayInv'
  BY <1>1, <1>2, LineMoves DEF LiveStages, Idle, Quiet
<1> QED BY <1>3, <1>4, <1>5, <1>6, <1>7 DEF OutInv

LEMMA LogoutDoneKeeps ==
    ASSUME OutInv, DebtInv', LogoutDone
    PROVE  OutInv'
<1>1. /\ At("leaving") /\ buffer = <<>> /\ wire = <<>> /\ peer.stream = "agreed" /\ peer.next = eng.next
      /\ buffer' = <<>> /\ wire' = <<>>
      /\ UNCHANGED <<config, disk, debt, buffer, wire, fate, doubt, budget>>
      /\ IF ResetOnLogout
         THEN peer' = [next |-> 1, stream |-> "theirs"] /\ book' = NoFrames
         ELSE UNCHANGED <<peer, book>>
  BY DEF LogoutDone
<1>2. eng' \in Sessions /\ eng'.pc = "closing" /\ eng'.next = eng.next /\ eng'.graceful
  BY Parts DEF OutInv, LogoutDone, Sessions, Stages
<1>3. /\ peer' \in Peers /\ book' \in [Seqs -> Contents]
      /\ Spent(book') \subseteq Spent(book) \union {Admin, Nothing}
      /\ ResetOnLogout => peer'.next = 1 /\ peer'.stream = "theirs" /\ book' = NoFrames
      /\ ~ResetOnLogout => peer' = peer /\ book' = book
  <2>1. CASE ResetOnLogout
    BY <1>1, <2>1, EmptySpent, Constants DEF Peers, Streams
  <2>2. CASE ~ResetOnLogout
    BY <1>1, <2>2, Parts, TypeParts DEF OutInv
  <2> QED BY <2>1, <2>2
<1>4. TypeOK'
  BY <1>1, <1>2, <1>3, TypeStep, TypeParts, Parts DEF OutInv
<1>5. ReceiptInv'
  BY <1>1, <1>2, <1>3, ReceiptSame DEF OutInv, LiveStages
<1>6. Room'
  BY <1>2 DEF Room, At
<1>7. InOrder(wire, buffer)'
  BY <1>1 DEF OutInv
<1>8. CASE ~ResetOnLogout
  <2>1. StageInv'
    BY <1>1, <1>2, <1>3, <1>8 DEF OutInv, StageInv, Idle, At, Graceful, config
  <2>2. NumberInv'
    BY <1>1, <1>2, <1>3, <1>8
    DEF OutInv, NumberInv, Expects, Exempt, Idle, At, config, Owing, Refused, Unread
  <2>3. CounterInv'
    BY <1>1, <1>2, <1>3, <1>8 DEF OutInv, CounterInv, At, config
  <2>4. ReplayInv'
    <3>1. Upto' = Upto
      BY <1>1, <1>2 DEF Upto, At, Unseeded
    <3>2. (Shared' => Shared) /\ (Trusted' => Trusted)
      BY <1>1, <1>2, <1>3, <1>8 DEF Shared, Trusted, At, config, Unseeded
    <3> QED BY <1>1, <1>3, <1>8, <3>1, <3>2, ReplaySame DEF At
  <2> QED BY <1>4, <1>5, <1>6, <1>7, <2>1, <2>2, <2>3, <2>4 DEF OutInv
<1>9. CASE ResetOnLogout
  <2>0. /\ role' = role /\ policy' = policy /\ ~HeadResets(wire') /\ From(wire', buffer', 1)
        /\ Below(wire', buffer', eng.next) /\ Below(wire', buffer', disk.next)
        /\ 1 <= eng.next /\ 1 <= disk.next
    BY <1>1, Parts, Constants, EmptyLine DEF OutInv, config
  <2>1. StageInv'
    BY <1>1, <1>2, <1>3, <1>9, <2>0 DEF OutInv, StageInv, Idle, At, Graceful, Quiet
  <2>2. NumberInv'
    BY <1>1, <1>2, <1>3, <1>9, <2>0
    DEF OutInv, NumberInv, Expects, Exempt, Idle, At, Owing, Refused, Unread
  <2>3. CounterInv'
    BY <1>1, <1>2, <1>3, <1>8, <2>0 DEF OutInv, CounterInv, At
  <2>4. ReplayInv'
    <3>1. Upto' = Upto /\ ~Shared' /\ (Trusted' => Trusted)
      BY <1>1, <1>2, <1>3, <1>9, <2>0 DEF Upto, Shared, Trusted, At, Unseeded
    <3> QED BY <1>1, <2>0, <3>1 DEF OutInv, ReplayInv, At
  <2> QED BY <1>4, <1>5, <1>6, <1>7, <2>1, <2>2, <2>3, <2>4 DEF OutInv
<1> QED BY <1>8, <1>9, ResetOnLogoutAssumption

LEMMA DrainKeeps ==
    ASSUME OutInv, DebtInv', Drain
    PROVE  OutInv'
<1>1. /\ At("closing") /\ buffer' = <<>>
      /\ UNCHANGED <<config, disk, debt, peer, book, doubt, budget>>
  BY DEF Drain
<1>2. eng' \in Sessions /\ eng'.pc = "drain" /\ eng'.next = eng.next /\ eng'.graceful = eng.graceful
  BY Parts DEF OutInv, Drain, Sessions, Stages
<1>3. wire \in Seq(Frame) /\ buffer \in Seq(Frame) /\ InOrder(wire, buffer) /\ fate \in [Messages -> Fates]
      /\ <<>> \in Seq(Frame)
  BY TypeParts DEF OutInv
<1>4. PICK sent :
         /\ \/ wire' = wire /\ sent = {}
            \/ wire' = wire \o buffer /\ sent = Messages
         /\ fate' = [m \in Messages |-> IF fate[m] = "queued" THEN "refused" ELSE FailReceipts(sent)[m]]
  <2>1. PICK flushed \in {0, Len(buffer)} :
          /\ wire' = wire \o SubSeq(buffer, 1, flushed)
          /\ fate' = [m \in Messages |->
                        IF fate[m] = "queued" THEN "refused"
                        ELSE FailReceipts(IF flushed = 0 THEN {} ELSE Messages)[m]]
    BY DEF Drain
  <2>2. CASE flushed = 0
    <3>1. SubSeq(buffer, 1, 0) = <<>> /\ wire \o <<>> = wire
      BY <1>3, SubSeqEmpty, ConcatEmptySeq
    <3> QED BY <2>1, <2>2, <3>1
  <2>3. CASE flushed # 0
    <3>1. SubSeq(buffer, 1, flushed) = buffer
      BY <1>3, <2>1, <2>3, SubSeqFull
    <3> QED BY <2>1, <2>3, <3>1
  <2> QED BY <2>2, <2>3
<1>5. /\ fate' \in [Messages -> Fates]
      /\ \A m \in Messages : fate'[m] = IF fate[m] = "queued" THEN "refused"
                                      ELSE IF fate[m] # "fed" THEN fate[m]
                                      ELSE IF m \in sent THEN "sent" ELSE "unknown"
  <2>1. /\ FailReceipts(sent) \in [Messages -> Fates]
        /\ \A m \in Messages :
              FailReceipts(sent)[m] = IF fate[m] # "fed" THEN fate[m]
                                      ELSE IF m \in sent THEN "sent" ELSE "unknown"
    BY <1>1, FailedReceipts DEF LiveStages, At
  <2>2. "refused" \in Fates
    BY DEF Fates, Settled
  <2> QED BY <1>4, <2>1, <2>2
<1>6. /\ wire' \in Seq(Frame) /\ InOrder(wire', <<>>)
      /\ HeadResets(wire') <=> HeadResets(wire)
      /\ \A n \in Nat : Below(wire, buffer, n) => Below(wire', <<>>, n)
      /\ \A n \in Nat : From(wire, buffer, n) => From(wire', <<>>, n)
      /\ \A m \in Messages : m \in InFlight(wire') =>
            m \in InFlight(wire) \/ (m \in InFlight(buffer) /\ m \in sent)
      /\ Quiet => wire' = <<>>
  <2>1. CASE wire' = wire /\ sent = {}
    BY <1>3, <2>1, DropBuffer DEF Quiet
  <2>2. CASE wire' = wire \o buffer /\ sent = Messages
    <3>1. Quiet => wire' = <<>>
      BY <1>3, <2>2, ConcatEmptySeq DEF Quiet
    <3> QED BY <1>3, <2>2, <3>1, TakeAll
  <2> QED BY <1>4, <2>1, <2>2
<1>7. TypeOK'
  BY <1>1, <1>2, <1>3, <1>5, <1>6, TypeStep, Parts, TypeParts DEF OutInv
<1>8. ReceiptInv'
  <2>1. InFlight(buffer') = {} /\ Distinct(buffer') /\ book' = book
    BY <1>1, EmptyLine
  <2>2. \A m \in Messages : fate'[m] \in Fresh =>
           m \notin InFlight(buffer') /\ m \notin InFlight(wire') /\ m \notin Spent(book')
    BY <1>5, <1>6, <2>1 DEF OutInv, ReceiptInv, Fresh
  <2>3. \A m \in Messages : fate'[m] \notin Live
    BY <1>5 DEF Live
  <2>4. \A m \in Messages : m \in InFlight(wire') => fate'[m] = "sent"
    BY <1>5, <1>6 DEF OutInv, ReceiptInv
  <2> QED BY <2>1, <2>2, <2>3, <2>4 DEF ReceiptInv, Live
<1>9. Room'
  BY <1>2 DEF Room, At
<1>10. StageInv' /\ NumberInv' /\ CounterInv' /\ ReplayInv'
  BY <1>1, <1>2, <1>6, LineMoves DEF LiveStages, Idle, Quiet, At
<1> QED BY <1>1, <1>6, <1>7, <1>8, <1>9, <1>10 DEF OutInv

-----------------------------------------------------------------------------
(* The close, the counterparty and the crash                                *)

LEMMA DrainedKeeps ==
    ASSUME OutInv, DebtInv', Drained
    PROVE  OutInv'
<1>1. /\ At("drain") /\ eng' \in Sessions /\ eng'.graceful = eng.graceful
      /\ SameBut(disk'.marker) /\ Minded(disk'.marker) /\ (disk.marker => disk'.marker)
      /\ debt' \in Debts /\ budget' \in Budgets
      /\ \/ eng.graceful /\ ResetOnLogout /\ eng'.pc = "closeReset" /\ eng'.next = 1 /\ debt'.owed
         \/ /\ ~(eng.graceful /\ ResetOnLogout) /\ eng'.pc = "counters" /\ eng'.next = eng.next
            /\ UNCHANGED <<disk, debt, budget, peer>>
      /\ UNCHANGED <<config, buffer, wire, fate, book, doubt>>
  BY DrainedEffect DEF OutInv
<1>2. /\ disk' \in Disks /\ disk'.next = disk.next /\ disk'.filed = disk.filed
      /\ peer' \in Peers /\ peer'.next = peer.next
      /\ peer'.stream = peer.stream \/ (disk'.marker /\ peer.stream = "theirs" /\ peer'.stream = "due")
  BY <1>1 DEF SameBut, Minded
<1>3. /\ wire' = wire /\ buffer' = buffer /\ role' = role /\ policy' = policy /\ book' = book
      /\ policy \in {"CloseSession", "Continue"}
  BY <1>1, TypeParts DEF OutInv, config
<1>4. TypeOK'
  BY <1>1, <1>2, TypeStep, TypeParts DEF OutInv
<1>5. ReceiptInv'
  BY <1>1, ReceiptSame DEF OutInv, LiveStages, At
<1>6. Room'
  BY <1>1 DEF Room, At
<1>7. InOrder(wire, buffer)'
  BY <1>3 DEF OutInv
<1>8. CASE /\ ~(eng.graceful /\ ResetOnLogout) /\ eng'.pc = "counters" /\ eng'.next = eng.next
           /\ UNCHANGED <<disk, debt, budget, peer>>
  <2>1. StageInv'
    BY <1>1, <1>3, <1>8 DEF OutInv, StageInv, Idle, At, Graceful
  <2>2. NumberInv'
    BY <1>1, <1>3, <1>8 DEF OutInv, NumberInv, Expects, Exempt, Idle, At, Owing, Refused, Unread
  <2>3. CounterInv'
    BY <1>1, <1>3, <1>8 DEF OutInv, CounterInv, At
  <2>4. ReplayInv'
    <3>1. Upto' = Upto
      BY <1>1, <1>8 DEF Upto, At, Unseeded
    <3>2. (Shared' => Shared) /\ (Trusted' => Trusted)
      BY <1>1, <1>3, <1>8 DEF Shared, Trusted, At, Unseeded
    <3> QED BY <1>1, <1>2, <3>1, <3>2, ReplaySame DEF At
  <2> QED BY <1>4, <1>5, <1>6, <1>7, <2>1, <2>2, <2>3, <2>4 DEF OutInv
<1>9. CASE eng.graceful /\ ResetOnLogout /\ eng'.pc = "closeReset" /\ eng'.next = 1 /\ debt'.owed
  <2>0. /\ wire = <<>> /\ buffer = <<>> /\ peer.next = 1 /\ book = NoFrames
        /\ peer.stream \in {"theirs", "due"} /\ 1 <= disk.next
    BY <1>1, <1>9, Parts, Constants DEF OutInv, StageInv, Graceful, Quiet, At
  <2>l. ~HeadResets(wire) /\ From(wire, buffer, 1) /\ Below(wire, buffer, 1) /\ Below(wire, buffer, disk.next)
    BY <2>0, Parts, Constants, EmptyLine DEF OutInv
  <2>1. StageInv'
    BY <1>1, <1>2, <1>3, <1>9, <2>0, <2>l DEF OutInv, StageInv, Idle, At, Graceful, Quiet
  <2>2. NumberInv'
    BY <1>1, <1>2, <1>3, <1>9, <2>0, <2>l
    DEF NumberInv, Expects, Exempt, Idle, At, Owing, Refused, Unread
  <2>3. CounterInv'
    BY <1>1, <1>3, <1>9 DEF OutInv, CounterInv, At
  <2>4. ReplayInv'
    <3>1. ~Shared'
      BY <1>2, <1>3, <2>0, <2>l DEF Shared
    <3> QED BY <1>9, <3>1 DEF ReplayInv, At
  <2> QED BY <1>4, <1>5, <1>6, <1>7, <2>1, <2>2, <2>3, <2>4 DEF OutInv
<1> QED BY <1>1, <1>8, <1>9

\* The reset of a close finds the line empty and the counterparty at 1.
LEMMA ResetReady ==
    ASSUME OutInv, eng.pc \in {"closeReset", "closeClear"}
    PROVE  /\ Graceful /\ wire = <<>> /\ buffer = <<>> /\ peer.next = 1 /\ book = NoFrames
           /\ eng.next = 1 /\ ~HeadResets(wire)
           /\ \A n \in Nat : From(wire, buffer, n) /\ Below(wire, buffer, n)
<1>1. /\ Graceful /\ wire = <<>> /\ buffer = <<>> /\ peer.next = 1 /\ book = NoFrames /\ eng.next = 1
  BY DEF OutInv, StageInv, Quiet
<1> QED BY <1>1, EmptyLine

LEMMA CloseResetKeeps ==
    ASSUME OutInv, DebtInv', CloseReset
    PROVE  OutInv'
<1>1. /\ At("closeReset") /\ disk' \in Disks /\ disk'.marker = disk.marker
      /\ debt' \in Debts /\ budget' \in Budgets
      /\ \/ /\ disk'.next = 1 /\ disk'.filed = NoFrames /\ doubt' = "none"
            /\ eng' \in Sessions /\ eng'.pc = "closeClear" /\ eng'.next = eng.next
            /\ eng'.graceful = eng.graceful
            /\ peer' \in Peers /\ peer'.next = peer.next /\ peer'.stream = "agreed"
         \/ /\ disk'.next \in {disk.next, 1}
            /\ doubt' = IF doubt = "none" THEN "known" ELSE doubt
            /\ eng' = Closed /\ UNCHANGED <<debt, peer>>
      /\ UNCHANGED <<config, buffer, wire, fate, book>>
  BY CloseResetEffect DEF OutInv
<1>2. /\ Graceful /\ wire = <<>> /\ buffer = <<>> /\ peer.next = 1 /\ book = NoFrames
      /\ eng.next = 1 /\ ~HeadResets(wire)
      /\ \A n \in Nat : From(wire, buffer, n) /\ Below(wire, buffer, n)
  BY <1>1, ResetReady DEF At
<1>3. /\ wire' = <<>> /\ buffer' = <<>> /\ wire' = wire /\ buffer' = buffer
      /\ role' = role /\ policy' = policy /\ book' = NoFrames
      /\ policy \in {"CloseSession", "Continue"} /\ doubt \in {"none", "known", "forgotten"}
      /\ peer \in Peers /\ disk.next \in Nat /\ 1 <= disk.next
  BY <1>1, <1>2, TypeParts, Parts, Constants DEF OutInv, config
<1>4. TypeOK'
  <2>1. eng' \in Sessions /\ peer' \in Peers /\ doubt' \in {"none", "known", "forgotten"}
    BY <1>1, <1>3, Constants
  <2> QED BY <1>1, <2>1, TypeStep, TypeParts DEF OutInv
<1>5. CASE /\ disk'.next \in {disk.next, 1}
           /\ doubt' = IF doubt = "none" THEN "known" ELSE doubt
           /\ eng' = Closed /\ UNCHANGED <<debt, peer>>
  <2>1. Restartable
    BY <1>2, <1>3, <1>5 DEF Restartable, Expects
  <2>2. doubt' \in {doubt, "known"} /\ (doubt # "none" => doubt' = doubt) /\ doubt' # "none"
    BY <1>5
  <2>3. Minded(disk'.marker)
    BY <1>3, <1>5 DEF Minded
  <2> QED BY <1>1, <1>2, <1>4, <1>5, <2>1, <2>2, <2>3, CloseKeeps DEF LiveStages, At
<1>6. CASE /\ disk'.next = 1 /\ disk'.filed = NoFrames /\ doubt' = "none"
           /\ eng' \in Sessions /\ eng'.pc = "closeClear" /\ eng'.next = eng.next
           /\ eng'.graceful = eng.graceful
           /\ peer' \in Peers /\ peer'.next = peer.next /\ peer'.stream = "agreed"
  <2>1. ReceiptInv'
    BY <1>1, <1>6, ReceiptSame DEF OutInv, LiveStages, At
  <2>2. Room'
    BY <1>6 DEF Room, At
  <2>3. InOrder(wire, buffer)'
    BY <1>3 DEF OutInv
  <2>4. StageInv'
    BY <1>1, <1>2, <1>3, <1>6 DEF OutInv, StageInv, Idle, At, Graceful, Quiet
  <2>5. NumberInv'
    BY <1>1, <1>2, <1>3, <1>6 DEF NumberInv, Expects, Exempt, Idle, At, Owing, Refused, Unread
  <2>6. CounterInv'
    BY <1>2, <1>3, <1>6 DEF CounterInv, At
  <2>7. ReplayInv'
    <3>1. \A n \in Seqs : NoFrames[n] = Nothing
      BY DEF Seqs, NoFrames
    <3> QED BY <1>3, <1>6, <3>1 DEF ReplayInv, Kept, Blank
  <2> QED BY <1>4, <2>1, <2>2, <2>3, <2>4, <2>5, <2>6, <2>7 DEF OutInv
<1> QED BY <1>1, <1>5, <1>6

LEMMA CloseClearKeeps ==
    ASSUME OutInv, DebtInv', CloseClear
    PROVE  OutInv'
<1>1. /\ At("closeClear") /\ SameBut(disk'.marker) /\ debt' \in Debts /\ budget' \in Budgets
      /\ disk'.marker => debt'.owed
      /\ eng' \in Sessions /\ eng'.pc = "counters" /\ eng'.next = eng.next
      /\ eng'.graceful = eng.graceful
      /\ UNCHANGED <<config, buffer, wire, peer, fate, book, doubt>>
  BY CloseClearEffect DEF OutInv
<1>2. /\ Graceful /\ wire = <<>> /\ buffer = <<>> /\ peer.next = 1 /\ book = NoFrames
      /\ eng.next = 1 /\ ~HeadResets(wire)
      /\ \A n \in Nat : From(wire, buffer, n) /\ Below(wire, buffer, n)
  BY <1>1, ResetReady DEF At
<1>3. /\ disk' \in Disks /\ disk'.next = disk.next /\ disk'.filed = disk.filed
      /\ wire' = wire /\ buffer' = buffer /\ role' = role /\ policy' = policy /\ book' = NoFrames
      /\ peer \in Peers /\ disk.next \in Nat /\ 1 <= disk.next /\ peer' = peer
  BY <1>1, <1>2, TypeParts, Parts, Constants DEF OutInv, config, SameBut
<1>4. TypeOK'
  BY <1>1, <1>3, TypeStep, TypeParts DEF OutInv
<1>5. ReceiptInv'
  BY <1>1, ReceiptSame DEF OutInv, LiveStages, At
<1>6. Room'
  BY <1>1 DEF Room, At
<1>7. InOrder(wire, buffer)'
  BY <1>3 DEF OutInv
<1>8. StageInv'
  BY <1>1, <1>2, <1>3 DEF OutInv, StageInv, Idle, At, Graceful, Quiet
<1>9. NumberInv'
  BY <1>1, <1>2, <1>3 DEF NumberInv, Expects, Exempt, Idle, At, Owing, Refused, Unread
<1>10. CounterInv'
  BY <1>1, <1>3 DEF OutInv, CounterInv, At
<1>11. ReplayInv'
  <2>1. Upto' = Upto
    BY <1>1 DEF Upto, At, Unseeded
  <2>2. (Shared' => Shared) /\ (Trusted' => Trusted)
    BY <1>1, <1>3 DEF Shared, Trusted, At, Unseeded
  <2> QED BY <1>1, <1>3, <2>1, <2>2, ReplaySame DEF At
<1> QED BY <1>4, <1>5, <1>6, <1>7, <1>8, <1>9, <1>10, <1>11 DEF OutInv

LEMMA WriteCountersKeeps ==
    ASSUME OutInv, DebtInv', WriteCounters
    PROVE  OutInv'
<1>1. /\ At("counters") /\ disk' \in Disks /\ disk'.filed = disk.filed
      /\ disk'.next \in {disk.next, eng.next} /\ (disk.marker => disk'.marker)
      /\ debt' \in Debts /\ budget' \in Budgets /\ Minded(disk'.marker) /\ eng' = Closed
      /\ \/ disk'.marker = disk.marker /\ UNCHANGED <<debt, doubt, peer>>
         \/ debt'.owed /\ doubt' = IF doubt = "none" THEN "known" ELSE doubt
      /\ UNCHANGED <<config, buffer, wire, fate, book>>
  BY WriteCountersEffect DEF OutInv
<1>2. /\ policy \in {"CloseSession", "Continue"} /\ doubt \in {"none", "known", "forgotten"}
      /\ doubt' \in {doubt, "known"} /\ (doubt # "none" => doubt' = doubt)
  BY <1>1, TypeParts DEF OutInv
<1>3. TypeOK'
  <2>1. eng' \in Sessions /\ peer' \in Peers /\ doubt' \in {"none", "known", "forgotten"}
    BY <1>1, <1>2, Constants DEF Minded
  <2> QED BY <1>1, <2>1, TypeStep, TypeParts DEF OutInv
<1>4. CASE buffer = <<>>
  <2>1. Restartable
    <3>1. CASE disk'.next = eng.next
      BY <1>1, <3>1 DEF OutInv, NumberInv, Idle, At, Restartable, Owing, Refused, Unread
    <3>2. CASE disk'.next = disk.next /\ policy = "CloseSession"
      BY <1>1, <3>2 DEF Restartable
    <3>3. CASE disk'.next = disk.next /\ policy = "Continue" /\ doubt = "none"
      <4>1. disk.next = eng.next
        BY <1>1, <3>3 DEF OutInv, CounterInv, At
      <4> QED BY <3>1, <3>3, <4>1
    <3>4. CASE policy = "Continue" /\ doubt # "none"
      <4>1. doubt' = "known"
        BY <1>2, <3>4 DEF OutInv, CounterInv
      <4> QED BY <3>4, <4>1 DEF Restartable
    <3> QED BY <1>1, <1>2, <3>1, <3>2, <3>3, <3>4
  <2>2. doubt' = "none" => /\ Shared => Kept(disk'.filed, book', disk'.next, Gap)
                           /\ policy = "Continue" => Blank(disk'.filed, disk'.next)
    <3>1. doubt' = "none" => disk'.next = Upto /\ Trusted
      BY <1>1, <1>2 DEF OutInv, CounterInv, Upto, Trusted, At, Unseeded
    <3> QED BY <1>1, <3>1 DEF OutInv, ReplayInv, At
  <2> QED BY <1>1, <1>2, <1>3, <1>4, <2>1, <2>2, CloseKeeps DEF LiveStages, At
<1> QED BY <1>1, <1>4 DEF OutInv, StageInv, At

LEMMA DeliverKeeps ==
    ASSUME OutInv, DebtInv', Deliver
    PROVE  OutInv'
<1>1. /\ wire # <<>> /\ wire' = Tail(wire) /\ buffer' = buffer
      /\ UNCHANGED <<config, disk, debt, eng, buffer, fate, book, doubt, budget>>
      /\ \/ Head(wire).resets /\ peer' = [next |-> 2, stream |-> "agreed"]
         \/ ~Head(wire).resets /\ Head(wire).seq = peer.next /\ peer' = [peer EXCEPT !.next = @ + 1]
         \/ ~Head(wire).resets /\ peer' = peer
  BY DEF Deliver
<1>2. /\ wire \in Seq(Frame) /\ buffer \in Seq(Frame) /\ InOrder(wire, buffer)
      /\ peer \in Peers /\ peer.next \in Nat /\ eng.next \in Nat /\ disk.next \in Nat
      /\ role' = role /\ policy' = policy
  BY <1>1, TypeParts, Parts, Constants DEF OutInv, config
<1>3. /\ Tail(wire) \in Seq(Frame) /\ Head(wire) \in Frame
      /\ InOrder(Tail(wire), buffer) /\ ~HeadResets(Tail(wire))
      /\ Head(wire).resets => Head(wire).seq = 1
      /\ From(Tail(wire), buffer, Head(wire).seq + 1)
      /\ \A n \in Nat : Below(wire, buffer, n) => Below(Tail(wire), buffer, n) /\ Head(wire).seq < n
      /\ \A n \in Nat : From(wire, buffer, n) => From(Tail(wire), buffer, n) /\ n <= Head(wire).seq
      /\ InFlight(Tail(wire)) \subseteq InFlight(wire)
  BY <1>1, <1>2, ReadFrame
<1>4. Head(wire).seq \in Seqs /\ HeadResets(wire) = (Head(wire).resets = TRUE) /\ Head(wire).resets \in BOOLEAN
  BY <1>1, <1>3 DEF Frame, HeadResets
<1>5. /\ peer' \in Peers
      /\ \/ /\ HeadResets(wire) /\ Head(wire).seq = 1 /\ peer'.next = 2 /\ peer'.stream = "agreed"
         \/ /\ ~HeadResets(wire) /\ peer'.stream = peer.stream
            /\ \/ Head(wire).seq = peer.next /\ peer'.next = peer.next + 1
               \/ peer'.next = peer.next
  <2>1. CASE Head(wire).resets /\ peer' = [next |-> 2, stream |-> "agreed"]
    <3>1. 2 \in 1 .. MaxSeq + 1
      BY Constants
    <3> QED BY <1>3, <1>4, <2>1, <3>1 DEF Peers, Streams
  <2>2. CASE ~Head(wire).resets /\ Head(wire).seq = peer.next /\ peer' = [peer EXCEPT !.next = @ + 1]
    <3>1. peer.next + 1 \in 1 .. MaxSeq + 1
      BY <1>4, <2>2, Constants
    <3> QED BY <1>2, <1>4, <2>2, <3>1 DEF Peers
  <2>3. CASE ~Head(wire).resets /\ peer' = peer
    BY <1>2, <1>4, <2>3
  <2> QED BY <1>1, <2>1, <2>2, <2>3
<1>6. TypeOK'
  BY <1>1, <1>3, <1>5, TypeStep, TypeParts, Parts DEF OutInv
<1>7. ReceiptInv'
  BY <1>1, <1>3, ReceiptSame DEF OutInv
<1>8. Room'
  BY <1>1, Parts, RoomSame DEF OutInv, At
<1>9. InOrder(wire, buffer)'
  BY <1>1, <1>3
<1>10. StageInv'
  BY <1>1, <1>2, <1>3, <1>5 DEF OutInv, StageInv, Idle, At, Graceful, Quiet
<1>11. NumberInv'
  <2>1. /\ ~HeadResets(wire') /\ eng' = eng /\ disk' = disk /\ debt' = debt
        /\ From(wire', buffer', Head(wire).seq + 1)
        /\ \A n \in Nat : Below(wire, buffer, n) => Below(wire', buffer', n) /\ Head(wire).seq < n
        /\ \A n \in Nat : From(wire, buffer, n) => From(wire', buffer', n)
        /\ Head(wire).seq \in Nat
    BY <1>1, <1>3, <1>4, Constants
  <2>r. Refused => From(wire', buffer', peer.next)
    <3>1. At("down") => buffer = <<>>
      BY DEF OutInv, StageInv, At
    <3>2. ASSUME Len(wire) = 1
          PROVE  Tail(wire) = <<>>
      <4>1. Tail(wire) \in Seq(Frame) /\ Len(Tail(wire)) = Len(wire) - 1
        BY <1>1, <1>2, HeadTailProperties
      <4>2. Len(Tail(wire)) = 0
        BY <3>2, <4>1
      <4> QED BY ONLY <4>1, <4>2, EmptySeq
    <3> QED BY <1>1, <1>2, <3>1, <3>2, EmptyLine DEF Refused
  <2>2. CASE HeadResets(wire) /\ Head(wire).seq = 1 /\ peer'.next = 2 /\ peer'.stream = "agreed"
    <3>1. From(wire', buffer', peer'.next)
      BY <2>1, <2>2
    <3>2. \A n \in Nat : Below(wire, buffer, n) => Below(wire', buffer', n) /\ peer'.next <= n
      BY <2>1, <2>2
    <3>3. ~At("logon")
      BY <1>1 DEF OutInv, StageInv, Quiet, At
    <3> QED BY <1>2, <2>1, <3>1, <3>2, <3>3
       DEF OutInv, NumberInv, Expects, Idle, At, Owing, Refused, Unread
  <2>3. CASE ~HeadResets(wire) /\ peer'.stream = peer.stream /\ Head(wire).seq = peer.next
             /\ peer'.next = peer.next + 1
    <3>1. From(wire', buffer', peer'.next)
      BY <2>1, <2>3
    <3>2. \A n \in Nat : Below(wire, buffer, n) => Below(wire', buffer', n) /\ peer'.next <= n
      BY <1>2, <2>1, <2>3
    <3>3. ~At("logon")
      BY <1>1 DEF OutInv, StageInv, Quiet, At
    <3> QED BY <1>2, <2>1, <3>1, <3>2, <3>3
       DEF OutInv, NumberInv, Expects, Idle, At, Owing, Refused, Unread
  <2>4. CASE ~HeadResets(wire) /\ peer'.stream = peer.stream /\ peer'.next = peer.next
    <3>1. Exempt' = Exempt
      BY <1>2, <2>4 DEF Exempt
    <3>2. Exempt' \/ From(wire', buffer', peer'.next)
      BY <1>2, <2>1, <2>r, <2>4, <3>1 DEF OutInv, NumberInv
    <3>3. Owing' = Owing
      BY <1>2, <2>1 DEF Owing
    <3> HIDE DEF Owing
    <3> QED BY <1>2, <2>1, <2>4, <3>1, <3>2, <3>3 DEF OutInv, NumberInv, Expects, Idle, Unread, At
  <2> QED BY <1>5, <2>2, <2>3, <2>4
<1>12. CounterInv'
  BY <1>1 DEF OutInv, CounterInv, At, config
<1>13. ReplayInv'
  <2>1. Shared' => Shared
    BY <1>1, <1>3, <1>5 DEF Shared
  <2> QED BY <1>1, <1>2, <2>1, ReplaySame DEF Upto, Trusted, At, Unseeded
<1> QED BY <1>6, <1>7, <1>8, <1>9, <1>10, <1>11, <1>12, <1>13 DEF OutInv

LEMMA ResendKeeps ==
    ASSUME OutInv, DebtInv', Resend
    PROVE  OutInv'
<1> DEFINE next == IF wire \o buffer = <<>> THEN eng.next ELSE Head(wire \o buffer).seq
<1>1. /\ eng.pc \in {"active", "leaving"} /\ peer.stream = "agreed"
      /\ peer' = [peer EXCEPT !.next = next]
      /\ UNCHANGED <<config, disk, debt, eng, buffer, wire, fate, book, doubt, budget>>
  BY DEF Resend
<1>2. /\ wire \in Seq(Frame) /\ buffer \in Seq(Frame) /\ InOrder(wire, buffer) /\ peer \in Peers
      /\ eng.next \in 1 .. MaxSeq + 1 /\ eng.next \in Nat /\ role' = role /\ policy' = policy
      /\ wire' = wire /\ buffer' = buffer /\ eng' = eng /\ disk' = disk /\ debt' = debt
  BY <1>1, TypeParts, Parts, Constants DEF OutInv, config
<1>3. Below(wire, buffer, eng.next)
  BY <1>1 DEF OutInv, NumberInv, Idle, Owing, Refused, Unread
<1>4. next \in 1 .. MaxSeq + 1 /\ From(wire, buffer, next) /\ next <= eng.next
  <2>1. CASE wire \o buffer = <<>>
    <3>1. wire = <<>> /\ buffer = <<>>
      <4>1. Len(wire) \in Nat /\ Len(buffer) \in Nat /\ Len(wire) + Len(buffer) = 0
        BY <1>2, <2>1, ConcatProperties, LenProperties, EmptySeq
      <4>2. Len(wire) = 0 /\ Len(buffer) = 0
        BY <4>1
      <4> QED BY <1>2, <4>2, EmptySeq
    <3> QED BY <1>2, <2>1, <3>1, EmptyLine
  <2>2. CASE wire \o buffer # <<>>
    <3>1. Head(wire \o buffer) \in Frame /\ From(wire, buffer, Head(wire \o buffer).seq)
          /\ Head(wire \o buffer).seq < eng.next
      BY <1>2, <1>3, <2>2, FirstOfLine
    <3>2. next = Head(wire \o buffer).seq
      BY <2>2
    <3> HIDE DEF next
    <3>3. next \in Seqs
      BY <3>1, <3>2 DEF Frame
    <3>4. next \in 1 .. MaxSeq + 1 /\ next \in Nat
      BY <3>3, Constants DEF Seqs
    <3>5. From(wire, buffer, next) /\ next < eng.next
      BY <3>1, <3>2
    <3> QED BY <1>2, <3>4, <3>5
  <2> QED BY <2>1, <2>2
<1> HIDE DEF next
<1>5. peer' \in Peers /\ peer'.next = next /\ peer'.stream = "agreed"
  BY <1>1, <1>2, <1>4 DEF Peers
<1>6. TypeOK'
  BY <1>1, <1>5, TypeStep, TypeParts, Parts DEF OutInv
<1>7. ReceiptInv'
  BY <1>1, ReceiptSame DEF OutInv
<1>8. Room'
  BY <1>1, Parts, RoomSame DEF OutInv, At
<1>9. InOrder(wire, buffer)'
  BY <1>2
<1>10. StageInv'
  BY <1>1, <1>2, <1>5 DEF OutInv, StageInv, Idle, At, Graceful, Quiet
<1>11. NumberInv'
  <2>1. policy = "CloseSession" => disk.next = eng.next
    BY <1>1 DEF OutInv, CounterInv
  <2> QED BY <1>1, <1>2, <1>3, <1>4, <1>5, <2>1
     DEF NumberInv, Expects, Idle, At, Owing, Refused, Unread
<1>12. CounterInv'
  BY <1>1 DEF OutInv, CounterInv, At, config
<1>13. ReplayInv'
  <2>1. Shared' => Shared
    BY <1>1, <1>2, <1>5 DEF Shared
  <2> QED BY <1>1, <1>2, <2>1, ReplaySame DEF Upto, Trusted, At, Unseeded
<1> QED BY <1>6, <1>7, <1>8, <1>9, <1>10, <1>11, <1>12, <1>13 DEF OutInv

\* The process dies, with one frame filed or none.
LEMMA DiesKeeps ==
    ASSUME OutInv, DebtInv', NEW what \in {Nothing, Admin} \union Messages, Dies(what),
           disk' \in Disks, disk'.marker = disk.marker, book' \in [Seqs -> Contents],
           what \in Messages => fate[what] = "queued",
           Spent(book') \subseteq Spent(book) \union {what, Admin, Nothing},
           \/ disk.marker
           \/ /\ Below(wire, buffer, disk'.next)
              /\ Exempt \/ peer.stream = "asked" \/ peer.next <= disk'.next,
           doubt = "none" /\ Shared => Kept(disk'.filed, book', disk'.next, Gap)
    PROVE  OutInv'
<1>1. /\ policy = "CloseSession" /\ eng' = Closed /\ buffer' = <<>>
      /\ debt' \in Debts /\ budget' \in Budgets
      /\ doubt' = IF doubt = "known" /\ ~disk.marker THEN "forgotten" ELSE doubt
      /\ fate' = Dropped(what) /\ UNCHANGED <<config, wire, peer>>
  BY DiesEffect DEF OutInv
<1>2. /\ wire' = wire /\ peer' = peer /\ role' = role /\ policy' = policy
      /\ eng'.pc = "down" /\ eng'.graceful = FALSE
      /\ fate \in [Messages -> Fates] /\ doubt \in {"none", "known", "forgotten"}
  BY <1>1, TypeParts, Constants DEF OutInv, config, Closed
<1>3. /\ fate' \in [Messages -> Fates]
      /\ \A m \in Messages :
            fate'[m] = IF fate[m] = "fed" \/ m = what THEN "unknown"
                       ELSE IF fate[m] = "queued" THEN "refused" ELSE fate[m]
  <2>1. "unknown" \in Fates /\ "refused" \in Fates
    BY DEF Fates, Settled
  <2>2. \A m \in Messages :
            Dropped(what)[m] = IF fate[m] = "fed" \/ m = what THEN "unknown"
                               ELSE IF fate[m] = "queued" THEN "refused" ELSE fate[m]
    BY DEF Dropped
  <2>3. DOMAIN Dropped(what) = Messages /\ Dropped(what) = [m \in Messages |-> Dropped(what)[m]]
    BY DEF Dropped
  <2> QED BY <1>1, <1>2, <2>1, <2>2, <2>3
<1>4. TypeOK'
  <2>1. doubt' \in {"none", "known", "forgotten"} /\ eng' \in Sessions /\ <<>> \in Seq(Frame)
    BY <1>1, <1>2, Constants
  <2> QED BY <1>1, <1>2, <1>3, <2>1, TypeStep, TypeParts, Parts DEF OutInv
<1>5. ReceiptInv'
  <2>1. InFlight(buffer') = {} /\ Distinct(buffer') /\ wire' = wire
    BY <1>1, <1>2, EmptyLine
  <2>2. \A m \in Messages : fate'[m] \in Fresh => m # what /\ fate[m] \in Fresh
    BY <1>3 DEF Fresh
  <2>3. \A m \in Messages : m # Admin /\ m # Nothing
    BY Constants
  <2>4. \A m \in Messages : fate'[m] \in Fresh =>
           m \notin InFlight(buffer') /\ m \notin InFlight(wire') /\ m \notin Spent(book')
    BY <2>1, <2>2, <2>3 DEF OutInv, ReceiptInv
  <2>5. \A m \in Messages : fate'[m] \notin Live
    BY <1>3 DEF Live
  <2>6. \A m \in Messages : m \in InFlight(wire') => fate'[m] = "sent"
    BY <1>3, <2>1 DEF OutInv, ReceiptInv
  <2> QED BY <2>1, <2>4, <2>5, <2>6 DEF ReceiptInv, Live
<1>6. Room'
  BY <1>2 DEF Room, At
<1>7. /\ InOrder(wire', buffer')
      /\ \A n : Below(wire, buffer, n) => Below(wire', buffer', n)
      /\ \A n : From(wire, buffer, n) => From(wire', buffer', n)
  BY <1>1, <1>2, DropBuffer DEF OutInv
<1>8. StageInv'
  BY <1>1, <1>2 DEF OutInv, StageInv, Idle, At, Graceful
<1>9. NumberInv'
  BY <1>1, <1>2, <1>7 DEF OutInv, NumberInv, Exempt, Idle, At, Owing, Refused, Unread
<1>10. CounterInv'
  BY <1>1, <1>2 DEF CounterInv, At
<1>11. ReplayInv'
  <2>1. /\ Upto' = disk'.next /\ (Shared' => Shared) /\ Gap' = Gap /\ policy' # "Continue"
        /\ Trusted' => doubt = "none"
    BY <1>1, <1>2 DEF Upto, Shared, Gap, Trusted, Unseeded
  <2> QED BY <2>1 DEF ReplayInv
<1> QED BY <1>4, <1>5, <1>6, <1>7, <1>8, <1>9, <1>10, <1>11 DEF OutInv

LEMMA CrashKeeps ==
    ASSUME OutInv, DebtInv', Crash
    PROVE  OutInv'
<1>1. Dies(Nothing) /\ disk' = disk /\ book' = book /\ policy = "CloseSession"
  BY DEF Crash, Dies
<1>2. Nothing \notin Messages /\ disk' \in Disks /\ book' \in [Seqs -> Contents]
  BY <1>1, Constants, Parts, TypeParts DEF OutInv
<1>3. \/ disk.marker
      \/ /\ Below(wire, buffer, disk'.next)
         /\ Exempt \/ peer.stream = "asked" \/ peer.next <= disk'.next
  BY <1>1 DEF OutInv, NumberInv, Owing, Refused, Unread
<1>4. doubt = "none" /\ Shared => Kept(disk'.filed, book', disk'.next, Gap)
  <2>1. CASE At("closeReset")
    BY <2>1, ResetReady DEF OutInv, StageInv, Shared, At
  <2>2. CASE ~At("closeReset")
    BY <1>1, <2>2, UptoStore DEF OutInv, ReplayInv, Trusted, Unseeded
  <2> QED BY <2>1, <2>2
<1> QED BY <1>1, <1>2, <1>3, <1>4, DiesKeeps

LEMMA CrashInFilingKeeps ==
    ASSUME OutInv, DebtInv', CrashInFiling
    PROVE  OutInv'
<1>1. PICK what \in {Admin} \union Messages, filing \in {"partial", "landed"} :
           /\ Dies(what) /\ eng.next \in Seqs
           /\ \/ what = Admin /\ eng.pc \in {"active", "logon", "refuse"}
              \/ what \in Messages /\ eng.pc = "active" /\ fate[what] = "queued"
           /\ disk' \in Disks /\ disk'.marker = disk.marker
           /\ disk'.filed[eng.next] = what
           /\ \A k \in Seqs : k # eng.next => disk'.filed[k] = disk.filed[k]
           /\ disk'.next = IF filing = "landed" THEN eng.next + 1 ELSE disk.next
           /\ book' = IF filing = "partial" THEN book
                      ELSE IF At("logon") THEN LogonBook ELSE [book EXCEPT ![eng.next] = what]
  BY CrashInFilingEffect DEF OutInv
<1>2. /\ policy = "CloseSession" /\ what \in Contents /\ book \in [Seqs -> Contents]
      /\ wire \in Seq(Frame) /\ buffer \in Seq(Frame) /\ eng.next \in Nat /\ peer.next \in Nat
      /\ role \in {"initiator", "acceptor"}
  BY <1>1, Constants, TypeParts, Parts DEF OutInv, Dies
<1>3. disk.next = eng.next /\ disk'.next \in {eng.next, eng.next + 1}
  <2>1. disk.next = eng.next
    BY <1>1, <1>2 DEF OutInv, CounterInv, At
  <2> QED BY <1>1, <2>1
<1>4. At("logon") => what = Admin /\ (eng.resets => eng.next = 1 /\ disk.marker) /\ wire = <<>> /\ buffer = <<>>
  BY <1>1, Constants DEF OutInv, StageInv, Quiet, At
<1>5. /\ book' \in [Seqs -> Contents]
      /\ Spent(book') \subseteq Spent(book) \union {what, Admin, Nothing}
  <2> DEFINE Files(c, d) ==
             /\ [c EXCEPT ![eng.next] = d] \in [Seqs -> Contents]
             /\ Spent([c EXCEPT ![eng.next] = d]) \subseteq Spent(c) \union {d}
  <2>5. ASSUME NEW c \in [Seqs -> Contents], NEW d \in Contents
        PROVE  Files(c, d)
    <3>1. eng.next \in Seqs
      BY <1>1
    <3>2. [c EXCEPT ![eng.next] = d] \in [Seqs -> Contents]
      BY ONLY <2>5, <3>1
    <3>3. Spent([c EXCEPT ![eng.next] = d]) \subseteq Spent(c) \union {d}
      BY ONLY <2>5, <3>1, SpentMore
    <3> QED BY <3>2, <3>3
  <2>1. CASE filing = "partial"
    BY <1>1, <1>2, <2>1
  <2>2. CASE filing = "landed" /\ ~At("logon")
    <3>1. book' = [book EXCEPT ![eng.next] = what]
      BY <1>1, <2>2
    <3>2. Files(book, what)
      BY <1>2, <2>5
    <3> QED BY ONLY <3>1, <3>2
  <2>3. CASE filing = "landed" /\ At("logon") /\ eng.resets
    <3>1. book' = [NoFrames EXCEPT ![eng.next] = Admin]
      BY <1>1, <2>3 DEF LogonBook
    <3>2. NoFrames \in [Seqs -> Contents] /\ Admin \in Contents
      BY Constants
    <3>3. Files(NoFrames, Admin)
      BY <3>2, <2>5
    <3>4. Spent(NoFrames) \subseteq {Nothing}
      BY EmptySpent
    <3> QED BY ONLY <3>1, <3>3, <3>4
  <2>4. CASE filing = "landed" /\ At("logon") /\ ~eng.resets
    <3>1. book' = [book EXCEPT ![eng.next] = Admin]
      BY <1>1, <2>4 DEF LogonBook
    <3>2. Files(book, Admin)
      BY <1>2, <2>5, Constants
    <3> QED BY ONLY <3>1, <3>2
  <2> QED BY <1>1, <2>1, <2>2, <2>3, <2>4
<1>6. \/ disk.marker
      \/ /\ Below(wire, buffer, disk'.next)
         /\ Exempt \/ peer.stream = "asked" \/ peer.next <= disk'.next
  <2>1. CASE eng.pc = "active"
    <3>1. Below(wire, buffer, eng.next) /\ Expects(eng.next)
      BY <2>1 DEF OutInv, NumberInv, Idle, Owing, Refused, Unread
    <3>2. HeadResets(wire) => Exempt \/ peer.stream = "asked"
      BY <1>2, <2>1 DEF OutInv, StageInv, Exempt, Idle, At
    <3>3. Below(wire, buffer, eng.next + 1)
      BY <1>2, <3>1, BelowMore
    <3> QED BY <1>2, <1>3, <3>1, <3>2, <3>3 DEF Expects
  <2>2. CASE At("logon") /\ eng.resets
    BY <1>4, <2>2
  <2>3. CASE At("logon") /\ ~eng.resets
    <3>1. Expects(eng.next)
      BY <2>3 DEF OutInv, NumberInv, Owing, Refused, Unread
    <3>2. Below(wire, buffer, eng.next) /\ Below(wire, buffer, eng.next + 1) /\ ~HeadResets(wire)
      BY <1>2, <1>4, <2>3, EmptyLine
    <3> QED BY <1>2, <1>3, <3>1, <3>2 DEF Expects
  <2>4. CASE At("refuse")
    <3>1. wire = <<>> /\ buffer = <<>>
      BY <2>4 DEF OutInv, StageInv, Quiet, At
    <3>2. Below(wire, buffer, disk'.next)
      BY <1>2, <1>3, <3>1, EmptyLine
    <3>3. disk.marker \/ Exempt \/ peer.stream = "asked" \/ peer.next <= disk.next
      BY <1>2, <2>4 DEF OutInv, NumberInv, Owing, Unread, At
    <3> QED BY <1>2, <1>3, <3>2, <3>3
  <2> QED BY <1>1, <2>1, <2>2, <2>3, <2>4 DEF At
<1>7. ASSUME doubt = "none", Shared
      PROVE  Kept(disk'.filed, book', disk'.next, Gap)
  <2>1. Upto = eng.next
    BY <1>1, <1>3 DEF Upto
  <2>2. Kept(disk.filed, book, eng.next, Gap)
    BY <1>7, <2>1 DEF OutInv, ReplayInv, Trusted, Unseeded
  <2>3. \A k \in Seqs : k < eng.next => k # eng.next
    BY <1>2 DEF Seqs
  <2>4. Kept(disk'.filed, book, eng.next, Gap)
    BY <1>1, <2>2, <2>3 DEF Kept
  <2>5. CASE filing = "partial"
    BY <1>1, <1>3, <2>4, <2>5
  <2>6. ASSUME NEW content \in [Seqs -> Contents], Kept(disk'.filed, content, eng.next, Gap),
               book' = [content EXCEPT ![eng.next] = what], filing = "landed"
        PROVE  Kept(disk'.filed, book', disk'.next, Gap)
    <3>1. \A k \in Seqs : k < eng.next + 1 => k = eng.next \/ k < eng.next
      BY <1>2 DEF Seqs
    <3>2. book'[eng.next] = what /\ \A k \in Seqs : k # eng.next => book'[k] = content[k]
      BY <1>1, <2>6
    <3>3. disk'.next = eng.next + 1
      BY <1>1, <2>6
    <3> QED BY <1>1, <2>3, <2>6, <3>1, <3>2, <3>3 DEF Kept
  <2>7. CASE filing = "landed" /\ ~At("logon")
    <3>1. book' = [book EXCEPT ![eng.next] = what]
      BY <1>1, <2>7
    <3> QED BY <1>2, <2>4, <2>6, <2>7, <3>1
  <2>8. CASE filing = "landed" /\ At("logon") /\ eng.resets
    <3>1. book' = [NoFrames EXCEPT ![eng.next] = what]
      BY <1>1, <1>4, <2>8 DEF LogonBook
    <3>2. Kept(disk'.filed, NoFrames, eng.next, Gap)
      BY <1>4, <2>8 DEF Kept, Seqs
    <3> QED BY <2>6, <2>8, <3>1, <3>2, Constants
  <2>9. CASE filing = "landed" /\ At("logon") /\ ~eng.resets
    <3>1. book' = [book EXCEPT ![eng.next] = what]
      BY <1>1, <1>4, <2>9 DEF LogonBook
    <3> QED BY <1>2, <2>4, <2>6, <2>9, <3>1
  <2> QED BY <1>1, <2>5, <2>7, <2>8, <2>9
<1>8. what \in Messages => fate[what] = "queued"
  BY <1>1, Constants
<1> QED BY <1>1, <1>5, <1>6, <1>7, <1>8, DiesKeeps

-----------------------------------------------------------------------------
(* The invariant holds                                                      *)

LEMMA OutInvInitially == Init => OutInv
<1> SUFFICES ASSUME Init
             PROVE  OutInv
  OBVIOUS
<1>1. /\ eng = Closed /\ eng.pc = "down" /\ eng.graceful = FALSE /\ eng.resets = FALSE
      /\ buffer = <<>> /\ wire = <<>> /\ book = NoFrames /\ doubt = "none"
      /\ disk.next = 1 /\ disk.filed = NoFrames /\ disk.marker = FALSE
      /\ peer.next = 1 /\ peer.stream = "agreed" /\ debt.owed = FALSE
      /\ \A m \in Messages : fate[m] = "new"
  BY DEF Init, Closed
<1>2. TypeOK
  <2>1. /\ disk \in Disks /\ debt \in Debts /\ peer \in Peers /\ budget \in Budgets
    BY Constants DEF Init, Disks, Debts, Peers, Streams, Budgets
  <2>2. fate \in [Messages -> Fates]
    BY DEF Init, Fates
  <2>3. eng \in Sessions /\ <<>> \in Seq(Frame) /\ book \in [Seqs -> Contents]
    BY <1>1, Constants
  <2> QED BY <1>1, <2>1, <2>2, <2>3
      DEF Init, TypeOK, Disks, Debts, Peers, Budgets, Fates, Sessions
<1>3. /\ InOrder(wire, buffer) /\ ~HeadResets(wire) /\ Distinct(buffer)
      /\ InFlight(buffer) = {} /\ InFlight(wire) = {} /\ From(wire, buffer, 1) /\ Below(wire, buffer, 1)
  BY <1>1, EmptyLine
<1>4. ReceiptInv
  <2>1. \A m \in Messages : m \notin Spent(book)
    BY <1>1, EmptySpent, Constants
  <2> QED BY <1>1, <1>3, <2>1 DEF ReceiptInv, Live
<1>5. Room /\ StageInv
  BY <1>1, <1>3 DEF Room, StageInv, Graceful, At
<1>6. NumberInv /\ CounterInv
  BY <1>1, <1>3 DEF NumberInv, CounterInv, Idle, At, Owing, Refused, Unread
<1>7. ReplayInv
  <2>1. \A n \in Seqs : NoFrames[n] = Nothing
    BY DEF NoFrames
  <2> QED BY <1>1, <2>1 DEF ReplayInv, Kept, Blank
<1> QED BY <1>2, <1>3, <1>4, <1>5, <1>6, <1>7, DebtInvInitially DEF OutInv

LEMMA OutInvInductive ==
    ASSUME OutInv, [Next]_vars
    PROVE  OutInv'
<1>d. DebtInv'
  BY DebtInvInductive DEF OutInv
<1>1. CASE Start
  BY <1>d, <1>1, StartKeeps
<1>2. CASE MarkReset
  BY <1>d, <1>2, OweDurablyCloses DEF MarkReset, At
<1>3. CASE SeedReset
  BY <1>d, <1>3, SeedResetKeeps
<1>4. CASE SendLogon
  BY <1>d, <1>4, SendLogonKeeps
<1>5. CASE Refuse
  BY <1>d, <1>5, RefuseKeeps
<1>6. CASE AckReceived
  BY <1>d, <1>6, AckReceivedKeeps
<1>7. CASE PeerResets
  BY <1>d, <1>7, PeerResetsKeeps
<1>8. CASE AdoptMark
  BY <1>d, <1>8, OweDurablyCloses DEF AdoptMark, At
<1>9. CASE AdoptReset
  BY <1>d, <1>9, AdoptResetKeeps
<1>10. CASE Settle
  BY <1>d, <1>10, SettleKeeps
<1>11. CASE HandshakeLost
  BY <1>d, <1>11, HandshakeLostKeeps
<1>12. ASSUME NEW m \in Messages, Submit(m)
       PROVE  OutInv'
  BY <1>d, <1>12, SubmitKeeps
<1>13. ASSUME NEW m \in Messages, Send(m)
       PROVE  OutInv'
  BY <1>d, <1>13, SendKeeps
<1>14. CASE BeginLogout
  BY <1>d, <1>14, BeginLogoutKeeps
<1>15. CASE InboundWriteFails
  BY <1>d, <1>15, InboundWriteFailsKeeps
<1>16. CASE Accept
  BY <1>d, <1>16, AcceptKeeps
<1>17. CASE WriteFails
  BY <1>d, <1>17, WriteFailsKeeps
<1>18. CASE Disconnect
  BY <1>d, <1>18, DisconnectKeeps
<1>19. CASE LogoutDone
  BY <1>d, <1>19, LogoutDoneKeeps
<1>20. CASE Drain
  BY <1>d, <1>20, DrainKeeps
<1>21. CASE Drained
  BY <1>d, <1>21, DrainedKeeps
<1>22. CASE CloseReset
  BY <1>d, <1>22, CloseResetKeeps
<1>23. CASE CloseClear
  BY <1>d, <1>23, CloseClearKeeps
<1>24. CASE WriteCounters
  BY <1>d, <1>24, WriteCountersKeeps
<1>25. CASE Deliver
  BY <1>d, <1>25, DeliverKeeps
<1>26. CASE Resend
  BY <1>d, <1>26, ResendKeeps
<1>27. CASE Crash
  BY <1>d, <1>27, CrashKeeps
<1>28. CASE CrashInFiling
  BY <1>d, <1>28, CrashInFilingKeeps
<1>30. CASE SeedRefusal
  BY <1>d, <1>30, SeedRefusalKeeps
<1>31. CASE HandshakeWriteFails
  BY <1>d, <1>31, HandshakeWriteFailsKeeps
<1>29. CASE UNCHANGED vars
  BY <1>d, <1>29
  DEF vars, config, OutInv, TypeOK, Room, Queued, ReceiptInv, StageInv, NumberInv, CounterInv,
      ReplayInv, Quiet, Graceful, Exempt, Expects, Shared, Upto, Trusted, Gap, At,
      Owing, Refused, Unread, Unseeded
<1> QED
  BY <1>1, <1>2, <1>3, <1>4, <1>5, <1>6, <1>7, <1>8, <1>9, <1>10, <1>11, <1>12, <1>13, <1>14,
     <1>15, <1>16, <1>17, <1>18, <1>19, <1>20, <1>21, <1>22, <1>23, <1>24, <1>25, <1>26, <1>27,
     <1>28, <1>29, <1>30, <1>31
  DEF Next

LEMMA OutInvHolds == Spec => []OutInv
BY OutInvInitially, OutInvInductive, PTL DEF Spec

-----------------------------------------------------------------------------
(* What it gives                                                            *)

\* Every state of the session, its store and its line has its shape, whatever
\* fails or crashes; a number is left for every command queued in it.
THEOREM OutboundTypeOK == Spec => []TypeOK
BY OutInvHolds, PTL DEF OutInv

\* file_and_spend and the reset Logons: no number reaches the counterparty
\* twice in one stream, but in an acceptor's refusal that leaves out the reset
\* it owes or was asked for, or after an acknowledgement it lost.
THEOREM NumbersNotReused == Spec => []NumbersNeverReused
<1>1. OutInv => NumbersNeverReused
  <2> SUFFICES ASSUME OutInv, wire # <<>>, ~Exempt, ~HeadResets(wire), ~RefusedOwing
               PROVE  Head(wire).seq >= peer.next
    BY DEF NumbersNeverReused, Exempt, HeadResets
  <2>1. wire \in Seq(Frame) /\ buffer \in Seq(Frame) /\ peer.next \in Nat
    BY TypeParts, Parts, Constants DEF OutInv
  <2>2. From(wire, buffer, peer.next)
    <3>1. Refused => RefusedOwing
      BY DEF Refused, RefusedOwing, Owing
    <3> QED BY <3>1 DEF OutInv, NumberInv
  <2>3. peer.next <= Head(wire).seq /\ Head(wire).seq \in Nat
    <3>1. Head(wire) \in Frame
      BY <2>1, HeadTailProperties
    <3> QED BY <2>1, <2>2, <3>1, ReadFrame, Constants DEF OutInv, Frame
  <2> QED BY <2>1, <2>3
<1> QED BY <1>1, OutInvHolds, PTL

\* resend: the store answers each number of a live session with what that
\* number was spent on.
THEOREM ReplayIsFaithful == Spec => []ReplayFaithful
<1>1. OutInv => ReplayFaithful
  <2> SUFFICES ASSUME OutInv, Running, peer.stream = "agreed", doubt # "forgotten",
                      NEW n \in 1 .. eng.next - 1
               PROVE  disk.filed[n] \in {book[n]} \union Gap
    BY DEF ReplayFaithful, Gap
  <2>1. n \in Seqs /\ n < eng.next
    BY Parts, Constants DEF OutInv, Seqs
  <2>2. Shared /\ Upto = eng.next
    BY DEF Shared, Upto, Running, Unseeded
  <2>3. Trusted
    BY TypeParts DEF OutInv, CounterInv, Trusted, Running, Unseeded
  <2> QED BY <2>1, <2>2, <2>3 DEF OutInv, ReplayInv, Kept
<1> QED BY <1>1, OutInvHolds, PTL

\* owe_durably before reset_to, settle after the acknowledgement: the Logon
\* that follows a reset only the store remembers declares it.
THEOREM ResetIsRemembered == Spec => []ResetRemembered
<1>1. OutInv => ResetRemembered
  BY DEF OutInv, StageInv, ResetRemembered, HeadResets, Idle, At
<1> QED BY <1>1, OutInvHolds, PTL

\* resolve_accepted, fail_receipts, discard_unsent and the receipts dropped
\* with the reactor: what a sender is told of its message is true.
THEOREM OutcomeIsHonest == Spec => []OutcomeHonest
<1>1. OutInv => OutcomeHonest
  BY DEF OutInv, ReceiptInv, OutcomeHonest, Fresh, Spent
<1> QED BY <1>1, OutInvHolds, PTL
=============================================================================
