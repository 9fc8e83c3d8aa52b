--------------------------- MODULE StorePromise ---------------------------
(***************************************************************************)
(* What a file-backed MessageStore promises its caller (ADR-0006, ADR-0022,*)
(* the SyncPolicy documentation): a call that returns Ok has taken effect  *)
(* whole and outlives the process; one that fails has taken effect whole   *)
(* or not at all, or, when its flush failed, undoes what no flush had      *)
(* covered; and a power loss takes back no more than the flushes allow.    *)
(* FileJournal shows that the journal keeps it.                            *)
(***************************************************************************)
EXTENDS Naturals, FiniteSets

CONSTANT Seqs  \* sequence numbers

VARIABLES
    window,  \* writes that may be unflushed: n for EveryN(n), 1 for EveryWrite
    kept,    \* what an open would find, were the process to die now
    acked,   \* what the calls that returned have left the store holding
    flushed, \* what a failed flush goes back to: what it held at the last one
    late,    \* writes that returned Ok since then
    tried,   \* what every call since then would have left, returned or not
    call     \* the call in progress

pvars == <<window, kept, acked, flushed, late, tried, call>>

NoCall == [op |-> "none"]
Writes == {"file", "sender", "target"}
Empty == [n \in Seqs |-> 0]

\* The store as its caller sees it: the counters, the frames filed, and the
\* values the owed-reset marker may have (both, once a write of it failed).
Effect(s, c) ==
    CASE c.op = "file" -> [s EXCEPT !.filed[c.seq] = c.what, !.next = c.seq + 1]
      [] c.op = "sender" -> [s EXCEPT !.next = c.next]
      [] c.op = "target" -> [s EXCEPT !.target = c.target]
      [] c.op = "mark" -> [s EXCEPT !.owed = {c.owed}]
      [] c.op = "reset" -> [s EXCEPT !.next = c.next, !.target = c.next, !.filed = Empty]
      [] OTHER -> s

\* The stores a view admits.
Concrete(s) == {[s EXCEPT !.owed = b] : b \in s.owed}
Certain(s) == [s EXCEPT !.owed = {s.owed}]

\* The views a call may leave: none of it, all of it, what was flushed.
Reachable(c) == {acked, flushed, Effect(acked, c)}
\* What a failed flush leaves; a doubt about the marker stays.
Undone == [flushed EXCEPT !.owed = @ \union acked.owed]
Unsure(c, s) == IF c.op = "mark" THEN [s EXCEPT !.owed = BOOLEAN] ELSE s
\* Each part of the store as in one view or another.
Mixes(store, views) ==
    /\ \E s \in views : store.next = s.next
    /\ \E s \in views : store.target = s.target
    /\ \E s \in views : store.owed \in s.owed
    /\ \A n \in Seqs : \E s \in views : store.filed[n] = s.filed[n]

\* A step leaves the store as it was or as one of `views' has it; with writes
\* unflushed, a failed undo may also leave a mixture of theirs.
Keeps(views) ==
    \/ kept' \in {kept} \union UNION {Concrete(s) : s \in views}
    \/ window # 1 /\ Mixes(kept', tried \union views)

PromiseInit ==
    /\ acked = [next |-> 1, target |-> 1, owed |-> {FALSE}, filed |-> Empty]
    /\ flushed = acked /\ kept \in Concrete(acked)
    /\ late = 0 /\ tried = {} /\ call = NoCall

Begin ==
    /\ call = NoCall /\ call' # NoCall
    /\ tried' = tried \union {Effect(acked, call')}
    /\ UNCHANGED <<window, acked, flushed, late>>
    /\ Keeps(Reachable(call'))

\* A flush in the middle of a call, of what came before it or of its own work.
Work ==
    /\ call # NoCall /\ call' = call
    /\ UNCHANGED <<window, acked>>
    /\ \/ UNCHANGED <<flushed, tried, late>>
       \/ /\ flushed' \in {acked, Effect(acked, call)} /\ tried' = {Effect(acked, call)}
          /\ late' = 0
    /\ Keeps(Reachable(call))

\* The call returns Ok.
Succeed ==
    /\ call # NoCall /\ call' = NoCall
    /\ UNCHANGED window
    /\ acked' = Effect(acked, call)
    /\ \/ flushed' = acked' /\ tried' = {} /\ late' = 0
       \/ /\ window # 1 /\ UNCHANGED <<flushed, tried>>
          /\ late' = IF call.op \in Writes THEN late + 1 ELSE late
          /\ late' < window
    /\ kept' \in Concrete(acked')

\* The call fails.  A reset whose rename was made is not taken back.
Fail ==
    /\ call # NoCall /\ call' = NoCall
    /\ \/ acked' = Unsure(call, acked) /\ late' = late
       \/ acked' = Unsure(call, Undone) /\ late' = 0
       \/ call.op = "reset" /\ acked' = Effect(acked, call) /\ late' = late
    /\ flushed' \in Reachable(call)
    /\ UNCHANGED <<window, tried>>
    /\ Keeps(Reachable(call))

\* The process dies: what it leaves is what the next one starts from.
Die ==
    /\ call' = NoCall
    /\ UNCHANGED <<window, flushed, tried, late>>
    /\ kept' = kept /\ acked' = Certain(kept)

\* The next process flushes what it found.
Reopen ==
    /\ call = NoCall
    /\ flushed' = acked /\ tried' = {} /\ late' = 0
    /\ UNCHANGED <<window, acked, call>>
    /\ kept' = kept

\* A power loss.  With every write flushed, the store as some call left it
\* since the last flush; otherwise each part of it as some call left it.
PowerLoss ==
    LET views == tried \union {flushed} IN
    /\ call' = NoCall /\ flushed' = acked' /\ tried' = {} /\ late' = 0
    /\ UNCHANGED window
    /\ acked' = Certain(kept')
    /\ IF window = 1 THEN kept' \in UNION {Concrete(s) : s \in views} ELSE Mixes(kept', views)

PromiseNext == Begin \/ Work \/ Succeed \/ Fail \/ Die \/ Reopen \/ PowerLoss

PromiseSpec == PromiseInit /\ [][PromiseNext]_pvars
=============================================================================
