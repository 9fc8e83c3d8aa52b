---------------------------- MODULE FileJournal ----------------------------
(***************************************************************************)
(* The file store's journal (ADR-0006, ADR-0022): frame records appended,  *)
(* counters and the owed-reset marker written in place into whichever of   *)
(* two slots does not hold the last durable checkpoint, failed writes and  *)
(* flushes undone and left pending when the undo fails, replacement by     *)
(* rename, and recovery after the process or the machine dies.             *)
(* The policies that flush: Never promises nothing that could be checked.  *)
(*                                                                         *)
(* Offsets are counts of records.  `Bad' is a slot or a record that fails  *)
(* its check: torn, zeroed or half written.  The application watermark is  *)
(* a counter like the target and is not told apart from it.                *)
(***************************************************************************)
EXTENDS Integers, Sequences, FiniteSets, SequencesExt

CONSTANTS
    Policies,      \* sync policies: n for EveryN(n), 1 for EveryWrite
    MaxSeq, MaxTarget,
    Frames,        \* what may be filed under a number
    MaxCalls,      \* calls made
    MaxFaults,     \* system calls that fail
    MaxCrashes,    \* deaths of the process or the machine
    Settles,       \* what a process left unflushed with the operating system,
                   \* a rename or a failed flush's writes, is durable by the
                   \* time another opens the journal
    Bad

ASSUME PoliciesAssumption == Policies \subseteq Nat \ {0}
ASSUME BoundsAssumption ==
    {MaxSeq, MaxTarget} \subseteq Nat \ {0} /\ {MaxCalls, MaxFaults, MaxCrashes} \subseteq Nat
ASSUME FramesAssumption == Frames \subseteq Nat \ {0}
ASSUME SettlesAssumption == Settles \in BOOLEAN
ASSUME BadAssumption ==
    /\ Bad \notin [gen : Nat, next : Nat, target : Nat, owed : BOOLEAN, bound : Nat]
    /\ Bad \notin [seq : Nat, what : Nat, gen : Nat, next : Nat]

VARIABLES
    every,   \* the sync policy
    disk,    \* the journal as the operating system has it, and what is durable
    mem,     \* the open Journal; pc "closed" without one
    call,    \* the call in progress
    kept,    \* what an open would find in the journal
    acked, flushed, tried, late, \* history: see StorePromise
    budget   \* calls, faults and crashes left

vars == <<every, disk, mem, call, kept, acked, flushed, tried, late, budget>>

Seqs == 1 .. MaxSeq
Positions == {0, 1}
Other(p) == 1 - p
NoCut == -1
NoSlots == <<>>

NoPending == [cut |-> NoCut, slots |-> NoSlots, dir |-> FALSE, reopen |-> FALSE]

(* ------------------------------------------------------------- recovery *)

Valid(slots) == {p \in Positions : slots[p] # Bad}

\* newest_slot.
Newest(slots) == CHOOSE p \in Valid(slots) : \A q \in Valid(slots) : slots[q].gen <= slots[p].gen

\* scan_records: the records before the first that fails its check.
Good(recs) == CHOOSE n \in 0 .. Len(recs) :
                 /\ \A i \in 1 .. n : recs[i] # Bad
                 /\ n < Len(recs) => recs[n + 1] = Bad

\* DamageRule: damage below the newest slot's boundary, or further from the
\* end than the policy leaves writes unflushed, refuses the journal.
MayCut(good, len, bound) == good >= bound /\ len - good <= every

LastOf(recs, n) ==
    LET filed == {i \in DOMAIN recs : recs[i].seq = n}
    IN  IF filed = {} THEN 0 ELSE Max(filed)

\* Mutant: the counter is the slot's, whatever was filed after it.
SenderOfSlot(recs, slot) == slot.next

\* The next sender number: of the newest of the slot and the records.
Sender(recs, slot) ==
    LET newer == {i \in DOMAIN recs : recs[i].gen > slot.gen}
    IN  IF newer = {} THEN slot.next
        ELSE recs[CHOOSE i \in newer : \A j \in newer : recs[j].gen <= recs[i].gen].next

Generations(slots, recs) == {slots[p].gen : p \in Valid(slots)} \union {recs[i].gen : i \in DOMAIN recs}

\* scan, and when it is refused.
Opens(slots, all) ==
    Valid(slots) # {} /\ MayCut(Good(all), Len(all), slots[Newest(slots)].bound)
Scan(slots, all) ==
    LET recs == SubSeq(all, 1, Good(all))
        slot == slots[Newest(slots)]
    IN  [active |-> Newest(slots), recs |-> recs, next |-> Sender(recs, slot),
         target |-> slot.target, owed |-> slot.owed]

FrameAt(recs, at) == IF at = 0 THEN 0 ELSE recs[at].what
Refused == [next |-> 0, target |-> 0, owed |-> FALSE, filed |-> [n \in Seqs |-> 0]]

\* What its caller would find in a journal.
View(slots, recs) ==
    LET scan == Scan(slots, recs) IN
    IF ~Opens(slots, recs) THEN Refused
    ELSE [next |-> scan.next, target |-> scan.target, owed |-> scan.owed,
          filed |-> [n \in Seqs |-> FrameAt(scan.recs, LastOf(scan.recs, n))]]

Promise == INSTANCE StorePromise
           WITH window <- every

Calls == [op : {"file"}, seq : Seqs, what : Frames]
         \union [op : {"sender"}, next : 1 .. MaxSeq + 1]
         \union [op : {"target"}, target : 1 .. MaxTarget]
         \union [op : {"mark"}, owed : BOOLEAN]
         \union [op : {"reset"}, next : {1, 2}]
         \union [op : {"sync", "compact", "refresh"}]

(* -------------------------------------------------- the operating system *)

\* `may' holds what each slot may be on the disk; `wrote' what was written
\* from record `firm' on, whole or damaged, and not known durable; `dropped' the
\* slots and records a failed flush may have dropped, which no later flush brings
\* back; `behind' the journals a rename replaced and a power loss may bring back.
Nothing == [slots |-> {}, recs |-> {}]
Firm(slots, recs) ==
    [slots |-> slots, recs |-> recs, may |-> [p \in Positions |-> {slots[p]}],
     firm |-> Len(recs), wrote |-> recs, dropped |-> Nothing, behind |-> {}]

Synced(d) ==
    [d EXCEPT !.may = [p \in Positions |-> IF p \in d.dropped.slots THEN @[p] ELSE {d.slots[p]}],
              !.firm = IF d.dropped.recs = {} THEN Len(d.recs) ELSE @,
              !.wrote = d.recs]
SyncFailed(d) ==
    [d EXCEPT !.dropped = [slots |-> {p \in Positions : d.may[p] # {d.slots[p]}},
                           recs |-> d.firm + 1 .. Len(d.recs)]]

PutSlot(d, p, image) ==
    [d EXCEPT !.slots[p] = image, !.may[p] = @ \union {image, Bad}, !.dropped.slots = @ \ {p}]

\* A record written at an offset past the end leaves a gap of zeros.
Padded(recs, at) == [i \in 1 .. at |-> IF i <= Len(recs) THEN recs[i] ELSE Bad]
PutRecord(d, at, rec) ==
    [d EXCEPT !.recs = Append(Padded(@, at), rec), !.wrote = Append(Padded(@, at), rec)]

CutTo(d, n) ==
    IF n >= Len(d.recs) THEN d
    ELSE [d EXCEPT !.recs = SubSeq(@, 1, n), !.firm = Min({@, n}),
                   !.dropped.recs = @ \intersect 1 .. n]

Damaged(recs, lost) == [i \in DOMAIN recs |-> IF i \in lost THEN Bad ELSE recs[i]]

\* Every journal a power loss may leave.
Images(d) ==
    {[slots |-> [p \in Positions |-> IF p = 0 THEN zero ELSE one],
      recs |-> Damaged(SubSeq(d.wrote, 1, n), lost)] :
        zero \in d.may[0], one \in d.may[1], n \in d.firm .. Len(d.wrote),
        lost \in SUBSET (d.firm + 1 .. Len(d.wrote))}

(* ----------------------------------------------------------- the journal *)

Slot(gen, next, target, owed, bound) ==
    [gen |-> gen, next |-> next, target |-> target, owed |-> owed, bound |-> bound]

\* fresh_slots.
Fresh(gen, next, target, bound, owed) ==
    [p \in Positions |-> Slot(gen + p, next, target, owed, bound)]

\* Journal::new, and what a reload takes from a scan.
Loaded(scan, slots, pc) ==
    [pc |-> pc, slots |-> slots, durableSlots |-> slots, active |-> scan.active,
     durable |-> scan.active, end |-> Len(scan.recs),
     durableEnd |-> Len(scan.recs),
     unsynced |-> 0, gen |-> 1 + Max(Generations(slots, scan.recs)), next |-> scan.next, target |-> scan.target,
     owed |-> scan.owed, index |-> [n \in Seqs |-> LastOf(scan.recs, n)],
     pending |-> NoPending,
     left |-> 0, was |-> FALSE]

Closed == [pc |-> "closed"]
Created == Fresh(0, 1, 1, 0, FALSE)

Init ==
    /\ every \in Policies
    /\ disk = Firm(Created, <<>>)
    /\ mem = Loaded(Scan(Created, <<>>), Created, "idle")
    /\ budget = [calls |-> MaxCalls, faults |-> MaxFaults, crashes |-> MaxCrashes]
    /\ Promise!PromiseInit

Idle == mem.pc = "idle"
Usable == Idle /\ mem.pending = NoPending
Outcome == Promise!Effect(acked, call)

Keeping == kept' = View(disk'.slots, disk'.recs)

\* A call begins with its first write, in which `faults' system calls fail.
Begins(c, faults) ==
    /\ Idle /\ budget.faults >= faults
    /\ c.op # "refresh" => budget.calls > 0
    /\ budget' = [budget EXCEPT !.calls = IF c.op = "refresh" THEN @ ELSE @ - 1,
                                !.faults = @ - faults]
    /\ call' = c
    /\ tried' = tried \union {Promise!Effect(acked, c)}
    /\ Keeping
    /\ UNCHANGED <<every, acked, flushed, late>>

\* One more step of it.
Steps(faults) ==
    /\ budget.faults >= faults /\ budget' = [budget EXCEPT !.faults = @ - faults]
    /\ Keeping
    /\ UNCHANGED <<every, call, acked>>
Unflushed == UNCHANGED <<flushed, tried, late>>
Covers(state) == flushed' = state /\ tried' = {Outcome} /\ late' = 0

\* It returns.
Returns(faults, state) ==
    /\ budget.faults >= faults /\ budget' = [budget EXCEPT !.faults = @ - faults]
    /\ call' = Promise!NoCall /\ acked' = state
    /\ Keeping
    /\ UNCHANGED every
Durable == flushed' = Outcome /\ tried' = {} /\ late' = 0
FailsAfter(faults) == Returns(faults, Promise!Unsure(call, acked)) /\ Unflushed
FlushFailsAfter(faults) ==
    /\ Returns(faults, Promise!Unsure(call, Promise!Undone))
    /\ late' = 0 /\ UNCHANGED <<flushed, tried>>

(* ------------------------------------------------------ writes and flushes *)

\* Mutant: the slots simply alternate.
AlternateSlot(m) == Other(m.active)

\* The slot a counter write goes to: not the last durable checkpoint's.
TargetSlot(m) == Other(m.durable)

\* write_counters, up to its flush: written; failed and put back; failed, and
\* putting it back fails too.
SlotWrites(next, target) ==
    LET p == TargetSlot(mem)
        image == Slot(mem.gen, next, target, mem.owed, mem.durableEnd)
        taken == [mem EXCEPT !.gen = @ + 1]
        torn == PutSlot(disk, p, Bad)
    IN  {[ok |-> TRUE, faults |-> 0, disk |-> PutSlot(disk, p, image),
          mem |-> [taken EXCEPT !.slots[p] = image, !.active = p]],
         [ok |-> FALSE, faults |-> 1, disk |-> PutSlot(torn, p, mem.slots[p]), mem |-> taken],
         [ok |-> FALSE, faults |-> 2, disk |-> torn,
          mem |-> [taken EXCEPT !.pending.slots = mem.slots]]}

\* append, up to its flush: a write that fails is cut back, or the cut is
\* left pending.
Appends(rec) ==
    LET taken == [mem EXCEPT !.gen = @ + 1]
        torn == PutRecord(disk, mem.end, Bad)
    IN  {[ok |-> TRUE, faults |-> 0, disk |-> PutRecord(disk, mem.end, rec),
          mem |-> [taken EXCEPT !.end = @ + 1]],
         [ok |-> FALSE, faults |-> 1, disk |-> CutTo(torn, mem.end), mem |-> taken],
         [ok |-> FALSE, faults |-> 2, disk |-> torn,
          mem |-> [taken EXCEPT !.pending.cut = mem.end]]}

\* flush.  A failure cuts the records back to the last flush and puts the slot
\* written since back, as far as it can, and leaves both pending.
Flushed == [mem EXCEPT !.durableEnd = mem.end, !.durableSlots = mem.slots,
                       !.durable = mem.active, !.unsynced = 0]
FlushFails ==
    LET stale == {p \in Positions : mem.slots[p] # mem.durableSlots[p]}
        cuts == {[faults |-> 0, disk |-> CutTo(SyncFailed(disk), mem.durableEnd)],
                 [faults |-> 1, disk |-> SyncFailed(disk)]}
        left == [mem EXCEPT !.pending.cut = mem.durableEnd]
        restored == [left EXCEPT !.pending.slots = mem.durableSlots, !.slots = mem.durableSlots,
                                 !.active = Newest(mem.durableSlots),
                                 !.durable = Newest(mem.durableSlots)]
    IN  IF stale = {}
        THEN {[faults |-> 1 + c.faults, disk |-> c.disk, mem |-> left] : c \in cuts}
        ELSE LET p == CHOOSE p \in stale : TRUE IN
             {[faults |-> 1 + c.faults, mem |-> restored,
               disk |-> PutSlot(c.disk, p, mem.durableSlots[p])] : c \in cuts}
             \union {[faults |-> 2 + c.faults, mem |-> restored,
                       disk |-> IF torn THEN PutSlot(c.disk, p, Bad) ELSE c.disk] :
                       c \in cuts, torn \in BOOLEAN}

(* --------------------------------------------------------------- the calls *)

FileOutbound(c) ==
    /\ c.op = "file" /\ Usable /\ c.seq \in {mem.next, mem.next - 1}
    /\ \E w \in Appends([seq |-> c.seq, what |-> c.what, gen |-> mem.gen, next |-> c.seq + 1]) :
          /\ disk' = w.disk
          /\ Begins(c, w.faults)
          /\ mem' = [w.mem EXCEPT !.pc = IF w.ok THEN "after" ELSE "fails"]

SetCounters(c) ==
    /\ c.op \in {"sender", "target"} /\ Usable
    /\ \E w \in SlotWrites(IF c.op = "sender" THEN c.next ELSE mem.next,
                           IF c.op = "target" THEN c.target ELSE mem.target) :
          /\ disk' = w.disk
          /\ Begins(c, w.faults)
          /\ mem' = [w.mem EXCEPT !.pc = IF w.ok THEN "after" ELSE "fails"]

\* The call publishes what it wrote.
Published(m) ==
    LET c == call IN
    CASE c.op = "file" -> [m EXCEPT !.pc = "idle", !.next = c.seq + 1, !.index[c.seq] = m.end]
      [] c.op = "sender" -> [m EXCEPT !.pc = "idle", !.next = c.next]
      [] c.op = "target" -> [m EXCEPT !.pc = "idle", !.target = c.target]
      [] OTHER -> [m EXCEPT !.pc = "idle"]

\* after_write: flushed as the policy requires.
AfterWrite ==
    /\ mem.pc = "after"
    /\ IF mem.unsynced + 1 >= every
       THEN \/ /\ disk' = Synced(disk) /\ mem' = Published(Flushed)
               /\ Returns(0, Outcome) /\ Durable
            \/ \E f \in FlushFails :
                  /\ disk' = f.disk /\ mem' = [f.mem EXCEPT !.pc = "idle"]
                  /\ FlushFailsAfter(f.faults)
       ELSE /\ UNCHANGED disk
            /\ mem' = [Published(mem) EXCEPT !.unsynced = @ + 1]
            /\ Returns(0, Outcome)
            /\ late' = late + 1 /\ UNCHANGED <<flushed, tried>>

\* An error the call returns with nothing more to undo.
Fails ==
    /\ mem.pc = "fails"
    /\ UNCHANGED disk
    /\ mem' = [mem EXCEPT !.pc = "idle"]
    /\ FailsAfter(0)

Sync ==
    \/ /\ Usable /\ UNCHANGED disk
       /\ mem' = [mem EXCEPT !.pc = "sync"]
       /\ Begins([op |-> "sync"], 0)
    \/ /\ mem.pc = "sync"
       /\ \/ /\ disk' = Synced(disk) /\ mem' = Published(Flushed)
             /\ Returns(0, Outcome) /\ Durable
          \/ \E f \in FlushFails :
                /\ disk' = f.disk /\ mem' = [f.mem EXCEPT !.pc = "idle"]
                /\ FlushFailsAfter(f.faults)

\* set_reset_owed: nothing to write when both slots carry the value;
\* otherwise both are written, each flushed before the next.
Marking(m, c) ==
    IF m.owed = c.owed /\ \A p \in Positions : m.slots[p] # Bad /\ m.slots[p].owed = c.owed
    THEN [m EXCEPT !.pc = "answer"]
    ELSE [m EXCEPT !.pc = "mark", !.left = 2, !.was = m.owed, !.owed = c.owed]

Unmarked(m, pc) == [m EXCEPT !.pc = pc, !.owed = m.was \/ call.owed, !.left = 0, !.was = FALSE]

SetResetOwed(c) ==
    /\ c.op = "mark" /\ Idle /\ UNCHANGED disk
    /\ mem' = IF Usable THEN Marking(mem, c) ELSE [mem EXCEPT !.pc = "undo"]
    /\ Begins(c, 0)

MarkSlot ==
    /\ mem.pc = "mark"
    /\ \E w \in SlotWrites(mem.next, mem.target) :
          /\ disk' = w.disk
          /\ mem' = IF w.ok THEN [w.mem EXCEPT !.pc = "marked"] ELSE Unmarked(w.mem, "fails")
          /\ Steps(w.faults) /\ Unflushed

MarkFlush ==
    /\ mem.pc = "marked"
    /\ \/ /\ disk' = Synced(disk)
          /\ IF mem.left = 2
             THEN /\ mem' = [Flushed EXCEPT !.pc = "mark", !.left = 1]
                  /\ Steps(0) /\ Covers(Outcome)
             ELSE /\ mem' = [Flushed EXCEPT !.pc = "idle", !.left = 0, !.was = FALSE]
                  /\ Returns(0, Outcome) /\ Durable
       \/ \E f \in FlushFails :
             /\ disk' = f.disk /\ mem' = Unmarked(f.mem, "idle")
             /\ FlushFailsAfter(f.faults)

\* A call with nothing left to write.
Answer ==
    /\ mem.pc = "answer"
    /\ UNCHANGED disk
    /\ mem' = [mem EXCEPT !.pc = "idle"]
    /\ Returns(0, Outcome)
    /\ IF every = 1 THEN Durable ELSE Unflushed

(* ------------------------------------------------------------ the reload *)

\* The journal is loaded: what the reload was for.
Resumed(m) == IF call.op = "mark" THEN Marking(m, call) ELSE [m EXCEPT !.pc = "answer"]

Refresh ==
    /\ Idle /\ UNCHANGED disk
    /\ mem' = [mem EXCEPT !.pc = "undo"]
    /\ Begins([op |-> "refresh"], 0)

\* The directory flush a rename left pending.
UndoRename ==
    /\ mem.pc = "undo" /\ mem.pending.dir
    /\ \/ /\ disk' = [disk EXCEPT !.behind = {}]
          /\ mem' = [mem EXCEPT !.pending.dir = FALSE]
          /\ Steps(0) /\ Covers(acked)
       \/ /\ UNCHANGED disk
          /\ mem' = [mem EXCEPT !.pc = "fails"]
          /\ Steps(1) /\ Unflushed

\* undo_on_disk, at any point of which it may fail.
Undone(d, slots) ==
    LET cut == IF mem.pending.cut = NoCut THEN d ELSE CutTo(d, mem.pending.cut)
        stale == {p \in Positions : cut.slots[p] # mem.pending.slots[p]}
    IN  IF ~slots \/ mem.pending.slots = NoSlots \/ stale = {} THEN cut
        ELSE LET p == CHOOSE p \in stale : TRUE IN PutSlot(cut, p, mem.pending.slots[p])

\* Mutant: what was pending is forgotten once it is undone.
ReloadedAtOnce == [mem EXCEPT !.pc = "load", !.pending = NoPending]

\* It stays pending until the journal is read again.
UndoneIn ==
    [mem EXCEPT !.pc = "load",
                !.durableEnd = IF mem.pending.cut = NoCut THEN @ ELSE Min({@, mem.pending.cut}),
                !.durableSlots = IF mem.pending.slots = NoSlots THEN @ ELSE mem.pending.slots]

Undo ==
    /\ mem.pc = "undo" /\ ~mem.pending.dir
    /\ IF mem.pending.cut = NoCut /\ mem.pending.slots = NoSlots
       THEN UNCHANGED disk /\ mem' = [mem EXCEPT !.pc = "load"] /\ Steps(0) /\ Unflushed
       ELSE \/ /\ disk' = Synced(Undone(disk, TRUE))
               /\ mem' = UndoneIn
               /\ Steps(0) /\ Covers(acked)
            \/ /\ disk' \in {disk, Undone(disk, FALSE), Undone(disk, TRUE)}
               /\ mem' = [mem EXCEPT !.pc = "fails"]
               /\ Steps(1) /\ Unflushed

\* load: what was read is then flushed.
Load ==
    /\ mem.pc = "load"
    /\ \/ /\ UNCHANGED disk
          /\ mem' = [mem EXCEPT !.pc = "fails"]
          /\ Steps(1) /\ Unflushed
       \/ LET scan == Scan(disk.slots, disk.recs)
              read == Loaded(scan, disk.slots, "reflush")
          IN  /\ Opens(disk.slots, disk.recs)
              /\ disk' = CutTo(disk, Len(scan.recs))
              /\ mem' = [read EXCEPT !.durableEnd = Min({mem.durableEnd, read.end}),
                                     !.durableSlots = mem.durableSlots,
                                     !.gen = Max({@, mem.gen})]
              /\ Steps(0) /\ Unflushed

Reflush ==
    /\ mem.pc = "reflush"
    /\ \/ /\ disk' = Synced(disk) /\ mem' = Resumed(Flushed)
          /\ Steps(0) /\ Covers(acked)
       \/ \E f \in FlushFails :
             /\ disk' = f.disk /\ mem' = [f.mem EXCEPT !.pc = "idle"]
             /\ FlushFailsAfter(f.faults)

(* --------------------------------------------------------- replacement *)

\* What a rename puts in the journal's place, and the journal over it.
Renamed(slots, recs) ==
    [Firm(slots, recs) EXCEPT !.behind = disk.behind \union Images(disk)]
Over(slots, recs, gen) ==
    [mem EXCEPT !.pc = "renamed", !.pending = NoPending, !.slots = slots, !.durableSlots = slots,
                !.active = 1, !.durable = 1, !.end = Len(recs), !.durableEnd = Len(recs),
                !.unsynced = 0, !.gen = gen, !.index = [n \in Seqs |-> LastOf(recs, n)]]

\* replace: an empty journal, whatever was pending.  A failure before the
\* rename changes nothing.
ResetTo(c) ==
    LET slots == Fresh(0, c.next, c.next, 0, mem.owed) IN
    /\ c.op = "reset" /\ Idle
    /\ disk' = Renamed(slots, <<>>)
    /\ Begins(c, 0)
    /\ mem' = [Over(slots, <<>>, 2) EXCEPT !.next = c.next, !.target = c.next]

\* Mutant: the slots of a compacted journal are numbered from the start.
CompactedFromZero(recs) == Fresh(0, mem.next, mem.target, Len(recs), mem.owed)

\* The compacted journal's slots are newer than every record it keeps.
CompactedSlots(recs) == Fresh(mem.gen, mem.next, mem.target, Len(recs), mem.owed)

\* The records of the numbers the index finds, in the numbers' order.
Found(index) == {n \in Seqs : index[n] > 0}
Upto(numbers, n) == {m \in numbers : m <= n}
Nth(numbers, i) == CHOOSE n \in numbers : Cardinality(Upto(numbers, n)) = i
LiveRecords(index, recs) ==
    [i \in 1 .. Cardinality(Found(index)) |-> recs[index[Nth(Found(index), i)]]]

\* compact, by a call or on the writer's own after one.
Compact ==
    LET recs == LiveRecords(mem.index, disk.recs)
    IN  /\ Usable
        /\ disk' = Renamed(CompactedSlots(recs), recs)
        /\ Begins([op |-> "compact"], 0)
        /\ mem' = Over(CompactedSlots(recs), recs, mem.gen + 2)

\* after_rename: the directory is flushed and the journal opened again.
AfterRename ==
    /\ mem.pc = "renamed"
    /\ \E dir, opened \in BOOLEAN :
          LET faults == (IF dir THEN 0 ELSE 1) + (IF opened THEN 0 ELSE 1) IN
          /\ disk' = IF dir THEN [disk EXCEPT !.behind = {}] ELSE disk
          /\ mem' = [mem EXCEPT !.pc = "idle", !.pending.dir = ~dir, !.pending.reopen = ~opened]
          /\ Returns(faults, Outcome)
          /\ flushed' = IF dir THEN Outcome ELSE flushed
          /\ tried' = IF dir THEN {} ELSE tried
          /\ late' = IF dir THEN 0 ELSE late

(* -------------------------------------------------------- death, recovery *)

Died ==
    /\ budget.crashes > 0 /\ budget' = [budget EXCEPT !.crashes = @ - 1]
    /\ mem' = Closed
    /\ call' = Promise!NoCall
    /\ Keeping
    /\ acked' = Promise!Certain(kept')
    /\ UNCHANGED every

\* The process dies, or closes the store: what it wrote stays.
Crash ==
    /\ mem # Closed /\ UNCHANGED disk
    /\ Died /\ Unflushed

\* The machine does.
PowerLoss ==
    /\ \E image \in Images(disk) \union disk.behind : disk' = Firm(image.slots, image.recs)
    /\ Died
    /\ flushed' = acked' /\ tried' = {} /\ late' = 0

\* open_journal: the journal is read, cut and flushed; the directory is not.
Open ==
    /\ mem = Closed
    /\ LET scan == Scan(disk.slots, disk.recs)
           cut == CutTo(disk, Len(scan.recs))
           settled == IF Settles THEN [cut EXCEPT !.behind = {}, !.dropped = Nothing] ELSE cut
       IN  /\ Opens(disk.slots, disk.recs)
           /\ mem' = Loaded(scan, disk.slots, "idle")
           /\ disk' = Synced(settled)
    /\ Keeping
    /\ flushed' = acked /\ tried' = {} /\ late' = 0
    /\ UNCHANGED <<every, call, acked, budget>>

Next ==
    \/ \E c \in Calls : FileOutbound(c) \/ SetCounters(c) \/ SetResetOwed(c) \/ ResetTo(c)
    \/ Sync \/ Refresh \/ Compact
    \/ AfterWrite \/ Fails \/ MarkSlot \/ MarkFlush \/ Answer
    \/ UndoRename \/ Undo \/ Load \/ Reflush \/ AfterRename
    \/ Crash \/ PowerLoss \/ Open

Spec == Init /\ [][Next]_vars

(* ----------------------------------------------------------- properties *)

TypeOK ==
    /\ every \in Policies
    /\ Valid(disk.slots) # {}
    /\ disk.firm \in 0 .. Len(disk.recs) /\ disk.firm <= Len(disk.wrote)
    /\ mem # Closed =>
          /\ mem.durableEnd <= disk.firm
          /\ {mem.active, mem.durable} \subseteq Positions
          /\ mem.pending.cut >= NoCut
          /\ mem.pc # "reflush" => mem.slots[mem.durable] = mem.durableSlots[mem.durable]
          /\ mem.next \in 1 .. MaxSeq + 1 /\ mem.target \in 1 .. MaxTarget + 1
    /\ flushed.next \in 1 .. MaxSeq + 1 /\ acked.next \in 1 .. MaxSeq + 1

\* A journal that takes calls serves what the calls that returned have left:
\* its counters are theirs, every number reads back as the frame last filed
\* under it, and it never says less than the slots of a reset being owed
\* (append_frame's index, write_counters, reload after an undo, compact).
ServesAcked ==
    Usable =>
        /\ mem.next = acked.next /\ mem.target = acked.target
        /\ \A n \in Seqs :
              acked.filed[n] = FrameAt(disk.recs, mem.index[n])
        /\ kept.owed => mem.owed

\* The journal keeps the store's promise through failed writes, flushes and
\* undos, deaths at any step, and power losses that keep, drop or tear any
\* write since the last flush.
KeepsPromise == Promise!PromiseSpec

\* Under EveryWrite "a write that returned `Ok` survives an operating-system
\* crash or a power loss" (SyncPolicy; ADR-0006): whichever journal comes back
\* then, it has every frame a call that returned Ok has filed.
FiledSurvives ==
    (Usable /\ every = 1) =>
        \A image \in Images(disk) \union disk.behind, n \in Seqs :
            acked.filed[n] # 0 => View(image.slots, image.recs).filed[n] = acked.filed[n]
=============================================================================
