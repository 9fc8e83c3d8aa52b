------------------------- MODULE FileJournalProofs -------------------------
(***************************************************************************)
(* The journal under EveryWrite, for every value of the other constants.   *)
(***************************************************************************)
EXTENDS FileJournal, FiniteSetTheorems, SequenceTheorems, TLAPS

-----------------------------------------------------------------------------
(* Numbers, slots and records                                               *)

Numbers == 1 .. MaxSeq + 1
Targets == 1 .. MaxTarget + 1
Slots == [gen : Nat, next : Numbers, target : Targets, owed : BOOLEAN, bound : Nat]
Records == [seq : Seqs, what : Frames, gen : Nat, next : Numbers]
Pairs == [Positions -> Slots \union {Bad}]
Written == Seq(Records \union {Bad})

LEMMA Constants ==
    /\ MaxSeq \in Nat \ {0} /\ MaxTarget \in Nat \ {0}
    /\ MaxCalls \in Nat /\ MaxFaults \in Nat /\ MaxCrashes \in Nat
    /\ Bad \notin Slots /\ Bad \notin Records
    /\ \A f \in Frames : f \in Nat /\ f # 0
    /\ {1, 2} \subseteq Numbers /\ {1, 2} \subseteq Targets
    /\ Numbers \subseteq Nat \ {0} /\ Targets \subseteq Nat \ {0}
    /\ 1 .. MaxTarget \subseteq Targets
    /\ \A n \in Seqs : n \in Nat \ {0} /\ n \in Numbers /\ n + 1 \in Numbers
<1>1. /\ MaxSeq \in Nat \ {0} /\ MaxTarget \in Nat \ {0}
      /\ MaxCalls \in Nat /\ MaxFaults \in Nat /\ MaxCrashes \in Nat
  BY BoundsAssumption
<1>2. \A f \in Frames : f \in Nat /\ f # 0
  BY FramesAssumption
<1>3. /\ {1, 2} \subseteq Numbers /\ {1, 2} \subseteq Targets
      /\ Numbers \subseteq Nat \ {0} /\ Targets \subseteq Nat \ {0}
      /\ 1 .. MaxTarget \subseteq Targets
      /\ \A n \in Seqs : n \in Nat \ {0} /\ n \in Numbers /\ n + 1 \in Numbers
  BY <1>1 DEF Numbers, Targets, Seqs
<1>4. Bad \notin Slots
  BY <1>3, BadAssumption DEF Slots
<1>5. Bad \notin Records
  BY <1>2, <1>3, BadAssumption DEF Records
<1> QED BY <1>1, <1>2, <1>3, <1>4, <1>5

LEMMA TwoPositions ==
    /\ Positions = {0, 1}
    /\ \A p \in Positions : /\ Other(p) \in Positions /\ Other(p) # p /\ Other(Other(p)) = p
                            /\ \A q \in Positions : q = p \/ q = Other(p)
BY DEF Positions, Other

\* A finite set of numbers has a greatest: the strict subset ordering is well
\* founded on the parts of it above each of its members.
LEMMA Greatest ==
    ASSUME NEW S, S \subseteq Nat, IsFiniteSet(S), S # {}
    PROVE  Max(S) \in S /\ \A n \in S : n <= Max(S)
<1> DEFINE R == StrictSubsetOrdering(S)
           F == FiniteSubsetsOf(S)
           Above(n) == {m \in S : m > n}
           T == {Above(n) : n \in S}
<1>1. IsWellFoundedOn(R, F)
  BY FS_StrictSubsetOrderingWellFounded
<1>2. ASSUME NEW n \in S PROVE Above(n) \in F
  <2>1. Above(n) \in SUBSET S
    OBVIOUS
  <2>2. IsFiniteSet(Above(n))
    BY <2>1, FS_Subset
  <2> QED BY <2>1, <2>2 DEF FiniteSubsetsOf
<1>3. T # {} /\ T \subseteq F /\ (\A n \in S : Above(n) \in T) /\ \A x \in T : \E n \in S : x = Above(n)
  BY <1>2
<1>4. ASSUME NEW n \in S, NEW m \in S, m > n PROVE <<Above(m), Above(n)>> \in R
  <2>1. Above(m) \in SUBSET S /\ Above(n) \in SUBSET S
    OBVIOUS
  <2>2. \A x \in S : x > m => x > n
    BY <1>4
  <2>3. Above(m) \subseteq Above(n)
    BY <2>2
  <2>4. m \in Above(n) /\ m \notin Above(m)
    BY <1>4
  <2> QED BY <2>1, <2>3, <2>4 DEF StrictSubsetOrdering
<1> HIDE DEF R, F, T, Above
<1>5. PICK x \in T : \A y \in T : <<y, x>> \notin R
  BY <1>1, <1>3, WFMin, Zenon
<1>6. PICK top \in S : x = Above(top)
  BY <1>3, <1>5
<1>7. \A n \in S : n <= top
  <2> SUFFICES ASSUME NEW n \in S, n > top PROVE FALSE
    OBVIOUS
  <2> QED BY <1>3, <1>4, <1>5, <1>6
<1>8. \A n \in S : top >= n
  BY <1>7
<1> QED BY <1>8, <1>6 DEF Max

LEMMA MaxOfTwo ==
    ASSUME NEW a \in Nat, NEW b \in Nat
    PROVE  Max({a, b}) \in Nat /\ Max({a, b}) >= a /\ Max({a, b}) >= b
<1>1. \E x \in {a, b} : \A y \in {a, b} : x >= y
  OBVIOUS
<1>2. Max({a, b}) \in {a, b} /\ \A y \in {a, b} : Max({a, b}) >= y
  BY <1>1 DEF Max
<1> QED BY <1>2

LEMMA MinOfSame ==
    ASSUME NEW a \in Int
    PROVE  Min({a, a}) = a
BY DEF Min

\* What a sequence of numbers holds is finite.
LEMMA FiniteRange ==
    ASSUME NEW n \in Nat, NEW f, f \in [1 .. n -> Nat], NEW I, I \subseteq 1 .. n
    PROVE  IsFiniteSet({f[i] : i \in I}) /\ {f[i] : i \in I} \subseteq Nat
<1>1. IsFiniteSet(1 .. n)
  BY FS_Interval
<1>2. IsFiniteSet(I)
  BY <1>1, FS_Subset
<1> DEFINE g == [i \in I |-> f[i]]
           T == {f[i] : i \in I}
<1>3. g \in Surjection(I, T)
  BY DEF Surjection
<1>4. IsFiniteSet(T)
  BY <1>2, <1>3, FS_Surjection
<1>5. T \subseteq Nat
  OBVIOUS
<1> QED BY <1>4, <1>5

-----------------------------------------------------------------------------
(* Reading a journal                                                        *)

\* A slot that gives way to another.
Older(x, y) == x = Bad \/ x.gen < y.gen

\* The first `n' records.
First(recs, n) == [i \in 1 .. n |-> recs[i]]

\* What a journal says whose newest slot is `slot' and whose records are `recs'.
Told(slot, recs) ==
    [next |-> Sender(recs, slot), target |-> slot.target, owed |-> slot.owed,
     filed |-> [n \in Seqs |-> FrameAt(recs, LastOf(recs, n))]]

\* `recs' is what is written, but for one record damaged at the end.
Whole(recs, all) ==
    /\ all \in Written /\ recs \in Seq(Records)
    /\ Len(all) \in {Len(recs), Len(recs) + 1}
    /\ \A i \in 1 .. Len(recs) : all[i] = recs[i]
    /\ Len(all) > Len(recs) => all[Len(all)] = Bad

Reads(slots, all, p, recs) ==
    /\ slots \in Pairs /\ p \in Positions
    /\ slots[p] \in Slots /\ Older(slots[Other(p)], slots[p])
    /\ Whole(recs, all)
    /\ slots[p].bound <= Len(recs)

LEMMA FirstIs ==
    ASSUME NEW S, NEW recs \in Seq(S), NEW n \in 0 .. Len(recs)
    PROVE  /\ First(recs, n) = SubSeq(recs, 1, n)
           /\ First(recs, n) \in Seq(S) /\ Len(First(recs, n)) = n
           /\ \A i \in 1 .. n : First(recs, n)[i] = recs[i]
<1>1. n \in Nat /\ Len(recs) \in Nat
  OBVIOUS
<1>2. /\ SubSeq(recs, 1, n) \in Seq(S) /\ Len(SubSeq(recs, 1, n)) = n
      /\ \A i \in 1 .. n : SubSeq(recs, 1, n)[i] = recs[i]
  BY <1>1, SubSeqProperties
<1>3. First(recs, n) = SubSeq(recs, 1, n)
  <2>1. SubSeq(recs, 1, n) = [i \in 1 .. n |-> SubSeq(recs, 1, n)[i]]
    BY <1>2
  <2> QED BY <1>2, <2>1 DEF First
<1> QED BY <1>2, <1>3

\* scan_records stops at the damaged record.
LEMMA GoodIs ==
    ASSUME NEW all, NEW recs, Whole(recs, all)
    PROVE  Good(all) = Len(recs) /\ SubSeq(all, 1, Len(recs)) = recs
<1> DEFINE stops(n) == /\ \A i \in 1 .. n : all[i] # Bad
                       /\ n < Len(all) => all[n + 1] = Bad
<1>1. /\ all \in Seq(Records \union {Bad}) /\ recs \in Seq(Records)
      /\ Len(recs) \in Nat /\ Len(all) \in Nat /\ Len(recs) \in 0 .. Len(all)
  BY DEF Whole, Written
<1>2. \A i \in 1 .. Len(recs) : all[i] = recs[i] /\ recs[i] \in Records
  BY <1>1 DEF Whole
<1>3. \A i \in 1 .. Len(recs) : all[i] # Bad
  BY <1>2, Constants
<1>4. stops(Len(recs))
  BY <1>1, <1>3 DEF Whole
<1>5. ASSUME NEW n \in 0 .. Len(all), stops(n) PROVE n = Len(recs)
  <2>1. CASE n < Len(recs)
    BY <2>1, <1>1, <1>3, <1>5
  <2>2. CASE n > Len(recs)
    <3>1. Len(recs) + 1 \in 1 .. n /\ Len(recs) < Len(all)
      BY <2>2, <1>1
    <3> QED BY <3>1, <1>4, <1>5
  <2> QED BY <2>1, <2>2, <1>1
<1>6. Good(all) = CHOOSE n \in 0 .. Len(all) : stops(n)
  BY DEF Good
<1> HIDE DEF stops
<1>7. Good(all) = Len(recs)
  BY <1>1, <1>4, <1>5, <1>6
<1>8. First(all, Len(recs)) = SubSeq(all, 1, Len(recs))
  BY <1>1, FirstIs
<1>9. First(all, Len(recs)) = [i \in 1 .. Len(recs) |-> recs[i]]
  BY <1>2 DEF First
<1>10. recs = [i \in 1 .. Len(recs) |-> recs[i]]
  BY <1>1
<1> QED BY <1>7, <1>8, <1>9, <1>10

\* newest_slot.
LEMMA NewestIs ==
    ASSUME NEW slots \in Pairs, NEW p \in Positions, slots[p] \in Slots,
           Older(slots[Other(p)], slots[p])
    PROVE  Newest(slots) = p /\ p \in Valid(slots) /\ Valid(slots) # {}
<1>1. slots[p] # Bad /\ slots[p].gen \in Nat
  BY Constants DEF Slots
<1>2. p \in Valid(slots) /\ Valid(slots) \subseteq Positions
  BY <1>1 DEF Valid
<1>3. ASSUME NEW q \in Valid(slots), q # p PROVE slots[q].gen < slots[p].gen /\ slots[q].gen \in Nat
  <2>1. q = Other(p) /\ slots[q] # Bad /\ slots[q] \in Slots
    BY <1>2, <1>3, TwoPositions DEF Valid, Pairs
  <2> QED BY <2>1 DEF Older, Slots
<1>4. \A q \in Valid(slots) : slots[q].gen <= slots[p].gen
  BY <1>1, <1>3
<1>5. ASSUME NEW r \in Valid(slots), \A q \in Valid(slots) : slots[q].gen <= slots[r].gen
      PROVE  r = p
  <2> SUFFICES ASSUME r # p PROVE FALSE
    OBVIOUS
  <2>1. slots[r].gen < slots[p].gen /\ slots[r].gen \in Nat
    BY <1>3
  <2>2. slots[p].gen <= slots[r].gen
    BY <1>2, <1>5
  <2> QED BY <2>1, <2>2, <1>1
<1>6. Newest(slots) = CHOOSE r \in Valid(slots) : \A q \in Valid(slots) : slots[q].gen <= slots[r].gen
  BY DEF Newest
<1>7. Newest(slots) = p
  BY <1>2, <1>4, <1>5, <1>6
<1> QED BY <1>2, <1>7

\* What scan makes of a journal under EveryWrite.
LEMMA ReadsAre ==
    ASSUME every = 1, NEW slots, NEW all, NEW p, NEW recs, Reads(slots, all, p, recs)
    PROVE  /\ Opens(slots, all)
           /\ Scan(slots, all) = [active |-> p, recs |-> recs, next |-> Sender(recs, slots[p]),
                                  target |-> slots[p].target, owed |-> slots[p].owed]
           /\ View(slots, all) = Told(slots[p], recs)
<1>1. Newest(slots) = p /\ Valid(slots) # {}
  BY NewestIs DEF Reads
<1>2. Good(all) = Len(recs) /\ SubSeq(all, 1, Len(recs)) = recs
  BY GoodIs DEF Reads
<1>3. Len(recs) \in Nat /\ Len(all) \in {Len(recs), Len(recs) + 1} /\ slots[p].bound <= Len(recs)
  BY DEF Reads, Whole
<1>4. MayCut(Good(all), Len(all), slots[p].bound)
  BY <1>2, <1>3 DEF MayCut
<1>5. Opens(slots, all)
  BY <1>1, <1>4 DEF Opens
<1>6. Scan(slots, all) = [active |-> p, recs |-> recs, next |-> Sender(recs, slots[p]),
                          target |-> slots[p].target, owed |-> slots[p].owed]
  BY <1>1, <1>2 DEF Scan
<1> QED BY <1>5, <1>6 DEF View, Told

-----------------------------------------------------------------------------
(* What a journal says                                                      *)

LEMMA RecordsIn ==
    ASSUME NEW recs \in Seq(Records)
    PROVE  /\ Len(recs) \in Nat /\ DOMAIN recs = 1 .. Len(recs)
           /\ \A i \in 1 .. Len(recs) :
                 /\ recs[i] \in Records /\ recs[i].seq \in Seqs /\ recs[i].what \in Frames
                 /\ recs[i].gen \in Nat /\ recs[i].next \in Numbers
<1>1. Len(recs) \in Nat /\ DOMAIN recs = 1 .. Len(recs)
  OBVIOUS
<1>2. \A i \in 1 .. Len(recs) : recs[i] \in Records
  BY ElementOfSeq
<1>3. \A r \in Records : r.seq \in Seqs /\ r.what \in Frames /\ r.gen \in Nat /\ r.next \in Numbers
  BY DEF Records
<1> QED BY <1>1, <1>2, <1>3

LEMMA LastOfIs ==
    ASSUME NEW recs \in Seq(Records), NEW n \in Seqs
    PROVE  /\ LastOf(recs, n) \in 0 .. Len(recs)
           /\ LastOf(recs, n) > 0 => recs[LastOf(recs, n)].seq = n
           /\ \A i \in 1 .. Len(recs) : recs[i].seq = n => i <= LastOf(recs, n)
<1> DEFINE filed == {i \in DOMAIN recs : recs[i].seq = n}
<1>1. Len(recs) \in Nat /\ DOMAIN recs = 1 .. Len(recs) /\ filed \subseteq 1 .. Len(recs)
  OBVIOUS
<1>2. LastOf(recs, n) = IF filed = {} THEN 0 ELSE Max(filed)
  BY DEF LastOf
<1>3. CASE filed = {}
  <2>1. \A i \in 1 .. Len(recs) : recs[i].seq # n
    BY <1>1, <1>3
  <2> QED BY <1>1, <1>2, <1>3, <2>1
<1>4. CASE filed # {}
  <2>1. IsFiniteSet(filed)
    <3>1. IsFiniteSet(1 .. Len(recs))
      BY <1>1, FS_Interval
    <3> QED BY <1>1, <3>1, FS_Subset
  <2>2. filed \subseteq Nat
    BY <1>1
  <2>3. Max(filed) \in filed /\ \A i \in filed : i <= Max(filed)
    BY <1>4, <2>1, <2>2, Greatest
  <2> QED BY <1>1, <1>2, <1>4, <2>3
<1> QED BY <1>3, <1>4

\* LastOf is the only such place.
LEMMA LastOfUnique ==
    ASSUME NEW recs \in Seq(Records), NEW n \in Seqs, NEW at \in 0 .. Len(recs),
           at > 0 => recs[at].seq = n,
           \A i \in 1 .. Len(recs) : recs[i].seq = n => i <= at
    PROVE  LastOf(recs, n) = at
<1>1. Len(recs) \in Nat
  OBVIOUS
<1>2. /\ LastOf(recs, n) \in 0 .. Len(recs)
      /\ LastOf(recs, n) > 0 => recs[LastOf(recs, n)].seq = n
      /\ \A i \in 1 .. Len(recs) : recs[i].seq = n => i <= LastOf(recs, n)
  BY LastOfIs
<1>3. LastOf(recs, n) > 0 => LastOf(recs, n) <= at
  BY <1>1, <1>2
<1>4. at > 0 => at <= LastOf(recs, n)
  BY <1>1, <1>2
<1> QED BY <1>1, <1>2, <1>3, <1>4

LEMMA SenderIs ==
    ASSUME NEW recs \in Seq(Records), NEW slot \in Slots
    PROVE  Sender(recs, slot) \in Numbers
<1> DEFINE newer == {i \in DOMAIN recs : recs[i].gen > slot.gen}
           top(i) == \A j \in newer : recs[j].gen <= recs[i].gen
<1>1. /\ Len(recs) \in Nat /\ DOMAIN recs = 1 .. Len(recs)
      /\ \A i \in 1 .. Len(recs) : recs[i] \in Records /\ recs[i].gen \in Nat /\ recs[i].next \in Numbers
  BY RecordsIn
<1>2. slot.next \in Numbers
  BY DEF Slots
<1>3. Sender(recs, slot) = IF newer = {} THEN slot.next ELSE recs[CHOOSE i \in newer : top(i)].next
  BY DEF Sender
<1>4. CASE newer = {}
  BY <1>2, <1>3, <1>4
<1>5. CASE newer # {}
  <2> DEFINE f == [i \in 1 .. Len(recs) |-> recs[i].gen]
             gens == {f[i] : i \in newer}
  <2>1. f \in [1 .. Len(recs) -> Nat] /\ newer \subseteq 1 .. Len(recs)
    BY <1>1
  <2>2. IsFiniteSet(gens) /\ gens \subseteq Nat
    BY <1>1, <2>1, FiniteRange
  <2>3. gens # {}
    BY <1>5
  <2>4. Max(gens) \in gens /\ \A g \in gens : g <= Max(gens)
    BY <2>2, <2>3, Greatest
  <2>5. PICK i \in newer : Max(gens) = f[i]
    BY <2>4
  <2>6. top(i)
    <3>1. ASSUME NEW j \in newer PROVE recs[j].gen <= recs[i].gen
      <4>1. f[j] <= f[i]
        BY <2>4, <2>5
      <4> QED BY <4>1, <2>1
    <3> QED BY <3>1
  <2>7. (CHOOSE k \in newer : top(k)) \in newer
    <3> HIDE DEF top, newer
    <3> QED BY <2>6
  <2> QED BY <1>1, <1>3, <1>5, <2>1, <2>7
<1> QED BY <1>4, <1>5

Tellings == [next : Numbers, target : Targets, owed : BOOLEAN, filed : [Seqs -> Frames \union {0}]]

LEMMA ToldType ==
    ASSUME NEW recs \in Seq(Records), NEW slot \in Slots
    PROVE  /\ Told(slot, recs) \in Tellings
           /\ Told(slot, recs).next = Sender(recs, slot) /\ Told(slot, recs).target = slot.target
           /\ Told(slot, recs).owed = slot.owed
           /\ \A n \in Seqs : Told(slot, recs).filed[n] = FrameAt(recs, LastOf(recs, n))
<1>1. Sender(recs, slot) \in Numbers
  BY SenderIs
<1>2. ASSUME NEW n \in Seqs PROVE FrameAt(recs, LastOf(recs, n)) \in Frames \union {0}
  <2>1. LastOf(recs, n) \in 0 .. Len(recs)
    BY LastOfIs
  <2>2. \A i \in 1 .. Len(recs) : recs[i].what \in Frames
    BY RecordsIn
  <2> QED BY <2>1, <2>2 DEF FrameAt
<1>3. slot.target \in Targets /\ slot.owed \in BOOLEAN
  BY DEF Slots
<1> QED BY <1>1, <1>2, <1>3 DEF Told, Tellings

\* A record newer than the slot and all the records: what append_frame adds.
LEMMA ToldAppend ==
    ASSUME NEW recs \in Seq(Records), NEW slot \in Slots, NEW rec \in Records,
           rec.gen > slot.gen, \A i \in 1 .. Len(recs) : rec.gen > recs[i].gen
    PROVE  /\ Append(recs, rec) \in Seq(Records)
           /\ Told(slot, Append(recs, rec)) =
                [next |-> rec.next, target |-> slot.target, owed |-> slot.owed,
                 filed |-> [Told(slot, recs).filed EXCEPT ![rec.seq] = rec.what]]
           /\ \A n \in Seqs : LastOf(Append(recs, rec), n) =
                                 IF n = rec.seq THEN Len(recs) + 1 ELSE LastOf(recs, n)
<1> DEFINE all == Append(recs, rec)
<1>1. /\ all \in Seq(Records) /\ Len(all) = Len(recs) + 1 /\ Len(recs) \in Nat
      /\ DOMAIN all = 1 .. Len(recs) + 1
      /\ all[Len(recs) + 1] = rec /\ \A i \in 1 .. Len(recs) : all[i] = recs[i]
  BY AppendProperties
<1>2. rec.gen \in Nat /\ slot.gen \in Nat /\ rec.seq \in Seqs
      /\ \A i \in 1 .. Len(recs) : recs[i] \in Records /\ recs[i].gen \in Nat
  BY RecordsIn DEF Records, Slots
<1> HIDE DEF all
<1>3. Sender(all, slot) = rec.next
  <2> DEFINE newer == {i \in DOMAIN all : all[i].gen > slot.gen}
             top(i) == \A j \in newer : all[j].gen <= all[i].gen
             last == Len(recs) + 1
  <2>1. Sender(all, slot) = IF newer = {} THEN slot.next ELSE all[CHOOSE i \in newer : top(i)].next
    BY DEF Sender
  <2>2. last \in newer /\ newer \subseteq 1 .. last
    BY <1>1
  <2>3. \A j \in newer : all[j].gen <= rec.gen
    BY <1>1, <1>2
  <2>4. ASSUME NEW i \in newer, top(i) PROVE i = last
    <3>1. all[last].gen <= all[i].gen
      BY <2>2, <2>4
    <3>2. i # last => i \in 1 .. Len(recs)
      BY <1>1, <2>2
    <3>3. i # last => all[i].gen < rec.gen /\ all[i].gen \in Nat
      BY <1>1, <1>2, <3>2
    <3> QED BY <1>1, <1>2, <3>1, <3>3
  <2>5. top(last)
    BY <1>1, <2>3
  <2> HIDE DEF newer, top, last
  <2>6. (CHOOSE i \in newer : top(i)) = last
    BY <2>2, <2>4, <2>5
  <2> QED BY <1>1, <2>1, <2>2, <2>6 DEF last
<1>4. ASSUME NEW n \in Seqs
      PROVE  LastOf(all, n) = IF n = rec.seq THEN Len(recs) + 1 ELSE LastOf(recs, n)
  <2>1. /\ LastOf(recs, n) \in 0 .. Len(recs)
        /\ LastOf(recs, n) > 0 => recs[LastOf(recs, n)].seq = n
        /\ \A i \in 1 .. Len(recs) : recs[i].seq = n => i <= LastOf(recs, n)
    BY LastOfIs
  <2>2. CASE n = rec.seq
    <3>1. Len(recs) + 1 \in 0 .. Len(all) /\ all[Len(recs) + 1].seq = n
      BY <1>1, <2>2
    <3>2. \A i \in 1 .. Len(all) : i <= Len(recs) + 1
      BY <1>1
    <3> QED BY <1>1, <2>2, <3>1, <3>2, LastOfUnique
  <2>3. CASE n # rec.seq
    <3>1. LastOf(recs, n) \in 0 .. Len(all)
      BY <1>1, <2>1
    <3>2. LastOf(recs, n) > 0 => all[LastOf(recs, n)].seq = n
      BY <1>1, <2>1
    <3>3. \A i \in 1 .. Len(all) : all[i].seq = n => i <= LastOf(recs, n)
      <4> SUFFICES ASSUME NEW i \in 1 .. Len(all), all[i].seq = n PROVE i <= LastOf(recs, n)
        OBVIOUS
      <4>1. i \in 1 .. Len(recs)
        BY <1>1, <2>3
      <4> QED BY <1>1, <2>1, <4>1
    <3>4. LastOf(all, n) = LastOf(recs, n)
      BY <1>1, <3>1, <3>2, <3>3, LastOfUnique
    <3> QED BY <2>3, <3>4
  <2> QED BY <2>2, <2>3
<1>5. ASSUME NEW n \in Seqs
      PROVE  FrameAt(all, LastOf(all, n)) = IF n = rec.seq THEN rec.what ELSE FrameAt(recs, LastOf(recs, n))
  <2>1. LastOf(recs, n) \in 0 .. Len(recs)
    BY LastOfIs
  <2> QED BY <1>1, <1>4, <2>1 DEF FrameAt
<1>6. Told(slot, recs).filed = [n \in Seqs |-> FrameAt(recs, LastOf(recs, n))]
  BY DEF Told
<1>7. [n \in Seqs |-> FrameAt(all, LastOf(all, n))] = [Told(slot, recs).filed EXCEPT ![rec.seq] = rec.what]
  BY <1>2, <1>5, <1>6
<1>8. Told(slot, all) = [next |-> rec.next, target |-> slot.target, owed |-> slot.owed,
                         filed |-> [Told(slot, recs).filed EXCEPT ![rec.seq] = rec.what]]
  BY <1>3, <1>7 DEF Told
<1> QED BY <1>1, <1>4, <1>8 DEF all

\* A slot newer than every record: what write_counters writes.
LEMMA ToldSlot ==
    ASSUME NEW recs \in Seq(Records), NEW slot \in Slots,
           \A i \in 1 .. Len(recs) : recs[i].gen <= slot.gen
    PROVE  /\ Told(slot, recs).next = slot.next /\ Told(slot, recs).target = slot.target
           /\ Told(slot, recs).owed = slot.owed
           /\ \A other : Told(slot, recs).filed = Told(other, recs).filed
<1>1. {i \in DOMAIN recs : recs[i].gen > slot.gen} = {}
  BY RecordsIn DEF Slots
<1>2. Sender(recs, slot) = slot.next
  BY <1>1 DEF Sender
<1> QED BY <1>2 DEF Told

\* The numbers in order: each is the one with as many up to it as its place.
LEMMA NthIs ==
    ASSUME NEW S, S \subseteq Nat, IsFiniteSet(S)
    PROVE  /\ Cardinality(S) \in Nat
           /\ \A i \in 1 .. Cardinality(S) : Nth(S, i) \in S /\ Cardinality(Upto(S, Nth(S, i))) = i
           /\ \A n \in S : \E i \in 1 .. Cardinality(S) : Nth(S, i) = n
<1> DEFINE size == Cardinality(S)
           rank == [n \in S |-> Cardinality(Upto(S, n))]
<1>1. size \in Nat
  BY FS_CardinalityType
<1>2. ASSUME NEW n \in S
      PROVE  IsFiniteSet(Upto(S, n)) /\ Cardinality(Upto(S, n)) \in 1 .. size
  <2>1. Upto(S, n) \in SUBSET S /\ n \in Upto(S, n)
    BY DEF Upto
  <2>2. IsFiniteSet(Upto(S, n)) /\ Cardinality(Upto(S, n)) <= size
    BY <2>1, FS_Subset
  <2>3. Cardinality(Upto(S, n)) \in Nat /\ Cardinality(Upto(S, n)) # 0
    BY <2>1, <2>2, FS_CardinalityType, FS_EmptySet
  <2> QED BY <1>1, <2>2, <2>3
<1>3. ASSUME NEW n \in S, NEW m \in S, n < m
      PROVE  Cardinality(Upto(S, n)) < Cardinality(Upto(S, m))
  <2>1. \A x \in S : x <= n => x <= m
    BY <1>3
  <2>2. Upto(S, n) \in SUBSET Upto(S, m)
    BY <2>1 DEF Upto
  <2>3. m \in Upto(S, m) /\ m \notin Upto(S, n)
    BY <1>3 DEF Upto
  <2>4. /\ Cardinality(Upto(S, n)) <= Cardinality(Upto(S, m))
        /\ Cardinality(Upto(S, m)) = Cardinality(Upto(S, n)) => Upto(S, m) = Upto(S, n)
    BY <1>2, <2>2, FS_Subset
  <2> QED BY <1>2, <2>3, <2>4
<1>4. ASSUME NEW n \in S, NEW m \in S, Cardinality(Upto(S, n)) = Cardinality(Upto(S, m))
      PROVE  n = m
  <2>1. n \in Nat /\ m \in Nat
    OBVIOUS
  <2>2. Cardinality(Upto(S, n)) \in Nat
    BY <1>2
  <2> QED BY <1>3, <1>4, <2>1, <2>2
<1>5. rank \in Injection(S, 1 .. size)
  <2>1. rank \in [S -> 1 .. size]
    BY <1>2
  <2>2. \A a, b \in S : rank[a] = rank[b] => a = b
    BY <1>4
  <2> QED BY <2>1, <2>2 DEF Injection, IsInjective
<1>6. IsFiniteSet(1 .. size) /\ Cardinality(1 .. size) = size
  BY <1>1, FS_Interval
<1>7. rank \in Surjection(S, 1 .. size)
  BY <1>5, <1>6, FS_Injection
<1>8. \A i \in 1 .. size : \E n \in S : Cardinality(Upto(S, n)) = i
  BY <1>7 DEF Surjection
<1>9. \A i \in 1 .. size : Nth(S, i) \in S /\ Cardinality(Upto(S, Nth(S, i))) = i
  BY <1>8 DEF Nth
<1>10. ASSUME NEW n \in S PROVE \E i \in 1 .. size : Nth(S, i) = n
  <2>1. Cardinality(Upto(S, n)) \in 1 .. size
    BY <1>2
  <2>2. Nth(S, Cardinality(Upto(S, n))) = n
    BY <1>4, <1>9, <2>1
  <2> QED BY <2>1, <2>2
<1> QED BY <1>1, <1>9, <1>10

\* compact keeps each number's last frame, and no other.
LEMMA LiveRecordsAre ==
    ASSUME NEW recs \in Seq(Records), NEW index, index \in [Seqs -> Nat],
           \A n \in Seqs : index[n] = LastOf(recs, n)
    PROVE  /\ LiveRecords(index, recs) \in Seq(Records)
           /\ \A i \in 1 .. Len(LiveRecords(index, recs)) :
                 \E k \in 1 .. Len(recs) : LiveRecords(index, recs)[i] = recs[k]
           /\ \A n \in Seqs : FrameAt(LiveRecords(index, recs), LastOf(LiveRecords(index, recs), n)) =
                                 FrameAt(recs, LastOf(recs, n))
<1> DEFINE live == LiveRecords(index, recs)
           numbers == Found(index)
           size == Cardinality(numbers)
<1>1. numbers \subseteq Seqs /\ Seqs \subseteq Nat /\ IsFiniteSet(numbers)
  <2>1. numbers \in SUBSET Seqs
    BY DEF Found
  <2>2. IsFiniteSet(Seqs) /\ Seqs \subseteq Nat
    BY Constants, FS_Interval DEF Seqs
  <2> QED BY <2>1, <2>2, FS_Subset
<1>2. /\ size \in Nat
      /\ \A i \in 1 .. size : Nth(numbers, i) \in numbers /\ Cardinality(Upto(numbers, Nth(numbers, i))) = i
      /\ \A n \in numbers : \E i \in 1 .. size : Nth(numbers, i) = n
  BY <1>1, NthIs
<1>3. live = [i \in 1 .. size |-> recs[index[Nth(numbers, i)]]]
  BY DEF LiveRecords
<1>4. \A n \in numbers : /\ index[n] \in 1 .. Len(recs) /\ recs[index[n]].seq = n
  <2> SUFFICES ASSUME NEW n \in numbers PROVE index[n] \in 1 .. Len(recs) /\ recs[index[n]].seq = n
    OBVIOUS
  <2>1. n \in Seqs /\ index[n] > 0
    BY DEF Found
  <2>2. LastOf(recs, n) \in 0 .. Len(recs) /\ (LastOf(recs, n) > 0 => recs[LastOf(recs, n)].seq = n)
    BY <2>1, LastOfIs
  <2>3. index[n] = LastOf(recs, n)
    BY <2>1
  <2> QED BY <2>1, <2>2, <2>3
<1> HIDE DEF live, numbers, size
<1>5. \A i \in 1 .. size : recs[index[Nth(numbers, i)]] \in Records
  BY <1>2, <1>4, RecordsIn
<1>6. live \in [1 .. size -> Records]
  BY <1>3, <1>5
<1>7. live \in Seq(Records) /\ Len(live) = size
  <2>1. live \in Seq(Records)
    BY <1>2, <1>6, IsASeq
  <2> QED BY <1>2, <1>6, <2>1, LenProperties
<1>8. \A i \in 1 .. size : live[i].seq = Nth(numbers, i) /\ live[i] = recs[index[Nth(numbers, i)]]
  BY <1>2, <1>3, <1>4
<1>9. ASSUME NEW i \in 1 .. size, NEW j \in 1 .. size, live[i].seq = live[j].seq PROVE i = j
  <2>1. Nth(numbers, i) = Nth(numbers, j)
    BY <1>8, <1>9
  <2> QED BY <1>2, <2>1
<1>10. ASSUME NEW n \in Seqs PROVE FrameAt(live, LastOf(live, n)) = FrameAt(recs, LastOf(recs, n))
  <2>1. /\ LastOf(live, n) \in 0 .. size
        /\ LastOf(live, n) > 0 => live[LastOf(live, n)].seq = n
        /\ \A i \in 1 .. size : live[i].seq = n => i <= LastOf(live, n)
    BY <1>7, LastOfIs
  <2>2. CASE n \in numbers
    <3>1. PICK i \in 1 .. size : Nth(numbers, i) = n
      BY <1>2, <2>2
    <3>2. live[i].seq = n /\ live[i] = recs[index[n]]
      BY <1>8, <3>1
    <3>3. LastOf(live, n) \in 1 .. size
      BY <1>2, <2>1, <3>2
    <3>4. LastOf(live, n) = i
      BY <1>9, <2>1, <3>2, <3>3
    <3>5. index[n] = LastOf(recs, n) /\ index[n] \in 1 .. Len(recs)
      BY <1>4, <2>2
    <3> QED BY <3>2, <3>3, <3>4, <3>5 DEF FrameAt
  <2>3. CASE n \notin numbers
    <3>1. index[n] = 0 /\ LastOf(recs, n) = 0
      BY <2>3 DEF numbers, Found
    <3>2. \A i \in 1 .. size : live[i].seq # n
      BY <1>2, <1>8, <2>3
    <3>3. LastOf(live, n) = 0
      BY <1>2, <2>1, <3>2
    <3> QED BY <3>1, <3>3 DEF FrameAt
  <2> QED BY <2>2, <2>3
<1>11. \A i \in 1 .. Len(live) : \E k \in 1 .. Len(recs) : live[i] = recs[k]
  BY <1>2, <1>4, <1>7, <1>8
<1> QED BY <1>7, <1>10, <1>11 DEF live

-----------------------------------------------------------------------------
(* The disk under an open journal: the slot `b' at position `p' is the last  *)
(* durable checkpoint, a flush covered the first `n' records, and every      *)
(* generation written is below `g'                                           *)

Journals == [slots : Pairs, recs : Written]
Disks == [slots : Pairs, recs : Written, may : [Positions -> SUBSET (Slots \union {Bad})],
          firm : Nat, wrote : Written,
          dropped : [slots : SUBSET Positions, recs : SUBSET Nat], behind : SUBSET Journals]

Covered(d, n) == First(d.recs, n)
With(d, n, rec) == Append(Covered(d, n), rec)

\* What a power loss may bring back that no flush has covered.
NewSlots(d, p, b) == {x \in d.may[Other(p)] : ~Older(x, b)}
NewRecord(d, n) == Len(d.wrote) = n + 1 /\ d.wrote[n + 1] # Bad

Footing(d, p, b, n) ==
    /\ p \in Positions /\ b \in Slots /\ n \in Nat
    /\ b.bound <= n
    /\ d.slots[p] = b /\ d.may[p] = {b} /\ d.slots[Other(p)] \in d.may[Other(p)]
    /\ d.firm = n
    /\ Len(d.recs) \in {n, n + 1} /\ Len(d.wrote) \in {n, n + 1} /\ Len(d.recs) <= Len(d.wrote)
    /\ \A i \in 1 .. n : d.recs[i] \in Records
    /\ \A i \in 1 .. Len(d.recs) : d.wrote[i] = d.recs[i]
    /\ d.dropped.slots \subseteq {Other(p)} /\ d.dropped.recs \subseteq n + 1 .. Len(d.recs)
    /\ \A i \in 1 .. n : d.wrote[i] = d.recs[i]

Numbered(d, g) ==
    /\ g \in Nat
    /\ \A p \in Positions : \A x \in d.may[p] : x = Bad \/ x.gen < g
    /\ \A i \in 1 .. Len(d.wrote) : d.wrote[i] = Bad \/ d.wrote[i].gen < g

\* Newer than all that was covered.
Newer(x, d, b, n) == x.gen > b.gen /\ \A i \in 1 .. n : x.gen > d.recs[i].gen

\* At most one write since the flush: a slot or a record.
Single(d, p, b, n) ==
    /\ \A x \in NewSlots(d, p, b) : Newer(x, d, b, n) /\ x.bound <= n
    /\ NewRecord(d, n) => Newer(d.wrote[n + 1], d, b, n)
    /\ NewSlots(d, p, b) = {} \/ ~NewRecord(d, n)

Grounded(d, p, b, n, g) ==
    Footing(d, p, b, n) /\ Numbered(d, g) /\ Single(d, p, b, n)

LEMMA DiskParts ==
    ASSUME NEW d \in Disks
    PROVE  /\ d.slots \in Pairs /\ d.recs \in Written /\ d.wrote \in Written
           /\ d.recs \in Seq(Records \union {Bad}) /\ d.wrote \in Seq(Records \union {Bad})
           /\ Len(d.recs) \in Nat /\ Len(d.wrote) \in Nat /\ d.firm \in Nat
           /\ d.may \in [Positions -> SUBSET (Slots \union {Bad})]
           /\ d.dropped \in [slots : SUBSET Positions, recs : SUBSET Nat]
           /\ d.dropped.slots \subseteq Positions /\ d.dropped.recs \subseteq Nat
           /\ d.behind \subseteq Journals
           /\ \A p \in Positions : d.slots[p] \in Slots \union {Bad}
           /\ \A p \in Positions : d.may[p] \subseteq Slots \union {Bad}
<1>1. /\ d.slots \in Pairs /\ d.recs \in Written /\ d.wrote \in Written
      /\ d.may \in [Positions -> SUBSET (Slots \union {Bad})] /\ d.firm \in Nat
      /\ d.dropped \in [slots : SUBSET Positions, recs : SUBSET Nat]
      /\ d.behind \subseteq Journals
  BY DEF Disks
<1>2. d.dropped.slots \subseteq Positions /\ d.dropped.recs \subseteq Nat
  BY <1>1
<1>3. \A p \in Positions : d.slots[p] \in Slots \union {Bad} /\ d.may[p] \subseteq Slots \union {Bad}
  BY <1>1 DEF Pairs
<1>4. /\ d.recs \in Seq(Records \union {Bad}) /\ d.wrote \in Seq(Records \union {Bad})
      /\ Len(d.recs) \in Nat /\ Len(d.wrote) \in Nat
  BY <1>1 DEF Written
<1> QED BY <1>1, <1>2, <1>3, <1>4

LEMMA CoveredIs ==
    ASSUME NEW d \in Disks, NEW p, NEW b, NEW n, Footing(d, p, b, n)
    PROVE  /\ n \in Nat /\ Covered(d, n) \in Seq(Records) /\ Len(Covered(d, n)) = n
           /\ Covered(d, n) = SubSeq(d.recs, 1, n) /\ Covered(d, n) = First(d.wrote, n)
           /\ \A i \in 1 .. n : /\ Covered(d, n)[i] = d.recs[i] /\ d.recs[i] \in Records
                                /\ d.recs[i].gen \in Nat
<1>1. /\ n \in Nat /\ n \in 0 .. Len(d.recs)
      /\ \A i \in 1 .. n : d.recs[i] \in Records /\ d.wrote[i] = d.recs[i]
  BY DiskParts DEF Footing
<1>2. /\ Covered(d, n) = SubSeq(d.recs, 1, n) /\ Len(Covered(d, n)) = n
      /\ \A i \in 1 .. n : Covered(d, n)[i] = d.recs[i]
  BY <1>1, DiskParts, FirstIs DEF Covered
<1>3. Covered(d, n) \in [1 .. n -> Records]
  BY <1>1 DEF Covered, First
<1>4. Covered(d, n) \in Seq(Records)
  BY <1>1, <1>3, IsASeq
<1>5. Covered(d, n) = First(d.wrote, n)
  BY <1>1 DEF Covered, First
<1>6. \A r \in Records : r.gen \in Nat
  BY DEF Records
<1> QED BY <1>1, <1>2, <1>4, <1>5, <1>6

\* Nothing is padded where a record ends.
LEMMA PaddedIs ==
    ASSUME NEW S, NEW recs \in Seq(S), NEW n \in 0 .. Len(recs)
    PROVE  Padded(recs, n) = First(recs, n)
BY DEF Padded, First

LEMMA PutRecordIs ==
    ASSUME NEW d \in Disks, NEW n \in Nat, Len(d.recs) = n, n <= Len(d.wrote),
           \A i \in 1 .. n : d.wrote[i] = d.recs[i], NEW rec \in Records \union {Bad}
    PROVE  /\ PutRecord(d, n, rec) \in Disks
           /\ PutRecord(d, n, rec).slots = d.slots /\ PutRecord(d, n, rec).may = d.may
           /\ PutRecord(d, n, rec).firm = d.firm
           /\ PutRecord(d, n, rec).dropped = d.dropped /\ PutRecord(d, n, rec).behind = d.behind
           /\ PutRecord(d, n, rec).recs = With(d, n, rec)
           /\ PutRecord(d, n, rec).wrote = With(d, n, rec)
           /\ With(d, n, rec) \in Written /\ Len(With(d, n, rec)) = n + 1
           /\ With(d, n, rec)[n + 1] = rec
           /\ \A i \in 1 .. n : With(d, n, rec)[i] = d.recs[i]
           /\ Covered(PutRecord(d, n, rec), n) = Covered(d, n)
<1> DEFINE e == PutRecord(d, n, rec)
           all == Append(Covered(d, n), rec)
<1>1. /\ n \in 0 .. Len(d.recs) /\ n \in 0 .. Len(d.wrote)
      /\ d.recs \in Seq(Records \union {Bad}) /\ d.wrote \in Seq(Records \union {Bad})
  BY DiskParts
<1>2. /\ Covered(d, n) \in Seq(Records \union {Bad}) /\ Len(Covered(d, n)) = n
      /\ \A i \in 1 .. n : Covered(d, n)[i] = d.recs[i]
  BY <1>1, FirstIs DEF Covered
<1>3. Covered(d, n) = First(d.wrote, n)
  BY DEF Covered, First
<1>4. Padded(d.recs, n) = Covered(d, n) /\ Padded(d.wrote, n) = Covered(d, n)
  BY <1>1, <1>3, PaddedIs DEF Covered
<1>5. e = [d EXCEPT !.recs = all, !.wrote = all]
  BY <1>4 DEF PutRecord
<1>6. /\ all \in Seq(Records \union {Bad}) /\ Len(all) = n + 1 /\ all[n + 1] = rec
      /\ \A i \in 1 .. n : all[i] = d.recs[i]
  BY <1>1, <1>2, AppendProperties
<1>7. all \in Written
  BY <1>6 DEF Written
<1> HIDE DEF all
<1>8. e.recs = all /\ e.wrote = all /\ e \in Disks
  BY <1>5, <1>7 DEF Disks
<1>9. /\ e.slots = d.slots /\ e.may = d.may /\ e.firm = d.firm /\ e.dropped = d.dropped
      /\ e.behind = d.behind
  BY <1>5 DEF Disks
<1>10. Covered(e, n) = Covered(d, n)
  BY <1>6, <1>8 DEF Covered, First
<1> QED BY <1>6, <1>7, <1>8, <1>9, <1>10 DEF all, With

LEMMA DroppedIs ==
    ASSUME NEW r \in [slots : SUBSET Positions, recs : SUBSET Nat], NEW s
    PROVE  /\ [r EXCEPT !.slots = s] = [slots |-> s, recs |-> r.recs]
           /\ [r EXCEPT !.recs = s] = [slots |-> r.slots, recs |-> s]
OBVIOUS

LEMMA PutSlotIs ==
    ASSUME NEW d \in Disks, NEW p \in Positions, NEW image \in Slots \union {Bad}
    PROVE  /\ PutSlot(d, p, image) \in Disks
           /\ PutSlot(d, p, image).slots = [d.slots EXCEPT ![p] = image]
           /\ PutSlot(d, p, image).may = [d.may EXCEPT ![p] = d.may[p] \union {image, Bad}]
           /\ PutSlot(d, p, image).recs = d.recs /\ PutSlot(d, p, image).wrote = d.wrote
           /\ PutSlot(d, p, image).firm = d.firm /\ PutSlot(d, p, image).behind = d.behind
           /\ PutSlot(d, p, image).dropped = [slots |-> d.dropped.slots \ {p}, recs |-> d.dropped.recs]
<1> DEFINE e == PutSlot(d, p, image)
           slots == [d.slots EXCEPT ![p] = image]
           may == [d.may EXCEPT ![p] = d.may[p] \union {image, Bad}]
           dropped == [slots |-> d.dropped.slots \ {p}, recs |-> d.dropped.recs]
<1>1. slots \in Pairs
  BY DiskParts DEF Pairs
<1>2. may \in [Positions -> SUBSET (Slots \union {Bad})]
  BY DiskParts
<1>3. dropped \in [slots : SUBSET Positions, recs : SUBSET Nat]
  BY DiskParts
<1>4. [d.dropped EXCEPT !.slots = d.dropped.slots \ {p}] = dropped
  BY DiskParts, DroppedIs
<1>5. e = [d EXCEPT !.slots = slots, !.may = may, !.dropped = dropped]
  BY <1>4 DEF PutSlot, Disks
<1> HIDE DEF slots, may, dropped
<1>6. e \in Disks /\ e.slots = slots /\ e.may = may /\ e.dropped = dropped
  BY <1>1, <1>2, <1>3, <1>5 DEF Disks
<1>7. e.recs = d.recs /\ e.wrote = d.wrote /\ e.firm = d.firm /\ e.behind = d.behind
  BY <1>5 DEF Disks
<1> QED BY <1>6, <1>7 DEF slots, may, dropped

LEMMA CutToIs ==
    ASSUME NEW d \in Disks, NEW n \in Nat, n <= Len(d.recs), d.dropped.recs \subseteq n + 1 .. Len(d.recs),
           d.firm <= n \/ n = Len(d.recs)
    PROVE  /\ CutTo(d, n) \in Disks
           /\ CutTo(d, n).slots = d.slots /\ CutTo(d, n).may = d.may
           /\ CutTo(d, n).recs = First(d.recs, n) /\ Len(CutTo(d, n).recs) = n
           /\ \A i \in 1 .. n : CutTo(d, n).recs[i] = d.recs[i]
           /\ CutTo(d, n).wrote = d.wrote /\ CutTo(d, n).firm = d.firm
           /\ CutTo(d, n).behind = d.behind
           /\ CutTo(d, n).dropped.slots = d.dropped.slots /\ CutTo(d, n).dropped.recs = {}
           /\ Covered(CutTo(d, n), n) = Covered(d, n)
<1> DEFINE e == CutTo(d, n)
           recs == First(d.recs, n)
           dropped == [slots |-> d.dropped.slots, recs |-> {}]
<1>1. /\ d.recs \in Seq(Records \union {Bad}) /\ n \in 0 .. Len(d.recs) /\ Len(d.recs) \in Nat
      /\ d.firm \in Nat
  BY DiskParts
<1>2. /\ recs = SubSeq(d.recs, 1, n) /\ recs \in Seq(Records \union {Bad}) /\ Len(recs) = n
      /\ \A i \in 1 .. n : recs[i] = d.recs[i]
  BY <1>1, FirstIs
<1>3. recs \in Written
  BY <1>2 DEF Written
<1>4. CASE n = Len(d.recs)
  <2>1. e = d
    BY <1>4 DEF CutTo
  <2>2. d.dropped.recs = {}
    BY <1>1, <1>4
  <2>3. recs = d.recs
    BY <1>1, <1>2, <1>4 DEF First
  <2> QED BY <1>1, <1>2, <1>4, <2>1, <2>2, <2>3
<1>5. CASE n # Len(d.recs)
  <2>1. ~(n >= Len(d.recs)) /\ d.firm <= n
    BY <1>1, <1>5
  <2>2. Min({d.firm, n}) = d.firm
    BY <1>1, <2>1 DEF Min
  <2>3. d.dropped.recs \intersect 1 .. n = {}
    BY <1>1
  <2>4. [d.dropped EXCEPT !.recs = {}] = dropped
    BY DiskParts, DroppedIs
  <2>5. e = [d EXCEPT !.recs = recs, !.firm = d.firm, !.dropped = dropped]
    BY <1>2, <2>1, <2>2, <2>3, <2>4 DEF CutTo, Disks
  <2>6. dropped \in [slots : SUBSET Positions, recs : SUBSET Nat]
    BY DiskParts
  <2> HIDE DEF recs, dropped
  <2>7. /\ e \in Disks /\ e.recs = recs /\ e.firm = d.firm /\ e.dropped = dropped
        /\ e.slots = d.slots /\ e.may = d.may /\ e.wrote = d.wrote /\ e.behind = d.behind
    BY <1>3, <2>5, <2>6, <1>1 DEF Disks
  <2>8. Covered(e, n) = Covered(d, n)
    BY <1>2, <2>7 DEF Covered, First
  <2> QED BY <1>2, <2>7, <2>8 DEF recs, dropped
<1> QED BY <1>4, <1>5

LEMMA SyncedIs ==
    ASSUME NEW d \in Disks, d.dropped.recs = {}
    PROVE  /\ Synced(d) \in Disks
           /\ Synced(d).slots = d.slots /\ Synced(d).recs = d.recs /\ Synced(d).wrote = d.recs
           /\ Synced(d).firm = Len(d.recs)
           /\ Synced(d).dropped = d.dropped /\ Synced(d).behind = d.behind
           /\ \A p \in Positions : Synced(d).may[p] = IF p \in d.dropped.slots THEN d.may[p] ELSE {d.slots[p]}
<1> DEFINE e == Synced(d)
           may == [p \in Positions |-> IF p \in d.dropped.slots THEN d.may[p] ELSE {d.slots[p]}]
<1>1. \A p \in Positions : d.may[p] \subseteq Slots \union {Bad} /\ d.slots[p] \in Slots \union {Bad}
  BY DiskParts
<1>2. may \in [Positions -> SUBSET (Slots \union {Bad})]
  BY <1>1
<1>3. Len(d.recs) \in Nat
  BY DiskParts
<1>4. e = [d EXCEPT !.may = may, !.firm = Len(d.recs), !.wrote = d.recs]
  BY DEF Synced, Disks
<1>5. \A p \in Positions : may[p] = IF p \in d.dropped.slots THEN d.may[p] ELSE {d.slots[p]}
  OBVIOUS
<1> HIDE DEF may
<1>6. e \in Disks /\ e.may = may /\ e.firm = Len(d.recs) /\ e.wrote = d.recs
  BY <1>2, <1>3, <1>4 DEF Disks
<1>7. e.slots = d.slots /\ e.recs = d.recs /\ e.dropped = d.dropped /\ e.behind = d.behind
  BY <1>4 DEF Disks
<1> QED BY <1>5, <1>6, <1>7

LEMMA SyncFailedIs ==
    ASSUME NEW d \in Disks
    PROVE  /\ SyncFailed(d) \in Disks
           /\ SyncFailed(d).slots = d.slots /\ SyncFailed(d).recs = d.recs
           /\ SyncFailed(d).may = d.may /\ SyncFailed(d).wrote = d.wrote
           /\ SyncFailed(d).firm = d.firm /\ SyncFailed(d).behind = d.behind
           /\ SyncFailed(d).dropped.slots = {p \in Positions : d.may[p] # {d.slots[p]}}
           /\ SyncFailed(d).dropped.recs = d.firm + 1 .. Len(d.recs)
<1> DEFINE e == SyncFailed(d)
           dropped == [slots |-> {p \in Positions : d.may[p] # {d.slots[p]}}, recs |-> d.firm + 1 .. Len(d.recs)]
<1>1. d.firm \in Nat /\ Len(d.recs) \in Nat
  BY DiskParts
<1>2. dropped \in [slots : SUBSET Positions, recs : SUBSET Nat]
  BY <1>1
<1>3. e = [d EXCEPT !.dropped = dropped]
  BY DEF SyncFailed
<1>4. dropped.slots = {p \in Positions : d.may[p] # {d.slots[p]}} /\ dropped.recs = d.firm + 1 .. Len(d.recs)
  OBVIOUS
<1> HIDE DEF dropped
<1>5. e \in Disks /\ e.dropped = dropped
  BY <1>2, <1>3 DEF Disks
<1>6. /\ e.slots = d.slots /\ e.recs = d.recs /\ e.may = d.may /\ e.wrote = d.wrote
      /\ e.firm = d.firm /\ e.behind = d.behind
  BY <1>3 DEF Disks
<1> QED BY <1>4, <1>5, <1>6

(* What each of these leaves an open journal on                              *)

LEMMA GroundedParts ==
    ASSUME NEW d \in Disks, NEW p, NEW b, NEW n, NEW g, Grounded(d, p, b, n, g)
    PROVE  /\ p \in Positions /\ Other(p) \in Positions /\ Other(p) # p /\ Other(Other(p)) = p
           /\ Positions = {p, Other(p)}
           /\ b \in Slots /\ b.gen \in Nat /\ b.bound \in Nat /\ b # Bad
           /\ n \in Nat /\ g \in Nat
           /\ b.gen < g /\ d.may[p] = {b} /\ d.slots[p] = b
           /\ \A x \in d.may[Other(p)] : x \in Slots \union {Bad} /\ (x = Bad \/ x.gen < g)
           /\ d.slots[Other(p)] \in d.may[Other(p)]
           /\ \A i \in 1 .. n : d.recs[i].gen \in Nat /\ d.recs[i].gen < g
           /\ NewSlots(d, p, b) \subseteq d.may[Other(p)] /\ NewSlots(d, p, b) \subseteq Slots
           /\ \A x \in d.may[Other(p)] : x \in NewSlots(d, p, b) \/ Older(x, b)
           /\ Len(d.recs) \in {n, n + 1} /\ Len(d.wrote) \in {n, n + 1}
           /\ d.dropped.recs \subseteq n + 1 .. Len(d.recs) /\ d.firm = n
<1>1. p \in Positions /\ b \in Slots /\ n \in Nat /\ g \in Nat /\ d.may[p] = {b} /\ d.slots[p] = b
  BY DEF Grounded, Footing, Numbered
<1>2. Other(p) \in Positions /\ Other(p) # p /\ Other(Other(p)) = p /\ Positions = {p, Other(p)}
  BY <1>1, TwoPositions
<1>3. b.gen \in Nat /\ b.bound \in Nat /\ b # Bad
  BY <1>1, Constants DEF Slots
<1>4. b.gen < g
  BY <1>1, <1>3 DEF Grounded, Numbered
<1>5. \A x \in d.may[Other(p)] : x \in Slots \union {Bad} /\ (x = Bad \/ x.gen < g)
  BY <1>2, DiskParts DEF Grounded, Numbered
<1>6. ASSUME NEW i \in 1 .. n PROVE d.recs[i].gen \in Nat /\ d.recs[i].gen < g
  <2>1. i \in 1 .. Len(d.wrote) /\ d.wrote[i] = d.recs[i] /\ d.recs[i] \in Records
    BY <1>1, <1>6 DEF Grounded, Footing
  <2> QED BY <2>1, Constants DEF Grounded, Numbered, Records
<1>7. /\ NewSlots(d, p, b) \subseteq d.may[Other(p)] /\ NewSlots(d, p, b) \subseteq Slots
      /\ \A x \in d.may[Other(p)] : x \in NewSlots(d, p, b) \/ Older(x, b)
  BY <1>5 DEF NewSlots, Older
<1>8. /\ d.slots[Other(p)] \in d.may[Other(p)]
      /\ Len(d.recs) \in {n, n + 1} /\ Len(d.wrote) \in {n, n + 1}
      /\ d.dropped.recs \subseteq n + 1 .. Len(d.recs) /\ d.firm = n
  BY DEF Grounded, Footing
<1> QED BY <1>1, <1>2, <1>3, <1>4, <1>5, <1>6, <1>7, <1>8

LEMMA GroundedLater ==
    ASSUME NEW d, NEW p, NEW b, NEW n, NEW g, NEW h \in Nat, g <= h, d \in Disks, Grounded(d, p, b, n, g)
    PROVE  Grounded(d, p, b, n, h)
<1>1. g \in Nat
  BY DEF Grounded, Numbered
<1>2. \A x \in Slots \union Records : x.gen \in Nat
  BY DEF Slots, Records
<1>3. \A q \in Positions : \A x \in d.may[q] : x = Bad \/ x.gen < h
  <2> SUFFICES ASSUME NEW q \in Positions, NEW x \in d.may[q], x # Bad PROVE x.gen < h
    OBVIOUS
  <2>1. x \in Slots /\ x.gen < g
    BY DiskParts DEF Grounded, Numbered
  <2> QED BY <1>1, <1>2, <2>1
<1>4. \A i \in 1 .. Len(d.wrote) : d.wrote[i] = Bad \/ d.wrote[i].gen < h
  <2> SUFFICES ASSUME NEW i \in 1 .. Len(d.wrote), d.wrote[i] # Bad PROVE d.wrote[i].gen < h
    OBVIOUS
  <2>1. d.wrote[i] \in Records /\ d.wrote[i].gen < g
    BY DiskParts, ElementOfSeq DEF Grounded, Numbered
  <2> QED BY <1>1, <1>2, <2>1
<1> QED BY <1>3, <1>4 DEF Grounded, Numbered

\* append: the record is written, or torn.
LEMMA RecordPut ==
    ASSUME NEW d \in Disks, NEW p, NEW b, NEW n, NEW g, Grounded(d, p, b, n, g),
           Len(d.recs) = n, d.dropped.recs = {}, NEW rec \in Records \union {Bad},
           rec = Bad \/ (rec.gen = g /\ NewSlots(d, p, b) = {})
    PROVE  /\ Grounded(PutRecord(d, n, rec), p, b, n, g + 1)
           /\ NewSlots(PutRecord(d, n, rec), p, b) = NewSlots(d, p, b)
           /\ NewRecord(PutRecord(d, n, rec), n) <=> rec # Bad
<1> DEFINE e == PutRecord(d, n, rec)
           all == With(d, n, rec)
<1>0. n \in Nat /\ n <= Len(d.wrote) /\ \A i \in 1 .. n : d.wrote[i] = d.recs[i]
  BY DEF Grounded, Footing
<1>1. /\ e \in Disks /\ e.slots = d.slots /\ e.may = d.may /\ e.dropped = d.dropped
      /\ e.firm = d.firm /\ e.recs = all /\ e.wrote = all
      /\ Len(all) = n + 1 /\ all[n + 1] = rec /\ \A i \in 1 .. n : all[i] = d.recs[i]
  BY <1>0, PutRecordIs
<1> HIDE DEF e, all
<1>2. /\ n \in Nat /\ g \in Nat /\ b.gen \in Nat /\ b.gen < g
      /\ \A i \in 1 .. n : d.recs[i].gen \in Nat /\ d.recs[i].gen < g
  BY GroundedParts
<1>3. NewSlots(e, p, b) = NewSlots(d, p, b)
  BY <1>1 DEF NewSlots
<1>4. NewRecord(e, n) <=> rec # Bad
  BY <1>1 DEF NewRecord
<1>5. Footing(e, p, b, n)
  <2>1. \A i \in 1 .. Len(e.recs) : e.wrote[i] = e.recs[i]
    BY <1>1
  <2>2. \A i \in 1 .. n : e.recs[i] \in Records /\ e.wrote[i] = e.recs[i]
    BY <1>1 DEF Grounded, Footing
  <2>3. e.dropped.recs = {}
    BY <1>1
  <2> QED BY <1>1, <1>2, <2>1, <2>2, <2>3 DEF Grounded, Footing
<1>6. Numbered(e, g + 1)
  <2>1. Grounded(d, p, b, n, g + 1)
    BY <1>2, GroundedLater
  <2>2. \A i \in 1 .. n + 1 : e.wrote[i] = Bad \/ e.wrote[i].gen < g + 1
    <3> SUFFICES ASSUME NEW i \in 1 .. n + 1 PROVE e.wrote[i] = Bad \/ e.wrote[i].gen < g + 1
      OBVIOUS
    <3>1. CASE i = n + 1
      BY <1>1, <1>2, <3>1
    <3>2. CASE i # n + 1
      BY <1>1, <1>2, <3>2
    <3> QED BY <3>1, <3>2
  <2> QED BY <1>1, <1>2, <2>1, <2>2 DEF Grounded, Numbered
<1>7. Single(e, p, b, n)
  <2>1. \A x \in NewSlots(e, p, b) : Newer(x, e, b, n) /\ x.bound <= n
    BY <1>1, <1>2, <1>3 DEF Grounded, Single, Newer
  <2>2. NewRecord(e, n) => Newer(e.wrote[n + 1], e, b, n)
    BY <1>1, <1>2, <1>4 DEF Newer
  <2> QED BY <1>3, <1>4, <2>1, <2>2 DEF Single
<1> QED BY <1>3, <1>4, <1>5, <1>6, <1>7 DEF Grounded, e

\* A slot write: whole, torn, or put back.
LEMMA SlotPut ==
    ASSUME NEW d \in Disks, NEW p, NEW b, NEW n, NEW g, Grounded(d, p, b, n, g),
           NEW image \in Slots \union {Bad},
           \/ Older(image, b)
           \/ image \in Slots /\ image.gen = g /\ image.bound <= n /\ ~NewRecord(d, n)
    PROVE  /\ Grounded(PutSlot(d, Other(p), image), p, b, n, g + 1)
           /\ Older(image, b) => NewSlots(PutSlot(d, Other(p), image), p, b) = NewSlots(d, p, b)
           /\ ~Older(image, b) => NewSlots(PutSlot(d, Other(p), image), p, b) = NewSlots(d, p, b) \union {image}
           /\ NewRecord(PutSlot(d, Other(p), image), n) <=> NewRecord(d, n)
           /\ PutSlot(d, Other(p), image).slots[p] = b
           /\ PutSlot(d, Other(p), image).slots[Other(p)] = image
           /\ Other(p) \notin PutSlot(d, Other(p), image).dropped.slots
           /\ Covered(PutSlot(d, Other(p), image), n) = Covered(d, n)
<1> DEFINE o == Other(p)
           e == PutSlot(d, o, image)
<1>1. /\ p \in Positions /\ o \in Positions /\ o # p /\ Other(o) = p /\ Positions = {p, o}
      /\ b \in Slots /\ b.gen \in Nat /\ b.bound \in Nat /\ b # Bad
      /\ n \in Nat /\ g \in Nat /\ b.gen < g /\ d.may[p] = {b} /\ d.slots[p] = b
      /\ \A x \in d.may[o] : x \in Slots \union {Bad} /\ (x = Bad \/ x.gen < g)
      /\ \A i \in 1 .. n : d.recs[i].gen \in Nat /\ d.recs[i].gen < g
  BY GroundedParts
<1>2. /\ e \in Disks /\ e.slots = [d.slots EXCEPT ![o] = image]
      /\ e.may = [d.may EXCEPT ![o] = d.may[o] \union {image, Bad}]
      /\ e.recs = d.recs /\ e.wrote = d.wrote /\ e.firm = d.firm /\ e.behind = d.behind
      /\ e.dropped = [slots |-> d.dropped.slots \ {o}, recs |-> d.dropped.recs]
  BY <1>1, PutSlotIs
<1> HIDE DEF e, o
<1>3. /\ e.slots[p] = b /\ e.slots[o] = image /\ e.may[p] = {b}
      /\ e.may[o] = d.may[o] \union {image, Bad}
      /\ e.dropped.slots = d.dropped.slots \ {o} /\ e.dropped.recs = d.dropped.recs
  BY <1>1, <1>2, DiskParts DEF Pairs
<1>4. Bad \notin NewSlots(e, p, b) /\ Bad \notin NewSlots(d, p, b)
  BY DEF NewSlots, Older
<1>5. /\ Older(image, b) => NewSlots(e, p, b) = NewSlots(d, p, b)
      /\ ~Older(image, b) => NewSlots(e, p, b) = NewSlots(d, p, b) \union {image}
  <2>1. NewSlots(e, p, b) = {x \in d.may[o] \union {image, Bad} : ~Older(x, b)}
    BY <1>3 DEF NewSlots, o
  <2>2. NewSlots(d, p, b) = {x \in d.may[o] : ~Older(x, b)}
    BY DEF NewSlots, o
  <2>3. Older(Bad, b)
    BY DEF Older
  <2> QED BY <2>1, <2>2, <2>3
<1>6. NewRecord(e, n) <=> NewRecord(d, n)
  BY <1>2 DEF NewRecord
<1>7. Covered(e, n) = Covered(d, n)
  BY <1>2 DEF Covered
<1>8. Footing(e, p, b, n)
  BY <1>1, <1>2, <1>3 DEF Grounded, Footing, o
<1>9. Numbered(e, g + 1)
  <2>1. Grounded(d, p, b, n, g + 1)
    BY <1>1, GroundedLater
  <2>2. image = Bad \/ image.gen < g + 1
    BY <1>1 DEF Older, Slots
  <2>3. \A x \in e.may[o] : x = Bad \/ x.gen < g + 1
    <3>1. \A x \in d.may[o] : x = Bad \/ x.gen < g + 1
      BY <1>1, <2>1 DEF Grounded, Numbered
    <3> QED BY <1>3, <2>2, <3>1
  <2>4. \A x \in e.may[p] : x = Bad \/ x.gen < g + 1
    BY <1>1, <1>3
  <2>5. \A q \in Positions : \A x \in e.may[q] : x = Bad \/ x.gen < g + 1
    BY <1>1, <2>3, <2>4
  <2> QED BY <1>1, <1>2, <2>1, <2>5 DEF Grounded, Numbered
<1>10. Single(e, p, b, n)
  <2>1. \A x : Newer(x, e, b, n) <=> Newer(x, d, b, n)
    BY <1>2 DEF Newer
  <2>2. CASE Older(image, b)
    BY <1>2, <1>5, <1>6, <2>1, <2>2 DEF Grounded, Single
  <2>3. CASE ~Older(image, b)
    <3>1. image \in Slots /\ image.gen = g /\ image.bound <= n /\ ~NewRecord(d, n)
      BY <2>3
    <3>2. Newer(image, d, b, n)
      BY <1>1, <3>1 DEF Newer
    <3> QED BY <1>5, <1>6, <2>1, <2>3, <3>1, <3>2 DEF Grounded, Single
  <2> QED BY <2>2, <2>3
<1> QED BY <1>3, <1>5, <1>6, <1>7, <1>8, <1>9, <1>10 DEF Grounded, e, o

\* set_len, back to the records that are covered.
LEMMA RecordCut ==
    ASSUME NEW d \in Disks, NEW p, NEW b, NEW n, NEW g, Grounded(d, p, b, n, g)
    PROVE  /\ CutTo(d, n) \in Disks
           /\ Grounded(CutTo(d, n), p, b, n, g)
           /\ NewSlots(CutTo(d, n), p, b) = NewSlots(d, p, b)
           /\ NewRecord(CutTo(d, n), n) <=> NewRecord(d, n)
           /\ CutTo(d, n).slots = d.slots /\ Len(CutTo(d, n).recs) = n
           /\ CutTo(d, n).dropped.slots = d.dropped.slots /\ CutTo(d, n).dropped.recs = {}
           /\ CutTo(d, n).behind = d.behind
           /\ Covered(CutTo(d, n), n) = Covered(d, n)
<1> DEFINE e == CutTo(d, n)
<1>1. /\ n \in Nat /\ n <= Len(d.recs) /\ d.dropped.recs \subseteq n + 1 .. Len(d.recs) /\ d.firm = n
      /\ Len(d.wrote) \in {n, n + 1} /\ p \in Positions
  BY GroundedParts
<1>2. /\ e \in Disks /\ e.slots = d.slots /\ e.may = d.may /\ Len(e.recs) = n
      /\ \A i \in 1 .. n : e.recs[i] = d.recs[i]
      /\ e.wrote = d.wrote /\ e.firm = d.firm /\ e.behind = d.behind
      /\ e.dropped.slots = d.dropped.slots /\ e.dropped.recs = {}
      /\ Covered(e, n) = Covered(d, n)
  BY <1>1, CutToIs
<1> HIDE DEF e
<1>3. NewSlots(e, p, b) = NewSlots(d, p, b) /\ (NewRecord(e, n) <=> NewRecord(d, n))
  BY <1>2 DEF NewSlots, NewRecord
<1>4. Footing(e, p, b, n)
  <2>1. \A i \in 1 .. n : e.recs[i] \in Records /\ e.wrote[i] = e.recs[i]
    BY <1>2 DEF Grounded, Footing
  <2> QED BY <1>1, <1>2, <2>1 DEF Grounded, Footing
<1>5. Numbered(e, g)
  BY <1>2 DEF Grounded, Numbered
<1>6. Single(e, p, b, n)
  BY <1>2, <1>3 DEF Grounded, Single, Newer
<1> QED BY <1>2, <1>3, <1>4, <1>5, <1>6 DEF Grounded, e

\* sync_data with nothing but old slots and whole records.
LEMMA CleanSynced ==
    ASSUME NEW d \in Disks, NEW p, NEW b, NEW n, NEW g, Grounded(d, p, b, n, g),
           Len(d.recs) = n, d.dropped.recs = {}, Older(d.slots[Other(p)], b),
           Other(p) \in d.dropped.slots => NewSlots(d, p, b) = {}
    PROVE  /\ Synced(d) \in Disks
           /\ Grounded(Synced(d), p, b, n, g)
           /\ NewSlots(Synced(d), p, b) = {} /\ ~NewRecord(Synced(d), n)
           /\ Synced(d).slots = d.slots /\ Synced(d).recs = d.recs
           /\ Synced(d).dropped = d.dropped /\ Synced(d).behind = d.behind
           /\ Covered(Synced(d), n) = Covered(d, n)
<1> DEFINE o == Other(p)
           e == Synced(d)
<1>1. /\ p \in Positions /\ o \in Positions /\ o # p /\ Positions = {p, o}
      /\ b \in Slots /\ n \in Nat /\ g \in Nat /\ d.may[p] = {b} /\ d.slots[p] = b /\ d.firm = n
      /\ d.slots[o] \in d.may[o] /\ b.gen < g
      /\ \A x \in d.may[o] : x \in Slots \union {Bad} /\ (x = Bad \/ x.gen < g)
  BY GroundedParts
<1>2. /\ e \in Disks /\ e.slots = d.slots /\ e.recs = d.recs /\ e.wrote = d.recs
      /\ e.firm = n /\ e.dropped = d.dropped /\ e.behind = d.behind
      /\ \A q \in Positions : e.may[q] = IF q \in d.dropped.slots THEN d.may[q] ELSE {d.slots[q]}
  BY SyncedIs
<1> HIDE DEF e, o
<1>3. e.may[p] = {b} /\ e.may[o] \subseteq d.may[o] /\ d.slots[o] \in e.may[o]
  BY <1>1, <1>2
<1>4. NewSlots(e, p, b) = {}
  <2>1. CASE o \in d.dropped.slots
    <3>1. e.may[o] = d.may[o] /\ NewSlots(d, p, b) = {}
      BY <1>1, <1>2, <2>1 DEF o
    <3> QED BY <3>1 DEF NewSlots, o
  <2>2. CASE o \notin d.dropped.slots
    <3>1. e.may[o] = {d.slots[o]} /\ Older(d.slots[o], b)
      BY <1>1, <1>2, <2>2 DEF o
    <3> QED BY <3>1 DEF NewSlots, o
  <2> QED BY <2>1, <2>2
<1>5. ~NewRecord(e, n)
  BY <1>1, <1>2 DEF NewRecord
<1>6. Footing(e, p, b, n)
  BY <1>1, <1>2, <1>3 DEF Grounded, Footing, o
<1>7. Numbered(e, g)
  <2>1. \A q \in Positions : \A x \in e.may[q] : x = Bad \/ x.gen < g
    BY <1>1, <1>3
  <2>2. \A i \in 1 .. Len(e.wrote) : e.wrote[i] = Bad \/ e.wrote[i].gen < g
    BY <1>1, <1>2, GroundedParts
  <2> QED BY <1>1, <2>1, <2>2 DEF Numbered
<1>8. Single(e, p, b, n)
  BY <1>4, <1>5 DEF Single
<1>9. Covered(e, n) = Covered(d, n)
  BY <1>2 DEF Covered
<1> QED BY <1>2, <1>4, <1>5, <1>6, <1>7, <1>8, <1>9 DEF Grounded, e

\* sync_data after an append: one record more is covered.
LEMMA RecordSynced ==
    ASSUME NEW d \in Disks, NEW p, NEW b, NEW n, NEW g, Grounded(d, p, b, n, g),
           Len(d.recs) = n + 1, d.dropped.recs = {}, Older(d.slots[Other(p)], b), NewRecord(d, n)
    PROVE  /\ Synced(d) \in Disks
           /\ Grounded(Synced(d), p, b, n + 1, g)
           /\ NewSlots(Synced(d), p, b) = {} /\ ~NewRecord(Synced(d), n + 1)
           /\ Synced(d).slots = d.slots /\ Synced(d).recs = d.recs
           /\ Synced(d).dropped = d.dropped /\ Synced(d).behind = d.behind
           /\ d.recs[n + 1] \in Records /\ Newer(d.recs[n + 1], d, b, n)
           /\ Covered(Synced(d), n + 1) = Append(Covered(d, n), d.recs[n + 1])
<1> DEFINE o == Other(p)
           e == Synced(d)
<1>1. /\ p \in Positions /\ o \in Positions /\ o # p /\ Positions = {p, o}
      /\ b \in Slots /\ n \in Nat /\ g \in Nat /\ d.may[p] = {b} /\ d.slots[p] = b /\ d.firm = n
      /\ b.bound \in Nat
      /\ d.slots[o] \in d.may[o] /\ b.gen < g
      /\ \A x \in d.may[o] : x \in Slots \union {Bad} /\ (x = Bad \/ x.gen < g)
  BY GroundedParts
<1>2. /\ e \in Disks /\ e.slots = d.slots /\ e.recs = d.recs /\ e.wrote = d.recs
      /\ e.firm = n + 1 /\ e.dropped = d.dropped /\ e.behind = d.behind
      /\ \A q \in Positions : e.may[q] = IF q \in d.dropped.slots THEN d.may[q] ELSE {d.slots[q]}
  BY SyncedIs
<1>3. /\ d.wrote[n + 1] = d.recs[n + 1] /\ d.recs[n + 1] # Bad
      /\ Newer(d.recs[n + 1], d, b, n) /\ NewSlots(d, p, b) = {}
  BY <1>1 DEF Grounded, Footing, NewRecord, Single
<1>4. d.recs[n + 1] \in Records
  BY <1>1, <1>3, DiskParts, ElementOfSeq
<1> HIDE DEF e, o
<1>5. e.may[p] = {b} /\ e.may[o] \subseteq d.may[o] /\ d.slots[o] \in e.may[o]
  BY <1>1, <1>2
<1>6. NewSlots(e, p, b) = {}
  <2>1. \A x \in d.may[o] : Older(x, b)
    BY <1>3 DEF NewSlots, o
  <2> QED BY <1>5, <2>1 DEF NewSlots, o
<1>7. ~NewRecord(e, n + 1)
  BY <1>1, <1>2 DEF NewRecord
<1>8. Footing(e, p, b, n + 1)
  <2>1. \A i \in 1 .. n + 1 : e.recs[i] \in Records
    <3> SUFFICES ASSUME NEW i \in 1 .. n + 1 PROVE e.recs[i] \in Records
      OBVIOUS
    <3>1. i # n + 1 => i \in 1 .. n
      BY <1>1
    <3> QED BY <1>2, <1>4, <3>1 DEF Grounded, Footing
  <2>2. Len(e.recs) = n + 1 /\ Len(e.wrote) = n + 1 /\ b.bound <= n + 1
    BY <1>1, <1>2 DEF Grounded, Footing
  <2> QED BY <1>1, <1>2, <1>5, <2>1, <2>2 DEF Grounded, Footing, o
<1>9. Numbered(e, g)
  <2>1. \A q \in Positions : \A x \in e.may[q] : x = Bad \/ x.gen < g
    BY <1>1, <1>5
  <2>2. \A i \in 1 .. Len(e.wrote) : e.wrote[i] = Bad \/ e.wrote[i].gen < g
    BY <1>1, <1>2 DEF Grounded, Footing, Numbered
  <2> QED BY <1>1, <2>1, <2>2 DEF Numbered
<1>10. Single(e, p, b, n + 1)
  BY <1>6, <1>7 DEF Single
<1>11. Covered(e, n + 1) = Append(Covered(d, n), d.recs[n + 1])
  <2>1. /\ Covered(d, n) \in Seq(Records) /\ Len(Covered(d, n)) = n
        /\ \A i \in 1 .. n : Covered(d, n)[i] = d.recs[i]
    BY CoveredIs DEF Grounded
  <2> DEFINE all == Append(Covered(d, n), d.recs[n + 1])
  <2>2. /\ all \in Seq(Records) /\ Len(all) = n + 1 /\ all[n + 1] = d.recs[n + 1]
        /\ \A i \in 1 .. n : all[i] = d.recs[i]
    BY <1>1, <1>4, <2>1, AppendProperties
  <2> HIDE DEF all
  <2>3. \A i \in 1 .. n + 1 : all[i] = d.recs[i]
    <3> SUFFICES ASSUME NEW i \in 1 .. n + 1 PROVE all[i] = d.recs[i]
      OBVIOUS
    <3>1. i # n + 1 => i \in 1 .. n
      BY <1>1
    <3> QED BY <2>2, <3>1
  <2>4. all = [i \in 1 .. n + 1 |-> all[i]]
    BY <2>2
  <2>5. all = Covered(e, n + 1)
    BY <1>2, <2>3, <2>4 DEF Covered, First
  <2> QED BY <2>5 DEF all
<1> QED BY <1>2, <1>3, <1>4, <1>6, <1>7, <1>8, <1>9, <1>10, <1>11 DEF Grounded, e

\* sync_data after a counter write: the slot written is the checkpoint.
LEMMA SlotSynced ==
    ASSUME NEW d \in Disks, NEW p, NEW b, NEW n, NEW g, Grounded(d, p, b, n, g),
           Len(d.recs) = n, d.dropped.recs = {}, Other(p) \notin d.dropped.slots,
           d.slots[Other(p)] \in NewSlots(d, p, b)
    PROVE  /\ Synced(d) \in Disks
           /\ Grounded(Synced(d), Other(p), d.slots[Other(p)], n, g)
           /\ NewSlots(Synced(d), Other(p), d.slots[Other(p)]) = {} /\ ~NewRecord(Synced(d), n)
           /\ Synced(d).slots = d.slots /\ Synced(d).recs = d.recs
           /\ Synced(d).dropped = d.dropped /\ Synced(d).behind = d.behind
           /\ Covered(Synced(d), n) = Covered(d, n)
           /\ Older(b, d.slots[Other(p)]) /\ d.slots[Other(p)] \in Slots
           /\ d.dropped.slots = {}
<1> DEFINE o == Other(p)
           e == Synced(d)
           x == d.slots[o]
<1>1. /\ p \in Positions /\ o \in Positions /\ o # p /\ Other(o) = p /\ Positions = {p, o}
      /\ b \in Slots /\ n \in Nat /\ g \in Nat /\ d.may[p] = {b} /\ d.slots[p] = b /\ d.firm = n
      /\ b.gen \in Nat
      /\ d.slots[o] \in d.may[o] /\ b.gen < g
      /\ \A y \in d.may[o] : y \in Slots \union {Bad} /\ (y = Bad \/ y.gen < g)
      /\ NewSlots(d, p, b) \subseteq Slots
  BY GroundedParts
<1>2. /\ e \in Disks /\ e.slots = d.slots /\ e.recs = d.recs /\ e.wrote = d.recs
      /\ e.firm = n /\ e.dropped = d.dropped /\ e.behind = d.behind
      /\ \A q \in Positions : e.may[q] = IF q \in d.dropped.slots THEN d.may[q] ELSE {d.slots[q]}
  BY SyncedIs
<1>3. x \in Slots /\ x # Bad /\ x.gen > b.gen /\ x.bound <= n /\ x.gen \in Nat
  <2>1. x \in Slots /\ Newer(x, d, b, n) /\ x.bound <= n
    BY <1>1 DEF Grounded, Single
  <2> QED BY <2>1, Constants DEF Newer, Slots
<1>4. d.dropped.slots = {}
  BY <1>1 DEF Grounded, Footing
<1> HIDE DEF e, o, x
<1>5. e.may[p] = {b} /\ e.may[o] = {x} /\ e.slots[o] = x /\ e.slots[p] = b
  BY <1>1, <1>2, <1>4 DEF x
<1>6. Older(b, x)
  BY <1>1, <1>3 DEF Older
<1>7. NewSlots(e, o, x) = {}
  BY <1>1, <1>5, <1>6 DEF NewSlots
<1>8. ~NewRecord(e, n)
  BY <1>1, <1>2 DEF NewRecord
<1>9. Footing(e, o, x, n)
  <2>1. Len(e.recs) = n /\ Len(e.wrote) = n /\ \A i \in 1 .. n : e.recs[i] \in Records
    BY <1>2 DEF Grounded, Footing
  <2> QED BY <1>1, <1>2, <1>3, <1>4, <1>5, <2>1 DEF Footing
<1>10. Numbered(e, g)
  <2>1. \A q \in Positions : \A y \in e.may[q] : y = Bad \/ y.gen < g
    BY <1>1, <1>5 DEF x
  <2>2. \A i \in 1 .. Len(e.wrote) : e.wrote[i] = Bad \/ e.wrote[i].gen < g
    BY <1>1, <1>2, GroundedParts
  <2> QED BY <1>1, <2>1, <2>2 DEF Numbered
<1>11. Single(e, o, x, n)
  BY <1>7, <1>8 DEF Single
<1>12. Covered(e, n) = Covered(d, n)
  BY <1>2 DEF Covered
<1> QED BY <1>2, <1>3, <1>4, <1>6, <1>7, <1>8, <1>9, <1>10, <1>11, <1>12 DEF Grounded, e, o, x

\* sync_data that fails.
LEMMA SyncRefused ==
    ASSUME NEW d \in Disks, NEW p, NEW b, NEW n, NEW g, Grounded(d, p, b, n, g)
    PROVE  /\ SyncFailed(d) \in Disks
           /\ Grounded(SyncFailed(d), p, b, n, g)
           /\ NewSlots(SyncFailed(d), p, b) = NewSlots(d, p, b)
           /\ NewRecord(SyncFailed(d), n) <=> NewRecord(d, n)
           /\ SyncFailed(d).slots = d.slots /\ SyncFailed(d).recs = d.recs
           /\ SyncFailed(d).behind = d.behind
           /\ Covered(SyncFailed(d), n) = Covered(d, n)
           /\ Len(d.recs) = n => SyncFailed(d).dropped.recs = {}
<1> DEFINE e == SyncFailed(d)
<1>1. /\ p \in Positions /\ Positions = {p, Other(p)} /\ Other(p) # p /\ n \in Nat /\ d.firm = n
      /\ d.may[p] = {b} /\ d.slots[p] = b
  BY GroundedParts
<1>2. /\ e \in Disks /\ e.slots = d.slots /\ e.recs = d.recs /\ e.may = d.may /\ e.wrote = d.wrote
      /\ e.firm = n /\ e.behind = d.behind
      /\ e.dropped.slots = {q \in Positions : d.may[q] # {d.slots[q]}}
      /\ e.dropped.recs = n + 1 .. Len(d.recs)
  BY <1>1, SyncFailedIs
<1> HIDE DEF e
<1>3. e.dropped.slots \subseteq {Other(p)}
  BY <1>1, <1>2
<1>4. Footing(e, p, b, n)
  BY <1>2, <1>3 DEF Grounded, Footing
<1>5. NewSlots(e, p, b) = NewSlots(d, p, b) /\ (NewRecord(e, n) <=> NewRecord(d, n))
  BY <1>2 DEF NewSlots, NewRecord
<1>6. Numbered(e, g) /\ Single(e, p, b, n)
  BY <1>2, <1>5 DEF Grounded, Numbered, Single, Newer
<1>7. Covered(e, n) = Covered(d, n)
  BY <1>2 DEF Covered
<1>8. Len(d.recs) = n => e.dropped.recs = {}
  BY <1>1, <1>2
<1> QED BY <1>2, <1>4, <1>5, <1>6, <1>7, <1>8 DEF Grounded, e

-----------------------------------------------------------------------------
(* What is read of a disk, now or after a power loss                        *)

Openable(j) ==
    \E p \in Positions, n \in 0 .. Len(j.recs) : Reads(j.slots, j.recs, p, First(j.recs, n))

LEMMA JournalReads ==
    ASSUME NEW d \in Disks, NEW p, NEW b, NEW n, NEW g, Grounded(d, p, b, n, g),
           NEW slots \in Pairs, slots[p] = b, slots[Other(p)] \in d.may[Other(p)],
           NEW all \in Written, Len(all) \in {n, n + 1}, \A i \in 1 .. n : all[i] = d.recs[i],
           Len(all) = n + 1 => \/ all[n + 1] = Bad
                               \/ NewRecord(d, n) /\ all[n + 1] = d.wrote[n + 1]
    PROVE  /\ Older(slots[Other(p)], b) /\ (Len(all) = n \/ all[n + 1] = Bad) =>
                 Reads(slots, all, p, Covered(d, n))
           /\ slots[Other(p)] \in NewSlots(d, p, b) => Reads(slots, all, Other(p), Covered(d, n))
           /\ Len(all) = n + 1 /\ all[n + 1] # Bad =>
                 all = With(d, n, d.wrote[n + 1]) /\ Reads(slots, all, p, all)
<1> DEFINE o == Other(p)
           recs == Covered(d, n)
<1>1. /\ p \in Positions /\ o \in Positions /\ o # p /\ Other(o) = p
      /\ b \in Slots /\ b.gen \in Nat /\ b.bound \in Nat /\ n \in Nat
      /\ \A x \in d.may[o] : x \in NewSlots(d, p, b) \/ Older(x, b)
      /\ NewSlots(d, p, b) \subseteq Slots
  BY GroundedParts
<1>2. /\ recs \in Seq(Records) /\ Len(recs) = n
      /\ \A i \in 1 .. n : recs[i] = d.recs[i] /\ d.recs[i] \in Records
  BY CoveredIs DEF Grounded
<1>3. all \in Seq(Records \union {Bad}) /\ Len(all) \in Nat
  BY DEF Written
<1>4. b.bound <= n /\ Bad \notin Records
  BY Constants DEF Grounded, Footing
<1> HIDE DEF o, recs
<1>5. ASSUME Len(all) = n \/ all[n + 1] = Bad PROVE Whole(recs, all)
  <2>1. Len(all) > Len(recs) => all[Len(all)] = Bad
    BY <1>2, <1>5
  <2>2. Len(all) \in {Len(recs), Len(recs) + 1} /\ \A i \in 1 .. Len(recs) : all[i] = recs[i]
    BY <1>2
  <2> QED BY <1>2, <2>1, <2>2 DEF Whole
<1>6. Older(slots[o], b) /\ (Len(all) = n \/ all[n + 1] = Bad) => Reads(slots, all, p, recs)
  BY <1>1, <1>2, <1>4, <1>5 DEF Reads, o
<1>7. ASSUME slots[o] \in NewSlots(d, p, b) PROVE Reads(slots, all, o, recs)
  <2>1. /\ slots[o] \in Slots /\ slots[o].gen > b.gen /\ slots[o].bound <= n /\ ~NewRecord(d, n)
    BY <1>1, <1>7 DEF Grounded, Single, Newer
  <2>2. Older(slots[Other(o)], slots[o])
    BY <1>1, <2>1 DEF Older, Slots
  <2>3. Whole(recs, all)
    BY <1>5, <2>1, <1>1
  <2> QED BY <1>1, <1>2, <2>1, <2>2, <2>3 DEF Reads
<1>8. ASSUME Len(all) = n + 1, all[n + 1] # Bad
      PROVE  all = With(d, n, d.wrote[n + 1]) /\ Reads(slots, all, p, all)
  <2>1. NewRecord(d, n) /\ all[n + 1] = d.wrote[n + 1]
    BY <1>8
  <2>2. NewSlots(d, p, b) = {}
    BY <2>1 DEF Grounded, Single
  <2>3. Older(slots[o], b)
    BY <1>1, <2>2 DEF o
  <2>4. all[n + 1] \in Records
    BY <1>1, <1>3, <1>8, ElementOfSeq
  <2>5. \A i \in 1 .. n + 1 : all[i] \in Records
    <3> SUFFICES ASSUME NEW i \in 1 .. n + 1 PROVE all[i] \in Records
      OBVIOUS
    <3>1. i # n + 1 => i \in 1 .. n
      BY <1>1
    <3> QED BY <1>2, <2>4, <3>1
  <2>6. all \in Seq(Records)
    <3>1. all = [i \in 1 .. n + 1 |-> all[i]]
      BY <1>3, <1>8
    <3>2. all \in [1 .. n + 1 -> Records]
      BY <2>5, <3>1
    <3>3. n + 1 \in Nat
      BY <1>1
    <3> QED BY <3>2, <3>3, IsASeq
  <2>7. Whole(all, all)
    BY <1>3, <2>6 DEF Whole
  <2>8. Reads(slots, all, p, all)
    BY <1>1, <1>4, <1>8, <2>3, <2>7 DEF Reads, o
  <2>9. all = With(d, n, d.wrote[n + 1])
    <3> DEFINE whole == Append(recs, d.wrote[n + 1])
    <3>1. /\ whole \in Seq(Records) /\ Len(whole) = n + 1 /\ whole[n + 1] = d.wrote[n + 1]
          /\ \A i \in 1 .. n : whole[i] = recs[i]
      BY <1>1, <1>2, <2>1, <2>4, AppendProperties
    <3> HIDE DEF whole
    <3>2. \A i \in 1 .. n + 1 : all[i] = whole[i]
      <4> SUFFICES ASSUME NEW i \in 1 .. n + 1 PROVE all[i] = whole[i]
        OBVIOUS
      <4>1. i # n + 1 => i \in 1 .. n
        BY <1>1
      <4> QED BY <1>2, <2>1, <3>1, <4>1
    <3>3. all = whole
      BY <1>8, <2>6, <3>1, <3>2, SeqEqual
    <3> QED BY <3>3 DEF whole, With, recs
  <2> QED BY <2>8, <2>9
<1> QED BY <1>6, <1>7, <1>8 DEF o, recs

\* The journal as it is, for a disk in each of the shapes a call leaves.
LEMMA DiskReads ==
    ASSUME NEW d \in Disks, NEW p, NEW b, NEW n, NEW g, Grounded(d, p, b, n, g)
    PROVE  /\ Older(d.slots[Other(p)], b) /\ (Len(d.recs) = n \/ d.recs[n + 1] = Bad) =>
                 Reads(d.slots, d.recs, p, Covered(d, n))
           /\ d.slots[Other(p)] \in NewSlots(d, p, b) =>
                 Reads(d.slots, d.recs, Other(p), Covered(d, n))
           /\ Len(d.recs) = n + 1 /\ d.recs[n + 1] # Bad =>
                 /\ d.recs = With(d, n, d.wrote[n + 1]) /\ NewRecord(d, n)
                 /\ Reads(d.slots, d.recs, p, d.recs)
<1>1. /\ d.slots \in Pairs /\ d.recs \in Written /\ d.slots[p] = b
      /\ d.slots[Other(p)] \in d.may[Other(p)] /\ Len(d.recs) \in {n, n + 1} /\ n \in Nat
      /\ Len(d.wrote) \in {n, n + 1} /\ Len(d.recs) <= Len(d.wrote)
  BY DiskParts DEF Grounded, Footing
<1>2. Len(d.recs) = n + 1 => /\ d.wrote[n + 1] = d.recs[n + 1]
                             /\ d.recs[n + 1] = Bad \/ NewRecord(d, n)
  BY <1>1 DEF Grounded, Footing, NewRecord
<1> QED BY <1>1, <1>2, JournalReads

LEMMA ImagesAre ==
    ASSUME NEW d \in Disks, NEW p, NEW b, NEW n, NEW g, Grounded(d, p, b, n, g),
           NEW j \in Images(d)
    PROVE  /\ j \in Journals /\ j.slots \in Pairs /\ j.recs \in Written
           /\ j.slots[p] = b /\ j.slots[Other(p)] \in d.may[Other(p)]
           /\ Len(j.recs) \in {n, n + 1} /\ \A i \in 1 .. n : j.recs[i] = d.recs[i]
           /\ Len(j.recs) = n + 1 => \/ j.recs[n + 1] = Bad
                                     \/ NewRecord(d, n) /\ j.recs[n + 1] = d.wrote[n + 1]
<1>1. PICK zero \in d.may[0], one \in d.may[1], k \in d.firm .. Len(d.wrote),
           lost \in SUBSET (d.firm + 1 .. Len(d.wrote)) :
         j = [slots |-> [q \in Positions |-> IF q = 0 THEN zero ELSE one],
              recs |-> Damaged(SubSeq(d.wrote, 1, k), lost)]
  BY DEF Images
<1> DEFINE slots == [q \in Positions |-> IF q = 0 THEN zero ELSE one]
           kept0 == SubSeq(d.wrote, 1, k)
           recs == Damaged(kept0, lost)
<1>2. /\ d.firm = n /\ n \in Nat /\ Len(d.wrote) \in {n, n + 1}
      /\ d.wrote \in Seq(Records \union {Bad}) /\ k \in Nat /\ k \in {n, n + 1} /\ k <= Len(d.wrote)
      /\ \A i \in 1 .. n : d.wrote[i] = d.recs[i]
  BY DiskParts DEF Grounded, Footing
<1>3. /\ kept0 \in Seq(Records \union {Bad}) /\ Len(kept0) = k
      /\ \A i \in 1 .. k : kept0[i] = d.wrote[i]
  BY <1>2, SubSeqProperties
<1> HIDE DEF kept0
<1>4. recs = [i \in 1 .. k |-> IF i \in lost THEN Bad ELSE d.wrote[i]]
  BY <1>3 DEF Damaged
<1>5. \A i \in 1 .. k : d.wrote[i] \in Records \union {Bad}
  BY <1>2, ElementOfSeq
<1>6. recs \in [1 .. k -> Records \union {Bad}]
  BY <1>4, <1>5
<1>7. recs \in Seq(Records \union {Bad}) /\ Len(recs) = k
  BY <1>2, <1>6, IsASeq, LenProperties
<1>8. \A i \in 1 .. n : recs[i] = d.recs[i]
  <2> SUFFICES ASSUME NEW i \in 1 .. n PROVE recs[i] = d.recs[i]
    OBVIOUS
  <2>1. i \in 1 .. k /\ i \notin lost
    BY <1>2
  <2> QED BY <1>2, <1>4, <2>1
<1>9. k = n + 1 => \/ recs[n + 1] = Bad
                   \/ NewRecord(d, n) /\ recs[n + 1] = d.wrote[n + 1]
  <2> SUFFICES ASSUME k = n + 1, recs[n + 1] # Bad
               PROVE  NewRecord(d, n) /\ recs[n + 1] = d.wrote[n + 1]
    OBVIOUS
  <2>1. recs[n + 1] = d.wrote[n + 1]
    BY <1>2, <1>4
  <2> QED BY <1>2, <2>1 DEF NewRecord
<1>10. \A q \in Positions : slots[q] \in d.may[q]
  BY DEF Positions
<1>11. \A q \in Positions : slots[q] \in Slots \union {Bad}
  BY <1>10, DiskParts
<1>12. slots \in Pairs
  BY <1>11 DEF Pairs
<1>13. p \in Positions /\ Other(p) \in Positions /\ d.may[p] = {b}
  BY GroundedParts
<1> HIDE DEF slots, recs
<1>14. j = [slots |-> slots, recs |-> recs]
  BY <1>1 DEF slots, recs, kept0
<1>15. j \in Journals /\ j.slots = slots /\ j.recs = recs
  BY <1>7, <1>12, <1>14 DEF Journals, Written
<1> QED BY <1>2, <1>7, <1>8, <1>9, <1>10, <1>12, <1>13, <1>15 DEF Written

\* Whichever journal a power loss leaves opens, and says what was flushed or
\* what the one write since would have it say.
LEMMA ImagesRead ==
    ASSUME every = 1, NEW d \in Disks, NEW p, NEW b, NEW n, NEW g, Grounded(d, p, b, n, g),
           NEW j \in Images(d)
    PROVE  /\ j \in Journals /\ Openable(j)
           /\ \/ View(j.slots, j.recs) = Told(b, Covered(d, n))
              \/ \E x \in NewSlots(d, p, b) : View(j.slots, j.recs) = Told(x, Covered(d, n))
              \/ /\ NewRecord(d, n)
                 /\ View(j.slots, j.recs) = Told(b, With(d, n, d.wrote[n + 1]))
<1> DEFINE o == Other(p)
<1>1. /\ j \in Journals /\ j.slots \in Pairs /\ j.recs \in Written
      /\ j.slots[p] = b /\ j.slots[o] \in d.may[o]
      /\ Len(j.recs) \in {n, n + 1} /\ \A i \in 1 .. n : j.recs[i] = d.recs[i]
      /\ Len(j.recs) = n + 1 => \/ j.recs[n + 1] = Bad
                                \/ NewRecord(d, n) /\ j.recs[n + 1] = d.wrote[n + 1]
  BY ImagesAre
<1>2. /\ Older(j.slots[o], b) /\ (Len(j.recs) = n \/ j.recs[n + 1] = Bad) =>
            Reads(j.slots, j.recs, p, Covered(d, n))
      /\ j.slots[o] \in NewSlots(d, p, b) => Reads(j.slots, j.recs, o, Covered(d, n))
      /\ Len(j.recs) = n + 1 /\ j.recs[n + 1] # Bad =>
            j.recs = With(d, n, d.wrote[n + 1]) /\ Reads(j.slots, j.recs, p, j.recs)
  BY <1>1, JournalReads
<1>3. /\ o \in Positions /\ p \in Positions /\ n \in Nat
      /\ j.slots[o] \in NewSlots(d, p, b) \/ Older(j.slots[o], b)
  BY <1>1, GroundedParts
<1>4. First(j.recs, n) = Covered(d, n) /\ n \in 0 .. Len(j.recs)
  BY <1>1, <1>3 DEF Covered, First
<1>5. First(j.recs, Len(j.recs)) = j.recs /\ Len(j.recs) \in 0 .. Len(j.recs)
  BY <1>1 DEF First, Written
<1> HIDE DEF o
<1>6. CASE j.slots[o] \in NewSlots(d, p, b)
  <2>1. Reads(j.slots, j.recs, o, Covered(d, n))
    BY <1>2, <1>6
  <2>2. View(j.slots, j.recs) = Told(j.slots[o], Covered(d, n))
    BY <2>1, ReadsAre
  <2>3. Openable(j)
    BY <1>3, <1>4, <2>1 DEF Openable
  <2> QED BY <1>1, <1>6, <2>2, <2>3
<1>7. CASE Older(j.slots[o], b) /\ (Len(j.recs) = n \/ j.recs[n + 1] = Bad)
  <2>1. Reads(j.slots, j.recs, p, Covered(d, n))
    BY <1>2, <1>7
  <2>2. View(j.slots, j.recs) = Told(b, Covered(d, n))
    BY <1>1, <2>1, ReadsAre
  <2>3. Openable(j)
    BY <1>3, <1>4, <2>1 DEF Openable
  <2> QED BY <1>1, <2>2, <2>3
<1>8. CASE Len(j.recs) = n + 1 /\ j.recs[n + 1] # Bad
  <2>1. j.recs = With(d, n, d.wrote[n + 1]) /\ Reads(j.slots, j.recs, p, j.recs)
    BY <1>2, <1>8
  <2>2. View(j.slots, j.recs) = Told(b, With(d, n, d.wrote[n + 1]))
    BY <1>1, <2>1, ReadsAre
  <2>3. NewRecord(d, n)
    BY <1>1, <1>8
  <2>4. Openable(j)
    BY <1>3, <1>5, <2>1 DEF Openable
  <2> QED BY <1>1, <2>2, <2>3, <2>4
<1> QED BY <1>1, <1>3, <1>6, <1>7, <1>8

LEMMA AsItIs ==
    ASSUME NEW d \in Disks, NEW p, NEW b, NEW n, NEW g, Grounded(d, p, b, n, g)
    PROVE  [slots |-> d.slots, recs |-> d.recs] \in Images(d)
<1> DEFINE k == Len(d.recs)
<1>1. /\ p \in Positions /\ d.slots[p] \in d.may[p] /\ d.slots[Other(p)] \in d.may[Other(p)]
      /\ Positions = {p, Other(p)} /\ d.firm = n /\ n \in Nat
  BY GroundedParts
<1>2. /\ d.recs \in Seq(Records \union {Bad}) /\ d.wrote \in Seq(Records \union {Bad})
      /\ k \in Nat /\ k \in n .. Len(d.wrote) /\ k \in 0 .. Len(d.wrote)
      /\ \A i \in 1 .. k : d.wrote[i] = d.recs[i]
  BY DiskParts DEF Grounded, Footing
<1>3. \A q \in Positions : d.slots[q] \in d.may[q]
  BY <1>1
<1>4. d.slots[0] \in d.may[0] /\ d.slots[1] \in d.may[1]
  BY <1>3 DEF Positions
<1>5. SubSeq(d.wrote, 1, k) = d.recs
  <2>1. SubSeq(d.wrote, 1, k) = First(d.wrote, k)
    BY <1>2, FirstIs
  <2>2. First(d.wrote, k) = [i \in 1 .. k |-> d.recs[i]]
    BY <1>2 DEF First
  <2>3. d.recs = [i \in 1 .. k |-> d.recs[i]]
    BY <1>2
  <2> QED BY <2>1, <2>2, <2>3
<1>6. Damaged(d.recs, {}) = d.recs
  BY <1>2 DEF Damaged
<1>7. d.slots = [q \in Positions |-> IF q = 0 THEN d.slots[0] ELSE d.slots[1]]
  BY DiskParts DEF Positions, Pairs
<1>8. k \in d.firm .. Len(d.wrote) /\ {} \in SUBSET (d.firm + 1 .. Len(d.wrote))
  BY <1>1, <1>2
<1>9. [slots |-> d.slots, recs |-> d.recs] =
        [slots |-> [q \in Positions |-> IF q = 0 THEN d.slots[0] ELSE d.slots[1]],
         recs |-> Damaged(SubSeq(d.wrote, 1, k), {})]
  BY <1>5, <1>6, <1>7
<1> QED BY <1>4, <1>8, <1>9 DEF Images

-----------------------------------------------------------------------------
(* A journal that was just opened or renamed into place                      *)

LEMMA GenerationsAre ==
    ASSUME NEW slots \in Pairs, Valid(slots) # {}, NEW recs \in Seq(Records)
    PROVE  /\ Max(Generations(slots, recs)) \in Nat
           /\ \A p \in Positions : slots[p] = Bad \/ slots[p].gen <= Max(Generations(slots, recs))
           /\ \A i \in 1 .. Len(recs) : recs[i].gen <= Max(Generations(slots, recs))
<1> DEFINE f == [i \in 1 .. Len(recs) |-> recs[i].gen]
           ofRecs == {f[i] : i \in 1 .. Len(recs)}
           all == Generations(slots, recs)
<1>1. /\ Len(recs) \in Nat /\ DOMAIN recs = 1 .. Len(recs)
      /\ \A i \in 1 .. Len(recs) : recs[i].gen \in Nat
  BY RecordsIn
<1>2. f \in [1 .. Len(recs) -> Nat]
  BY <1>1
<1>3. IsFiniteSet(ofRecs) /\ ofRecs \subseteq Nat
  BY <1>1, <1>2, FiniteRange
<1>4. \A p \in Valid(slots) : slots[p] \in Slots /\ slots[p].gen \in Nat
  BY DEF Valid, Pairs, Slots
<1>5. all = {slots[p].gen : p \in Valid(slots)} \union ofRecs
  BY <1>1 DEF Generations
<1>6. Valid(slots) \subseteq {0, 1}
  BY DEF Valid, Positions
<1>7. {slots[p].gen : p \in Valid(slots)} \subseteq {slots[0].gen, slots[1].gen}
  BY <1>6
<1>8. IsFiniteSet({slots[0].gen, slots[1].gen})
  <2>1. IsFiniteSet({slots[0].gen})
    BY FS_Singleton
  <2>2. {slots[0].gen, slots[1].gen} = {slots[0].gen} \cup {slots[1].gen}
    OBVIOUS
  <2> QED BY <2>1, <2>2, FS_AddElement
<1>9. IsFiniteSet({slots[p].gen : p \in Valid(slots)})
  BY <1>7, <1>8, FS_Subset
<1>10. IsFiniteSet(all)
  <2> DEFINE ofSlots == {slots[p].gen : p \in Valid(slots)}
  <2>1. IsFiniteSet(ofSlots) /\ IsFiniteSet(ofRecs) /\ all = ofSlots \union ofRecs
    BY <1>3, <1>5, <1>9
  <2> HIDE DEF ofSlots, ofRecs, all
  <2> QED BY <2>1, FS_Union
<1>11. all \subseteq Nat /\ all # {}
  BY <1>3, <1>4, <1>5
<1>12. Max(all) \in all /\ \A n \in all : n <= Max(all)
  BY <1>10, <1>11, Greatest
<1>13. \A p \in Positions : slots[p] = Bad \/ slots[p].gen \in all
  BY <1>5 DEF Valid
<1>14. \A i \in 1 .. Len(recs) : recs[i].gen \in all
  <2> SUFFICES ASSUME NEW i \in 1 .. Len(recs) PROVE recs[i].gen \in all
    OBVIOUS
  <2>1. f[i] \in ofRecs /\ f[i] = recs[i].gen
    OBVIOUS
  <2> QED BY <1>5, <2>1
<1> QED BY <1>11, <1>12, <1>13, <1>14

LEMMA FreshlyGrounded ==
    ASSUME NEW d \in Disks, NEW p \in Positions, NEW recs \in Seq(Records), NEW g \in Nat,
           d.recs = recs, d.wrote = recs, d.firm = Len(recs), d.dropped = Nothing,
           \A q \in Positions : d.may[q] = {d.slots[q]},
           d.slots[p] \in Slots, d.slots[p].bound <= Len(recs),
           Older(d.slots[Other(p)], d.slots[p]),
           \A q \in Positions : d.slots[q] = Bad \/ d.slots[q].gen < g,
           \A i \in 1 .. Len(recs) : recs[i].gen < g
    PROVE  /\ Grounded(d, p, d.slots[p], Len(recs), g)
           /\ NewSlots(d, p, d.slots[p]) = {} /\ ~NewRecord(d, Len(recs))
           /\ Covered(d, Len(recs)) = recs
<1>1. /\ Len(recs) \in Nat /\ \A i \in 1 .. Len(recs) : recs[i] \in Records
  BY RecordsIn
<1>2. Other(p) \in Positions /\ Other(p) # p
  BY TwoPositions
<1>3. d.dropped.slots = {} /\ d.dropped.recs = {}
  BY DEF Nothing
<1>4. NewSlots(d, p, d.slots[p]) = {} /\ ~NewRecord(d, Len(recs))
  BY <1>1, <1>2 DEF NewSlots, NewRecord
<1>5. Footing(d, p, d.slots[p], Len(recs))
  BY <1>1, <1>2, <1>3 DEF Footing
<1>6. Numbered(d, g)
  BY <1>1 DEF Numbered
<1>7. Single(d, p, d.slots[p], Len(recs))
  BY <1>4 DEF Single
<1>8. Covered(d, Len(recs)) = recs
  BY <1>1 DEF Covered, First
<1> QED BY <1>4, <1>5, <1>6, <1>7, <1>8 DEF Grounded

LEMMA FirmIs ==
    ASSUME NEW j \in Journals
    PROVE  /\ Firm(j.slots, j.recs) \in Disks
           /\ Firm(j.slots, j.recs).slots = j.slots /\ Firm(j.slots, j.recs).recs = j.recs
           /\ Firm(j.slots, j.recs).wrote = j.recs /\ Firm(j.slots, j.recs).firm = Len(j.recs)
           /\ Firm(j.slots, j.recs).dropped = Nothing /\ Firm(j.slots, j.recs).behind = {}
           /\ \A q \in Positions : Firm(j.slots, j.recs).may[q] = {j.slots[q]}
           /\ Images(Firm(j.slots, j.recs)) = {j}
<1> DEFINE e == Firm(j.slots, j.recs)
           may == [q \in Positions |-> {j.slots[q]}]
<1>1. j.slots \in Pairs /\ j.recs \in Written /\ j = [slots |-> j.slots, recs |-> j.recs]
  BY DEF Journals
<1>2. j.recs \in Seq(Records \union {Bad}) /\ Len(j.recs) \in Nat
  BY <1>1 DEF Written
<1>3. may \in [Positions -> SUBSET (Slots \union {Bad})]
  BY <1>1 DEF Pairs
<1>4. Nothing \in [slots : SUBSET Positions, recs : SUBSET Nat]
  BY DEF Nothing
<1>5. e = [slots |-> j.slots, recs |-> j.recs, may |-> may, firm |-> Len(j.recs), wrote |-> j.recs,
           dropped |-> Nothing, behind |-> {}]
  BY DEF Firm
<1>6. \A q \in Positions : may[q] = {j.slots[q]}
  OBVIOUS
<1> HIDE DEF may, e
<1>7. e \in Disks
  BY <1>1, <1>2, <1>3, <1>4, <1>5 DEF Disks
<1>8. /\ e.slots = j.slots /\ e.recs = j.recs /\ e.wrote = j.recs /\ e.firm = Len(j.recs)
      /\ e.dropped = Nothing /\ e.behind = {} /\ e.may = may
  BY <1>5
<1>9. ASSUME NEW i \in Images(e) PROVE i = j
  <2>1. PICK zero \in e.may[0], one \in e.may[1], k \in e.firm .. Len(e.wrote),
             lost \in SUBSET (e.firm + 1 .. Len(e.wrote)) :
           i = [slots |-> [q \in Positions |-> IF q = 0 THEN zero ELSE one],
                recs |-> Damaged(SubSeq(e.wrote, 1, k), lost)]
    BY DEF Images
  <2>2. zero = j.slots[0] /\ one = j.slots[1]
    BY <1>6, <1>8 DEF Positions
  <2>3. k = Len(j.recs) /\ lost = {}
    BY <1>2, <1>8
  <2>4. [q \in Positions |-> IF q = 0 THEN zero ELSE one] = j.slots
    BY <1>1, <2>2 DEF Positions, Pairs
  <2>5. SubSeq(e.wrote, 1, k) = j.recs
    BY <1>2, <1>8, <2>3, SubSeqFull
  <2>6. Damaged(j.recs, {}) = j.recs
    BY <1>2 DEF Damaged
  <2> QED BY <1>1, <2>1, <2>3, <2>4, <2>5, <2>6
<1>10. j \in Images(e)
  <2>1. j.slots[0] \in e.may[0] /\ j.slots[1] \in e.may[1]
    BY <1>6, <1>8 DEF Positions
  <2>2. Len(j.recs) \in e.firm .. Len(e.wrote) /\ {} \in SUBSET (e.firm + 1 .. Len(e.wrote))
    BY <1>2, <1>8
  <2>3. [q \in Positions |-> IF q = 0 THEN j.slots[0] ELSE j.slots[1]] = j.slots
    BY <1>1 DEF Positions, Pairs
  <2>4. SubSeq(e.wrote, 1, Len(j.recs)) = j.recs
    BY <1>2, <1>8, SubSeqFull
  <2>5. Damaged(j.recs, {}) = j.recs
    BY <1>2 DEF Damaged
  <2>6. j = [slots |-> [q \in Positions |-> IF q = 0 THEN j.slots[0] ELSE j.slots[1]],
             recs |-> Damaged(SubSeq(e.wrote, 1, Len(j.recs)), {})]
    BY <1>1, <2>3, <2>4, <2>5
  <2> QED BY <2>1, <2>2, <2>6 DEF Images
<1> QED BY <1>6, <1>7, <1>8, <1>9, <1>10 DEF e

-----------------------------------------------------------------------------
(* The inductive invariant                                                  *)

Stages == {"idle", "after", "fails", "sync", "mark", "marked", "answer", "undo", "load",
           "reflush", "renamed"}
Pendings == [cut : Nat \union {NoCut}, slots : Pairs \union {NoSlots}, dir : BOOLEAN, reopen : BOOLEAN]
Mems == [pc : Stages, slots : Pairs, durableSlots : Pairs, active : Positions, durable : Positions,
         end : Nat, durableEnd : Nat, unsynced : Nat, gen : Nat, next : Numbers, target : Targets,
         owed : BOOLEAN, index : [Seqs -> Nat], pending : Pendings, left : {0, 1, 2}, was : BOOLEAN]
Stores == [next : Numbers, target : Targets, owed : SUBSET BOOLEAN, filed : [Seqs -> Frames \union {0}]]

\* The checkpoint of an open journal, and what it says.
Base(m) == m.durableSlots[m.durable]
Spare(m) == Other(m.durable)
Held(d, m) == Told(Base(m), Covered(d, m.durableEnd))
SlotsOut(d, m) == NewSlots(d, m.durable, Base(m))
RecordOut(d, m) == NewRecord(d, m.durableEnd)
LastRecord(d, m) == Told(Base(m), With(d, m.durableEnd, d.wrote[m.durableEnd + 1]))

Standing(d, m) ==
    /\ Grounded(d, m.durable, Base(m), m.durableEnd, m.gen)
    /\ m.slots[m.durable] = Base(m)
    /\ Older(m.durableSlots[Spare(m)], Base(m))

\* No write is out.
Still(d, m) ==
    /\ m.slots = m.durableSlots /\ m.active = m.durable
    /\ d.slots = m.durableSlots /\ SlotsOut(d, m) = {}
    /\ Len(d.recs) = m.durableEnd /\ ~RecordOut(d, m) /\ d.dropped.recs = {}
Settled(d, m) == Still(d, m) /\ m.pending = NoPending /\ m.end = m.durableEnd

\* A record is, or a slot.
Appended(d, m) ==
    /\ m.pending = NoPending
    /\ m.slots = m.durableSlots /\ m.active = m.durable
    /\ d.slots = m.durableSlots /\ SlotsOut(d, m) = {}
    /\ m.end = m.durableEnd + 1 /\ Len(d.recs) = m.end /\ RecordOut(d, m) /\ d.dropped.recs = {}
Rewritten(d, m) ==
    /\ m.pending = NoPending
    /\ m.active = Spare(m) /\ m.slots = d.slots /\ m.slots[Spare(m)] \in SlotsOut(d, m)
    /\ Spare(m) \notin d.dropped.slots
    /\ m.end = m.durableEnd /\ Len(d.recs) = m.durableEnd /\ ~RecordOut(d, m) /\ d.dropped.recs = {}

\* What is out is pending, to be undone.
Undoable(d, m) ==
    /\ m.slots = m.durableSlots /\ m.active = m.durable
    /\ m.pending.slots \in {NoSlots, m.durableSlots}
    /\ m.pending.slots = NoSlots => d.slots = m.durableSlots /\ SlotsOut(d, m) = {}
    /\ m.pending.cut \in {NoCut, m.durableEnd}
    /\ m.pending.cut = NoCut => /\ Len(d.recs) = m.durableEnd /\ m.end = m.durableEnd
                                /\ ~RecordOut(d, m) /\ d.dropped.recs = {}
    /\ Spare(m) \in d.dropped.slots => SlotsOut(d, m) = {} \/ d.slots # m.durableSlots
    /\ m.pending.dir => m.pending.cut = NoCut /\ m.pending.slots = NoSlots

ByStage(d, m, c) ==
    /\ m.pc = "after" /\ c.op = "file" => Appended(d, m)
    /\ m.pc = "after" /\ c.op # "file" => Rewritten(d, m)
    /\ m.pc = "marked" => Rewritten(d, m)
    /\ m.pc \in {"mark", "sync", "answer", "reflush", "renamed"} => Settled(d, m)
    /\ m.pc = "load" => Still(d, m)
    /\ m.pc \in {"idle", "fails", "undo", "load"} => Undoable(d, m)

ByCall(m, c) ==
    /\ c = Promise!NoCall <=> m = Closed \/ m.pc = "idle"
    /\ m.pc = "after" => c.op \in {"file", "sender", "target"}
    /\ m.pc \in {"mark", "marked"} => c.op = "mark" /\ m.left \in {1, 2}
    /\ m.pc = "sync" => c.op = "sync"
    /\ m.pc = "renamed" => c.op \in {"reset", "compact"}
    /\ m.pc \in {"undo", "load", "reflush", "answer"} => c.op \in {"mark", "refresh"}
    /\ m.pc = "fails" => c.op \in {"file", "sender", "target", "mark", "refresh"}
    /\ m.pc = "load" => ~m.pending.dir

\* A view that a store admits, or one of several.
Agrees(s, v) == v.next = s.next /\ v.target = s.target /\ v.filed = s.filed
Admits(s, v) == Agrees(s, v) /\ v.owed \in s.owed
Promised(v, stores) == \E s \in stores : Admits(s, v)

\* Whatever a power loss brings back was promised.
Survives(d, m, stores) ==
    /\ Promised(Held(d, m), stores)
    /\ \A x \in SlotsOut(d, m) : Promised(Told(x, Covered(d, m.durableEnd)), stores)
    /\ RecordOut(d, m) => Promised(LastRecord(d, m), stores)
Behind(d, m, stores) ==
    /\ \A j \in d.behind : Openable(j) /\ Promised(View(j.slots, j.recs), stores)
    /\ d.behind # {} => m = Closed \/ m.pc = "renamed" \/ m.pending.dir
ClosedOn(d, stores) ==
    /\ [slots |-> d.slots, recs |-> d.recs] \in Images(d)
    /\ \A j \in Images(d) : Openable(j) /\ Promised(View(j.slots, j.recs), stores)

InMark(m) == m.pc \in {"mark", "marked"}
FailedMark(m, c) == m.pc = "fails" /\ c.op = "mark"

\* What the caller was told is what the journal holds and what a failed flush
\* goes back to.
Tells(d, m, last, back) ==
    m.pc # "renamed" =>
        /\ Agrees(last, Held(d, m)) /\ m.next = last.next /\ m.target = last.target
        /\ ~m.pending.dir => Admits(back, Held(d, m))
Indexed(d, m) == \A n \in Seqs : m.index[n] = LastOf(Covered(d, m.durableEnd), n)
Marker(m, c, last) ==
    /\ InMark(m) => m.was \in last.owed /\ m.owed = c.owed
    /\ InMark(m) /\ m.left = 1 => Base(m).owed = c.owed
    /\ InMark(m) /\ m.left = 2 => Base(m).owed \in last.owed
    /\ ~InMark(m) /\ ~FailedMark(m, c) /\ m.pc # "renamed" => m.owed \in last.owed /\ Base(m).owed \in last.owed
    /\ Base(m).owed => m.owed \/ (InMark(m) /\ m.was)
    /\ m.pc = "answer" /\ c.op = "mark" => m.owed = c.owed /\ Base(m).owed = c.owed
\* What the write under way, or a rename, makes of it.
Becomes(d, m, c, outcome) ==
    /\ m.pc = "after" /\ c.op = "file" =>
         d.recs[m.end].seq = c.seq /\ Admits(outcome, Told(Base(m), d.recs))
    /\ (m.pc = "after" /\ c.op # "file") \/ m.pc = "marked" =>
         /\ Admits(outcome, Told(m.slots[Spare(m)], Covered(d, m.durableEnd)))
         /\ m.slots[Spare(m)].owed = m.owed
    /\ m.pc = "renamed" =>
         /\ Admits(outcome, Held(d, m)) /\ m.next = outcome.next /\ m.target = outcome.target
         /\ m.owed \in outcome.owed

Shape ==
    /\ every = 1
    /\ disk \in Disks /\ mem \in Mems \union {Closed}
    /\ call \in Calls \union {Promise!NoCall}
    /\ acked \in Stores /\ flushed \in Stores /\ tried \subseteq Stores
    /\ kept = View(disk.slots, disk.recs)
    /\ call # Promise!NoCall => Outcome \in tried
Views == tried \union {flushed}

IInv ==
    /\ Shape /\ ByCall(mem, call)
    /\ mem # Closed =>
          /\ Standing(disk, mem) /\ ByStage(disk, mem, call)
          /\ Survives(disk, mem, Views)
          /\ Tells(disk, mem, acked, flushed) /\ Indexed(disk, mem)
          /\ Marker(mem, call, acked) /\ Becomes(disk, mem, call, Outcome)
    /\ Behind(disk, mem, Views)
    /\ mem = Closed => ClosedOn(disk, Views) /\ acked = Promise!Certain(kept)

-----------------------------------------------------------------------------
(* Calls and what they make of a store                                      *)

LEMMA OpenIs ==
    ASSUME NEW m \in Mems
    PROVE  m # Closed
<1>1. m.pc \in Stages /\ Closed.pc = "closed"
  BY DEF Mems, Closed
<1> QED BY <1>1 DEF Stages

LEMMA CallsAre ==
    ASSUME NEW c \in Calls
    PROVE  /\ c.op \in {"file", "sender", "target", "mark", "reset", "sync", "compact", "refresh"}
           /\ c # Promise!NoCall /\ c.op # "none"
           /\ c.op = "file" => c.seq \in Seqs /\ c.what \in Frames
           /\ c.op = "sender" => c.next \in Numbers
           /\ c.op = "target" => c.target \in Targets
           /\ c.op = "mark" => c.owed \in BOOLEAN
           /\ c.op = "reset" => c.next \in {1, 2} /\ c.next \in Numbers /\ c.next \in Targets
<1>1. CASE c \in [op : {"file"}, seq : Seqs, what : Frames]
  BY <1>1 DEF Promise!NoCall
<1>2. CASE c \in [op : {"sender"}, next : 1 .. MaxSeq + 1]
  BY <1>2 DEF Promise!NoCall, Numbers
<1>3. CASE c \in [op : {"target"}, target : 1 .. MaxTarget]
  BY <1>3, Constants DEF Promise!NoCall
<1>4. CASE c \in [op : {"mark"}, owed : BOOLEAN]
  BY <1>4 DEF Promise!NoCall
<1>5. CASE c \in [op : {"reset"}, next : {1, 2}]
  BY <1>5, Constants DEF Promise!NoCall
<1>6. CASE c \in [op : {"sync", "compact", "refresh"}]
  BY <1>6 DEF Promise!NoCall
<1> QED BY <1>1, <1>2, <1>3, <1>4, <1>5, <1>6 DEF Calls

LEMMA EffectIs ==
    ASSUME NEW s \in Stores, NEW c \in Calls \union {Promise!NoCall}
    PROVE  /\ Promise!Effect(s, c) \in Stores
           /\ c.op # "mark" => Promise!Effect(s, c).owed = s.owed
           /\ c.op = "mark" => Promise!Effect(s, c).owed = {c.owed}
           /\ c.op \notin {"file", "sender", "reset"} => Promise!Effect(s, c).next = s.next
           /\ c.op = "file" => Promise!Effect(s, c).next = c.seq + 1
           /\ c.op \in {"sender", "reset"} => Promise!Effect(s, c).next = c.next
           /\ c.op \notin {"target", "reset"} => Promise!Effect(s, c).target = s.target
           /\ c.op = "target" => Promise!Effect(s, c).target = c.target
           /\ c.op = "reset" => Promise!Effect(s, c).target = c.next
           /\ c.op \notin {"file", "reset"} => Promise!Effect(s, c).filed = s.filed
           /\ c.op = "file" => Promise!Effect(s, c).filed = [s.filed EXCEPT ![c.seq] = c.what]
           /\ c.op = "reset" => Promise!Effect(s, c).filed = [n \in Seqs |-> 0]
           /\ c.op \notin {"file", "sender", "target", "mark", "reset"} => Promise!Effect(s, c) = s
<1>1. /\ s.next \in Numbers /\ s.target \in Targets /\ s.owed \in SUBSET BOOLEAN
      /\ s.filed \in [Seqs -> Frames \union {0}]
      /\ s = [next |-> s.next, target |-> s.target, owed |-> s.owed, filed |-> s.filed]
  BY DEF Stores
<1>2. CASE c.op = "file"
  <2>1. c \in Calls
    BY <1>2 DEF Promise!NoCall
  <2>2. c.seq \in Seqs /\ c.what \in Frames /\ c.seq + 1 \in Numbers
    BY <1>2, <2>1, CallsAre, Constants
  <2>3. [s.filed EXCEPT ![c.seq] = c.what] \in [Seqs -> Frames \union {0}]
    BY <1>1, <2>2
  <2>4. Promise!Effect(s, c) = [next |-> c.seq + 1, target |-> s.target, owed |-> s.owed,
                                filed |-> [s.filed EXCEPT ![c.seq] = c.what]]
    BY <1>1, <1>2 DEF Promise!Effect
  <2> QED BY <1>1, <1>2, <2>2, <2>3, <2>4 DEF Stores
<1>3. CASE c.op = "sender"
  <2>1. c \in Calls
    BY <1>3 DEF Promise!NoCall
  <2>2. c.next \in Numbers
    BY <1>3, <2>1, CallsAre
  <2>3. Promise!Effect(s, c) = [next |-> c.next, target |-> s.target, owed |-> s.owed, filed |-> s.filed]
    BY <1>1, <1>3 DEF Promise!Effect
  <2> QED BY <1>1, <1>3, <2>2, <2>3 DEF Stores
<1>4. CASE c.op = "target"
  <2>1. c \in Calls
    BY <1>4 DEF Promise!NoCall
  <2>2. c.target \in Targets
    BY <1>4, <2>1, CallsAre
  <2>3. Promise!Effect(s, c) = [next |-> s.next, target |-> c.target, owed |-> s.owed, filed |-> s.filed]
    BY <1>1, <1>4 DEF Promise!Effect
  <2> QED BY <1>1, <1>4, <2>2, <2>3 DEF Stores
<1>5. CASE c.op = "mark"
  <2>1. c \in Calls
    BY <1>5 DEF Promise!NoCall
  <2>2. c.owed \in BOOLEAN
    BY <1>5, <2>1, CallsAre
  <2>3. Promise!Effect(s, c) = [next |-> s.next, target |-> s.target, owed |-> {c.owed}, filed |-> s.filed]
    BY <1>1, <1>5 DEF Promise!Effect
  <2> QED BY <1>1, <1>5, <2>2, <2>3 DEF Stores
<1>6. CASE c.op = "reset"
  <2>1. c \in Calls
    BY <1>6 DEF Promise!NoCall
  <2>2. c.next \in Numbers /\ c.next \in Targets
    BY <1>6, <2>1, CallsAre
  <2>3. Promise!Effect(s, c) = [next |-> c.next, target |-> c.next, owed |-> s.owed,
                                filed |-> [n \in Seqs |-> 0]]
    BY <1>1, <1>6 DEF Promise!Effect, Promise!Empty
  <2> QED BY <1>1, <1>6, <2>2, <2>3 DEF Stores
<1>7. CASE c.op \notin {"file", "sender", "target", "mark", "reset"}
  <2>1. Promise!Effect(s, c) = s
    BY <1>7 DEF Promise!Effect
  <2> QED BY <1>7, <2>1
<1> QED BY <1>2, <1>3, <1>4, <1>5, <1>6, <1>7

\* A call that failed leaves a doubt about the marker, and nothing else.
LEMMA UnsureIs ==
    ASSUME NEW s \in Stores, NEW c
    PROVE  /\ Promise!Unsure(c, s) \in Stores
           /\ Promise!Unsure(c, s).next = s.next /\ Promise!Unsure(c, s).target = s.target
           /\ Promise!Unsure(c, s).filed = s.filed
           /\ s.owed \subseteq Promise!Unsure(c, s).owed
           /\ c.op = "mark" => Promise!Unsure(c, s).owed = BOOLEAN
           /\ c.op # "mark" => Promise!Unsure(c, s) = s
<1>1. /\ s.next \in Numbers /\ s.target \in Targets /\ s.owed \in SUBSET BOOLEAN
      /\ s.filed \in [Seqs -> Frames \union {0}]
      /\ s = [next |-> s.next, target |-> s.target, owed |-> s.owed, filed |-> s.filed]
  BY DEF Stores
<1>2. CASE c.op = "mark"
  <2>1. Promise!Unsure(c, s) = [next |-> s.next, target |-> s.target, owed |-> BOOLEAN, filed |-> s.filed]
    BY <1>1, <1>2 DEF Promise!Unsure
  <2> QED BY <1>1, <1>2, <2>1 DEF Stores
<1>3. CASE c.op # "mark"
  BY <1>1, <1>3 DEF Promise!Unsure
<1> QED BY <1>2, <1>3

LEMMA UndoneIs ==
    ASSUME acked \in Stores, flushed \in Stores
    PROVE  /\ Promise!Undone \in Stores
           /\ Promise!Undone.next = flushed.next /\ Promise!Undone.target = flushed.target
           /\ Promise!Undone.filed = flushed.filed
           /\ Promise!Undone.owed = flushed.owed \union acked.owed
<1>1. /\ flushed.next \in Numbers /\ flushed.target \in Targets
      /\ flushed.owed \in SUBSET BOOLEAN /\ acked.owed \in SUBSET BOOLEAN
      /\ flushed.filed \in [Seqs -> Frames \union {0}]
      /\ flushed = [next |-> flushed.next, target |-> flushed.target, owed |-> flushed.owed,
                    filed |-> flushed.filed]
  BY DEF Stores
<1>2. Promise!Undone = [next |-> flushed.next, target |-> flushed.target,
                        owed |-> flushed.owed \union acked.owed, filed |-> flushed.filed]
  BY <1>1 DEF Promise!Undone
<1> QED BY <1>1, <1>2 DEF Stores

LEMMA AdmitsIs ==
    ASSUME NEW s \in Stores, NEW v \in Tellings
    PROVE  Admits(s, v) <=> v \in Promise!Concrete(s)
<1>1. /\ s = [next |-> s.next, target |-> s.target, owed |-> s.owed, filed |-> s.filed]
      /\ s.owed \subseteq BOOLEAN
  BY DEF Stores
<1>2. v = [next |-> v.next, target |-> v.target, owed |-> v.owed, filed |-> v.filed]
  BY DEF Tellings
<1>3. \A b : [s EXCEPT !.owed = b] = [next |-> s.next, target |-> s.target, owed |-> b, filed |-> s.filed]
  BY <1>1
<1>4. ASSUME Admits(s, v) PROVE v \in Promise!Concrete(s)
  <2>1. v = [next |-> s.next, target |-> s.target, owed |-> v.owed, filed |-> s.filed] /\ v.owed \in s.owed
    BY <1>2, <1>4 DEF Admits, Agrees
  <2> QED BY <1>3, <2>1 DEF Promise!Concrete
<1>5. ASSUME v \in Promise!Concrete(s) PROVE Admits(s, v)
  <2>1. PICK b \in s.owed : v = [s EXCEPT !.owed = b]
    BY <1>5 DEF Promise!Concrete
  <2>2. v = [next |-> s.next, target |-> s.target, owed |-> b, filed |-> s.filed]
    BY <1>3, <2>1
  <2> QED BY <2>2 DEF Admits, Agrees
<1> QED BY <1>4, <1>5

\* What a process that dies leaves is certain.
LEMMA CertainIs ==
    ASSUME NEW v \in Tellings
    PROVE  Promise!Certain(v) \in Stores /\ Admits(Promise!Certain(v), v)
<1>1. /\ v = [next |-> v.next, target |-> v.target, owed |-> v.owed, filed |-> v.filed]
      /\ v.next \in Numbers /\ v.target \in Targets /\ v.owed \in BOOLEAN
      /\ v.filed \in [Seqs -> Frames \union {0}]
  BY DEF Tellings
<1>2. Promise!Certain(v) = [next |-> v.next, target |-> v.target, owed |-> {v.owed}, filed |-> v.filed]
  BY <1>1 DEF Promise!Certain
<1> QED BY <1>1, <1>2 DEF Stores, Admits, Agrees

-----------------------------------------------------------------------------
(* What is common to the steps of a call                                    *)

\* What a step leaves of the disk and of the journal in memory, and what an
\* open would then find.
Lands ==
    disk' \in Disks /\ mem' \in Mems \union {Closed} /\ kept' \in Tellings

\* The policy never changes.
LEMMA ViewStays ==
    ASSUME UNCHANGED every, Keeping
    PROVE  kept' = View(disk.slots, disk.recs)'
BY DEF Keeping, View, Opens, MayCut

Kept(stores) == kept' = kept \/ Promised(kept', stores)

LEMMA PromisedMore ==
    ASSUME NEW v, NEW S, NEW T, Promised(v, S), S \subseteq T
    PROVE  Promised(v, T)
BY DEF Promised

LEMMA KeepsIt ==
    ASSUME NEW S, S \subseteq Stores, kept' \in Tellings, Kept(S)
    PROVE  Promise!Keeps(S)
<1>1. CASE kept' = kept
  BY <1>1 DEF Promise!Keeps
<1>2. CASE Promised(kept', S)
  <2>1. PICK s \in S : Admits(s, kept')
    BY <1>2 DEF Promised
  <2>2. s \in Stores
    OBVIOUS
  <2>3. kept' \in Promise!Concrete(s)
    BY <2>1, <2>2, AdmitsIs
  <2> QED BY <2>1, <2>3 DEF Promise!Keeps
<1> QED BY <1>1, <1>2 DEF Kept

LEMMA ReachableIs ==
    ASSUME Shape, NEW c \in Calls \union {Promise!NoCall}
    PROVE  /\ Promise!Reachable(c) = {acked, flushed, Promise!Effect(acked, c)}
           /\ Promise!Reachable(c) \subseteq Stores
<1>1. acked \in Stores /\ flushed \in Stores
  BY DEF Shape
<1>2. Promise!Effect(acked, c) \in Stores
  BY <1>1, EffectIs
<1> QED BY <1>1, <1>2 DEF Promise!Reachable

LEMMA BeginShape ==
    ASSUME Shape, NEW c \in Calls, NEW f, Begins(c, f), Lands, call = Promise!NoCall,
           Kept({acked, flushed, Promise!Effect(acked, c)})
    PROVE  /\ Shape' /\ Promise!PromiseNext
           /\ call' = c /\ acked' = acked /\ flushed' = flushed /\ UNCHANGED late
           /\ Outcome' = Promise!Effect(acked, c)
           /\ Views \subseteq Views' /\ Promise!Effect(acked, c) \in Views'
<1>1. /\ every = 1 /\ every' = every /\ call' = c /\ acked' = acked /\ flushed' = flushed /\ late' = late
      /\ tried' = tried \union {Promise!Effect(acked, c)}
      /\ acked \in Stores /\ flushed \in Stores /\ tried \subseteq Stores
  BY DEF Begins, Shape
<1>2. Promise!Effect(acked, c) \in Stores /\ c # Promise!NoCall
  BY <1>1, EffectIs, CallsAre
<1>3. Outcome' = Promise!Effect(acked, c)
  BY <1>1 DEF Outcome
<1>4. kept' = View(disk.slots, disk.recs)'
  BY ViewStays DEF Begins
<1>5. Shape'
  BY <1>1, <1>2, <1>3, <1>4 DEF Shape, Lands
<1>6. Promise!Keeps(Promise!Reachable(c))
  BY ReachableIs, KeepsIt DEF Lands
<1>7. Promise!Begin
  BY <1>1, <1>2, <1>6 DEF Promise!Begin
<1> QED BY <1>1, <1>3, <1>5, <1>7 DEF Views, Promise!PromiseNext

LEMMA StepShape ==
    ASSUME Shape, NEW f, Steps(f), Lands, call # Promise!NoCall,
           Kept({acked, flushed, Outcome}),
           Unflushed \/ Covers(acked) \/ Covers(Outcome)
    PROVE  /\ Shape' /\ Promise!PromiseNext
           /\ call' = call /\ acked' = acked /\ Outcome' = Outcome
           /\ Unflushed => flushed' = flushed /\ Views' = Views
           /\ Covers(acked) => flushed' = acked /\ Views' = {acked, Outcome}
           /\ Covers(Outcome) => flushed' = Outcome /\ Views' = {Outcome}
<1>1. /\ every = 1 /\ every' = every /\ call' = call /\ acked' = acked
      /\ acked \in Stores /\ flushed \in Stores /\ tried \subseteq Stores /\ Outcome \in tried
      /\ call \in Calls \union {Promise!NoCall}
  BY DEF Steps, Shape
<1>2. Outcome \in Stores /\ Outcome' = Outcome
  BY <1>1 DEF Outcome
<1>3. /\ Unflushed => flushed' = flushed /\ tried' = tried /\ Views' = Views
      /\ Covers(acked) => flushed' = acked /\ tried' = {Outcome} /\ Views' = {acked, Outcome}
      /\ Covers(Outcome) => flushed' = Outcome /\ tried' = {Outcome} /\ Views' = {Outcome}
  BY DEF Unflushed, Covers, Views
<1>4. kept' = View(disk.slots, disk.recs)'
  BY ViewStays DEF Steps
<1>5. Shape'
  BY <1>1, <1>2, <1>3, <1>4 DEF Shape, Lands
<1>6. Promise!Keeps(Promise!Reachable(call))
  BY <1>1, ReachableIs, KeepsIt DEF Lands, Outcome
<1>7. \/ UNCHANGED <<flushed, tried, late>>
      \/ /\ flushed' \in {acked, Promise!Effect(acked, call)}
         /\ tried' = {Promise!Effect(acked, call)} /\ late' = 0
  BY DEF Unflushed, Covers, Outcome
<1>8. Promise!Work
  BY <1>1, <1>6, <1>7 DEF Promise!Work
<1> QED BY <1>1, <1>2, <1>3, <1>5, <1>8 DEF Promise!PromiseNext

\* A call that returns Ok.
LEMMA SucceedShape ==
    ASSUME Shape, NEW f, Returns(f, Outcome), Durable, Lands, call # Promise!NoCall,
           Admits(Outcome, kept')
    PROVE  /\ Shape' /\ Promise!PromiseNext
           /\ call' = Promise!NoCall /\ acked' = Outcome /\ flushed' = Outcome /\ Views' = {Outcome}
<1>1. /\ every = 1 /\ every' = every /\ call' = Promise!NoCall /\ acked' = Outcome
      /\ flushed' = Outcome /\ tried' = {} /\ late' = 0
      /\ tried \subseteq Stores /\ Outcome \in tried
  BY DEF Returns, Durable, Shape
<1>2. Outcome \in Stores
  BY <1>1
<1>3. kept' = View(disk.slots, disk.recs)'
  BY ViewStays DEF Returns
<1>4. Shape'
  BY <1>1, <1>2, <1>3 DEF Shape, Lands
<1>5. kept' \in Promise!Concrete(Outcome)
  BY <1>2, AdmitsIs DEF Lands
<1>6. kept' \in Promise!Concrete(acked')
  BY <1>1, <1>5
<1>7. Promise!Succeed
  BY <1>1, <1>6 DEF Promise!Succeed, Outcome
<1> QED BY <1>1, <1>4, <1>7 DEF Views, Promise!PromiseNext

\* One that fails.
LEMMA FailShape ==
    ASSUME Shape, NEW f, FailsAfter(f), Lands, call # Promise!NoCall,
           Kept({acked, flushed, Outcome})
    PROVE  /\ Shape' /\ Promise!PromiseNext
           /\ call' = Promise!NoCall /\ acked' = Promise!Unsure(call, acked) /\ flushed' = flushed
           /\ Views' = Views
<1>1. /\ every = 1 /\ every' = every /\ call' = Promise!NoCall /\ acked' = Promise!Unsure(call, acked)
      /\ flushed' = flushed /\ tried' = tried /\ late' = late
      /\ acked \in Stores /\ flushed \in Stores /\ tried \subseteq Stores
      /\ call \in Calls \union {Promise!NoCall}
  BY DEF FailsAfter, Returns, Unflushed, Shape
<1>2. Promise!Unsure(call, acked) \in Stores
  BY <1>1, UnsureIs
<1>3. kept' = View(disk.slots, disk.recs)'
  BY ViewStays DEF FailsAfter, Returns
<1>4. Shape'
  BY <1>1, <1>2, <1>3 DEF Shape, Lands
<1>5. Promise!Keeps(Promise!Reachable(call)) /\ flushed' \in Promise!Reachable(call)
  BY <1>1, ReachableIs, KeepsIt DEF Lands, Outcome
<1>6. Promise!Fail
  BY <1>1, <1>5 DEF Promise!Fail
<1> QED BY <1>1, <1>4, <1>6 DEF Views, Promise!PromiseNext

\* One whose flush fails.
LEMMA FlushFailShape ==
    ASSUME Shape, NEW f, FlushFailsAfter(f), Lands, call # Promise!NoCall,
           Kept({acked, flushed, Outcome})
    PROVE  /\ Shape' /\ Promise!PromiseNext
           /\ call' = Promise!NoCall /\ acked' = Promise!Unsure(call, Promise!Undone)
           /\ flushed' = flushed /\ Views' = Views
<1>1. /\ every = 1 /\ every' = every /\ call' = Promise!NoCall
      /\ acked' = Promise!Unsure(call, Promise!Undone)
      /\ flushed' = flushed /\ tried' = tried /\ late' = 0
      /\ acked \in Stores /\ flushed \in Stores /\ tried \subseteq Stores
      /\ call \in Calls \union {Promise!NoCall}
  BY DEF FlushFailsAfter, Returns, Shape
<1>2. Promise!Unsure(call, Promise!Undone) \in Stores
  BY <1>1, UnsureIs, UndoneIs
<1>3. kept' = View(disk.slots, disk.recs)'
  BY ViewStays DEF FlushFailsAfter, Returns
<1>4. Shape'
  BY <1>1, <1>2, <1>3 DEF Shape, Lands
<1>5. Promise!Keeps(Promise!Reachable(call)) /\ flushed' \in Promise!Reachable(call)
  BY <1>1, ReachableIs, KeepsIt DEF Lands, Outcome
<1>6. Promise!Fail
  BY <1>1, <1>5 DEF Promise!Fail
<1> QED BY <1>1, <1>4, <1>6 DEF Views, Promise!PromiseNext

-----------------------------------------------------------------------------
(* The open journal                                                         *)

\* Nothing but the stage, the generation, what is pending and the marker differ.
SameBase(m, k) ==
    k.durable = m.durable /\ k.durableSlots = m.durableSlots /\ k.durableEnd = m.durableEnd
Alike(m, k) ==
    /\ SameBase(m, k)
    /\ k.slots = m.slots /\ k.active = m.active /\ k.end = m.end
    /\ k.index = m.index /\ k.next = m.next /\ k.target = m.target

LEMMA BaseIs ==
    ASSUME NEW d, NEW m, NEW k, SameBase(m, k)
    PROVE  /\ Base(k) = Base(m) /\ Spare(k) = Spare(m)
           /\ Held(d, k) = Held(d, m) /\ SlotsOut(d, k) = SlotsOut(d, m)
           /\ RecordOut(d, k) <=> RecordOut(d, m)
           /\ LastRecord(d, k) = LastRecord(d, m)
BY DEF SameBase, Base, Spare, Held, SlotsOut, RecordOut, LastRecord

LEMMA StandingParts ==
    ASSUME NEW d \in Disks, NEW m \in Mems, Standing(d, m)
    PROVE  /\ m.durable \in Positions /\ Spare(m) \in Positions /\ Spare(m) # m.durable
           /\ Other(m.durable) = Spare(m) /\ Positions = {m.durable, Spare(m)}
           /\ Grounded(d, m.durable, Base(m), m.durableEnd, m.gen)
           /\ Footing(d, m.durable, Base(m), m.durableEnd)
           /\ Base(m) \in Slots /\ Base(m) # Bad /\ m.durableEnd \in Nat /\ m.gen \in Nat
           /\ Base(m).gen \in Nat /\ Base(m).gen < m.gen /\ Base(m).bound <= m.durableEnd
           /\ Base(m).owed \in BOOLEAN /\ Base(m).next \in Numbers /\ Base(m).target \in Targets
           /\ d.slots[m.durable] = Base(m) /\ m.slots[m.durable] = Base(m)
           /\ m.durableSlots[m.durable] = Base(m)
           /\ Older(m.durableSlots[Spare(m)], Base(m))
           /\ Covered(d, m.durableEnd) \in Seq(Records) /\ Len(Covered(d, m.durableEnd)) = m.durableEnd
           /\ \A i \in 1 .. m.durableEnd : /\ Covered(d, m.durableEnd)[i] = d.recs[i]
                                           /\ d.recs[i].gen \in Nat /\ d.recs[i].gen < m.gen
           /\ Held(d, m) \in Tellings /\ Held(d, m).owed = Base(m).owed
           /\ SlotsOut(d, m) \subseteq Slots
<1>1. Grounded(d, m.durable, Base(m), m.durableEnd, m.gen)
  BY DEF Standing
<1>2. Footing(d, m.durable, Base(m), m.durableEnd) /\ Spare(m) = Other(m.durable)
  BY <1>1 DEF Grounded, Spare
<1>3. /\ m.durable \in Positions /\ Spare(m) \in Positions /\ Spare(m) # m.durable
      /\ Positions = {m.durable, Spare(m)}
      /\ Base(m) \in Slots /\ Base(m) # Bad /\ m.durableEnd \in Nat /\ m.gen \in Nat
      /\ Base(m).gen \in Nat /\ Base(m).gen < m.gen
      /\ d.slots[m.durable] = Base(m)
      /\ \A i \in 1 .. m.durableEnd : d.recs[i].gen \in Nat /\ d.recs[i].gen < m.gen
      /\ SlotsOut(d, m) \subseteq Slots
  BY <1>1, <1>2, GroundedParts DEF SlotsOut
<1>4. Base(m).owed \in BOOLEAN /\ Base(m).next \in Numbers /\ Base(m).target \in Targets
  BY <1>3 DEF Slots
<1>5. Base(m).bound <= m.durableEnd
  BY <1>2 DEF Footing
<1>6. /\ Covered(d, m.durableEnd) \in Seq(Records) /\ Len(Covered(d, m.durableEnd)) = m.durableEnd
      /\ \A i \in 1 .. m.durableEnd : Covered(d, m.durableEnd)[i] = d.recs[i]
  BY <1>2, CoveredIs
<1>7. Held(d, m) \in Tellings /\ Held(d, m).owed = Base(m).owed
  BY <1>3, <1>6, ToldType DEF Held
<1> QED BY <1>1, <1>2, <1>3, <1>4, <1>5, <1>6, <1>7 DEF Standing, Base

\* What an open would find.
LEMMA ViewIs ==
    ASSUME every = 1, NEW d \in Disks, NEW m \in Mems, Standing(d, m)
    PROVE  /\ View(d.slots, d.recs) \in Tellings
           /\ Older(d.slots[Spare(m)], Base(m)) /\ (Len(d.recs) = m.durableEnd \/ d.recs[m.durableEnd + 1] = Bad) =>
                View(d.slots, d.recs) = Held(d, m)
           /\ d.slots[Spare(m)] \in SlotsOut(d, m) =>
                View(d.slots, d.recs) = Told(d.slots[Spare(m)], Covered(d, m.durableEnd))
           /\ Len(d.recs) = m.durableEnd + 1 /\ d.recs[m.durableEnd + 1] # Bad =>
                /\ RecordOut(d, m) /\ d.recs = With(d, m.durableEnd, d.wrote[m.durableEnd + 1])
                /\ View(d.slots, d.recs) = LastRecord(d, m) /\ LastRecord(d, m) = Told(Base(m), d.recs)
           /\ \/ View(d.slots, d.recs) = Held(d, m)
              \/ \E x \in SlotsOut(d, m) : View(d.slots, d.recs) = Told(x, Covered(d, m.durableEnd))
              \/ RecordOut(d, m) /\ View(d.slots, d.recs) = LastRecord(d, m)
<1> DEFINE p == m.durable
           b == Base(m)
           n == m.durableEnd
           v == View(d.slots, d.recs)
<1>1. /\ Grounded(d, p, b, n, m.gen) /\ Other(p) = Spare(m) /\ d.slots[p] = b
      /\ Covered(d, n) \in Seq(Records) /\ b \in Slots /\ SlotsOut(d, m) \subseteq Slots
  BY StandingParts
<1>2. /\ Older(d.slots[Other(p)], b) /\ (Len(d.recs) = n \/ d.recs[n + 1] = Bad) =>
           Reads(d.slots, d.recs, p, Covered(d, n))
      /\ d.slots[Other(p)] \in NewSlots(d, p, b) =>
           Reads(d.slots, d.recs, Other(p), Covered(d, n))
      /\ Len(d.recs) = n + 1 /\ d.recs[n + 1] # Bad =>
           /\ d.recs = With(d, n, d.wrote[n + 1]) /\ NewRecord(d, n)
           /\ Reads(d.slots, d.recs, p, d.recs)
  BY <1>1, DiskReads
<1>3. Older(d.slots[Spare(m)], b) /\ (Len(d.recs) = n \/ d.recs[n + 1] = Bad) => v = Held(d, m)
  <2> SUFFICES ASSUME Older(d.slots[Spare(m)], b) /\ (Len(d.recs) = n \/ d.recs[n + 1] = Bad)
               PROVE  v = Held(d, m)
    OBVIOUS
  <2>1. Reads(d.slots, d.recs, p, Covered(d, n))
    BY <1>1, <1>2
  <2>2. v = Told(d.slots[p], Covered(d, n))
    BY <2>1, ReadsAre
  <2> QED BY <1>1, <2>2 DEF Held
<1>4. d.slots[Spare(m)] \in SlotsOut(d, m) => v = Told(d.slots[Spare(m)], Covered(d, n))
  <2> SUFFICES ASSUME d.slots[Spare(m)] \in SlotsOut(d, m)
               PROVE  v = Told(d.slots[Spare(m)], Covered(d, n))
    OBVIOUS
  <2>1. Reads(d.slots, d.recs, Spare(m), Covered(d, n))
    BY <1>1, <1>2 DEF SlotsOut
  <2> QED BY <2>1, ReadsAre
<1>5. Len(d.recs) = n + 1 /\ d.recs[n + 1] # Bad =>
         /\ RecordOut(d, m) /\ d.recs = With(d, n, d.wrote[n + 1])
         /\ v = LastRecord(d, m) /\ LastRecord(d, m) = Told(b, d.recs)
  <2> SUFFICES ASSUME Len(d.recs) = n + 1 /\ d.recs[n + 1] # Bad
               PROVE  /\ RecordOut(d, m) /\ d.recs = With(d, n, d.wrote[n + 1])
                      /\ v = LastRecord(d, m) /\ LastRecord(d, m) = Told(b, d.recs)
    OBVIOUS
  <2>1. d.recs = With(d, n, d.wrote[n + 1]) /\ NewRecord(d, n) /\ Reads(d.slots, d.recs, p, d.recs)
    BY <1>2
  <2>2. v = Told(b, d.recs)
    BY <1>1, <2>1, ReadsAre
  <2> QED BY <2>1, <2>2 DEF RecordOut, LastRecord
<1>6. \/ v = Held(d, m)
      \/ \E x \in SlotsOut(d, m) : v = Told(x, Covered(d, n))
      \/ RecordOut(d, m) /\ v = LastRecord(d, m)
  <2> DEFINE j == [slots |-> d.slots, recs |-> d.recs]
  <2>1. j \in Images(d)
    BY <1>1, AsItIs
  <2>2. \/ View(j.slots, j.recs) = Told(b, Covered(d, n))
        \/ \E x \in NewSlots(d, p, b) : View(j.slots, j.recs) = Told(x, Covered(d, n))
        \/ NewRecord(d, n) /\ View(j.slots, j.recs) = Told(b, With(d, n, d.wrote[n + 1]))
    <3> HIDE DEF j
    <3> QED BY <1>1, <2>1, ImagesRead
  <2> QED BY <2>2 DEF Held, SlotsOut, RecordOut, LastRecord
<1>7. RecordOut(d, m) => LastRecord(d, m) \in Tellings
  <2> SUFFICES ASSUME RecordOut(d, m) PROVE LastRecord(d, m) \in Tellings
    OBVIOUS
  <2>1. d.wrote[n + 1] \in Records
    <3>1. n + 1 \in 1 .. Len(d.wrote) /\ d.wrote[n + 1] # Bad
      BY StandingParts DEF RecordOut, NewRecord
    <3> QED BY <3>1, DiskParts, ElementOfSeq
  <2>2. With(d, n, d.wrote[n + 1]) \in Seq(Records)
    BY <1>1, <2>1, AppendProperties DEF With
  <2> QED BY <1>1, <2>2, ToldType DEF LastRecord
<1>8. v \in Tellings
  <2>1. \A x \in SlotsOut(d, m) : Told(x, Covered(d, n)) \in Tellings
    BY <1>1, ToldType
  <2> QED BY <1>6, <1>7, <2>1, StandingParts
<1> QED BY <1>3, <1>4, <1>5, <1>6, <1>8

LEMMA MemParts ==
    ASSUME NEW m \in Mems
    PROVE  /\ m.pc \in Stages /\ m.slots \in Pairs /\ m.durableSlots \in Pairs
           /\ m.active \in Positions /\ m.durable \in Positions
           /\ m.end \in Nat /\ m.durableEnd \in Nat /\ m.gen \in Nat
           /\ m.next \in Numbers /\ m.target \in Targets /\ m.owed \in BOOLEAN /\ m.was \in BOOLEAN
           /\ m.index \in [Seqs -> Nat] /\ m.pending \in Pendings /\ m.left \in {0, 1, 2}
           /\ m.pending.cut \in Nat \union {NoCut} /\ m.pending.slots \in Pairs \union {NoSlots}
           /\ m.pending.dir \in BOOLEAN /\ m.pending.reopen \in BOOLEAN
<1>1. m.pending \in Pendings
  BY DEF Mems
<1> QED BY <1>1 DEF Mems, Pendings

LEMMA NoPendingIs ==
    /\ NoPending \in Pendings /\ NoPending.cut = NoCut /\ NoPending.slots = NoSlots
    /\ NoPending.dir = FALSE /\ NoPending.reopen = FALSE
    /\ NoCut \notin Nat /\ \A s \in Pairs : s # NoSlots
<1>1. \A s \in Pairs : s # NoSlots
  <2> SUFFICES ASSUME NEW s \in Pairs PROVE s # NoSlots
    OBVIOUS
  <2>1. DOMAIN s = {0, 1} /\ DOMAIN NoSlots = 1 .. 0
    BY DEF Pairs, Positions, NoSlots
  <2> QED BY <2>1
<1> QED BY <1>1 DEF NoPending, Pendings, NoCut

\* What the invariant says of an open journal.
Carries(d, m, c, last, back, stores, outcome) ==
    /\ Standing(d, m) /\ ByStage(d, m, c)
    /\ Survives(d, m, stores)
    /\ Tells(d, m, last, back) /\ Indexed(d, m)
    /\ Marker(m, c, last) /\ Becomes(d, m, c, outcome)

LEMMA OpenParts ==
    ASSUME IInv, mem.pc # "closed"
    PROVE  /\ Shape /\ every = 1 /\ disk \in Disks /\ mem \in Mems /\ mem # Closed
           /\ acked \in Stores /\ flushed \in Stores /\ tried \subseteq Stores
           /\ call \in Calls \union {Promise!NoCall}
           /\ kept = View(disk.slots, disk.recs) /\ kept \in Tellings
           /\ ByCall(mem, call) /\ Behind(disk, mem, Views)
           /\ Carries(disk, mem, call, acked, flushed, Views, Outcome)
           /\ call = Promise!NoCall <=> mem.pc = "idle"
           /\ call # Promise!NoCall => call \in Calls /\ Outcome \in Stores /\ Outcome \in Views
           /\ disk.behind # {} => mem.pc = "renamed" \/ mem.pending.dir
<1>1. mem # Closed
  BY DEF Closed
<1>2. /\ Shape /\ ByCall(mem, call) /\ Behind(disk, mem, Views)
      /\ Carries(disk, mem, call, acked, flushed, Views, Outcome)
  BY <1>1 DEF IInv, Carries
<1>3. /\ every = 1 /\ disk \in Disks /\ mem \in Mems
      /\ acked \in Stores /\ flushed \in Stores /\ tried \subseteq Stores
      /\ call \in Calls \union {Promise!NoCall}
      /\ kept = View(disk.slots, disk.recs)
      /\ call # Promise!NoCall => Outcome \in tried
  BY <1>1, <1>2 DEF Shape
<1>4. kept \in Tellings
  BY <1>2, <1>3, ViewIs DEF Carries
<1>5. call = Promise!NoCall <=> mem.pc = "idle"
  BY <1>1, <1>2 DEF ByCall
<1>6. disk.behind # {} => mem.pc = "renamed" \/ mem.pending.dir
  BY <1>1, <1>2 DEF Behind
<1> QED BY <1>1, <1>2, <1>3, <1>4, <1>5, <1>6 DEF Views

\* A journal that takes calls.
LEMMA UsableIs ==
    ASSUME IInv, Usable
    PROVE  /\ mem.pc = "idle" /\ mem.pending = NoPending /\ call = Promise!NoCall
           /\ Settled(disk, mem) /\ disk.behind = {}
           /\ kept = Held(disk, mem)
           /\ Admits(flushed, Held(disk, mem)) /\ Agrees(acked, Held(disk, mem))
           /\ mem.next = acked.next /\ mem.target = acked.target
           /\ mem.owed \in acked.owed /\ Base(mem).owed \in acked.owed /\ (Base(mem).owed => mem.owed)
<1>1. mem.pc = "idle" /\ mem.pending = NoPending /\ mem.pc # "closed"
  BY DEF Usable, Idle
<1>2. /\ disk \in Disks /\ mem \in Mems /\ every = 1 /\ kept = View(disk.slots, disk.recs)
      /\ Carries(disk, mem, call, acked, flushed, Views, Outcome)
      /\ call = Promise!NoCall /\ (disk.behind # {} => mem.pending.dir)
  BY <1>1, OpenParts
<1>3. Settled(disk, mem)
  BY <1>1, <1>2, NoPendingIs DEF Carries, ByStage, Undoable, Settled, Still
<1>4. disk.behind = {}
  BY <1>1, <1>2, NoPendingIs
<1>5. kept = Held(disk, mem)
  <2>1. disk.slots[Spare(mem)] = mem.durableSlots[Spare(mem)] /\ Len(disk.recs) = mem.durableEnd
    BY <1>3 DEF Settled, Still
  <2>2. Standing(disk, mem) /\ Older(mem.durableSlots[Spare(mem)], Base(mem))
    BY <1>2 DEF Carries, Standing
  <2> QED BY <1>2, <2>1, <2>2, ViewIs
<1>6. /\ Admits(flushed, Held(disk, mem)) /\ Agrees(acked, Held(disk, mem))
      /\ mem.next = acked.next /\ mem.target = acked.target
  BY <1>1, <1>2, NoPendingIs DEF Carries, Tells
<1>7. mem.owed \in acked.owed /\ Base(mem).owed \in acked.owed /\ (Base(mem).owed => mem.owed)
  BY <1>1, <1>2 DEF Carries, Marker, InMark, FailedMark
<1> QED BY <1>1, <1>2, <1>3, <1>4, <1>5, <1>6, <1>7

\* The invariant of an open journal, put together again.
LEMMA OpenAgain ==
    ASSUME UNCHANGED every, Shape', ByCall(mem', call'), mem' \in Mems, Behind(disk', mem', Views'),
           Carries(disk', mem', call', acked', flushed', Views', Outcome')
    PROVE  IInv'
<1>1. mem' # Closed
  BY OpenIs
<1>2. Behind(disk, mem, Views)'
  BY DEF Behind, View, Opens, MayCut
<1>3. ByCall(mem, call)'
  OBVIOUS
<1> QED BY <1>1, <1>2, <1>3 DEF IInv, Carries

\* The same checkpoint over a disk with the same covered records.
LEMMA Transfer ==
    ASSUME NEW d, NEW e, NEW m, NEW k, SameBase(m, k),
           Covered(e, m.durableEnd) = Covered(d, m.durableEnd)
    PROVE  /\ Base(k) = Base(m) /\ Spare(k) = Spare(m) /\ Held(e, k) = Held(d, m)
           /\ SlotsOut(e, k) = NewSlots(e, m.durable, Base(m))
           /\ RecordOut(e, k) <=> NewRecord(e, m.durableEnd)
           /\ SlotsOut(d, m) = NewSlots(d, m.durable, Base(m))
           /\ RecordOut(d, m) <=> NewRecord(d, m.durableEnd)
           /\ Indexed(d, m) /\ k.index = m.index => Indexed(e, k)
           /\ Grounded(e, m.durable, Base(m), m.durableEnd, k.gen) /\ Standing(d, m)
              /\ k.slots[m.durable] = Base(m) => Standing(e, k)
BY DEF SameBase, Base, Spare, Held, SlotsOut, RecordOut, Indexed, Standing

LEMMA SurvivesAgain ==
    ASSUME NEW d, NEW e, NEW m, NEW k, SameBase(m, k),
           Covered(e, m.durableEnd) = Covered(d, m.durableEnd),
           NEW S, NEW T, S \subseteq T, Survives(d, m, S),
           SlotsOut(e, k) \subseteq SlotsOut(d, m),
           RecordOut(e, k) => RecordOut(d, m) /\ e.wrote = d.wrote
    PROVE  Survives(e, k, T)
<1>1. /\ Base(k) = Base(m) /\ Held(e, k) = Held(d, m) /\ k.durableEnd = m.durableEnd
  BY Transfer DEF SameBase
<1>2. Promised(Held(e, k), T)
  BY <1>1, PromisedMore DEF Survives
<1>3. \A x \in SlotsOut(e, k) : Promised(Told(x, Covered(e, k.durableEnd)), T)
  <2> SUFFICES ASSUME NEW x \in SlotsOut(e, k) PROVE Promised(Told(x, Covered(e, k.durableEnd)), T)
    OBVIOUS
  <2>1. Promised(Told(x, Covered(d, m.durableEnd)), S)
    BY DEF Survives
  <2> QED BY <1>1, <2>1, PromisedMore
<1>4. RecordOut(e, k) => Promised(LastRecord(e, k), T)
  <2> SUFFICES ASSUME RecordOut(e, k) PROVE Promised(LastRecord(e, k), T)
    OBVIOUS
  <2>1. Promised(LastRecord(d, m), S)
    BY DEF Survives
  <2>2. LastRecord(e, k) = LastRecord(d, m)
    BY <1>1 DEF LastRecord, With
  <2> QED BY <2>1, <2>2, PromisedMore
<1> QED BY <1>2, <1>3, <1>4 DEF Survives

-----------------------------------------------------------------------------
(* append                                                                   *)

LEMMA FileOutboundKeeps ==
    ASSUME IInv, NEW c \in Calls, FileOutbound(c)
    PROVE  IInv' /\ Promise!PromiseNext
<1> DEFINE p == mem.durable
           b == Base(mem)
           n == mem.durableEnd
           g == mem.gen
           rec == [seq |-> c.seq, what |-> c.what, gen |-> mem.gen, next |-> c.seq + 1]
           held == Held(disk, mem)
           done == Promise!Effect(acked, c)
<1>1. Usable /\ c.op = "file" /\ c.op # "mark"
  BY DEF FileOutbound
<1>2. /\ mem.pc = "idle" /\ mem.pending = NoPending /\ call = Promise!NoCall
      /\ Settled(disk, mem) /\ disk.behind = {} /\ kept = held
      /\ Admits(flushed, held) /\ Agrees(acked, held)
      /\ mem.next = acked.next /\ mem.target = acked.target
      /\ mem.owed \in acked.owed /\ b.owed \in acked.owed /\ (b.owed => mem.owed)
  BY <1>1, UsableIs
<1>3. /\ Shape /\ every = 1 /\ disk \in Disks /\ mem \in Mems /\ acked \in Stores /\ flushed \in Stores
      /\ Carries(disk, mem, call, acked, flushed, Views, Outcome)
  BY <1>2, OpenParts
<1>4. /\ Standing(disk, mem) /\ Survives(disk, mem, Views) /\ Indexed(disk, mem)
  BY <1>3 DEF Carries
<1>5. /\ p \in Positions /\ Spare(mem) \in Positions /\ Other(p) = Spare(mem)
      /\ Grounded(disk, p, b, n, g) /\ b \in Slots /\ n \in Nat /\ g \in Nat
      /\ b.gen \in Nat /\ b.gen < g /\ mem.slots[p] = b
      /\ Older(mem.durableSlots[Spare(mem)], b)
      /\ Covered(disk, n) \in Seq(Records) /\ Len(Covered(disk, n)) = n
      /\ \A i \in 1 .. n : Covered(disk, n)[i] = disk.recs[i] /\ disk.recs[i].gen \in Nat /\ disk.recs[i].gen < g
      /\ held \in Tellings /\ held.owed = b.owed
      /\ Footing(disk, p, b, n)
  BY <1>3, <1>4, StandingParts
<1>6. /\ mem.slots = mem.durableSlots /\ mem.active = p /\ disk.slots = mem.durableSlots
      /\ NewSlots(disk, p, b) = {} /\ Len(disk.recs) = n /\ ~NewRecord(disk, n) /\ disk.dropped.recs = {}
      /\ mem.end = n
  BY <1>2 DEF Settled, Still, SlotsOut, RecordOut
<1>7. rec \in Records /\ rec.gen = g /\ rec # Bad /\ rec.seq = c.seq /\ rec.what = c.what /\ rec.next = c.seq + 1
  <2>1. c.seq \in Seqs /\ c.what \in Frames /\ c.seq + 1 \in Numbers
    BY <1>1, CallsAre, Constants
  <2> QED BY <1>5, <2>1, Constants DEF Records
<1>8. /\ done \in Stores /\ done.owed = acked.owed /\ done.next = c.seq + 1 /\ done.target = acked.target
      /\ done.filed = [acked.filed EXCEPT ![c.seq] = c.what]
  BY <1>1, <1>3, EffectIs
<1>9. n <= Len(disk.wrote) /\ \A i \in 1 .. n : disk.wrote[i] = disk.recs[i]
  BY <1>5 DEF Footing
<1>10. PICK w \in Appends(rec) : /\ disk' = w.disk /\ Begins(c, w.faults)
                                 /\ mem' = [w.mem EXCEPT !.pc = IF w.ok THEN "after" ELSE "fails"]
  BY DEF FileOutbound
<1> HIDE DEF p, b, n, g, rec, held, done
<1>11. UNCHANGED every
  BY <1>10 DEF Begins
<1>12. CASE w.ok
  <2>1. /\ disk' = PutRecord(disk, n, rec)
        /\ mem' = [mem EXCEPT !.gen = g + 1, !.end = n + 1, !.pc = "after"]
    <3>1. /\ w.disk = PutRecord(disk, mem.end, rec)
          /\ w.mem = [[mem EXCEPT !.gen = @ + 1] EXCEPT !.end = @ + 1]
      BY <1>10, <1>12 DEF Appends
    <3>2. mem' = [w.mem EXCEPT !.pc = "after"]
      BY <1>10, <1>12
    <3> QED BY <1>3, <1>6, <1>10, <3>1, <3>2 DEF Mems, g
  <2>2. /\ mem' \in Mems /\ mem'.pc = "after" /\ mem'.gen = g + 1 /\ mem'.end = n + 1
        /\ SameBase(mem, mem') /\ mem'.slots = mem.slots /\ mem'.active = mem.active /\ mem'.index = mem.index
        /\ mem'.next = mem.next /\ mem'.target = mem.target /\ mem'.owed = mem.owed
        /\ mem'.pending = mem.pending /\ mem'.durable = p /\ mem'.durableEnd = n
        /\ mem'.durableSlots = mem.durableSlots
    <3>1. mem \in Mems /\ g + 1 \in Nat /\ n + 1 \in Nat /\ "after" \in Stages
      BY <1>3, <1>5 DEF Stages
    <3>2. /\ mem' \in Mems /\ mem'.pc = "after" /\ mem'.gen = g + 1 /\ mem'.end = n + 1
          /\ mem'.durable = mem.durable /\ mem'.durableEnd = mem.durableEnd
          /\ mem'.durableSlots = mem.durableSlots
          /\ mem'.slots = mem.slots /\ mem'.active = mem.active /\ mem'.index = mem.index
          /\ mem'.next = mem.next /\ mem'.target = mem.target /\ mem'.owed = mem.owed
          /\ mem'.pending = mem.pending
      BY <2>1, <3>1 DEF Mems
    <3> QED BY <3>2 DEF SameBase, p, n
  <2>3. /\ disk' \in Disks /\ disk'.slots = disk.slots /\ disk'.behind = {}
        /\ disk'.dropped = disk.dropped
        /\ disk'.recs = With(disk, n, rec) /\ disk'.wrote = With(disk, n, rec)
        /\ Len(With(disk, n, rec)) = n + 1 /\ With(disk, n, rec)[n + 1] = rec
        /\ Covered(disk', n) = Covered(disk, n)
    BY <1>2, <1>3, <1>5, <1>6, <1>7, <1>9, <2>1, PutRecordIs
  <2>4. /\ Grounded(disk', p, b, n, g + 1) /\ NewSlots(disk', p, b) = {} /\ NewRecord(disk', n)
    BY <1>3, <1>5, <1>6, <1>7, <2>1, RecordPut
  <2>5. /\ Base(mem') = b /\ Spare(mem') = Spare(mem) /\ Held(disk', mem') = held
        /\ SlotsOut(disk', mem') = {} /\ RecordOut(disk', mem') /\ Indexed(disk', mem')
        /\ Standing(disk', mem')
    <3>1. SameBase(mem, mem') /\ Covered(disk', mem.durableEnd) = Covered(disk, mem.durableEnd)
      BY <2>2, <2>3 DEF n
    <3>2. /\ Base(mem') = Base(mem) /\ Spare(mem') = Spare(mem) /\ Held(disk', mem') = Held(disk, mem)
          /\ SlotsOut(disk', mem') = NewSlots(disk', mem.durable, Base(mem))
          /\ RecordOut(disk', mem') <=> NewRecord(disk', mem.durableEnd)
          /\ Indexed(disk', mem')
      BY <1>4, <2>2, <3>1, Transfer
    <3>3. /\ Grounded(disk', mem.durable, Base(mem), mem.durableEnd, mem'.gen)
          /\ mem'.slots[mem.durable] = Base(mem)
      BY <1>5, <2>2, <2>4 DEF p, b, n
    <3>4. Standing(disk', mem')
      BY <1>4, <3>1, <3>3, Transfer
    <3> QED BY <2>4, <3>2, <3>4 DEF p, b, n, held
  <2>6. With(disk', n, disk'.wrote[n + 1]) = With(disk, n, rec)
    BY <2>3 DEF With
  <2>7. LastRecord(disk', mem') = Told(b, With(disk, n, rec)) /\ Told(b, disk'.recs) = Told(b, With(disk, n, rec))
    BY <2>2, <2>3, <2>5, <2>6 DEF LastRecord
  <2>8. Told(b, With(disk, n, rec)) =
            [next |-> rec.next, target |-> b.target, owed |-> b.owed,
             filed |-> [held.filed EXCEPT ![rec.seq] = rec.what]]
    <3>1. held = Told(b, Covered(disk, n))
      BY DEF held, Held, b, n
    <3>2. rec.gen > b.gen /\ \A i \in 1 .. Len(Covered(disk, n)) : rec.gen > Covered(disk, n)[i].gen
      BY <1>5, <1>7
    <3> QED BY <1>5, <1>7, <3>1, <3>2, ToldAppend DEF With
  <2>9. Admits(done, Told(b, With(disk, n, rec)))
    <3>1. held.target = b.target
      BY <1>5, ToldType DEF held, Held, b, n
    <3> QED BY <1>2, <1>7, <1>8, <2>8, <3>1 DEF Admits, Agrees
  <2>10. kept' = LastRecord(disk', mem') /\ kept' \in Tellings
    <3>1. kept' = View(disk'.slots, disk'.recs)
      BY <1>10 DEF Begins, Keeping
    <3>2. Len(disk'.recs) = mem'.durableEnd + 1 /\ disk'.recs[mem'.durableEnd + 1] # Bad
      BY <1>7, <2>2, <2>3
    <3> QED BY <1>3, <2>2, <2>3, <2>5, <3>1, <3>2, ViewIs
  <2>11. Kept({acked, flushed, done})
    BY <2>7, <2>9, <2>10 DEF Kept, Promised
  <2>12. /\ Shape' /\ Promise!PromiseNext
         /\ call' = c /\ acked' = acked /\ flushed' = flushed /\ Outcome' = done
         /\ Views \subseteq Views' /\ done \in Views'
    BY <1>2, <1>3, <1>10, <2>2, <2>3, <2>10, <2>11, BeginShape DEF Lands, done
  <2>13. Survives(disk', mem', Views')
    <3>1. Promised(Held(disk', mem'), Views')
      BY <1>4, <2>5, <2>12, PromisedMore DEF Survives, held
    <3>2. Promised(LastRecord(disk', mem'), Views')
      BY <2>7, <2>9, <2>12 DEF Promised
    <3> QED BY <2>5, <3>1, <3>2 DEF Survives
  <2>14. ByStage(disk', mem', c)
    BY <1>1, <1>2, <1>6, <2>2, <2>3, <2>5 DEF ByStage, Appended
  <2>15. Tells(disk', mem', acked, flushed)
    BY <1>2, <2>2, <2>5 DEF Tells
  <2>16. Marker(mem', c, acked)
    BY <1>2, <2>2, <2>5 DEF Marker, InMark, FailedMark
  <2>17. Becomes(disk', mem', c, done)
    BY <1>1, <1>7, <2>2, <2>3, <2>5, <2>7, <2>9 DEF Becomes
  <2>18. Carries(disk', mem', call', acked', flushed', Views', Outcome')
    BY <2>5, <2>12, <2>13, <2>14, <2>15, <2>16, <2>17 DEF Carries
  <2>19. ByCall(mem', call') /\ Behind(disk', mem', Views')
    <3>1. mem' # Closed /\ c # Promise!NoCall
      BY <2>2, OpenIs, CallsAre
    <3> QED BY <1>1, <2>2, <2>3, <2>12, <3>1 DEF ByCall, Behind
  <2> QED BY <1>11, <2>2, <2>12, <2>18, <2>19, OpenAgain
<1>13. CASE ~w.ok
  <2>1. /\ mem' \in Mems /\ mem'.pc = "fails" /\ mem'.gen = g + 1 /\ mem'.end = n
        /\ SameBase(mem, mem') /\ mem'.slots = mem.slots /\ mem'.active = mem.active /\ mem'.index = mem.index
        /\ mem'.next = mem.next /\ mem'.target = mem.target /\ mem'.owed = mem.owed
        /\ mem'.pending.slots = NoSlots /\ ~mem'.pending.dir /\ mem'.durable = p /\ mem'.durableEnd = n
        /\ mem'.durableSlots = mem.durableSlots
        /\ \/ disk' = CutTo(PutRecord(disk, n, Bad), n) /\ mem'.pending.cut = NoCut
           \/ disk' = PutRecord(disk, n, Bad) /\ mem'.pending.cut = n
    <3>1. mem \in Mems /\ g + 1 \in Nat /\ "fails" \in Stages
      BY <1>3, <1>5 DEF Stages
    <3>2. mem' = [w.mem EXCEPT !.pc = "fails"]
      BY <1>10, <1>13
    <3>3. \/ /\ w.disk = CutTo(PutRecord(disk, n, Bad), n) /\ w.mem = [mem EXCEPT !.gen = g + 1]
          \/ /\ w.disk = PutRecord(disk, n, Bad)
             /\ w.mem = [[mem EXCEPT !.gen = g + 1] EXCEPT !.pending.cut = n]
      BY <1>6, <1>10, <1>13 DEF Appends, g, n
    <3>4. PICK pending \in Pendings :
            /\ mem' = [mem EXCEPT !.gen = g + 1, !.pending = pending, !.pc = "fails"]
            /\ pending.slots = NoSlots /\ ~pending.dir
            /\ \/ w.disk = CutTo(PutRecord(disk, n, Bad), n) /\ pending.cut = NoCut
               \/ w.disk = PutRecord(disk, n, Bad) /\ pending.cut = n
      <4>1. CASE w.disk = CutTo(PutRecord(disk, n, Bad), n) /\ w.mem = [mem EXCEPT !.gen = g + 1]
        <5>1. mem' = [mem EXCEPT !.gen = g + 1, !.pending = mem.pending, !.pc = "fails"]
          BY <3>1, <3>2, <4>1 DEF Mems
        <5> QED BY <1>2, <4>1, <5>1, NoPendingIs
      <4>2. CASE /\ w.disk = PutRecord(disk, n, Bad)
                 /\ w.mem = [[mem EXCEPT !.gen = g + 1] EXCEPT !.pending.cut = n]
        <5>1. [NoPending EXCEPT !.cut = n] \in Pendings
          BY <1>5, NoPendingIs DEF Pendings
        <5>2. /\ [NoPending EXCEPT !.cut = n].cut = n /\ [NoPending EXCEPT !.cut = n].slots = NoSlots
              /\ [NoPending EXCEPT !.cut = n].dir = FALSE
          BY NoPendingIs DEF Pendings
        <5>3. mem' = [mem EXCEPT !.gen = g + 1, !.pending = [NoPending EXCEPT !.cut = n], !.pc = "fails"]
          BY <1>2, <3>1, <3>2, <4>2 DEF Mems
        <5> QED BY <4>2, <5>1, <5>2, <5>3
      <4> QED BY <3>3, <4>1, <4>2
    <3>5. /\ mem' \in Mems /\ mem'.pc = "fails" /\ mem'.gen = g + 1 /\ mem'.end = mem.end
          /\ mem'.durable = mem.durable /\ mem'.durableEnd = mem.durableEnd
          /\ mem'.durableSlots = mem.durableSlots
          /\ mem'.slots = mem.slots /\ mem'.active = mem.active /\ mem'.index = mem.index
          /\ mem'.next = mem.next /\ mem'.target = mem.target /\ mem'.owed = mem.owed
          /\ mem'.pending = pending
      BY <3>1, <3>4 DEF Mems
    <3> QED BY <1>6, <1>10, <3>4, <3>5 DEF SameBase, p, n
  <2>2. LET torn == PutRecord(disk, n, Bad)
        IN  /\ torn \in Disks /\ torn.slots = disk.slots /\ torn.behind = {}
            /\ torn.dropped = disk.dropped /\ Len(torn.recs) = n + 1 /\ torn.recs[n + 1] = Bad
            /\ Covered(torn, n) = Covered(disk, n)
            /\ Grounded(torn, p, b, n, g + 1) /\ NewSlots(torn, p, b) = {} /\ ~NewRecord(torn, n)
    <3> DEFINE torn == PutRecord(disk, n, Bad)
    <3>1. /\ torn \in Disks /\ torn.slots = disk.slots /\ torn.behind = {}
          /\ torn.dropped = disk.dropped
          /\ torn.recs = With(disk, n, Bad)
          /\ Len(With(disk, n, Bad)) = n + 1 /\ With(disk, n, Bad)[n + 1] = Bad
          /\ Covered(torn, n) = Covered(disk, n)
      BY <1>2, <1>3, <1>5, <1>6, <1>9, PutRecordIs
    <3>2. Grounded(torn, p, b, n, g + 1) /\ NewSlots(torn, p, b) = {} /\ ~NewRecord(torn, n)
      BY <1>3, <1>5, <1>6, RecordPut
    <3> QED BY <3>1, <3>2
  <2>3. /\ disk' \in Disks /\ disk'.slots = disk.slots /\ disk'.behind = {}
        /\ Covered(disk', n) = Covered(disk, n)
        /\ Grounded(disk', p, b, n, g + 1) /\ NewSlots(disk', p, b) = {} /\ ~NewRecord(disk', n)
        /\ disk'.dropped.slots = disk.dropped.slots
        /\ Len(disk'.recs) = n \/ disk'.recs[n + 1] = Bad
        /\ mem'.pending.cut \in {NoCut, n}
        /\ mem'.pending.cut = NoCut => Len(disk'.recs) = n /\ disk'.dropped.recs = {}
    <3>1. CASE disk' = PutRecord(disk, n, Bad) /\ mem'.pending.cut = n
      BY <1>5, <2>2, <3>1, NoPendingIs
    <3>2. CASE disk' = CutTo(PutRecord(disk, n, Bad), n) /\ mem'.pending.cut = NoCut
      BY <2>2, <3>2, RecordCut
    <3> QED BY <2>1, <3>1, <3>2
  <2>4. /\ SameBase(mem, mem') /\ Covered(disk', mem.durableEnd) = Covered(disk, mem.durableEnd)
        /\ Grounded(disk', mem.durable, Base(mem), mem.durableEnd, mem'.gen)
        /\ mem'.slots[mem.durable] = Base(mem)
    BY <1>5, <2>1, <2>3 DEF p, b, n
  <2>5. /\ Base(mem') = b /\ Spare(mem') = Spare(mem) /\ Held(disk', mem') = held
        /\ SlotsOut(disk', mem') = {} /\ ~RecordOut(disk', mem') /\ Indexed(disk', mem')
        /\ Standing(disk', mem')
    <3>1. /\ Base(mem') = Base(mem) /\ Spare(mem') = Spare(mem) /\ Held(disk', mem') = Held(disk, mem)
          /\ SlotsOut(disk', mem') = NewSlots(disk', mem.durable, Base(mem))
          /\ RecordOut(disk', mem') <=> NewRecord(disk', mem.durableEnd)
          /\ Indexed(disk', mem')
      BY <1>4, <2>1, <2>4, Transfer
    <3>2. Standing(disk', mem')
      BY <1>4, <2>4, Transfer
    <3> QED BY <2>3, <3>1, <3>2 DEF p, b, n, held
  <2>6. kept' = kept /\ kept' \in Tellings
    <3>1. kept' = View(disk'.slots, disk'.recs)
      BY <1>10 DEF Begins, Keeping
    <3>2. Older(disk'.slots[Spare(mem')], Base(mem'))
      BY <1>5, <1>6, <2>3, <2>5
    <3>3. kept' = Held(disk', mem')
      BY <1>3, <2>1, <2>3, <2>5, <3>1, <3>2, ViewIs
    <3> QED BY <1>2, <1>5, <2>5, <3>3
  <2>7. /\ Shape' /\ Promise!PromiseNext
        /\ call' = c /\ acked' = acked /\ flushed' = flushed /\ Outcome' = done
        /\ Views \subseteq Views'
    BY <1>2, <1>3, <1>10, <2>1, <2>3, <2>6, BeginShape DEF Lands, Kept, done
  <2>8. Survives(disk', mem', Views')
    <3>1. Covered(disk', mem.durableEnd) = Covered(disk, mem.durableEnd)
      BY <2>3 DEF n
    <3> QED BY <1>4, <2>1, <2>5, <2>7, <3>1, SurvivesAgain
  <2>9. ByStage(disk', mem', c)
    BY <1>6, <2>1, <2>3, <2>5 DEF ByStage, Undoable
  <2>10. Tells(disk', mem', acked, flushed)
    BY <1>2, <2>1, <2>5 DEF Tells
  <2>11. Marker(mem', c, acked)
    BY <1>1, <1>2, <2>1, <2>5 DEF Marker, InMark, FailedMark
  <2>12. Becomes(disk', mem', c, done)
    BY <2>1 DEF Becomes
  <2>13. Carries(disk', mem', call', acked', flushed', Views', Outcome')
    BY <2>5, <2>7, <2>8, <2>9, <2>10, <2>11, <2>12 DEF Carries
  <2>14. ByCall(mem', call') /\ Behind(disk', mem', Views')
    <3>1. mem' # Closed /\ c # Promise!NoCall
      BY <2>1, OpenIs, CallsAre
    <3> QED BY <1>1, <2>1, <2>3, <2>7, <3>1 DEF ByCall, Behind
  <2> QED BY <1>11, <2>1, <2>7, <2>13, <2>14, OpenAgain
<1> QED BY <1>12, <1>13

-----------------------------------------------------------------------------
(* write_counters                                                           *)

\* A slot put back numbers nothing anew.
LEMMA SlotBack ==
    ASSUME NEW d \in Disks, NEW p, NEW b, NEW n, NEW g, Grounded(d, p, b, n, g),
           NEW image \in Slots \union {Bad}, Older(image, b)
    PROVE  Grounded(PutSlot(d, Other(p), image), p, b, n, g)
<1> DEFINE o == Other(p)
           e == PutSlot(d, o, image)
<1>1. /\ p \in Positions /\ o \in Positions /\ b.gen \in Nat /\ g \in Nat /\ b.gen < g
      /\ d.may \in [Positions -> SUBSET (Slots \union {Bad})]
  BY GroundedParts, DiskParts
<1>2. /\ e \in Disks /\ e.slots = [d.slots EXCEPT ![o] = image]
      /\ e.may = [d.may EXCEPT ![o] = d.may[o] \union {image, Bad}]
      /\ e.recs = d.recs /\ e.wrote = d.wrote /\ e.firm = d.firm /\ e.behind = d.behind
      /\ e.dropped = [slots |-> d.dropped.slots \ {o}, recs |-> d.dropped.recs]
  BY <1>1, PutSlotIs
<1>3. Grounded(e, p, b, n, g + 1)
  BY SlotPut
<1>4. image = Bad \/ image.gen < g
  <2>1. image # Bad => image.gen \in Nat
    BY DEF Slots
  <2> QED BY <1>1, <2>1 DEF Older
<1> HIDE DEF e, o
<1>5. \A q \in Positions : \A x \in e.may[q] : x = Bad \/ x.gen < g
  <2>1. \A q \in Positions : \A x \in d.may[q] : x = Bad \/ x.gen < g
    BY DEF Grounded, Numbered
  <2>2. \A q \in Positions : e.may[q] \subseteq d.may[q] \union {image, Bad}
    BY <1>1, <1>2
  <2> QED BY <1>4, <2>1, <2>2
<1>6. Numbered(e, g)
  BY <1>1, <1>2, <1>5 DEF Grounded, Numbered
<1> QED BY <1>3, <1>6 DEF Grounded, e, o

\* Only the stage and the marker differ.
LEMMA AlikeIs ==
    ASSUME NEW d, NEW m, NEW k, Alike(m, k), k.gen = m.gen, k.pending = m.pending
    PROVE  /\ SameBase(m, k) /\ Base(k) = Base(m) /\ Spare(k) = Spare(m)
           /\ Held(d, k) = Held(d, m) /\ SlotsOut(d, k) = SlotsOut(d, m)
           /\ RecordOut(d, k) <=> RecordOut(d, m)
           /\ LastRecord(d, k) = LastRecord(d, m)
           /\ Standing(d, m) => Standing(d, k)
           /\ Still(d, m) => Still(d, k)
           /\ Settled(d, m) => Settled(d, k)
           /\ Appended(d, m) => Appended(d, k)
           /\ Rewritten(d, m) => Rewritten(d, k)
           /\ Undoable(d, m) => Undoable(d, k)
           /\ Indexed(d, m) => Indexed(d, k)
<1>1. /\ SameBase(m, k) /\ Base(k) = Base(m) /\ Spare(k) = Spare(m)
      /\ Held(d, k) = Held(d, m) /\ SlotsOut(d, k) = SlotsOut(d, m)
      /\ RecordOut(d, k) <=> RecordOut(d, m)
      /\ LastRecord(d, k) = LastRecord(d, m)
  BY BaseIs DEF Alike
<1>2. /\ k.durable = m.durable /\ k.durableSlots = m.durableSlots /\ k.durableEnd = m.durableEnd
      /\ k.slots = m.slots /\ k.active = m.active /\ k.end = m.end /\ k.index = m.index
  BY DEF Alike, SameBase
<1>3. Standing(d, m) => Standing(d, k)
  BY <1>1, <1>2 DEF Standing
<1>4. Still(d, m) => Still(d, k)
  BY <1>1, <1>2 DEF Still
<1>5. Settled(d, m) => Settled(d, k)
  BY <1>2, <1>4 DEF Settled
<1>6. Appended(d, m) => Appended(d, k)
  BY <1>1, <1>2 DEF Appended
<1>7. Rewritten(d, m) => Rewritten(d, k)
  BY <1>1, <1>2 DEF Rewritten
<1>8. Undoable(d, m) => Undoable(d, k)
  BY <1>1, <1>2 DEF Undoable
<1>9. Indexed(d, m) => Indexed(d, k)
  BY <1>2 DEF Indexed
<1> QED BY <1>1, <1>3, <1>4, <1>5, <1>6, <1>7, <1>8, <1>9

\* The image a counter write puts in the spare slot, and what it would say.
Image(next, target) == Slot(mem.gen, next, target, mem.owed, mem.durableEnd)

LEMMA ImageIs ==
    ASSUME disk \in Disks, mem \in Mems, Standing(disk, mem),
           NEW next \in Numbers, NEW target \in Targets
    PROVE  /\ Image(next, target) \in Slots /\ Image(next, target) # Bad
           /\ Image(next, target).gen = mem.gen /\ Image(next, target).owed = mem.owed
           /\ Image(next, target).bound = mem.durableEnd
           /\ ~Older(Image(next, target), Base(mem))
           /\ Told(Image(next, target), Covered(disk, mem.durableEnd)) \in Tellings
           /\ Told(Image(next, target), Covered(disk, mem.durableEnd)).next = next
           /\ Told(Image(next, target), Covered(disk, mem.durableEnd)).target = target
           /\ Told(Image(next, target), Covered(disk, mem.durableEnd)).owed = mem.owed
           /\ Told(Image(next, target), Covered(disk, mem.durableEnd)).filed = Held(disk, mem).filed
<1> DEFINE image == Image(next, target)
           recs == Covered(disk, mem.durableEnd)
<1>1. /\ mem.gen \in Nat /\ mem.owed \in BOOLEAN /\ mem.durableEnd \in Nat
  BY MemParts
<1>2. image = [gen |-> mem.gen, next |-> next, target |-> target, owed |-> mem.owed, bound |-> mem.durableEnd]
  BY DEF Image, Slot
<1>3. /\ image \in Slots /\ image # Bad /\ image.gen = mem.gen /\ image.owed = mem.owed
      /\ image.bound = mem.durableEnd /\ image.next = next /\ image.target = target
  BY <1>1, <1>2, Constants DEF Slots
<1>4. /\ recs \in Seq(Records) /\ Len(recs) = mem.durableEnd
      /\ \A i \in 1 .. mem.durableEnd : recs[i].gen \in Nat /\ recs[i].gen < mem.gen
      /\ Base(mem).gen \in Nat /\ Base(mem).gen < mem.gen
  BY StandingParts
<1>5. ~Older(image, Base(mem))
  BY <1>1, <1>3, <1>4 DEF Older
<1> HIDE DEF image, recs
<1>6. \A i \in 1 .. Len(recs) : recs[i].gen <= image.gen
  BY <1>1, <1>3, <1>4
<1>7. /\ Told(image, recs).next = next /\ Told(image, recs).target = target
      /\ Told(image, recs).owed = mem.owed
      /\ Told(image, recs).filed = Told(Base(mem), recs).filed
  BY <1>3, <1>4, <1>6, ToldSlot
<1>8. Told(image, recs) \in Tellings
  BY <1>3, <1>4, ToldType
<1> QED BY <1>3, <1>5, <1>7, <1>8 DEF image, recs, Held

LEMMA SlotWritesAre ==
    ASSUME disk \in Disks, mem \in Mems, Standing(disk, mem), Settled(disk, mem),
           NEW next \in Numbers, NEW target \in Targets, NEW w \in SlotWrites(next, target)
    PROVE  /\ w.disk \in Disks /\ w.mem \in Mems /\ w.disk.behind = disk.behind
           /\ SameBase(mem, w.mem) /\ w.mem.gen = mem.gen + 1
           /\ w.mem.pc = mem.pc /\ w.mem.index = mem.index /\ w.mem.next = mem.next
           /\ w.mem.target = mem.target /\ w.mem.owed = mem.owed /\ w.mem.left = mem.left
           /\ w.mem.was = mem.was /\ ~w.mem.pending.dir
           /\ Covered(w.disk, mem.durableEnd) = Covered(disk, mem.durableEnd)
           /\ Standing(w.disk, w.mem) /\ ~RecordOut(w.disk, w.mem)
           /\ w.ok => /\ Rewritten(w.disk, w.mem)
                      /\ w.mem.slots[Spare(mem)] = Image(next, target)
                      /\ w.disk.slots[Spare(mem)] = Image(next, target)
                      /\ SlotsOut(w.disk, w.mem) = {Image(next, target)}
           /\ ~w.ok => /\ Undoable(w.disk, w.mem) /\ SlotsOut(w.disk, w.mem) = {}
                       /\ Older(w.disk.slots[Spare(mem)], Base(mem))
           /\ Len(w.disk.recs) = mem.durableEnd
<1> DEFINE p == mem.durable
           o == Spare(mem)
           b == Base(mem)
           n == mem.durableEnd
           g == mem.gen
           image == Image(next, target)
           old == mem.slots[Spare(mem)]
<1>1. /\ p \in Positions /\ o \in Positions /\ o # p /\ Other(p) = o /\ Positions = {p, o}
      /\ Grounded(disk, p, b, n, g) /\ b \in Slots /\ n \in Nat /\ g \in Nat
      /\ mem.slots[p] = b /\ mem.durableSlots[p] = b /\ Older(mem.durableSlots[o], b)
      /\ disk.slots[p] = b
  BY StandingParts
<1>2. /\ mem.slots = mem.durableSlots /\ mem.active = p /\ disk.slots = mem.durableSlots
      /\ NewSlots(disk, p, b) = {} /\ Len(disk.recs) = n /\ ~NewRecord(disk, n) /\ disk.dropped.recs = {}
      /\ mem.pending = NoPending /\ mem.end = n
  BY DEF Settled, Still, SlotsOut, RecordOut
<1>3. /\ image \in Slots /\ image # Bad /\ image.gen = g /\ image.bound = n /\ ~Older(image, b)
  BY ImageIs
<1>4. old \in Slots \union {Bad} /\ Older(old, b) /\ Older(Bad, b) /\ mem.slots \in Pairs
  BY <1>1, <1>2, MemParts DEF Pairs, Older
<1>5. TargetSlot(mem) = o
  BY DEF TargetSlot, Spare
<1>6. Slot(mem.gen, next, target, mem.owed, mem.durableEnd) = image
  BY DEF Image
<1> HIDE DEF p, o, b, n, g, image, old
<1>7. \/ /\ w.ok /\ w.disk = PutSlot(disk, o, image)
         /\ w.mem = [[mem EXCEPT !.gen = @ + 1] EXCEPT !.slots[o] = image, !.active = o]
      \/ /\ ~w.ok /\ w.disk = PutSlot(PutSlot(disk, o, Bad), o, old)
         /\ w.mem = [mem EXCEPT !.gen = @ + 1]
      \/ /\ ~w.ok /\ w.disk = PutSlot(disk, o, Bad)
         /\ w.mem = [[mem EXCEPT !.gen = @ + 1] EXCEPT !.pending.slots = mem.slots]
  BY <1>5, <1>6 DEF SlotWrites, old, o
\* The memory.
<1>8. \E slots \in Pairs, active \in Positions, pending \in Pendings :
         /\ w.mem = [mem EXCEPT !.gen = g + 1, !.slots = slots, !.active = active, !.pending = pending]
         /\ ~pending.dir
         /\ w.ok => slots = [mem.slots EXCEPT ![o] = image] /\ active = o /\ pending = NoPending
         /\ ~w.ok => slots = mem.slots /\ active = p /\ pending.cut = NoCut
         /\ ~w.ok /\ pending.slots = NoSlots => w.disk = PutSlot(PutSlot(disk, o, Bad), o, old)
         /\ ~w.ok => pending.slots \in {NoSlots, mem.slots}
  <2>0. mem \in Mems /\ g + 1 \in Nat /\ mem.gen + 1 = g + 1 /\ p \in Positions /\ NoPending \in Pendings
    BY <1>1, NoPendingIs DEF g
  <2>1. CASE /\ w.ok /\ w.mem = [[mem EXCEPT !.gen = @ + 1] EXCEPT !.slots[o] = image, !.active = o]
    <3>1. [mem.slots EXCEPT ![o] = image] \in Pairs
      BY <1>3, <1>4 DEF Pairs
    <3>2. w.mem = [mem EXCEPT !.gen = g + 1, !.slots = [mem.slots EXCEPT ![o] = image],
                              !.active = o, !.pending = mem.pending]
      BY <2>0, <2>1 DEF Mems
    <3> QED BY <1>1, <1>2, <2>0, <2>1, <3>1, <3>2, NoPendingIs
  <2>2. CASE /\ ~w.ok /\ w.disk = PutSlot(PutSlot(disk, o, Bad), o, old)
             /\ w.mem = [mem EXCEPT !.gen = @ + 1]
    <3>1. w.mem = [mem EXCEPT !.gen = g + 1, !.slots = mem.slots, !.active = mem.active, !.pending = mem.pending]
      BY <2>0, <2>2 DEF Mems
    <3> QED BY <1>1, <1>2, <1>4, <2>0, <2>2, <3>1, NoPendingIs
  <2>3. CASE /\ ~w.ok /\ w.disk = PutSlot(disk, o, Bad)
             /\ w.mem = [[mem EXCEPT !.gen = @ + 1] EXCEPT !.pending.slots = mem.slots]
    <3> DEFINE pending == [NoPending EXCEPT !.slots = mem.slots]
    <3>1. pending \in Pendings /\ pending.cut = NoCut /\ pending.slots = mem.slots /\ ~pending.dir
      BY <1>4, NoPendingIs DEF Pendings
    <3>2. w.mem = [mem EXCEPT !.gen = g + 1, !.slots = mem.slots, !.active = mem.active, !.pending = pending]
      BY <1>2, <2>0, <2>3 DEF Mems
    <3>3. pending.slots # NoSlots
      BY <1>4, <3>1, NoPendingIs
    <3> HIDE DEF pending
    <3> QED BY <1>1, <1>2, <1>4, <2>0, <2>3, <3>1, <3>2, <3>3
  <2> QED BY <1>7, <2>1, <2>2, <2>3
<1>9. PICK slots \in Pairs, active \in Positions, pending \in Pendings :
         /\ w.mem = [mem EXCEPT !.gen = g + 1, !.slots = slots, !.active = active, !.pending = pending]
         /\ ~pending.dir
         /\ w.ok => slots = [mem.slots EXCEPT ![o] = image] /\ active = o /\ pending = NoPending
         /\ ~w.ok => slots = mem.slots /\ active = p /\ pending.cut = NoCut
         /\ ~w.ok /\ pending.slots = NoSlots => w.disk = PutSlot(PutSlot(disk, o, Bad), o, old)
         /\ ~w.ok => pending.slots \in {NoSlots, mem.slots}
  BY <1>8
<1>10. /\ w.mem \in Mems /\ w.mem.gen = g + 1 /\ w.mem.slots = slots /\ w.mem.active = active
       /\ w.mem.pending = pending /\ w.mem.durable = mem.durable
       /\ w.mem.durableSlots = mem.durableSlots /\ w.mem.durableEnd = mem.durableEnd
       /\ w.mem.end = mem.end /\ w.mem.pc = mem.pc /\ w.mem.index = mem.index /\ w.mem.next = mem.next
       /\ w.mem.target = mem.target /\ w.mem.owed = mem.owed /\ w.mem.left = mem.left
       /\ w.mem.was = mem.was
  <2>1. mem \in Mems /\ g + 1 \in Nat
    BY <1>1
  <2> QED BY <1>9, <2>1 DEF Mems
<1>11. SameBase(mem, w.mem)
  BY <1>10 DEF SameBase
\* The disk.
<1>12. /\ w.disk \in Disks /\ w.disk.behind = disk.behind /\ w.disk.recs = disk.recs
       /\ w.disk.dropped.recs = {} /\ o \notin w.disk.dropped.slots
       /\ Covered(w.disk, n) = Covered(disk, n)
       /\ Grounded(w.disk, p, b, n, g + 1) /\ ~NewRecord(w.disk, n)
       /\ w.ok => /\ w.disk.slots = [disk.slots EXCEPT ![o] = image]
                  /\ NewSlots(w.disk, p, b) = {image}
       /\ ~w.ok => /\ NewSlots(w.disk, p, b) = {} /\ Older(w.disk.slots[o], b)
                   /\ pending.slots = NoSlots => w.disk.slots = disk.slots
  <2>1. CASE w.ok
    <3> DEFINE e == PutSlot(disk, o, image)
    <3>1. w.disk = e
      BY <1>7, <2>1
    <3>2. image \in Slots \union {Bad} /\ image.bound <= n
      BY <1>1, <1>3
    <3>3. /\ e \in Disks /\ e.behind = disk.behind /\ e.recs = disk.recs
          /\ e.slots = [disk.slots EXCEPT ![o] = image]
          /\ e.dropped = [slots |-> disk.dropped.slots \ {o}, recs |-> disk.dropped.recs]
      BY <1>1, <3>2, PutSlotIs, ZenonT(20)
    <3>4. /\ Grounded(e, p, b, n, g + 1) /\ NewSlots(e, p, b) = NewSlots(disk, p, b) \union {image}
          /\ NewRecord(e, n) <=> NewRecord(disk, n)
          /\ Covered(e, n) = Covered(disk, n)
      BY <1>1, <1>2, <1>3, <3>2, SlotPut
    <3> HIDE DEF e
    <3>5. e.dropped.recs = {} /\ o \notin e.dropped.slots
      BY <1>2, <3>3
    <3> QED BY <1>2, <2>1, <3>1, <3>3, <3>4, <3>5
  <2>2. CASE ~w.ok
    <3> DEFINE torn == PutSlot(disk, o, Bad)
               back == PutSlot(torn, o, old)
    <3>1. /\ torn \in Disks /\ torn.behind = disk.behind /\ torn.recs = disk.recs
          /\ torn.slots = [disk.slots EXCEPT ![o] = Bad]
          /\ torn.dropped = [slots |-> disk.dropped.slots \ {o}, recs |-> disk.dropped.recs]
      BY <1>1, PutSlotIs
    <3>2. /\ Grounded(torn, p, b, n, g + 1) /\ NewSlots(torn, p, b) = NewSlots(disk, p, b)
          /\ NewRecord(torn, n) <=> NewRecord(disk, n)
          /\ Covered(torn, n) = Covered(disk, n) /\ torn.slots[o] = Bad
      BY <1>1, <1>4, SlotPut
    <3>3. \/ w.disk = torn /\ pending.slots # NoSlots
          \/ w.disk = back
      BY <1>7, <1>9, <2>2
    <3> HIDE DEF torn
    <3>4. /\ back \in Disks /\ back.behind = torn.behind /\ back.recs = torn.recs
          /\ back.slots = [torn.slots EXCEPT ![o] = old]
          /\ back.dropped = [slots |-> torn.dropped.slots \ {o}, recs |-> torn.dropped.recs]
      BY <1>1, <1>4, <3>1, PutSlotIs, ZenonT(20)
    <3>5. /\ Grounded(back, p, b, n, g + 1 + 1) /\ NewSlots(back, p, b) = NewSlots(torn, p, b)
          /\ NewRecord(back, n) <=> NewRecord(torn, n)
          /\ Covered(back, n) = Covered(torn, n) /\ back.slots[o] = old
      BY <1>1, <1>4, <3>1, <3>2, SlotPut
    <3>6. Grounded(back, p, b, n, g + 1)
      BY <1>1, <1>4, <3>1, <3>2, SlotBack
    <3>7. back.slots = disk.slots
      <4>1. disk.slots \in Pairs /\ disk.slots[o] = old
        BY <1>2, <1>4 DEF old, o
      <4> QED BY <1>1, <3>1, <3>4, <4>1 DEF Pairs
    <3> HIDE DEF back
    <3>8. torn.dropped.recs = {} /\ o \notin torn.dropped.slots
      BY <1>2, <3>1
    <3>9. back.dropped.recs = {} /\ o \notin back.dropped.slots
      BY <3>4, <3>8
    <3>10. CASE w.disk = torn /\ pending.slots # NoSlots
      BY <1>2, <1>4, <2>2, <3>1, <3>2, <3>8, <3>10
    <3>11. CASE w.disk = back
      BY <1>2, <1>4, <2>2, <3>1, <3>2, <3>4, <3>5, <3>6, <3>7, <3>9, <3>11
    <3> QED BY <3>3, <3>10, <3>11
  <2> QED BY <2>1, <2>2
<1>13. w.mem.slots[p] = b
  BY <1>1, <1>2, <1>4, <1>9, <1>10 DEF Pairs
<1>14. /\ Standing(w.disk, w.mem) /\ (RecordOut(w.disk, w.mem) <=> NewRecord(w.disk, n))
       /\ SlotsOut(w.disk, w.mem) = NewSlots(w.disk, p, b) /\ Spare(w.mem) = o /\ Base(w.mem) = b
  BY <1>10, <1>11, <1>12, <1>13, Transfer DEF p, b, n, o
<1>15. w.ok => Rewritten(w.disk, w.mem) /\ w.mem.slots[o] = image /\ w.disk.slots[o] = image
  <2> SUFFICES ASSUME w.ok
               PROVE  Rewritten(w.disk, w.mem) /\ w.mem.slots[o] = image /\ w.disk.slots[o] = image
    OBVIOUS
  <2>1. w.mem.slots[o] = image /\ w.disk.slots[o] = image /\ w.mem.slots = w.disk.slots
    BY <1>1, <1>2, <1>4, <1>9, <1>10, <1>12 DEF Pairs
  <2>2. /\ w.mem.pending = NoPending /\ w.mem.active = o /\ image \in SlotsOut(w.disk, w.mem)
        /\ w.mem.end = n /\ w.mem.durableEnd = n /\ Len(w.disk.recs) = n
    BY <1>2, <1>9, <1>10, <1>12, <1>14 DEF n
  <2> QED BY <1>12, <1>14, <2>1, <2>2 DEF Rewritten
<1>16. ~w.ok => Undoable(w.disk, w.mem)
  BY <1>2, <1>9, <1>10, <1>12, <1>14, NoPendingIs DEF Undoable, n, p
<1> QED BY <1>2, <1>9, <1>10, <1>11, <1>12, <1>14, <1>15, <1>16 DEF p, o, b, n, g, image

LEMMA StageIs ==
    ASSUME NEW m \in Mems, NEW s \in Stages, NEW k, k = [m EXCEPT !.pc = s]
    PROVE  /\ k \in Mems /\ k.pc = s /\ Alike(m, k)
           /\ k.gen = m.gen /\ k.pending = m.pending /\ k.owed = m.owed /\ k.left = m.left /\ k.was = m.was
           /\ k.durable = m.durable /\ k.durableSlots = m.durableSlots /\ k.durableEnd = m.durableEnd
           /\ k.slots = m.slots /\ k.active = m.active /\ k.end = m.end
           /\ k.index = m.index /\ k.next = m.next /\ k.target = m.target
<1>1. /\ k \in Mems /\ k.pc = s
      /\ k.gen = m.gen /\ k.pending = m.pending /\ k.owed = m.owed /\ k.left = m.left /\ k.was = m.was
      /\ k.durable = m.durable /\ k.durableSlots = m.durableSlots /\ k.durableEnd = m.durableEnd
      /\ k.slots = m.slots /\ k.active = m.active /\ k.end = m.end
      /\ k.index = m.index /\ k.next = m.next /\ k.target = m.target
  BY DEF Mems
<1> QED BY <1>1 DEF Alike, SameBase

LEMMA SetCountersKeeps ==
    ASSUME IInv, NEW c \in Calls, SetCounters(c)
    PROVE  IInv' /\ Promise!PromiseNext
<1> DEFINE n == mem.durableEnd
           held == Held(disk, mem)
           done == Promise!Effect(acked, c)
           next == IF c.op = "sender" THEN c.next ELSE mem.next
           target == IF c.op = "target" THEN c.target ELSE mem.target
           image == Image(next, target)
<1>1. Usable /\ c.op \in {"sender", "target"} /\ c.op # "mark"
  BY DEF SetCounters
<1>2. /\ mem.pc = "idle" /\ mem.pending = NoPending /\ call = Promise!NoCall
      /\ Settled(disk, mem) /\ disk.behind = {} /\ kept = held
      /\ Admits(flushed, held) /\ Agrees(acked, held)
      /\ mem.next = acked.next /\ mem.target = acked.target
      /\ mem.owed \in acked.owed /\ Base(mem).owed \in acked.owed /\ (Base(mem).owed => mem.owed)
  BY <1>1, UsableIs
<1>3. /\ Shape /\ every = 1 /\ disk \in Disks /\ mem \in Mems /\ acked \in Stores /\ flushed \in Stores
      /\ Carries(disk, mem, call, acked, flushed, Views, Outcome)
  BY <1>2, OpenParts
<1>4. Standing(disk, mem) /\ Survives(disk, mem, Views) /\ Indexed(disk, mem)
  BY <1>3 DEF Carries
<1>5. next \in Numbers /\ target \in Targets
  BY <1>1, <1>3, CallsAre, MemParts
<1>6. /\ done \in Stores /\ done.owed = acked.owed /\ done.next = next /\ done.target = target
      /\ done.filed = acked.filed
  <2>1. CASE c.op = "sender"
    <3>1. /\ done \in Stores /\ done.owed = acked.owed /\ done.filed = acked.filed
          /\ done.next = c.next /\ done.target = acked.target
      BY <1>3, <2>1, EffectIs
    <3>2. next = c.next /\ target = mem.target
      BY <2>1
    <3> HIDE DEF next, target, done
    <3> QED BY <1>2, <3>1, <3>2
  <2>2. CASE c.op = "target"
    <3>1. /\ done \in Stores /\ done.owed = acked.owed /\ done.filed = acked.filed
          /\ done.next = acked.next /\ done.target = c.target
      BY <1>3, <2>2, EffectIs
    <3>2. next = mem.next /\ target = c.target
      BY <2>2
    <3> HIDE DEF next, target, done
    <3> QED BY <1>2, <3>1, <3>2
  <2> QED BY <1>1, <2>1, <2>2
<1>7. PICK w \in SlotWrites(next, target) :
         /\ disk' = w.disk /\ Begins(c, w.faults)
         /\ mem' = [w.mem EXCEPT !.pc = IF w.ok THEN "after" ELSE "fails"]
  BY DEF SetCounters
<1> HIDE DEF next, target, image, done, held
<1>8. /\ w.disk \in Disks /\ w.mem \in Mems /\ w.disk.behind = disk.behind
      /\ SameBase(mem, w.mem) /\ w.mem.index = mem.index /\ w.mem.next = mem.next
      /\ w.mem.target = mem.target /\ w.mem.owed = mem.owed /\ ~w.mem.pending.dir
      /\ Covered(w.disk, n) = Covered(disk, n)
      /\ Standing(w.disk, w.mem) /\ ~RecordOut(w.disk, w.mem)
      /\ w.ok => /\ Rewritten(w.disk, w.mem) /\ w.mem.slots[Spare(mem)] = image
                 /\ w.disk.slots[Spare(mem)] = image /\ SlotsOut(w.disk, w.mem) = {image}
      /\ ~w.ok => /\ Undoable(w.disk, w.mem) /\ SlotsOut(w.disk, w.mem) = {}
                  /\ Older(w.disk.slots[Spare(mem)], Base(mem))
      /\ Len(w.disk.recs) = n
  BY <1>2, <1>3, <1>4, <1>5, SlotWritesAre DEF image
<1>9. /\ Base(w.mem) = Base(mem) /\ Spare(w.mem) = Spare(mem) /\ Held(w.disk, w.mem) = held
      /\ w.mem.durableEnd = n /\ Indexed(w.disk, w.mem)
  <2>1. Covered(w.disk, mem.durableEnd) = Covered(disk, mem.durableEnd)
    BY <1>8
  <2>2. /\ Base(w.mem) = Base(mem) /\ Spare(w.mem) = Spare(mem) /\ Held(w.disk, w.mem) = Held(disk, mem)
        /\ Indexed(w.disk, w.mem)
    BY <1>4, <1>8, <2>1, Transfer
  <2> QED BY <1>8, <2>2 DEF SameBase, held
<1>10. /\ mem' \in Mems /\ mem'.pc = (IF w.ok THEN "after" ELSE "fails") /\ Alike(w.mem, mem')
       /\ mem'.gen = w.mem.gen /\ mem'.pending = w.mem.pending /\ mem'.owed = mem.owed
       /\ mem'.slots = w.mem.slots /\ mem'.next = mem.next /\ mem'.target = mem.target
       /\ mem'.durableEnd = n
  <2>1. (IF w.ok THEN "after" ELSE "fails") \in Stages
    BY DEF Stages
  <2> QED BY <1>7, <1>8, <1>9, <2>1, StageIs
<1>11. /\ Base(mem') = Base(mem) /\ Spare(mem') = Spare(mem) /\ Held(disk', mem') = held
       /\ SlotsOut(disk', mem') = SlotsOut(w.disk, w.mem) /\ ~RecordOut(disk', mem')
       /\ Standing(disk', mem') /\ Indexed(disk', mem')
       /\ w.ok => Rewritten(disk', mem')
       /\ ~w.ok => Undoable(disk', mem')
  <2>1. /\ Base(mem') = Base(w.mem) /\ Spare(mem') = Spare(w.mem) /\ Held(w.disk, mem') = Held(w.disk, w.mem)
        /\ SlotsOut(w.disk, mem') = SlotsOut(w.disk, w.mem)
        /\ RecordOut(w.disk, mem') <=> RecordOut(w.disk, w.mem)
        /\ Standing(w.disk, w.mem) => Standing(w.disk, mem')
        /\ Indexed(w.disk, w.mem) => Indexed(w.disk, mem')
        /\ Rewritten(w.disk, w.mem) => Rewritten(w.disk, mem')
        /\ Undoable(w.disk, w.mem) => Undoable(w.disk, mem')
    BY <1>10, AlikeIs
  <2> QED BY <1>7, <1>8, <1>9, <2>1
<1>12. /\ Told(image, Covered(disk, n)) \in Tellings /\ Admits(done, Told(image, Covered(disk, n)))
       /\ image.owed = mem.owed
  <2>1. /\ Told(image, Covered(disk, n)) \in Tellings
        /\ Told(image, Covered(disk, n)).next = next /\ Told(image, Covered(disk, n)).target = target
        /\ Told(image, Covered(disk, n)).owed = mem.owed
        /\ Told(image, Covered(disk, n)).filed = held.filed /\ image.owed = mem.owed
    BY <1>3, <1>4, <1>5, ImageIs DEF image, held
  <2> QED BY <1>2, <1>6, <2>1 DEF Admits, Agrees
<1>13. UNCHANGED every /\ kept' = View(disk'.slots, disk'.recs)
  BY <1>7 DEF Begins, Keeping
<1>14. kept' \in Tellings /\ Kept({acked, flushed, done})
  <2>1. CASE w.ok
    <3>1. disk'.slots[Spare(mem')] \in SlotsOut(disk', mem')
      BY <1>7, <1>8, <1>11, <2>1
    <3>2. kept' = Told(disk'.slots[Spare(mem')], Covered(disk', mem'.durableEnd))
      BY <1>3, <1>7, <1>8, <1>10, <1>11, <1>13, <3>1, ViewIs
    <3>3. kept' = Told(image, Covered(disk, n))
      BY <1>7, <1>8, <1>10, <1>11, <2>1, <3>2
    <3> QED BY <1>12, <3>3 DEF Kept, Promised
  <2>2. CASE ~w.ok
    <3>1. Older(disk'.slots[Spare(mem')], Base(mem')) /\ Len(disk'.recs) = mem'.durableEnd
      BY <1>7, <1>8, <1>10, <1>11, <2>2
    <3>2. kept' = Held(disk', mem') /\ kept' \in Tellings
      BY <1>3, <1>7, <1>8, <1>10, <1>11, <1>13, <3>1, ViewIs
    <3> QED BY <1>2, <1>11, <3>2 DEF Kept
  <2> QED BY <2>1, <2>2
<1>15. /\ Shape' /\ Promise!PromiseNext
       /\ call' = c /\ acked' = acked /\ flushed' = flushed /\ Outcome' = done
       /\ Views \subseteq Views' /\ done \in Views'
  BY <1>2, <1>3, <1>7, <1>8, <1>10, <1>14, BeginShape DEF Lands, done
<1>16. Survives(disk', mem', Views')
  <2>1. Promised(Held(disk', mem'), Views')
    BY <1>4, <1>11, <1>15, PromisedMore DEF Survives, held
  <2>2. ASSUME NEW x \in SlotsOut(disk', mem')
        PROVE  Promised(Told(x, Covered(disk', mem'.durableEnd)), Views')
    <3>1. x = image
      BY <1>8, <1>11
    <3>2. Told(x, Covered(disk', mem'.durableEnd)) = Told(image, Covered(disk, n))
      BY <1>7, <1>8, <1>10, <3>1
    <3> QED BY <1>12, <1>15, <3>2 DEF Promised
  <2> QED BY <1>11, <2>1, <2>2 DEF Survives
<1>17. ByStage(disk', mem', c)
  BY <1>1, <1>10, <1>11 DEF ByStage
<1>18. Tells(disk', mem', acked, flushed)
  BY <1>2, <1>10, <1>11 DEF Tells
<1>19. Marker(mem', c, acked)
  BY <1>1, <1>2, <1>10, <1>11 DEF Marker, InMark, FailedMark
<1>20. Becomes(disk', mem', c, done)
  <2>1. w.ok => /\ mem'.slots[Spare(mem')] = image
                /\ Told(mem'.slots[Spare(mem')], Covered(disk', mem'.durableEnd)) = Told(image, Covered(disk, n))
    BY <1>7, <1>8, <1>10, <1>11
  <2> QED BY <1>1, <1>10, <1>12, <2>1 DEF Becomes
<1>21. Carries(disk', mem', call', acked', flushed', Views', Outcome')
  BY <1>11, <1>15, <1>16, <1>17, <1>18, <1>19, <1>20 DEF Carries
<1>22. ByCall(mem', call') /\ Behind(disk', mem', Views')
  <2>1. mem' # Closed /\ c # Promise!NoCall /\ disk'.behind = {}
    BY <1>2, <1>7, <1>8, <1>10, OpenIs, CallsAre
  <2> QED BY <1>1, <1>10, <1>15, <2>1 DEF ByCall, Behind
<1> QED BY <1>10, <1>13, <1>15, <1>21, <1>22, OpenAgain

LEMMA MarkSlotKeeps ==
    ASSUME IInv, MarkSlot
    PROVE  IInv' /\ Promise!PromiseNext
<1> DEFINE n == mem.durableEnd
           held == Held(disk, mem)
           next == mem.next
           target == mem.target
           image == Image(next, target)
<1>1. mem.pc = "mark"
  BY DEF MarkSlot
<1>2. /\ Shape /\ every = 1 /\ disk \in Disks /\ mem \in Mems /\ acked \in Stores /\ flushed \in Stores
      /\ ByCall(mem, call) /\ Carries(disk, mem, call, acked, flushed, Views, Outcome)
      /\ call # Promise!NoCall /\ call \in Calls /\ Outcome \in Views
      /\ kept = View(disk.slots, disk.recs)
      /\ (disk.behind # {} => mem.pending.dir)
  BY <1>1, OpenParts
<1>3. /\ Standing(disk, mem) /\ Survives(disk, mem, Views) /\ Indexed(disk, mem)
      /\ ByStage(disk, mem, call) /\ Tells(disk, mem, acked, flushed) /\ Marker(mem, call, acked)
  BY <1>2 DEF Carries
<1>4. Settled(disk, mem) /\ disk.behind = {} /\ mem.pending = NoPending
  <2>1. Settled(disk, mem)
    BY <1>1, <1>3 DEF ByStage
  <2> QED BY <1>2, <2>1, NoPendingIs DEF Settled
<1>5. call.op = "mark" /\ mem.left \in {1, 2}
  BY <1>1, <1>2 DEF ByCall
<1>6. /\ mem.was \in acked.owed /\ mem.owed = call.owed
      /\ mem.left = 1 => Base(mem).owed = call.owed
      /\ mem.left = 2 => Base(mem).owed \in acked.owed
      /\ Base(mem).owed => mem.owed \/ mem.was
  BY <1>1, <1>3 DEF Marker, InMark
<1>7. /\ Agrees(acked, held) /\ mem.next = acked.next /\ mem.target = acked.target
      /\ Admits(flushed, held)
  BY <1>1, <1>3, <1>4, NoPendingIs DEF Tells
<1>8. kept = held
  <2>1. disk.slots[Spare(mem)] = mem.durableSlots[Spare(mem)] /\ Len(disk.recs) = n
    BY <1>4 DEF Settled, Still
  <2>2. Older(mem.durableSlots[Spare(mem)], Base(mem))
    BY <1>3 DEF Standing
  <2> QED BY <1>2, <1>3, <2>1, <2>2, ViewIs
<1>9. next \in Numbers /\ target \in Targets
  BY <1>2, MemParts
<1>10. /\ Outcome.owed = {call.owed} /\ Outcome.next = acked.next /\ Outcome.target = acked.target
       /\ Outcome.filed = acked.filed
  BY <1>2, <1>5, EffectIs DEF Outcome
<1>11. PICK w \in SlotWrites(next, target) :
          /\ disk' = w.disk
          /\ mem' = IF w.ok THEN [w.mem EXCEPT !.pc = "marked"] ELSE Unmarked(w.mem, "fails")
          /\ Steps(w.faults) /\ Unflushed
  BY DEF MarkSlot
<1> HIDE DEF image, held, next, target
<1>12. /\ w.disk \in Disks /\ w.mem \in Mems /\ w.disk.behind = disk.behind
       /\ SameBase(mem, w.mem) /\ w.mem.index = mem.index /\ w.mem.next = mem.next
       /\ w.mem.target = mem.target /\ w.mem.owed = mem.owed /\ ~w.mem.pending.dir
       /\ w.mem.was = mem.was /\ w.mem.left = mem.left
       /\ Covered(w.disk, n) = Covered(disk, n)
       /\ Standing(w.disk, w.mem) /\ ~RecordOut(w.disk, w.mem)
       /\ w.ok => /\ Rewritten(w.disk, w.mem) /\ w.mem.slots[Spare(mem)] = image
                  /\ w.disk.slots[Spare(mem)] = image /\ SlotsOut(w.disk, w.mem) = {image}
       /\ ~w.ok => /\ Undoable(w.disk, w.mem) /\ SlotsOut(w.disk, w.mem) = {}
                   /\ Older(w.disk.slots[Spare(mem)], Base(mem))
       /\ Len(w.disk.recs) = n
  BY <1>2, <1>3, <1>4, <1>9, SlotWritesAre DEF image
<1>13. /\ Base(w.mem) = Base(mem) /\ Spare(w.mem) = Spare(mem) /\ Held(w.disk, w.mem) = held
       /\ w.mem.durableEnd = n /\ Indexed(w.disk, w.mem)
  <2>1. Covered(w.disk, mem.durableEnd) = Covered(disk, mem.durableEnd)
    BY <1>12
  <2>2. /\ Base(w.mem) = Base(mem) /\ Spare(w.mem) = Spare(mem) /\ Held(w.disk, w.mem) = Held(disk, mem)
        /\ Indexed(w.disk, w.mem)
    BY <1>3, <1>12, <2>1, Transfer
  <2> QED BY <1>12, <2>2 DEF SameBase, held
<1>14. /\ mem' \in Mems /\ mem'.pc = (IF w.ok THEN "marked" ELSE "fails") /\ Alike(w.mem, mem')
       /\ mem'.gen = w.mem.gen /\ mem'.pending = w.mem.pending
       /\ w.ok => mem'.owed = mem.owed /\ mem'.left = mem.left /\ mem'.was = mem.was
       /\ ~w.ok => mem'.owed = (mem.was \/ call.owed)
       /\ mem'.slots = w.mem.slots /\ mem'.next = mem.next /\ mem'.target = mem.target
       /\ mem'.durableEnd = n
  <2>1. CASE w.ok
    <3>1. mem' = [w.mem EXCEPT !.pc = "marked"] /\ "marked" \in Stages
      BY <1>11, <2>1 DEF Stages
    <3> QED BY <1>12, <1>13, <2>1, <3>1, StageIs
  <2>2. CASE ~w.ok
    <3>1. mem' = [w.mem EXCEPT !.pc = "fails", !.owed = mem.was \/ call.owed, !.left = 0, !.was = FALSE]
      BY <1>11, <1>12, <2>2 DEF Unmarked
    <3>2. "fails" \in Stages /\ (mem.was \/ call.owed) \in BOOLEAN
      BY DEF Stages
    <3>3. /\ mem' \in Mems /\ mem'.pc = "fails" /\ mem'.owed = (mem.was \/ call.owed)
          /\ mem'.gen = w.mem.gen /\ mem'.pending = w.mem.pending
          /\ mem'.durable = w.mem.durable /\ mem'.durableSlots = w.mem.durableSlots
          /\ mem'.durableEnd = w.mem.durableEnd
          /\ mem'.slots = w.mem.slots /\ mem'.active = w.mem.active /\ mem'.end = w.mem.end
          /\ mem'.index = w.mem.index /\ mem'.next = w.mem.next /\ mem'.target = w.mem.target
      BY <1>12, <3>1, <3>2 DEF Mems
    <3> QED BY <1>12, <1>13, <2>2, <3>3 DEF Alike, SameBase
  <2> QED BY <2>1, <2>2
<1>15. /\ Base(mem') = Base(mem) /\ Spare(mem') = Spare(mem) /\ Held(disk', mem') = held
       /\ SlotsOut(disk', mem') = SlotsOut(w.disk, w.mem) /\ ~RecordOut(disk', mem')
       /\ Standing(disk', mem') /\ Indexed(disk', mem')
       /\ w.ok => Rewritten(disk', mem')
       /\ ~w.ok => Undoable(disk', mem')
  <2>1. /\ Base(mem') = Base(w.mem) /\ Spare(mem') = Spare(w.mem) /\ Held(w.disk, mem') = Held(w.disk, w.mem)
        /\ SlotsOut(w.disk, mem') = SlotsOut(w.disk, w.mem)
        /\ RecordOut(w.disk, mem') <=> RecordOut(w.disk, w.mem)
        /\ Standing(w.disk, w.mem) => Standing(w.disk, mem')
        /\ Indexed(w.disk, w.mem) => Indexed(w.disk, mem')
        /\ Rewritten(w.disk, w.mem) => Rewritten(w.disk, mem')
        /\ Undoable(w.disk, w.mem) => Undoable(w.disk, mem')
    BY <1>14, AlikeIs
  <2> QED BY <1>11, <1>12, <1>13, <2>1
<1>16. /\ Told(image, Covered(disk, n)) \in Tellings /\ Admits(Outcome, Told(image, Covered(disk, n)))
       /\ image.owed = mem.owed
  <2>1. /\ Told(image, Covered(disk, n)) \in Tellings
        /\ Told(image, Covered(disk, n)).next = next /\ Told(image, Covered(disk, n)).target = target
        /\ Told(image, Covered(disk, n)).owed = mem.owed
        /\ Told(image, Covered(disk, n)).filed = held.filed /\ image.owed = mem.owed
    BY <1>2, <1>3, <1>9, ImageIs DEF image, held
  <2> QED BY <1>6, <1>7, <1>10, <2>1 DEF Admits, Agrees, next, target
<1>17. UNCHANGED every /\ kept' = View(disk'.slots, disk'.recs)
  BY <1>11 DEF Steps, Keeping
<1>18. kept' \in Tellings /\ Kept({acked, flushed, Outcome})
  <2>1. CASE w.ok
    <3>1. disk'.slots[Spare(mem')] \in SlotsOut(disk', mem')
      BY <1>11, <1>12, <1>15, <2>1
    <3>2. kept' = Told(disk'.slots[Spare(mem')], Covered(disk', mem'.durableEnd))
      BY <1>2, <1>11, <1>12, <1>14, <1>15, <1>17, <3>1, ViewIs
    <3>3. kept' = Told(image, Covered(disk, n))
      BY <1>11, <1>12, <1>14, <1>15, <2>1, <3>2
    <3> QED BY <1>16, <3>3 DEF Kept, Promised
  <2>2. CASE ~w.ok
    <3>1. Older(disk'.slots[Spare(mem')], Base(mem')) /\ Len(disk'.recs) = mem'.durableEnd
      BY <1>11, <1>12, <1>14, <1>15, <2>2
    <3>2. kept' = Held(disk', mem') /\ kept' \in Tellings
      BY <1>2, <1>11, <1>12, <1>14, <1>15, <1>17, <3>1, ViewIs
    <3> QED BY <1>8, <1>15, <3>2 DEF Kept
  <2> QED BY <2>1, <2>2
<1>19. /\ Shape' /\ Promise!PromiseNext
       /\ call' = call /\ acked' = acked /\ flushed' = flushed /\ Outcome' = Outcome
       /\ Views' = Views
  BY <1>2, <1>11, <1>12, <1>14, <1>18, StepShape DEF Lands
<1>20. Survives(disk', mem', Views')
  <2>1. Promised(Held(disk', mem'), Views')
    BY <1>3, <1>15, <1>19 DEF Survives, held
  <2>2. ASSUME NEW x \in SlotsOut(disk', mem')
        PROVE  Promised(Told(x, Covered(disk', mem'.durableEnd)), Views')
    <3>1. x = image
      BY <1>12, <1>15
    <3>2. Told(x, Covered(disk', mem'.durableEnd)) = Told(image, Covered(disk, n))
      BY <1>11, <1>12, <1>14, <3>1
    <3> QED BY <1>2, <1>16, <1>19, <3>2 DEF Promised
  <2> QED BY <1>15, <2>1, <2>2 DEF Survives
<1>21. ByStage(disk', mem', call)
  BY <1>14, <1>15 DEF ByStage
<1>22. Tells(disk', mem', acked, flushed)
  BY <1>7, <1>14, <1>15 DEF Tells
<1>23. Marker(mem', call, acked)
  BY <1>5, <1>6, <1>14, <1>15 DEF Marker, InMark, FailedMark
<1>24. Becomes(disk', mem', call, Outcome)
  <2>1. w.ok => /\ mem'.slots[Spare(mem')] = image
                /\ Told(mem'.slots[Spare(mem')], Covered(disk', mem'.durableEnd)) = Told(image, Covered(disk, n))
    BY <1>11, <1>12, <1>14, <1>15
  <2> QED BY <1>14, <1>16, <2>1 DEF Becomes
<1>25. Carries(disk', mem', call', acked', flushed', Views', Outcome')
  BY <1>15, <1>19, <1>20, <1>21, <1>22, <1>23, <1>24 DEF Carries
<1>26. ByCall(mem', call') /\ Behind(disk', mem', Views')
  <2>1. mem' # Closed /\ disk'.behind = {}
    BY <1>4, <1>11, <1>12, <1>14, OpenIs
  <2> QED BY <1>2, <1>5, <1>14, <1>19, <2>1 DEF ByCall, Behind
<1> QED BY <1>14, <1>17, <1>19, <1>25, <1>26, OpenAgain

-----------------------------------------------------------------------------
(* flush                                                                    *)

LEMMA SettledIs ==
    ASSUME NEW d \in Disks, NEW m \in Mems, Standing(d, m), Settled(d, m)
    PROVE  /\ SlotsOut(d, m) = {} /\ ~RecordOut(d, m) /\ m.pending = NoPending
           /\ Undoable(d, m) /\ Still(d, m)
           /\ Older(d.slots[Spare(m)], Base(m)) /\ Len(d.recs) = m.durableEnd
           /\ every = 1 => View(d.slots, d.recs) = Held(d, m) /\ View(d.slots, d.recs) \in Tellings
           /\ \A S : Promised(Held(d, m), S) => Survives(d, m, S)
<1>1. /\ SlotsOut(d, m) = {} /\ ~RecordOut(d, m) /\ m.pending = NoPending /\ Still(d, m)
      /\ d.slots = m.durableSlots /\ Len(d.recs) = m.durableEnd
  BY DEF Settled, Still
<1>2. Older(d.slots[Spare(m)], Base(m))
  BY <1>1, StandingParts
<1>3. Undoable(d, m)
  BY <1>1, NoPendingIs DEF Settled, Still, Undoable
<1>4. every = 1 => View(d.slots, d.recs) = Held(d, m) /\ View(d.slots, d.recs) \in Tellings
  BY <1>1, <1>2, ViewIs
<1>5. \A S : Promised(Held(d, m), S) => Survives(d, m, S)
  BY <1>1 DEF Survives
<1> QED BY <1>1, <1>2, <1>3, <1>4, <1>5

LEMMA FlushedIs ==
    ASSUME disk \in Disks, mem \in Mems, Standing(disk, mem),
           Settled(disk, mem) \/ Appended(disk, mem) \/ Rewritten(disk, mem),
           NEW d, NEW m, d = Synced(disk), m = Flushed
    PROVE  /\ d \in Disks /\ m \in Mems /\ Standing(d, m) /\ Settled(d, m)
           /\ d.behind = disk.behind /\ d.slots = disk.slots /\ d.recs = disk.recs
           /\ m.pc = mem.pc /\ m.gen = mem.gen /\ m.slots = mem.slots /\ m.end = mem.end
           /\ m.durableEnd = mem.end /\ m.pending = NoPending
           /\ m.index = mem.index /\ m.next = mem.next /\ m.target = mem.target
           /\ m.owed = mem.owed /\ m.left = mem.left /\ m.was = mem.was
           /\ Settled(disk, mem) => Held(d, m) = Held(disk, mem) /\ Base(m) = Base(mem) /\ (Indexed(disk, mem) => Indexed(d, m))
           /\ Appended(disk, mem) =>
                /\ Base(m) = Base(mem) /\ Held(d, m) = Told(Base(mem), disk.recs)
                /\ \A k \in Seqs : LastOf(Covered(d, m.durableEnd), k) =
                      IF k = disk.recs[mem.end].seq THEN mem.end ELSE LastOf(Covered(disk, mem.durableEnd), k)
           /\ Rewritten(disk, mem) =>
                /\ Base(m) = mem.slots[Spare(mem)] /\ (Indexed(disk, mem) => Indexed(d, m))
                /\ Held(d, m) = Told(mem.slots[Spare(mem)], Covered(disk, mem.durableEnd))
<1> DEFINE p == mem.durable
           o == Spare(mem)
           b == Base(mem)
           n == mem.durableEnd
           g == mem.gen
<1>1. /\ p \in Positions /\ o \in Positions /\ o # p /\ Other(p) = o
      /\ Grounded(disk, p, b, n, g) /\ b \in Slots /\ n \in Nat /\ g \in Nat /\ b.gen \in Nat
      /\ mem.slots[p] = b /\ mem.durableSlots[p] = b /\ Older(mem.durableSlots[o], b)
      /\ disk.slots[p] = b /\ Covered(disk, n) \in Seq(Records) /\ Len(Covered(disk, n)) = n
      /\ \A i \in 1 .. n : Covered(disk, n)[i] = disk.recs[i]
  BY StandingParts
<1>2. mem.end \in Nat /\ mem.slots \in Pairs /\ mem.active \in Positions
  BY MemParts
<1>3. /\ m \in Mems /\ m.durableEnd = mem.end /\ m.durableSlots = mem.slots /\ m.durable = mem.active
      /\ m.pc = mem.pc /\ m.gen = mem.gen /\ m.slots = mem.slots /\ m.end = mem.end
      /\ m.pending = mem.pending /\ m.active = mem.active
      /\ m.index = mem.index /\ m.next = mem.next /\ m.target = mem.target
      /\ m.owed = mem.owed /\ m.left = mem.left /\ m.was = mem.was
  BY <1>2 DEF Flushed, Mems
<1>4. mem.pending = NoPending
  BY DEF Settled, Appended, Rewritten
<1>5. Base(m) = mem.slots[mem.active] /\ Spare(m) = Other(mem.active)
      /\ Held(d, m) = Told(Base(m), Covered(d, mem.end))
      /\ SlotsOut(d, m) = NewSlots(d, mem.active, Base(m))
      /\ (RecordOut(d, m) <=> NewRecord(d, mem.end))
  BY <1>3 DEF Base, Spare, Held, SlotsOut, RecordOut
<1> HIDE DEF p, o, b, n, g
<1>6. CASE Settled(disk, mem)
  <2>1. /\ mem.slots = mem.durableSlots /\ mem.active = p /\ disk.slots = mem.durableSlots
        /\ NewSlots(disk, p, b) = {} /\ Len(disk.recs) = n /\ disk.dropped.recs = {} /\ mem.end = n
    BY <1>6 DEF Settled, Still, SlotsOut, p, b, n
  <2>2. Older(disk.slots[Other(p)], b)
    BY <1>1, <2>1
  <2>3. /\ d \in Disks /\ Grounded(d, p, b, n, g) /\ NewSlots(d, p, b) = {} /\ ~NewRecord(d, n)
        /\ d.slots = disk.slots /\ d.recs = disk.recs /\ d.dropped = disk.dropped /\ d.behind = disk.behind
        /\ Covered(d, n) = Covered(disk, n)
    BY <1>1, <2>1, <2>2, CleanSynced
  <2>4. Base(m) = b /\ Spare(m) = o /\ SlotsOut(d, m) = {} /\ ~RecordOut(d, m)
        /\ Held(d, m) = Held(disk, mem)
    BY <1>1, <1>5, <2>1, <2>3 DEF Held, b, n
  <2>5. Standing(d, m)
    BY <1>1, <1>3, <2>1, <2>3, <2>4 DEF Standing, g
  <2>6. Settled(d, m)
    BY <1>3, <1>4, <2>1, <2>3, <2>4 DEF Settled, Still
  <2>7. ~Appended(disk, mem) /\ ~Rewritten(disk, mem)
    BY <1>1, <2>1 DEF Appended, Rewritten, n, o, p
  <2>8. Indexed(disk, mem) => Indexed(d, m)
    BY <1>3, <2>1, <2>3 DEF Indexed, n
  <2> QED BY <1>3, <1>4, <2>3, <2>4, <2>5, <2>6, <2>7, <2>8 DEF b
<1>7. CASE Appended(disk, mem)
  <2>1. /\ mem.slots = mem.durableSlots /\ mem.active = p /\ disk.slots = mem.durableSlots
        /\ NewSlots(disk, p, b) = {} /\ Len(disk.recs) = n + 1 /\ disk.dropped.recs = {} /\ mem.end = n + 1
        /\ NewRecord(disk, n)
    BY <1>7 DEF Appended, SlotsOut, RecordOut, p, b, n
  <2>2. Older(disk.slots[Other(p)], b)
    BY <1>1, <2>1
  <2>3. /\ d \in Disks /\ Grounded(d, p, b, n + 1, g) /\ NewSlots(d, p, b) = {} /\ ~NewRecord(d, n + 1)
        /\ d.slots = disk.slots /\ d.recs = disk.recs /\ d.dropped = disk.dropped /\ d.behind = disk.behind
        /\ disk.recs[n + 1] \in Records /\ Newer(disk.recs[n + 1], disk, b, n)
        /\ Covered(d, n + 1) = Append(Covered(disk, n), disk.recs[n + 1])
    BY <1>1, <2>1, <2>2, RecordSynced
  <2>4. Base(m) = b /\ Spare(m) = o /\ SlotsOut(d, m) = {} /\ ~RecordOut(d, m)
    BY <1>1, <1>5, <2>1, <2>3
  <2>5. Standing(d, m)
    BY <1>1, <1>3, <2>1, <2>3, <2>4 DEF Standing, g
  <2>6. Settled(d, m)
    BY <1>3, <1>4, <2>1, <2>3, <2>4 DEF Settled, Still
  <2>7. Covered(d, n + 1) = disk.recs
    <3>1. n + 1 = Len(d.recs) /\ d.recs \in Seq(Records \union {Bad}) /\ n + 1 \in 0 .. Len(d.recs)
      BY <1>1, <2>1, <2>3, DiskParts
    <3>2. First(d.recs, n + 1) = SubSeq(d.recs, 1, Len(d.recs))
      BY <3>1, FirstIs
    <3> QED BY <2>3, <3>1, <3>2, SubSeqFull DEF Covered
  <2>8. Held(d, m) = Told(b, disk.recs)
    BY <1>5, <2>1, <2>4, <2>7
  <2>9. \A k \in Seqs : LastOf(Covered(d, n + 1), k) =
           IF k = disk.recs[n + 1].seq THEN n + 1 ELSE LastOf(Covered(disk, n), k)
    <3>1. disk.recs[n + 1].gen > b.gen /\ \A i \in 1 .. Len(Covered(disk, n)) : disk.recs[n + 1].gen > Covered(disk, n)[i].gen
      BY <1>1, <2>3 DEF Newer
    <3>2. PICK rec \in Records : rec = disk.recs[n + 1]
      BY <2>3
    <3>3. PICK recs \in Seq(Records) : recs = Covered(disk, n)
      BY <1>1
    <3>4. \A k \in Seqs : LastOf(Append(recs, rec), k) = IF k = rec.seq THEN Len(recs) + 1 ELSE LastOf(recs, k)
      <4>1. rec.gen > b.gen /\ \A i \in 1 .. Len(recs) : rec.gen > recs[i].gen
        BY <3>1, <3>2, <3>3
      <4> QED BY <1>1, <4>1, ToldAppend
    <3>5. Covered(d, n + 1) = Append(recs, rec) /\ Len(recs) = n
      BY <1>1, <2>3, <3>2, <3>3
    <3> QED BY <3>2, <3>3, <3>4, <3>5, Zenon
  <2>10. ~Settled(disk, mem) /\ ~Rewritten(disk, mem)
    BY <1>1, <2>1 DEF Settled, Rewritten, n
  <2> QED BY <1>3, <1>4, <2>1, <2>3, <2>4, <2>5, <2>6, <2>8, <2>9, <2>10 DEF b, n
<1>8. CASE Rewritten(disk, mem)
  <2> DEFINE x == disk.slots[o]
  <2>1. /\ mem.active = o /\ mem.slots = disk.slots /\ x \in NewSlots(disk, p, b)
        /\ Len(disk.recs) = n /\ disk.dropped.recs = {} /\ mem.end = n /\ o \notin disk.dropped.slots
    BY <1>8 DEF Rewritten, SlotsOut, p, b, n, o
  <2>2. /\ d \in Disks /\ Grounded(d, o, x, n, g) /\ NewSlots(d, o, x) = {} /\ ~NewRecord(d, n)
        /\ d.slots = disk.slots /\ d.recs = disk.recs /\ d.dropped = disk.dropped /\ d.behind = disk.behind
        /\ Covered(d, n) = Covered(disk, n) /\ Older(b, x) /\ x \in Slots
    <3>1. Other(p) = o
      BY <1>1
    <3>2. /\ disk.dropped.recs = {} /\ Other(p) \notin disk.dropped.slots
          /\ disk.slots[Other(p)] \in NewSlots(disk, p, b) /\ x = disk.slots[Other(p)]
      BY <2>1, <3>1
    <3> HIDE DEF x
    <3>3. /\ Synced(disk) \in Disks
          /\ Grounded(Synced(disk), Other(p), disk.slots[Other(p)], n, g)
          /\ NewSlots(Synced(disk), Other(p), disk.slots[Other(p)]) = {} /\ ~NewRecord(Synced(disk), n)
          /\ Synced(disk).slots = disk.slots /\ Synced(disk).recs = disk.recs
          /\ Synced(disk).dropped = disk.dropped /\ Synced(disk).behind = disk.behind
          /\ Covered(Synced(disk), n) = Covered(disk, n)
          /\ Older(b, disk.slots[Other(p)]) /\ disk.slots[Other(p)] \in Slots
          /\ disk.dropped.slots = {}
      <4>1. Grounded(disk, p, b, n, g) /\ Len(disk.recs) = n /\ disk \in Disks
        BY <1>1, <2>1
      <4> QED BY ONLY <3>2, <4>1, SlotSynced
    <3> QED BY <3>1, <3>2, <3>3
  <2>3. Base(m) = x /\ Spare(m) = p /\ SlotsOut(d, m) = {} /\ ~RecordOut(d, m)
        /\ Held(d, m) = Told(x, Covered(disk, n)) /\ mem.slots[o] = x
    <3>1. Other(o) = p
      BY <1>1, TwoPositions
    <3> QED BY <1>5, <2>1, <2>2, <3>1
  <2>4. Standing(d, m)
    BY <1>1, <1>3, <2>1, <2>2, <2>3 DEF Standing, g
  <2>5. Settled(d, m)
    BY <1>3, <1>4, <2>1, <2>2, <2>3 DEF Settled, Still
  <2>6. ~Settled(disk, mem) /\ ~Appended(disk, mem)
    BY <1>1, <2>1 DEF Settled, Still, Appended, o, p
  <2>7. Indexed(disk, mem) => Indexed(d, m)
    BY <1>3, <2>1, <2>2 DEF Indexed, n
  <2> QED BY <1>3, <1>4, <2>1, <2>2, <2>3, <2>4, <2>5, <2>6, <2>7 DEF n, o
<1> QED BY <1>6, <1>7, <1>8

LEMMA MarkingIs ==
    ASSUME NEW m \in Mems, NEW c \in Calls, c.op = "mark", NEW k, k = Marking(m, c)
    PROVE  /\ k \in Mems /\ Alike(m, k) /\ k.gen = m.gen /\ k.pending = m.pending
           /\ k.pc \in {"answer", "mark"} /\ k.durable = m.durable /\ k.durableEnd = m.durableEnd
           /\ k.pc = "answer" => /\ k.owed = m.owed /\ k.owed = c.owed
                                 /\ \A p \in Positions : m.slots[p].owed = c.owed
           /\ k.pc = "mark" => k.left = 2 /\ k.was = m.owed /\ k.owed = c.owed
<1>1. c.owed \in BOOLEAN /\ m.owed \in BOOLEAN
  BY CallsAre, MemParts
<1>2. CASE m.owed = c.owed /\ \A p \in Positions : m.slots[p] # Bad /\ m.slots[p].owed = c.owed
  <2>1. k = [m EXCEPT !.pc = "answer"] /\ "answer" \in Stages
    BY <1>2 DEF Marking, Stages
  <2> QED BY <1>2, <2>1, StageIs
<1>3. CASE ~(m.owed = c.owed /\ \A p \in Positions : m.slots[p] # Bad /\ m.slots[p].owed = c.owed)
  <2>1. k = [m EXCEPT !.pc = "mark", !.left = 2, !.was = m.owed, !.owed = c.owed] /\ "mark" \in Stages
    BY <1>3 DEF Marking, Stages
  <2>2. PICK was \in BOOLEAN, owed \in BOOLEAN : was = m.owed /\ owed = c.owed
    BY <1>1
  <2>3. k = [m EXCEPT !.pc = "mark", !.left = 2, !.was = was, !.owed = owed]
    BY <2>1, <2>2
  <2>4. k \in Mems
    BY <2>1, <2>3 DEF Mems
  <2>5. k.pc = "mark" /\ k.left = 2 /\ k.was = was /\ k.owed = owed
    BY <2>3 DEF Mems
  <2>6. /\ k.gen = m.gen /\ k.pending = m.pending
        /\ k.durable = m.durable /\ k.durableSlots = m.durableSlots /\ k.durableEnd = m.durableEnd
        /\ k.slots = m.slots /\ k.active = m.active /\ k.end = m.end
        /\ k.index = m.index /\ k.next = m.next /\ k.target = m.target
    BY <2>3 DEF Mems
  <2> QED BY <2>2, <2>4, <2>5, <2>6 DEF Alike, SameBase
<1> QED BY <1>2, <1>3

-----------------------------------------------------------------------------
(* A flush that fails                                                       *)

\* The records, cut back to the last flush or not.
LEMMA CutsAre ==
    ASSUME NEW d \in Disks, NEW p, NEW b, NEW n, NEW g, Grounded(d, p, b, n, g),
           NEW c, c \in {CutTo(SyncFailed(d), n), SyncFailed(d)}
    PROVE  /\ c \in Disks /\ Grounded(c, p, b, n, g)
           /\ NewSlots(c, p, b) = NewSlots(d, p, b) /\ (NewRecord(c, n) <=> NewRecord(d, n))
           /\ c.slots = d.slots /\ c.behind = d.behind /\ c.wrote = d.wrote
           /\ Covered(c, n) = Covered(d, n)
           /\ c.recs = d.recs \/ Len(c.recs) = n
           /\ Len(d.recs) = n => Len(c.recs) = n
<1> DEFINE e == SyncFailed(d)
<1>1. /\ e \in Disks /\ Grounded(e, p, b, n, g) /\ NewSlots(e, p, b) = NewSlots(d, p, b)
      /\ (NewRecord(e, n) <=> NewRecord(d, n)) /\ e.slots = d.slots /\ e.recs = d.recs
      /\ e.behind = d.behind /\ Covered(e, n) = Covered(d, n)
  BY SyncRefused
<1>2. e.wrote = d.wrote
  BY SyncFailedIs
<1> HIDE DEF e
<1>3. CASE c = e
  BY <1>1, <1>2, <1>3
<1>4. CASE c = CutTo(e, n)
  <2>1. /\ n \in Nat /\ n <= Len(e.recs) /\ e.dropped.recs \subseteq n + 1 .. Len(e.recs)
        /\ (e.firm <= n \/ n = Len(e.recs))
    <3>1. /\ n \in Nat /\ Len(e.recs) \in {n, n + 1} /\ e.firm = n
          /\ e.dropped.recs \subseteq n + 1 .. Len(e.recs)
      BY <1>1, GroundedParts
    <3> QED BY <3>1
  <2>2. CutTo(e, n).wrote = e.wrote
    BY <1>1, <2>1, CutToIs
  <2>3. /\ CutTo(e, n) \in Disks /\ Grounded(CutTo(e, n), p, b, n, g)
        /\ NewSlots(CutTo(e, n), p, b) = NewSlots(e, p, b)
        /\ (NewRecord(CutTo(e, n), n) <=> NewRecord(e, n))
        /\ CutTo(e, n).slots = e.slots /\ Len(CutTo(e, n).recs) = n
        /\ CutTo(e, n).behind = e.behind /\ Covered(CutTo(e, n), n) = Covered(e, n)
    BY <1>1, RecordCut
  <2> QED BY <1>1, <1>2, <1>4, <2>2, <2>3
<1> QED BY <1>3, <1>4 DEF e

LEMMA FlushFailsAre ==
    ASSUME every = 1, disk \in Disks, mem \in Mems, Standing(disk, mem),
           Settled(disk, mem) \/ Appended(disk, mem) \/ Rewritten(disk, mem),
           NEW f \in FlushFails
    PROVE  /\ f.disk \in Disks /\ f.mem \in Mems /\ f.disk.behind = disk.behind
           /\ f.disk.wrote = disk.wrote
           /\ SameBase(mem, f.mem)
           /\ f.mem.pc = mem.pc /\ f.mem.index = mem.index /\ f.mem.next = mem.next
           /\ f.mem.target = mem.target /\ f.mem.owed = mem.owed /\ f.mem.left = mem.left
           /\ f.mem.was = mem.was /\ ~f.mem.pending.dir
           /\ Covered(f.disk, mem.durableEnd) = Covered(disk, mem.durableEnd)
           /\ Standing(f.disk, f.mem) /\ Undoable(f.disk, f.mem)
           /\ SlotsOut(f.disk, f.mem) = SlotsOut(disk, mem)
           /\ RecordOut(f.disk, f.mem) <=> RecordOut(disk, mem)
           /\ View(f.disk.slots, f.disk.recs) \in {View(disk.slots, disk.recs), Held(disk, mem)}
<1> DEFINE p == mem.durable
           o == Spare(mem)
           b == Base(mem)
           n == mem.durableEnd
           g == mem.gen
           old == mem.durableSlots[Spare(mem)]
           stale == {q \in Positions : mem.slots[q] # mem.durableSlots[q]}
           cuts == {[faults |-> 0, disk |-> CutTo(SyncFailed(disk), n)], [faults |-> 1, disk |-> SyncFailed(disk)]}
           left == [mem EXCEPT !.pending.cut = n]
           restored == [left EXCEPT !.pending.slots = mem.durableSlots, !.slots = mem.durableSlots,
                                    !.active = Newest(mem.durableSlots),
                                    !.durable = Newest(mem.durableSlots)]
<1>1. /\ p \in Positions /\ o \in Positions /\ o # p /\ Other(p) = o /\ Positions = {p, o}
      /\ Grounded(disk, p, b, n, g) /\ b \in Slots /\ n \in Nat /\ g \in Nat
      /\ mem.slots[p] = b /\ mem.durableSlots[p] = b /\ Older(mem.durableSlots[o], b)
      /\ disk.slots[p] = b /\ old = mem.durableSlots[o]
  BY StandingParts
<1>2. mem.pending = NoPending
  BY DEF Settled, Appended, Rewritten
<1>3. mem.durableSlots \in Pairs /\ old \in Slots \union {Bad} /\ Older(old, b) /\ Older(Bad, b)
  BY <1>1, MemParts DEF Pairs, Older
<1>4. Newest(mem.durableSlots) = p
  BY <1>1, <1>3, NewestIs
<1>5. \/ /\ stale = {} /\ f.mem = left /\ f.disk \in {CutTo(SyncFailed(disk), n), SyncFailed(disk)}
      \/ /\ stale # {} /\ f.mem = restored
         /\ \E c \in {CutTo(SyncFailed(disk), n), SyncFailed(disk)} :
               f.disk \in {PutSlot(c, CHOOSE q \in stale : TRUE, mem.durableSlots[CHOOSE q \in stale : TRUE]),
                           PutSlot(c, CHOOSE q \in stale : TRUE, Bad), c}
  <2>1. CASE stale = {}
    <3>1. FlushFails = {[faults |-> 1 + c.faults, disk |-> c.disk, mem |-> left] : c \in cuts}
      BY <2>1 DEF FlushFails
    <3> HIDE DEF left, stale
    <3>2. PICK c \in cuts : f = [faults |-> 1 + c.faults, disk |-> c.disk, mem |-> left]
      BY <3>1
    <3> QED BY <2>1, <3>2
  <2>2. CASE stale # {}
    <3> DEFINE q == CHOOSE r \in stale : TRUE
    <3>1. FlushFails = {[faults |-> 1 + c.faults, mem |-> restored,
                         disk |-> PutSlot(c.disk, q, mem.durableSlots[q])] : c \in cuts}
                       \union {[faults |-> 2 + c.faults, mem |-> restored,
                                disk |-> IF torn THEN PutSlot(c.disk, q, Bad) ELSE c.disk] :
                                c \in cuts, torn \in BOOLEAN}
      BY <2>2 DEF FlushFails
    <3> HIDE DEF restored, q, stale
    <3>2. ASSUME f \in {[faults |-> 1 + c.faults, mem |-> restored,
                       disk |-> PutSlot(c.disk, q, mem.durableSlots[q])] : c \in cuts}
          PROVE  \E c \in cuts : f.mem = restored /\ f.disk \in {PutSlot(c.disk, q, mem.durableSlots[q]),
                                                                 PutSlot(c.disk, q, Bad), c.disk}
      <4> HIDE DEF cuts
      <4>1. PICK c \in cuts : f = [faults |-> 1 + c.faults, mem |-> restored,
                                   disk |-> PutSlot(c.disk, q, mem.durableSlots[q])]
        BY <3>2
      <4>2. f.mem = restored /\ f.disk = PutSlot(c.disk, q, mem.durableSlots[q])
        BY <4>1
      <4> QED BY <4>2
    <3>3. ASSUME f \in {[faults |-> 2 + c.faults, mem |-> restored,
                       disk |-> IF torn THEN PutSlot(c.disk, q, Bad) ELSE c.disk] : c \in cuts, torn \in BOOLEAN}
          PROVE  \E c \in cuts : f.mem = restored /\ f.disk \in {PutSlot(c.disk, q, mem.durableSlots[q]),
                                                                 PutSlot(c.disk, q, Bad), c.disk}
      <4> HIDE DEF cuts
      <4>1. PICK c \in cuts, torn \in BOOLEAN :
               f = [faults |-> 2 + c.faults, mem |-> restored,
                    disk |-> IF torn THEN PutSlot(c.disk, q, Bad) ELSE c.disk]
        BY <3>3
      <4>2. f.mem = restored /\ f.disk = IF torn THEN PutSlot(c.disk, q, Bad) ELSE c.disk
        BY <4>1
      <4>3. CASE torn
        BY <4>2, <4>3
      <4>4. CASE ~torn
        BY <4>2, <4>4
      <4> QED BY <4>3, <4>4
    <3>5. PICK c \in cuts : f.mem = restored /\ f.disk \in {PutSlot(c.disk, q, mem.durableSlots[q]),
                                                                 PutSlot(c.disk, q, Bad), c.disk}
      <4> HIDE DEF cuts
      <4> QED BY <3>1, <3>2, <3>3
    <3>4. c.disk \in {CutTo(SyncFailed(disk), n), SyncFailed(disk)}
      OBVIOUS
    <3> HIDE DEF cuts
    <3> QED BY <2>2, <3>4, <3>5 DEF q
  <2> QED BY <2>1, <2>2
<1> HIDE DEF p, o, b, n, g, old
<1>6. \/ /\ stale = {} /\ mem.slots = mem.durableSlots /\ mem.active = p
         /\ disk.slots = mem.durableSlots /\ NewSlots(disk, p, b) = {}
      \/ /\ stale = {o} /\ Rewritten(disk, mem) /\ disk.slots[o] \in NewSlots(disk, p, b)
         /\ disk.slots[o] # old /\ Len(disk.recs) = n /\ ~NewRecord(disk, n)
  <2>1. CASE Settled(disk, mem) \/ Appended(disk, mem)
    BY <2>1 DEF Settled, Still, Appended, SlotsOut, p, b
  <2>2. CASE Rewritten(disk, mem)
    <3>1. /\ mem.slots = disk.slots /\ disk.slots[o] \in NewSlots(disk, p, b) /\ Len(disk.recs) = n
          /\ ~NewRecord(disk, n)
      BY <2>2 DEF Rewritten, SlotsOut, RecordOut, p, b, n, o
    <3>2. ~Older(disk.slots[o], b)
      BY <3>1 DEF NewSlots
    <3>3. disk.slots[o] # old
      BY <1>3, <3>2
    <3>4. stale = {o}
      BY <1>1, <3>1, <3>3
    <3> QED BY <2>2, <3>1, <3>3, <3>4
  <2> QED BY <2>1, <2>2
<1>7. stale = {o} => (CHOOSE q \in stale : TRUE) = o
  OBVIOUS
<1>8. \/ /\ stale = {} /\ f.mem = left /\ f.disk \in {CutTo(SyncFailed(disk), n), SyncFailed(disk)}
      \/ /\ stale = {o} /\ f.mem = restored
         /\ \E c \in {CutTo(SyncFailed(disk), n), SyncFailed(disk)} :
               f.disk \in {PutSlot(c, o, old), PutSlot(c, o, Bad), c}
  <2>1. CASE stale = {}
    BY <1>5, <2>1
  <2>2. CASE stale = {o}
    <3>1. f.mem = restored
      BY <1>5, <2>2
    <3>2. PICK c \in {CutTo(SyncFailed(disk), n), SyncFailed(disk)} :
             f.disk \in {PutSlot(c, o, mem.durableSlots[o]), PutSlot(c, o, Bad), c}
      BY <1>5, <1>7, <2>2
    <3> QED BY <1>1, <2>2, <3>1, <3>2
  <2> QED BY <1>6, <2>1, <2>2
<1> HIDE DEF stale
\* The memory.
<1>9. \E pending \in Pendings :
         /\ f.mem = [mem EXCEPT !.slots = mem.durableSlots, !.active = p, !.durable = p, !.pending = pending]
         /\ ~pending.dir /\ pending.cut = n
         /\ pending.slots = IF stale = {} THEN NoSlots ELSE mem.durableSlots
  <2>0. mem \in Mems /\ mem.durable = p /\ mem.durableSlots \in Pairs
    BY <1>3 DEF p
  <2>1. CASE stale = {}
    <3> DEFINE pending == [NoPending EXCEPT !.cut = n]
    <3>1. pending \in Pendings /\ pending.cut = n /\ pending.slots = NoSlots /\ ~pending.dir
      BY <1>1, NoPendingIs DEF Pendings, NoPending
    <3>2. mem.slots = mem.durableSlots /\ mem.active = p /\ f.mem = left
      BY <1>6, <1>8, <2>1
    <3>3. left = [mem EXCEPT !.slots = mem.slots, !.active = mem.active, !.durable = mem.durable, !.pending = pending]
      BY <1>2, <2>0 DEF Mems
    <3> HIDE DEF pending, left
    <3> QED BY <2>0, <2>1, <3>1, <3>2, <3>3
  <2>2. CASE stale # {}
    <3> DEFINE cut == [NoPending EXCEPT !.cut = n]
               pending == [cut EXCEPT !.slots = mem.durableSlots]
    <3>0. cut \in Pendings /\ cut.cut = n /\ ~cut.dir
      BY <1>1, NoPendingIs DEF Pendings
    <3>1. pending \in Pendings /\ pending.cut = n /\ pending.slots = mem.durableSlots /\ ~pending.dir
      <4> HIDE DEF cut
      <4> QED BY <1>3, <3>0 DEF Pendings
    <3>2. f.mem = restored
      BY <1>6, <1>8, <2>2
    <3>3. left = [mem EXCEPT !.pending = [NoPending EXCEPT !.cut = n]]
      BY <1>2, <2>0 DEF Mems
    <3>5. restored = [mem EXCEPT !.slots = mem.durableSlots, !.active = p, !.durable = p,
                                 !.pending = [[NoPending EXCEPT !.cut = n] EXCEPT !.slots = mem.durableSlots]]
      <4> HIDE DEF left
      <4> QED BY <1>4, <2>0, <3>3 DEF Mems
    <3>6. restored = [mem EXCEPT !.slots = mem.durableSlots, !.active = p, !.durable = p, !.pending = pending]
      <4> HIDE DEF restored, left
      <4> QED BY <3>5
    <3> HIDE DEF pending, restored, left
    <3> QED BY <2>2, <3>1, <3>2, <3>6
  <2> QED BY <2>1, <2>2
<1>10. PICK pending \in Pendings :
         /\ f.mem = [mem EXCEPT !.slots = mem.durableSlots, !.active = p, !.durable = p, !.pending = pending]
         /\ ~pending.dir /\ pending.cut = n
         /\ pending.slots = IF stale = {} THEN NoSlots ELSE mem.durableSlots
  BY <1>9
<1> HIDE DEF left, restored
<1>11. /\ f.mem \in Mems /\ f.mem.gen = g /\ f.mem.slots = mem.durableSlots /\ f.mem.active = p
       /\ f.mem.pending = pending /\ f.mem.durable = p
       /\ f.mem.durableSlots = mem.durableSlots /\ f.mem.durableEnd = n
       /\ f.mem.end = mem.end /\ f.mem.pc = mem.pc /\ f.mem.index = mem.index /\ f.mem.next = mem.next
       /\ f.mem.target = mem.target /\ f.mem.owed = mem.owed /\ f.mem.left = mem.left
       /\ f.mem.was = mem.was
  <2>1. mem \in Mems /\ mem.durableSlots \in Pairs /\ p \in Positions
    BY <1>1, <1>3
  <2> QED BY <1>10, <2>1 DEF Mems, g, n
<1>12. SameBase(mem, f.mem)
  BY <1>11 DEF SameBase, p, n
\* The disk.
<1>13. PICK c \in {CutTo(SyncFailed(disk), n), SyncFailed(disk)} :
          \/ stale = {} /\ f.disk = c
          \/ stale = {o} /\ f.disk \in {PutSlot(c, o, old), PutSlot(c, o, Bad), c}
  BY <1>8
<1>14. /\ c \in Disks /\ Grounded(c, p, b, n, g)
       /\ NewSlots(c, p, b) = NewSlots(disk, p, b) /\ (NewRecord(c, n) <=> NewRecord(disk, n))
       /\ c.slots = disk.slots /\ c.behind = disk.behind /\ c.wrote = disk.wrote
       /\ Covered(c, n) = Covered(disk, n)
       /\ c.recs = disk.recs \/ Len(c.recs) = n
       /\ Len(disk.recs) = n => Len(c.recs) = n
  BY <1>1, CutsAre
<1>15. ASSUME NEW image \in {old, Bad}
       PROVE  /\ PutSlot(c, o, image) \in Disks /\ Grounded(PutSlot(c, o, image), p, b, n, g)
              /\ NewSlots(PutSlot(c, o, image), p, b) = NewSlots(c, p, b)
              /\ (NewRecord(PutSlot(c, o, image), n) <=> NewRecord(c, n))
              /\ PutSlot(c, o, image).slots[o] = image /\ PutSlot(c, o, image).behind = c.behind
              /\ PutSlot(c, o, image).wrote = c.wrote /\ PutSlot(c, o, image).recs = c.recs
              /\ o \notin PutSlot(c, o, image).dropped.slots
              /\ Covered(PutSlot(c, o, image), n) = Covered(c, n)
  <2>0. image \in Slots \union {Bad} /\ Older(image, b)
    BY <1>3
  <2>1. /\ PutSlot(c, o, image) \in Disks /\ PutSlot(c, o, image).behind = c.behind
        /\ PutSlot(c, o, image).wrote = c.wrote /\ PutSlot(c, o, image).recs = c.recs
    BY <1>1, <1>14, <2>0, PutSlotIs
  <2>2. Grounded(PutSlot(c, o, image), p, b, n, g)
    BY <1>1, <1>14, <2>0, SlotBack
  <2>3. /\ NewSlots(PutSlot(c, o, image), p, b) = NewSlots(c, p, b)
        /\ (NewRecord(PutSlot(c, o, image), n) <=> NewRecord(c, n))
        /\ PutSlot(c, o, image).slots[o] = image
        /\ o \notin PutSlot(c, o, image).dropped.slots
        /\ Covered(PutSlot(c, o, image), n) = Covered(c, n)
    BY <1>1, <1>14, <2>0, SlotPut
  <2> QED BY <2>1, <2>2, <2>3
<1>16. /\ f.disk \in Disks /\ Grounded(f.disk, p, b, n, g)
       /\ NewSlots(f.disk, p, b) = NewSlots(disk, p, b) /\ (NewRecord(f.disk, n) <=> NewRecord(disk, n))
       /\ f.disk.behind = disk.behind /\ f.disk.wrote = disk.wrote
       /\ Covered(f.disk, n) = Covered(disk, n)
       /\ f.disk.recs = c.recs
       /\ \/ f.disk.slots = disk.slots
          \/ o \notin f.disk.dropped.slots /\ stale = {o} /\ Older(f.disk.slots[o], b)
  <2>1. CASE f.disk = c
    BY <1>14, <2>1
  <2>2. CASE stale = {o} /\ \E image \in {old, Bad} : f.disk = PutSlot(c, o, image)
    <3>1. PICK image \in {old, Bad} : f.disk = PutSlot(c, o, image)
      BY <2>2
    <3>2. Older(image, b)
      BY <1>3
    <3> QED BY <1>14, <1>15, <2>2, <3>1, <3>2
  <2> QED BY <1>13, <2>1, <2>2
<1>17. f.mem.slots[p] = b
  BY <1>1, <1>11
<1>18. /\ Standing(f.disk, f.mem) /\ (RecordOut(f.disk, f.mem) <=> NewRecord(f.disk, n))
       /\ SlotsOut(f.disk, f.mem) = NewSlots(f.disk, p, b) /\ Spare(f.mem) = o /\ Base(f.mem) = b
       /\ Held(f.disk, f.mem) = Held(disk, mem)
  BY <1>11, <1>12, <1>16, <1>17, Transfer DEF p, b, n, o, g
<1>19. SlotsOut(f.disk, f.mem) = SlotsOut(disk, mem) /\ (RecordOut(f.disk, f.mem) <=> RecordOut(disk, mem))
  BY <1>16, <1>18 DEF SlotsOut, RecordOut, p, b, n
<1>20. f.mem.pending.slots # NoSlots <=> stale = {o}
  BY <1>3, <1>6, <1>10, <1>11, NoPendingIs
<1>21. Undoable(f.disk, f.mem)
  <2>1. CASE stale = {}
    <3>1. f.disk.slots = mem.durableSlots /\ NewSlots(f.disk, p, b) = {}
      BY <1>6, <1>16, <2>1
    <3>2. f.mem.pending.slots = NoSlots
      BY <1>10, <1>11, <2>1
    <3>3. f.mem.pending.cut = n /\ n # NoCut /\ f.mem.durableEnd = n
      BY <1>1, <1>10, <1>11, NoPendingIs
    <3>4. /\ f.mem.slots = f.mem.durableSlots /\ f.mem.active = f.mem.durable /\ f.mem.durableSlots = mem.durableSlots
          /\ SlotsOut(f.disk, f.mem) = {}
      BY <1>11, <1>18, <3>1
    <3>5. ~f.mem.pending.dir
      BY <1>10, <1>11
    <3> QED BY ONLY <3>1, <3>2, <3>3, <3>4, <3>5 DEF Undoable
  <2>2. CASE stale = {o}
    <3>1. f.mem.pending.slots = mem.durableSlots /\ f.mem.pending.slots # NoSlots
      BY <1>10, <1>11, <1>20, <2>2
    <3>2. o \in f.disk.dropped.slots => f.disk.slots # mem.durableSlots
      BY <1>1, <1>6, <1>16, <2>2
    <3>3. f.mem.pending.cut = n /\ n # NoCut /\ f.mem.durableEnd = n
      BY <1>1, <1>10, <1>11, NoPendingIs
    <3>4. f.mem.slots = f.mem.durableSlots /\ f.mem.active = f.mem.durable /\ f.mem.durableSlots = mem.durableSlots
      BY <1>11
    <3>5. Spare(f.mem) \in f.disk.dropped.slots => f.disk.slots # f.mem.durableSlots
      BY <1>18, <3>2, <3>4
    <3>6. ~f.mem.pending.dir
      BY <1>10, <1>11
    <3> QED BY ONLY <3>1, <3>3, <3>4, <3>5, <3>6 DEF Undoable
  <2> QED BY <1>6, <2>1, <2>2
<1>22. View(f.disk.slots, f.disk.recs) \in {View(disk.slots, disk.recs), Held(disk, mem)}
  <2>1. CASE f.disk.slots = disk.slots /\ f.disk.recs = disk.recs
    BY <2>1
  <2>2. CASE f.disk.slots = disk.slots /\ stale = {} /\ Len(f.disk.recs) = n
    <3>1. Older(f.disk.slots[Spare(f.mem)], Base(f.mem)) /\ Len(f.disk.recs) = f.mem.durableEnd
      BY <1>1, <1>3, <1>6, <1>11, <1>18, <2>2
    <3>2. View(f.disk.slots, f.disk.recs) = Held(f.disk, f.mem)
      BY <1>11, <1>16, <1>18, <3>1, ViewIs
    <3> QED BY <1>18, <3>2
  <2>3. CASE f.disk.slots = disk.slots /\ stale = {o}
    <3>1. f.disk.slots[Spare(f.mem)] \in SlotsOut(f.disk, f.mem) /\ disk.slots[Spare(mem)] \in SlotsOut(disk, mem)
      BY <1>6, <1>16, <1>18, <1>19, <2>3 DEF o
    <3>2. View(f.disk.slots, f.disk.recs) = Told(f.disk.slots[Spare(f.mem)], Covered(f.disk, f.mem.durableEnd))
      BY <1>11, <1>16, <1>18, <3>1, ViewIs
    <3>3. View(disk.slots, disk.recs) = Told(disk.slots[Spare(mem)], Covered(disk, mem.durableEnd))
      BY <3>1, ViewIs
    <3> QED BY <1>11, <1>16, <1>18, <2>3, <3>2, <3>3 DEF n, o
  <2>4. CASE stale = {o} /\ Older(f.disk.slots[o], b)
    <3>1. Len(f.disk.recs) = n
      BY <1>6, <1>14, <1>16, <2>4
    <3>2. Older(f.disk.slots[Spare(f.mem)], Base(f.mem)) /\ Len(f.disk.recs) = f.mem.durableEnd
      BY <1>11, <1>18, <2>4, <3>1
    <3>3. View(f.disk.slots, f.disk.recs) = Held(f.disk, f.mem)
      BY <1>11, <1>16, <1>18, <3>2, ViewIs
    <3> QED BY <1>18, <3>3
  <2> QED BY <1>6, <1>14, <1>16, <2>1, <2>2, <2>3, <2>4
<1> QED BY <1>10, <1>11, <1>12, <1>16, <1>18, <1>19, <1>21, <1>22 DEF n

\* A call whose flush failed returns: what no flush had covered is pending.
LEMMA FlushBackKeeps ==
    ASSUME IInv, mem.pc \in {"after", "sync", "marked", "reflush"}, NEW f \in FlushFails,
           disk' = f.disk, FlushFailsAfter(f.faults),
           mem' \in Mems, Alike(f.mem, mem'), mem'.gen = f.mem.gen, mem'.pending = f.mem.pending,
           mem'.pc = "idle", Base(mem).owed => mem'.owed,
           {mem'.owed, Base(mem).owed} \subseteq
               IF call.op = "mark" THEN BOOLEAN ELSE flushed.owed \union acked.owed
    PROVE  IInv' /\ Promise!PromiseNext
<1> DEFINE held == Held(disk, mem)
           last == Promise!Unsure(call, Promise!Undone)
<1>1. mem.pc # "closed" /\ mem.pc # "idle" /\ mem.pc # "renamed"
  OBVIOUS
<1>2. /\ Shape /\ every = 1 /\ disk \in Disks /\ mem \in Mems /\ acked \in Stores /\ flushed \in Stores
      /\ ByCall(mem, call) /\ Carries(disk, mem, call, acked, flushed, Views, Outcome)
      /\ call # Promise!NoCall /\ call \in Calls
      /\ kept = View(disk.slots, disk.recs) /\ kept \in Tellings
      /\ (disk.behind # {} => mem.pending.dir)
  BY <1>1, OpenParts
<1>3. /\ Standing(disk, mem) /\ Survives(disk, mem, Views) /\ Indexed(disk, mem)
      /\ ByStage(disk, mem, call) /\ Tells(disk, mem, acked, flushed)
  BY <1>2 DEF Carries
<1>4. Settled(disk, mem) \/ Appended(disk, mem) \/ Rewritten(disk, mem)
  BY <1>3 DEF ByStage
<1>5. mem.pending = NoPending /\ ~mem.pending.dir /\ disk.behind = {}
  <2>1. mem.pending = NoPending
    BY <1>4 DEF Settled, Appended, Rewritten
  <2> QED BY <1>2, <2>1, NoPendingIs
<1>6. /\ Agrees(acked, held) /\ mem.next = acked.next /\ mem.target = acked.target
      /\ Admits(flushed, held)
  BY <1>1, <1>3, <1>5 DEF Tells
<1>7. /\ f.disk \in Disks /\ f.mem \in Mems /\ f.disk.behind = {}
      /\ f.disk.wrote = disk.wrote
      /\ SameBase(mem, f.mem)
      /\ f.mem.index = mem.index /\ f.mem.next = mem.next
      /\ f.mem.target = mem.target /\ ~f.mem.pending.dir
      /\ Covered(f.disk, mem.durableEnd) = Covered(disk, mem.durableEnd)
      /\ Standing(f.disk, f.mem) /\ Undoable(f.disk, f.mem)
      /\ SlotsOut(f.disk, f.mem) = SlotsOut(disk, mem)
      /\ RecordOut(f.disk, f.mem) <=> RecordOut(disk, mem)
      /\ View(f.disk.slots, f.disk.recs) \in {View(disk.slots, disk.recs), held}
  BY <1>2, <1>3, <1>4, <1>5, FlushFailsAre
<1>8. /\ Base(f.mem) = Base(mem) /\ Held(f.disk, f.mem) = held /\ Indexed(f.disk, f.mem)
  BY <1>3, <1>7, Transfer
<1> HIDE DEF held
<1>9. /\ Base(mem') = Base(mem) /\ Held(disk', mem') = held
      /\ SlotsOut(disk', mem') = SlotsOut(disk, mem)
      /\ (RecordOut(disk', mem') <=> RecordOut(disk, mem))
      /\ Standing(disk', mem') /\ Undoable(disk', mem') /\ Indexed(disk', mem')
      /\ SameBase(f.mem, mem') /\ mem'.next = mem.next /\ mem'.target = mem.target
      /\ ~mem'.pending.dir
  <2>1. /\ Base(mem') = Base(f.mem) /\ Held(f.disk, mem') = Held(f.disk, f.mem)
        /\ SlotsOut(f.disk, mem') = SlotsOut(f.disk, f.mem)
        /\ (RecordOut(f.disk, mem') <=> RecordOut(f.disk, f.mem))
        /\ Standing(f.disk, f.mem) => Standing(f.disk, mem')
        /\ Undoable(f.disk, f.mem) => Undoable(f.disk, mem')
        /\ Indexed(f.disk, f.mem) => Indexed(f.disk, mem')
        /\ SameBase(f.mem, mem')
    BY AlikeIs
  <2>2. mem'.next = mem.next /\ mem'.target = mem.target
    BY <1>7 DEF Alike
  <2> QED BY <1>7, <1>8, <2>1, <2>2
<1>10. UNCHANGED every /\ kept' = View(disk'.slots, disk'.recs)
  BY DEF FlushFailsAfter, Returns, Keeping
<1>11. kept' \in Tellings /\ Kept({acked, flushed, Outcome})
  <2>1. held \in Tellings
    BY <1>2, <1>3, StandingParts DEF held
  <2>2. CASE kept' = kept
    BY <1>2, <2>2 DEF Kept
  <2>3. CASE kept' = held
    BY <1>6, <2>1, <2>3 DEF Kept, Promised
  <2> QED BY <1>2, <1>7, <1>10, <2>2, <2>3
<1>12. /\ Shape' /\ Promise!PromiseNext
       /\ call' = Promise!NoCall /\ acked' = last /\ flushed' = flushed /\ Views' = Views
  BY <1>2, <1>7, <1>11, FlushFailShape DEF Lands
<1>13. /\ last.next = flushed.next /\ last.target = flushed.target /\ last.filed = flushed.filed
       /\ {mem'.owed, Base(mem).owed} \subseteq last.owed
  <2>1. /\ Promise!Undone \in Stores /\ Promise!Undone.next = flushed.next
        /\ Promise!Undone.target = flushed.target /\ Promise!Undone.filed = flushed.filed
        /\ Promise!Undone.owed = flushed.owed \union acked.owed
    BY <1>2, UndoneIs
  <2>2. /\ last.next = Promise!Undone.next /\ last.target = Promise!Undone.target
        /\ last.filed = Promise!Undone.filed
        /\ call.op = "mark" => last.owed = BOOLEAN
        /\ call.op # "mark" => last = Promise!Undone
    BY <2>1, UnsureIs
  <2> HIDE DEF last
  <2> QED BY <2>1, <2>2
<1> HIDE DEF last
<1>14. Survives(disk', mem', Views')
  <2>1. SameBase(mem, mem') /\ Covered(disk', mem.durableEnd) = Covered(disk, mem.durableEnd)
    BY <1>7, <1>9 DEF SameBase
  <2> QED BY <1>3, <1>7, <1>9, <1>12, <2>1, SurvivesAgain
<1>15. ByStage(disk', mem', call')
  BY <1>9 DEF ByStage
<1>16. Tells(disk', mem', last, flushed)
  BY <1>6, <1>9, <1>13 DEF Tells, Agrees, Admits
<1>17. Marker(mem', call', last)
  BY <1>9, <1>13 DEF Marker, InMark, FailedMark
<1>18. Becomes(disk', mem', call', Outcome')
  BY DEF Becomes
<1>19. Carries(disk', mem', call', acked', flushed', Views', Outcome')
  BY <1>9, <1>12, <1>14, <1>15, <1>16, <1>17, <1>18 DEF Carries
<1>20. ByCall(mem', call') /\ Behind(disk', mem', Views')
  <2>1. mem' # Closed
    BY OpenIs
  <2> QED BY <1>7, <1>12, <2>1 DEF ByCall, Behind
<1> QED BY <1>10, <1>12, <1>19, <1>20, OpenAgain

\* A call returns Ok with everything flushed.
LEMMA DoneKeeps ==
    ASSUME IInv, mem.pc \notin {"closed", "idle"}, Returns(0, Outcome), Durable,
           disk' \in Disks, mem' \in Mems, Standing(disk', mem'), Settled(disk', mem'),
           mem'.pc = "idle", Admits(Outcome, Held(disk', mem')),
           mem'.next = Outcome.next, mem'.target = Outcome.target, Indexed(disk', mem'),
           mem'.owed \in Outcome.owed, Base(mem').owed => mem'.owed, disk'.behind = {}
    PROVE  IInv' /\ Promise!PromiseNext
<1>1. Shape /\ every = 1 /\ call # Promise!NoCall
  BY OpenParts
<1>2. UNCHANGED every /\ kept' = View(disk'.slots, disk'.recs)
  BY DEF Returns, Keeping
<1>3. /\ SlotsOut(disk', mem') = {} /\ ~RecordOut(disk', mem') /\ mem'.pending = NoPending
      /\ Undoable(disk', mem')
      /\ kept' = Held(disk', mem') /\ kept' \in Tellings
      /\ \A S : Promised(Held(disk', mem'), S) => Survives(disk', mem', S)
  BY <1>1, <1>2, SettledIs
<1>4. /\ Shape' /\ Promise!PromiseNext
      /\ call' = Promise!NoCall /\ acked' = Outcome /\ flushed' = Outcome /\ Views' = {Outcome}
  BY <1>1, <1>3, SucceedShape DEF Lands
<1>5. Survives(disk', mem', Views')
  BY <1>3, <1>4 DEF Promised
<1>6. ByStage(disk', mem', call')
  BY <1>3 DEF ByStage
<1>7. Tells(disk', mem', Outcome, Outcome)
  BY DEF Tells, Admits
<1>8. Marker(mem', call', Outcome)
  <2>1. Held(disk', mem').owed = Base(mem').owed
    BY StandingParts
  <2> QED BY <2>1 DEF Marker, InMark, FailedMark, Admits
<1>9. Becomes(disk', mem', call', Outcome')
  BY DEF Becomes
<1>10. Carries(disk', mem', call', acked', flushed', Views', Outcome')
  BY <1>4, <1>5, <1>6, <1>7, <1>8, <1>9 DEF Carries
<1>11. ByCall(mem', call') /\ Behind(disk', mem', Views')
  <2>1. mem' # Closed
    BY OpenIs
  <2> QED BY <1>4, <2>1 DEF ByCall, Behind
<1> QED BY <1>2, <1>4, <1>10, <1>11, OpenAgain

LEMMA PublishedIs ==
    ASSUME call \in Calls, NEW d, NEW m \in Mems, NEW k, k = Published(m)
    PROVE  /\ k \in Mems /\ k.pc = "idle" /\ SameBase(m, k)
           /\ k.slots = m.slots /\ k.active = m.active /\ k.gen = m.gen /\ k.pending = m.pending
           /\ k.end = m.end /\ k.owed = m.owed
           /\ Base(k) = Base(m) /\ Held(d, k) = Held(d, m)
           /\ Standing(d, m) => Standing(d, k)
           /\ Settled(d, m) => Settled(d, k)
           /\ k.next = (IF call.op = "file" THEN call.seq + 1 ELSE IF call.op = "sender" THEN call.next ELSE m.next)
           /\ k.target = (IF call.op = "target" THEN call.target ELSE m.target)
           /\ k.index = (IF call.op = "file" THEN [m.index EXCEPT ![call.seq] = m.end] ELSE m.index)
<1> DEFINE next == IF call.op = "file" THEN call.seq + 1 ELSE IF call.op = "sender" THEN call.next ELSE m.next
           target == IF call.op = "target" THEN call.target ELSE m.target
           index == IF call.op = "file" THEN [m.index EXCEPT ![call.seq] = m.end] ELSE m.index
<1>1. m.next \in Numbers /\ m.target \in Targets /\ m.index \in [Seqs -> Nat] /\ m.end \in Nat
  BY MemParts
<1>2. next \in Numbers /\ target \in Targets /\ index \in [Seqs -> Nat] /\ "idle" \in Stages
  BY <1>1, CallsAre, Constants DEF Stages
<1>3. k = [m EXCEPT !.pc = "idle", !.next = next, !.target = target, !.index = index]
  <2>1. CASE call.op = "file"
    BY <2>1 DEF Published, Mems
  <2>2. CASE call.op = "sender"
    BY <2>2 DEF Published, Mems
  <2>3. CASE call.op = "target"
    BY <2>3 DEF Published, Mems
  <2>4. CASE call.op \notin {"file", "sender", "target"}
    BY <2>4 DEF Published, Mems
  <2> QED BY <2>1, <2>2, <2>3, <2>4
<1> HIDE DEF next, target, index
<1>4. /\ k \in Mems /\ k.pc = "idle" /\ k.next = next /\ k.target = target /\ k.index = index
      /\ k.durable = m.durable /\ k.durableSlots = m.durableSlots /\ k.durableEnd = m.durableEnd
      /\ k.slots = m.slots /\ k.active = m.active /\ k.gen = m.gen /\ k.pending = m.pending
      /\ k.end = m.end /\ k.owed = m.owed
  BY <1>2, <1>3 DEF Mems
<1>5. SameBase(m, k)
  BY <1>4 DEF SameBase
<1>6. /\ Base(k) = Base(m) /\ Spare(k) = Spare(m)
      /\ Held(d, k) = Held(d, m) /\ SlotsOut(d, k) = SlotsOut(d, m)
      /\ RecordOut(d, k) <=> RecordOut(d, m)
  BY <1>5, BaseIs
<1>7. Standing(d, m) => Standing(d, k)
  BY <1>4, <1>6 DEF Standing
<1>8. Settled(d, m) => Settled(d, k)
  BY <1>4, <1>6 DEF Settled, Still
<1> QED BY <1>4, <1>5, <1>6, <1>7, <1>8 DEF next, target, index

\* What a write has become once its flush succeeded and its call returned.
LEMMA WrittenKeeps ==
    ASSUME IInv, mem.pc \in {"after", "sync"}, disk' = Synced(disk), mem' = Published(Flushed),
           Returns(0, Outcome), Durable
    PROVE  IInv' /\ Promise!PromiseNext
<1> DEFINE m == Flushed
           held == Held(disk, mem)
<1>1. mem.pc # "closed" /\ mem.pc # "idle" /\ mem.pc # "renamed"
  OBVIOUS
<1>2. /\ Shape /\ every = 1 /\ disk \in Disks /\ mem \in Mems /\ acked \in Stores /\ flushed \in Stores
      /\ ByCall(mem, call) /\ Carries(disk, mem, call, acked, flushed, Views, Outcome)
      /\ call # Promise!NoCall /\ call \in Calls
      /\ (disk.behind # {} => mem.pending.dir)
  BY <1>1, OpenParts
<1>3. /\ Standing(disk, mem) /\ Indexed(disk, mem) /\ ByStage(disk, mem, call)
      /\ Tells(disk, mem, acked, flushed) /\ Marker(mem, call, acked)
      /\ Becomes(disk, mem, call, Outcome)
  BY <1>2 DEF Carries
<1>4. \/ Settled(disk, mem) /\ call.op = "sync"
      \/ Appended(disk, mem) /\ call.op = "file"
      \/ Rewritten(disk, mem) /\ call.op \in {"sender", "target"}
  BY <1>2, <1>3 DEF ByStage, ByCall
<1>5. mem.pending = NoPending /\ disk.behind = {}
  <2>1. mem.pending = NoPending
    BY <1>4 DEF Settled, Appended, Rewritten
  <2> QED BY <1>2, <2>1, NoPendingIs
<1>6. /\ Agrees(acked, held) /\ mem.next = acked.next /\ mem.target = acked.target
      /\ Admits(flushed, held)
  BY <1>1, <1>3, <1>5, NoPendingIs DEF Tells
<1>7. mem.owed \in acked.owed /\ Base(mem).owed \in acked.owed /\ (Base(mem).owed => mem.owed)
  BY <1>1, <1>3, <1>4 DEF Marker, InMark, FailedMark
<1>8. /\ disk' \in Disks /\ m \in Mems /\ Standing(disk', m) /\ Settled(disk', m)
      /\ disk'.behind = disk.behind
      /\ m.end = mem.end /\ m.index = mem.index /\ m.next = mem.next /\ m.target = mem.target
      /\ m.owed = mem.owed /\ m.durableEnd = mem.end
      /\ Settled(disk, mem) => Held(disk', m) = held /\ Base(m) = Base(mem) /\ (Indexed(disk, mem) => Indexed(disk', m))
      /\ Appended(disk, mem) =>
           /\ Base(m) = Base(mem) /\ Held(disk', m) = Told(Base(mem), disk.recs)
           /\ \A k \in Seqs : LastOf(Covered(disk', m.durableEnd), k) =
                 IF k = disk.recs[mem.end].seq THEN mem.end ELSE LastOf(Covered(disk, mem.durableEnd), k)
      /\ Rewritten(disk, mem) =>
           /\ Base(m) = mem.slots[Spare(mem)] /\ (Indexed(disk, mem) => Indexed(disk', m))
           /\ Held(disk', m) = Told(mem.slots[Spare(mem)], Covered(disk, mem.durableEnd))
  BY <1>2, <1>3, <1>4, FlushedIs
<1> HIDE DEF m
<1>9. /\ mem' \in Mems /\ mem'.pc = "idle" /\ SameBase(m, mem') /\ mem'.owed = m.owed
      /\ Base(mem') = Base(m) /\ Held(disk', mem') = Held(disk', m)
      /\ Standing(disk', mem') /\ Settled(disk', mem')
      /\ mem'.next = (IF call.op = "file" THEN call.seq + 1 ELSE IF call.op = "sender" THEN call.next ELSE m.next)
      /\ mem'.target = (IF call.op = "target" THEN call.target ELSE m.target)
      /\ mem'.index = (IF call.op = "file" THEN [m.index EXCEPT ![call.seq] = m.end] ELSE m.index)
  BY <1>2, <1>8, PublishedIs DEF m
<1>10. /\ Outcome \in Stores /\ Outcome.owed = acked.owed
       /\ Outcome.next = mem'.next /\ Outcome.target = mem'.target
  <2>1. CASE call.op = "file"
    <3>1. /\ Outcome \in Stores /\ Outcome.owed = acked.owed /\ Outcome.next = call.seq + 1
          /\ Outcome.target = acked.target
      BY <1>2, <2>1, EffectIs DEF Outcome
    <3> QED BY <1>6, <1>8, <1>9, <2>1, <3>1
  <2>2. CASE call.op = "sender"
    <3>1. /\ Outcome \in Stores /\ Outcome.owed = acked.owed /\ Outcome.next = call.next
          /\ Outcome.target = acked.target
      BY <1>2, <2>2, EffectIs DEF Outcome
    <3> QED BY <1>6, <1>8, <1>9, <2>2, <3>1
  <2>3. CASE call.op = "target"
    <3>1. /\ Outcome \in Stores /\ Outcome.owed = acked.owed /\ Outcome.next = acked.next
          /\ Outcome.target = call.target
      BY <1>2, <2>3, EffectIs DEF Outcome
    <3> QED BY <1>6, <1>8, <1>9, <2>3, <3>1
  <2>4. CASE call.op = "sync"
    <3>1. Outcome \in Stores /\ Outcome = acked
      BY <1>2, <2>4, EffectIs DEF Outcome
    <3> QED BY <1>6, <1>8, <1>9, <2>4, <3>1
  <2> QED BY <1>4, <2>1, <2>2, <2>3, <2>4
<1>11. Admits(Outcome, Held(disk', mem')) /\ Indexed(disk', mem') /\ (Base(mem').owed => mem'.owed)
  <2>1. CASE Settled(disk, mem) /\ call.op = "sync"
    <3>1. Outcome = acked
      BY <1>2, <2>1, EffectIs DEF Outcome
    <3>2. Held(disk', mem') = held /\ Base(mem') = Base(mem) /\ Indexed(disk', m)
      BY <1>3, <1>8, <1>9, <2>1
    <3>3. held.owed = Base(mem).owed
      BY <1>2, <1>3, StandingParts DEF held
    <3>4. Indexed(disk', mem')
      BY <1>9, <2>1, <3>2 DEF Indexed, SameBase
    <3> QED BY <1>6, <1>7, <1>8, <1>9, <3>1, <3>2, <3>3, <3>4 DEF Admits
  <2>2. CASE Appended(disk, mem) /\ call.op = "file"
    <3>1. disk.recs[mem.end].seq = call.seq /\ Admits(Outcome, Told(Base(mem), disk.recs)) /\ mem.pc = "after"
      BY <1>2, <1>3, <2>2 DEF Becomes, ByCall
    <3>2. Indexed(disk', mem')
      <4>1. \A k \in Seqs : mem.index[k] = LastOf(Covered(disk, mem.durableEnd), k)
        BY <1>3 DEF Indexed
      <4>2. mem.index \in [Seqs -> Nat] /\ call.seq \in Seqs
        BY <1>2, <2>2, MemParts, CallsAre
      <4>3. mem'.index = [mem.index EXCEPT ![call.seq] = mem.end] /\ mem'.durableEnd = m.durableEnd
        BY <1>8, <1>9, <2>2 DEF SameBase
      <4>4. \A k \in Seqs : LastOf(Covered(disk', m.durableEnd), k) =
                 IF k = call.seq THEN mem.end ELSE LastOf(Covered(disk, mem.durableEnd), k)
        BY <1>8, <2>2, <3>1
      <4> QED BY <4>1, <4>2, <4>3, <4>4 DEF Indexed
    <3> QED BY <1>7, <1>8, <1>9, <2>2, <3>1, <3>2
  <2>3. CASE Rewritten(disk, mem) /\ call.op \in {"sender", "target"}
    <3>1. /\ Admits(Outcome, Told(mem.slots[Spare(mem)], Covered(disk, mem.durableEnd)))
          /\ mem.slots[Spare(mem)].owed = mem.owed
      BY <1>2, <1>3, <2>3 DEF Becomes, ByCall
    <3>2. Held(disk', mem') = Told(mem.slots[Spare(mem)], Covered(disk, mem.durableEnd))
          /\ Base(mem') = mem.slots[Spare(mem)] /\ Indexed(disk', m)
      BY <1>3, <1>8, <1>9, <2>3
    <3>3. Indexed(disk', mem')
      BY <1>9, <2>3, <3>2 DEF Indexed, SameBase
    <3> QED BY <1>8, <1>9, <3>1, <3>2, <3>3
  <2> QED BY <1>4, <2>1, <2>2, <2>3
<1> QED BY <1>1, <1>5, <1>7, <1>8, <1>9, <1>10, <1>11, DoneKeeps

\* A call that begins with nothing written.
LEMMA EnterKeeps ==
    ASSUME IInv, mem.pc = "idle", UNCHANGED disk, NEW c \in Calls, Begins(c, 0),
           mem' \in Mems, Alike(mem, mem'), mem'.gen = mem.gen, mem'.pending = mem.pending,
           mem'.pc \in {"sync", "undo", "answer", "mark"},
           mem'.pc # "undo" => Settled(disk, mem),
           mem'.pc = "sync" => c.op = "sync",
           mem'.pc \in {"undo", "answer"} => c.op \in {"mark", "refresh"},
           mem'.pc # "mark" => mem'.owed = mem.owed,
           mem'.pc = "answer" /\ c.op = "mark" => mem.owed = c.owed /\ Base(mem).owed = c.owed,
           mem'.pc = "mark" =>
               c.op = "mark" /\ mem'.left = 2 /\ mem'.was = mem.owed /\ mem'.owed = c.owed
    PROVE  IInv' /\ Promise!PromiseNext
<1>1. mem.pc # "closed" /\ mem.pc # "renamed"
  OBVIOUS
<1>2. /\ Shape /\ every = 1 /\ disk \in Disks /\ mem \in Mems /\ mem # Closed
      /\ Behind(disk, mem, Views) /\ Carries(disk, mem, call, acked, flushed, Views, Outcome)
      /\ call = Promise!NoCall /\ kept = View(disk.slots, disk.recs) /\ kept \in Tellings
      /\ (disk.behind # {} => mem.pending.dir)
  BY <1>1, OpenParts
<1>3. /\ Standing(disk, mem) /\ Survives(disk, mem, Views) /\ Indexed(disk, mem)
      /\ ByStage(disk, mem, call) /\ Tells(disk, mem, acked, flushed) /\ Marker(mem, call, acked)
  BY <1>2 DEF Carries
<1>4. /\ Base(mem') = Base(mem) /\ Held(disk, mem') = Held(disk, mem)
      /\ SlotsOut(disk, mem') = SlotsOut(disk, mem) /\ SameBase(mem, mem')
      /\ (RecordOut(disk, mem') <=> RecordOut(disk, mem))
      /\ Standing(disk, mem') /\ Indexed(disk, mem')
      /\ (Settled(disk, mem) => Settled(disk, mem')) /\ (Undoable(disk, mem) => Undoable(disk, mem'))
      /\ mem'.next = mem.next /\ mem'.target = mem.target
  <2>1. mem'.next = mem.next /\ mem'.target = mem.target
    BY DEF Alike
  <2> QED BY <1>3, <2>1, AlikeIs
<1>5. UNCHANGED every /\ kept' = View(disk'.slots, disk'.recs)
  BY DEF Begins, Keeping
<1>6. kept' = kept
  BY <1>2, <1>5
<1>7. /\ Shape' /\ Promise!PromiseNext
      /\ call' = c /\ acked' = acked /\ flushed' = flushed /\ Views \subseteq Views'
  BY <1>2, <1>6, BeginShape DEF Lands, Kept
<1>8. Survives(disk', mem', Views')
  BY <1>3, <1>4, <1>7, SurvivesAgain
<1>9. ByStage(disk', mem', c)
  BY <1>3, <1>4 DEF ByStage
<1>10. Tells(disk', mem', acked, flushed)
  BY <1>1, <1>3, <1>4 DEF Tells
<1>11. Marker(mem', c, acked)
  <2>1. mem.owed \in acked.owed /\ Base(mem).owed \in acked.owed /\ (Base(mem).owed => mem.owed)
    BY <1>3 DEF Marker, InMark, FailedMark
  <2> QED BY <1>4, <2>1 DEF Marker, InMark, FailedMark
<1>12. Becomes(disk', mem', c, Outcome')
  BY DEF Becomes
<1>13. Carries(disk', mem', call', acked', flushed', Views', Outcome')
  BY <1>4, <1>7, <1>8, <1>9, <1>10, <1>11, <1>12 DEF Carries
<1>14. mem' # Closed /\ c # Promise!NoCall
  BY OpenIs, CallsAre
<1>15. ByCall(mem', call')
  BY <1>7, <1>14 DEF ByCall
<1>16. Behind(disk', mem', Views')
  BY <1>2, <1>7, PromisedMore DEF Behind
<1> QED BY <1>5, <1>7, <1>13, <1>15, <1>16, OpenAgain

LEMMA AfterWriteKeeps ==
    ASSUME IInv, AfterWrite
    PROVE  IInv' /\ Promise!PromiseNext
<1>1. mem.pc = "after" /\ mem.pc # "closed"
  BY DEF AfterWrite
<1>2. /\ every = 1 /\ mem \in Mems /\ disk \in Disks /\ ByCall(mem, call)
      /\ Carries(disk, mem, call, acked, flushed, Views, Outcome)
  BY <1>1, OpenParts
<1>3. mem.unsynced \in Nat
  BY <1>2 DEF Mems
<1>4. \/ /\ disk' = Synced(disk) /\ mem' = Published(Flushed) /\ Returns(0, Outcome) /\ Durable
      \/ \E f \in FlushFails : /\ disk' = f.disk /\ mem' = [f.mem EXCEPT !.pc = "idle"]
                               /\ FlushFailsAfter(f.faults)
  BY <1>2, <1>3 DEF AfterWrite
<1>5. CASE disk' = Synced(disk) /\ mem' = Published(Flushed) /\ Returns(0, Outcome) /\ Durable
  BY <1>1, <1>5, WrittenKeeps
<1>6. ASSUME NEW f \in FlushFails, disk' = f.disk, mem' = [f.mem EXCEPT !.pc = "idle"],
             FlushFailsAfter(f.faults)
      PROVE  IInv' /\ Promise!PromiseNext
  <2>1. /\ Standing(disk, mem) /\ (Appended(disk, mem) \/ Rewritten(disk, mem)) /\ Marker(mem, call, acked)
        /\ call.op # "mark"
    BY <1>1, <1>2 DEF Carries, ByStage, ByCall
  <2>2. mem.owed \in acked.owed /\ Base(mem).owed \in acked.owed /\ (Base(mem).owed => mem.owed)
    BY <1>1, <2>1 DEF Marker, InMark, FailedMark
  <2>3. f.mem \in Mems /\ f.mem.owed = mem.owed
    BY <1>2, <2>1, FlushFailsAre
  <2>4. "idle" \in Stages
    BY DEF Stages
  <2>5. /\ mem' \in Mems /\ mem'.pc = "idle" /\ Alike(f.mem, mem')
        /\ mem'.gen = f.mem.gen /\ mem'.pending = f.mem.pending /\ mem'.owed = f.mem.owed
    BY <1>6, <2>3, <2>4, StageIs
  <2>6. {mem'.owed, Base(mem).owed} \subseteq IF call.op = "mark" THEN BOOLEAN ELSE flushed.owed \union acked.owed
    BY <2>1, <2>2, <2>3, <2>5
  <2> QED BY <1>1, <1>6, <2>2, <2>3, <2>5, <2>6, FlushBackKeeps
<1> QED BY <1>4, <1>5, <1>6

LEMMA SyncKeeps ==
    ASSUME IInv, Sync
    PROVE  IInv' /\ Promise!PromiseNext
<1>1. CASE Usable /\ UNCHANGED disk /\ mem' = [mem EXCEPT !.pc = "sync"] /\ Begins([op |-> "sync"], 0)
  <2> DEFINE c == [op |-> "sync"]
  <2>1. c \in Calls /\ c.op = "sync"
    BY DEF Calls
  <2>2. mem.pc = "idle" /\ Settled(disk, mem) /\ "sync" \in Stages /\ mem.pc # "closed"
    BY <1>1, UsableIs DEF Stages
  <2>3. mem \in Mems
    BY <2>2, OpenParts
  <2>4. /\ mem' \in Mems /\ mem'.pc = "sync" /\ Alike(mem, mem') /\ mem'.gen = mem.gen
        /\ mem'.pending = mem.pending /\ mem'.owed = mem.owed
    BY <1>1, <2>2, <2>3, StageIs
  <2>5. Begins(c, 0)
    BY <1>1
  <2> HIDE DEF c
  <2> QED BY <1>1, <2>1, <2>2, <2>4, <2>5, EnterKeeps
<1>2. CASE /\ mem.pc = "sync" /\ disk' = Synced(disk) /\ mem' = Published(Flushed)
           /\ Returns(0, Outcome) /\ Durable
  BY <1>2, WrittenKeeps
<1>3. ASSUME mem.pc = "sync", NEW f \in FlushFails, disk' = f.disk, mem' = [f.mem EXCEPT !.pc = "idle"],
             FlushFailsAfter(f.faults)
      PROVE  IInv' /\ Promise!PromiseNext
  <2>0. mem.pc # "closed"
    BY <1>3
  <2>1. /\ every = 1 /\ mem \in Mems /\ disk \in Disks /\ ByCall(mem, call)
        /\ Carries(disk, mem, call, acked, flushed, Views, Outcome)
    BY <2>0, OpenParts
  <2>2. Standing(disk, mem) /\ Settled(disk, mem) /\ Marker(mem, call, acked) /\ call.op # "mark"
    BY <1>3, <2>1 DEF Carries, ByStage, ByCall
  <2>3. mem.owed \in acked.owed /\ Base(mem).owed \in acked.owed /\ (Base(mem).owed => mem.owed)
    BY <1>3, <2>2 DEF Marker, InMark, FailedMark
  <2>4. f.mem \in Mems /\ f.mem.owed = mem.owed
    BY <2>1, <2>2, FlushFailsAre
  <2>5. "idle" \in Stages
    BY DEF Stages
  <2>6. /\ mem' \in Mems /\ mem'.pc = "idle" /\ Alike(f.mem, mem')
        /\ mem'.gen = f.mem.gen /\ mem'.pending = f.mem.pending /\ mem'.owed = f.mem.owed
    BY <1>3, <2>4, <2>5, StageIs
  <2>7. {mem'.owed, Base(mem).owed} \subseteq IF call.op = "mark" THEN BOOLEAN ELSE flushed.owed \union acked.owed
    BY <2>2, <2>3, <2>4, <2>6
  <2> QED BY <1>3, <2>3, <2>4, <2>6, <2>7, FlushBackKeeps
<1> QED BY <1>1, <1>2, <1>3 DEF Sync

-----------------------------------------------------------------------------
(* The owed-reset marker                                                    *)

AtMark(m, s, left, was, owed) == [m EXCEPT !.pc = s, !.left = left, !.was = was, !.owed = owed]

LEMMA MarkedIs ==
    ASSUME NEW m \in Mems, NEW s \in Stages, NEW left \in {0, 1, 2}, NEW was \in BOOLEAN, NEW owed \in BOOLEAN,
           NEW k, k = AtMark(m, s, left, was, owed)
    PROVE  /\ k \in Mems /\ k.pc = s /\ Alike(m, k) /\ k.left = left /\ k.was = was /\ k.owed = owed
           /\ k.gen = m.gen /\ k.pending = m.pending
           /\ k.next = m.next /\ k.target = m.target /\ k.durableEnd = m.durableEnd
<1>1. k \in Mems
  BY DEF Mems, AtMark
<1>2. k.pc = s /\ k.left = left /\ k.was = was /\ k.owed = owed
  BY DEF Mems, AtMark
<1>3. /\ k.gen = m.gen /\ k.pending = m.pending
      /\ k.durable = m.durable /\ k.durableSlots = m.durableSlots /\ k.durableEnd = m.durableEnd
      /\ k.slots = m.slots /\ k.active = m.active /\ k.end = m.end
      /\ k.index = m.index /\ k.next = m.next /\ k.target = m.target
  BY DEF Mems, AtMark
<1> QED BY <1>1, <1>2, <1>3 DEF Alike, SameBase

LEMMA MarkFlushKeeps ==
    ASSUME IInv, MarkFlush
    PROVE  IInv' /\ Promise!PromiseNext
<1> DEFINE m == Flushed
           image == mem.slots[Spare(mem)]
           told == Told(image, Covered(disk, mem.durableEnd))
<1>1. mem.pc = "marked" /\ mem.pc # "closed" /\ mem.pc # "idle" /\ mem.pc # "renamed"
  BY DEF MarkFlush
<1>2. /\ Shape /\ every = 1 /\ disk \in Disks /\ mem \in Mems /\ acked \in Stores /\ flushed \in Stores
      /\ ByCall(mem, call) /\ Carries(disk, mem, call, acked, flushed, Views, Outcome)
      /\ call # Promise!NoCall /\ call \in Calls
      /\ (disk.behind # {} => mem.pending.dir)
  BY <1>1, OpenParts
<1>3. /\ Standing(disk, mem) /\ Indexed(disk, mem) /\ ByStage(disk, mem, call)
      /\ Tells(disk, mem, acked, flushed) /\ Marker(mem, call, acked)
      /\ Becomes(disk, mem, call, Outcome)
  BY <1>2 DEF Carries
<1>4. Rewritten(disk, mem) /\ call.op = "mark" /\ mem.left \in {1, 2} /\ call.owed \in BOOLEAN
  BY <1>1, <1>2, <1>3, CallsAre DEF ByStage, ByCall
<1>5. mem.pending = NoPending /\ disk.behind = {}
  BY <1>2, <1>4, NoPendingIs DEF Rewritten
<1>6. mem.next = acked.next /\ mem.target = acked.target
  BY <1>1, <1>3 DEF Tells
<1>7. /\ mem.was \in acked.owed /\ mem.owed = call.owed
      /\ Base(mem).owed => mem.owed \/ mem.was
  BY <1>1, <1>3 DEF Marker, InMark
<1>8. Admits(Outcome, told) /\ image.owed = mem.owed
  BY <1>1, <1>3 DEF Becomes
<1>9. /\ Outcome \in Stores /\ Outcome.owed = {call.owed} /\ Outcome.next = acked.next /\ Outcome.target = acked.target
      /\ Outcome.filed = acked.filed
  BY <1>2, <1>4, EffectIs DEF Outcome
<1> HIDE DEF image, told
<1>10. ASSUME disk' = Synced(disk)
       PROVE  /\ disk' \in Disks /\ m \in Mems /\ Standing(disk', m) /\ Settled(disk', m)
              /\ disk'.behind = {} /\ m.next = mem.next /\ m.target = mem.target
              /\ m.owed = mem.owed /\ m.was = mem.was /\ Base(m) = image /\ Indexed(disk', m)
              /\ Held(disk', m) = told
  BY <1>2, <1>3, <1>4, <1>5, <1>10, FlushedIs DEF image, told
<1>11. ASSUME NEW left \in {0, 1, 2}, NEW was \in BOOLEAN, NEW s \in Stages, disk' = Synced(disk),
              mem' = [m EXCEPT !.pc = s, !.left = left, !.was = was, !.owed = m.owed]
       PROVE  /\ disk' \in Disks /\ mem' \in Mems /\ mem'.pc = s /\ mem'.left = left /\ mem'.was = was
              /\ mem'.next = mem.next /\ mem'.target = mem.target /\ mem'.owed = mem.owed
              /\ disk'.behind = {}
              /\ Standing(disk', mem') /\ Settled(disk', mem') /\ Indexed(disk', mem')
              /\ Base(mem') = image /\ Held(disk', mem') = told
  <2>1. /\ disk' \in Disks /\ m \in Mems /\ Standing(disk', m) /\ Settled(disk', m)
        /\ disk'.behind = {} /\ m.next = mem.next /\ m.target = mem.target
        /\ m.owed = mem.owed /\ Base(m) = image /\ Indexed(disk', m)
        /\ Held(disk', m) = told
    BY <1>10, <1>11
  <2> HIDE DEF m
  <2>2. m.owed \in BOOLEAN
    BY <2>1, MemParts
  <2>3. /\ mem' \in Mems /\ mem'.pc = s /\ Alike(m, mem') /\ mem'.left = left /\ mem'.was = was
        /\ mem'.owed = m.owed /\ mem'.gen = m.gen /\ mem'.pending = m.pending
        /\ mem'.next = m.next /\ mem'.target = m.target /\ mem'.durableEnd = m.durableEnd
    <3>1. m \in Mems /\ mem' = AtMark(m, s, left, was, m.owed)
      BY <1>11, <2>1 DEF AtMark
    <3> QED BY <2>2, <3>1, MarkedIs
  <2>4. /\ Base(mem') = Base(m) /\ Held(disk', mem') = Held(disk', m)
        /\ Standing(disk', m) => Standing(disk', mem')
        /\ Settled(disk', m) => Settled(disk', mem')
        /\ Indexed(disk', m) => Indexed(disk', mem')
    BY <2>3, AlikeIs
  <2> QED BY <2>1, <2>3, <2>4
<1>12. CASE /\ disk' = Synced(disk) /\ mem.left = 2 /\ mem' = [Flushed EXCEPT !.pc = "mark", !.left = 1]
            /\ Steps(0) /\ Covers(Outcome)
  <2>1. mem' = [m EXCEPT !.pc = "mark", !.left = 1, !.was = m.was, !.owed = m.owed] /\ m.was \in BOOLEAN /\ "mark" \in Stages
    <3>1. m \in Mems
      BY <1>10, <1>12
    <3>2. mem' = [m EXCEPT !.pc = "mark", !.left = 1]
      BY <1>12
    <3> HIDE DEF m
    <3> QED BY <3>1, <3>2 DEF Mems, Stages
  <2>2. m.was = mem.was
    BY <1>10, <1>12
  <2> HIDE DEF m
  <2>3. /\ disk' \in Disks /\ mem' \in Mems /\ mem'.pc = "mark" /\ mem'.left = 1 /\ mem'.was = mem.was
        /\ mem'.next = mem.next /\ mem'.target = mem.target /\ mem'.owed = mem.owed
        /\ disk'.behind = {}
        /\ Standing(disk', mem') /\ Settled(disk', mem') /\ Indexed(disk', mem')
        /\ Base(mem') = image /\ Held(disk', mem') = told
    BY <1>11, <1>12, <2>1, <2>2
  <2>4. UNCHANGED every /\ kept' = View(disk'.slots, disk'.recs)
    BY <1>12 DEF Steps, Keeping
  <2>5. /\ kept' = Held(disk', mem') /\ kept' \in Tellings
        /\ \A S : Promised(Held(disk', mem'), S) => Survives(disk', mem', S)
    BY <1>2, <2>3, <2>4, SettledIs
  <2>6. Kept({acked, flushed, Outcome})
    BY <1>8, <2>3, <2>5 DEF Kept, Promised
  <2>7. /\ Shape' /\ Promise!PromiseNext
        /\ call' = call /\ acked' = acked /\ Outcome' = Outcome
        /\ flushed' = Outcome /\ Views' = {Outcome}
    BY <1>2, <1>12, <2>3, <2>5, <2>6, StepShape DEF Lands
  <2>8. Survives(disk', mem', Views')
    BY <1>8, <2>3, <2>5, <2>7 DEF Promised
  <2>9. ByStage(disk', mem', call)
    BY <2>3 DEF ByStage
  <2>10. Tells(disk', mem', acked, Outcome)
    BY <1>6, <1>8, <1>9, <2>3 DEF Tells, Admits, Agrees
  <2>11. Marker(mem', call, acked)
    BY <1>7, <1>8, <2>3 DEF Marker, InMark
  <2>12. Becomes(disk', mem', call, Outcome)
    BY <2>3 DEF Becomes
  <2>13. Carries(disk', mem', call', acked', flushed', Views', Outcome')
    BY <2>3, <2>7, <2>8, <2>9, <2>10, <2>11, <2>12 DEF Carries
  <2>14. ByCall(mem', call') /\ Behind(disk', mem', Views')
    <3>1. mem' # Closed
      BY <2>3, OpenIs
    <3> QED BY <1>2, <1>4, <2>3, <2>7, <3>1 DEF ByCall, Behind
  <2> QED BY <2>3, <2>4, <2>7, <2>13, <2>14, OpenAgain
<1>13. CASE /\ disk' = Synced(disk) /\ mem' = [Flushed EXCEPT !.pc = "idle", !.left = 0, !.was = FALSE]
            /\ Returns(0, Outcome) /\ Durable
  <2>1. mem' = [m EXCEPT !.pc = "idle", !.left = 0, !.was = FALSE, !.owed = m.owed] /\ "idle" \in Stages
    <3>1. m \in Mems
      BY <1>10, <1>13
    <3>2. mem' = [m EXCEPT !.pc = "idle", !.left = 0, !.was = FALSE]
      BY <1>13
    <3> HIDE DEF m
    <3> QED BY <3>1, <3>2 DEF Mems, Stages
  <2> HIDE DEF m
  <2>2. /\ disk' \in Disks /\ mem' \in Mems /\ mem'.pc = "idle"
        /\ mem'.next = mem.next /\ mem'.target = mem.target /\ mem'.owed = mem.owed
        /\ disk'.behind = {}
        /\ Standing(disk', mem') /\ Settled(disk', mem') /\ Indexed(disk', mem')
        /\ Base(mem') = image /\ Held(disk', mem') = told
    BY <1>11, <1>13, <2>1
  <2>3. /\ mem'.owed \in Outcome.owed /\ (Base(mem').owed => mem'.owed)
        /\ mem'.next = Outcome.next /\ mem'.target = Outcome.target
    BY <1>6, <1>7, <1>8, <1>9, <2>2
  <2> QED BY <1>1, <1>8, <1>13, <2>2, <2>3, DoneKeeps
<1>14. ASSUME NEW f \in FlushFails, disk' = f.disk, mem' = Unmarked(f.mem, "idle"), FlushFailsAfter(f.faults)
       PROVE  IInv' /\ Promise!PromiseNext
  <2>1. f.mem \in Mems /\ f.mem.was = mem.was
    BY <1>2, <1>3, <1>4, FlushFailsAre
  <2>2. PICK owed \in BOOLEAN : owed = (mem.was \/ call.owed)
    BY <1>4
  <2>3. mem' = [f.mem EXCEPT !.pc = "idle", !.left = 0, !.was = FALSE, !.owed = owed] /\ "idle" \in Stages
    <3>1. mem' = [f.mem EXCEPT !.pc = "idle", !.owed = owed, !.left = 0, !.was = FALSE]
      BY <1>14, <2>1, <2>2 DEF Unmarked
    <3> QED BY <2>1, <3>1 DEF Mems, Stages
  <2>4. /\ mem' \in Mems /\ mem'.pc = "idle" /\ Alike(f.mem, mem')
        /\ mem'.gen = f.mem.gen /\ mem'.pending = f.mem.pending /\ mem'.owed = owed
    <3>1. PICK was \in BOOLEAN : was = FALSE
      OBVIOUS
    <3>2. f.mem \in Mems /\ mem' = AtMark(f.mem, "idle", 0, was, owed) /\ "idle" \in Stages /\ 0 \in {0, 1, 2}
      BY <2>1, <2>3, <3>1 DEF AtMark
    <3> QED BY <3>2, MarkedIs
  <2>5. Base(mem).owed => mem'.owed
    BY <1>7, <2>2, <2>4
  <2>6. Base(mem).owed \in BOOLEAN
    BY <1>2, <1>3, StandingParts
  <2>7. {mem'.owed, Base(mem).owed} \subseteq IF call.op = "mark" THEN BOOLEAN ELSE flushed.owed \union acked.owed
    BY <1>4, <2>4, <2>6
  <2> QED BY <1>1, <1>14, <2>4, <2>5, <2>7, FlushBackKeeps
<1> QED BY <1>4, <1>12, <1>13, <1>14 DEF MarkFlush

\* A call with nothing left to write returns.
LEMMA AnswerKeeps ==
    ASSUME IInv, Answer
    PROVE  IInv' /\ Promise!PromiseNext
<1>1. /\ mem.pc = "answer" /\ mem.pc # "closed" /\ mem.pc # "idle" /\ mem.pc # "renamed"
      /\ UNCHANGED disk /\ mem' = [mem EXCEPT !.pc = "idle"] /\ Returns(0, Outcome)
  BY DEF Answer
<1>2. /\ every = 1 /\ disk \in Disks /\ mem \in Mems /\ acked \in Stores
      /\ ByCall(mem, call) /\ Carries(disk, mem, call, acked, flushed, Views, Outcome)
      /\ call \in Calls /\ (disk.behind # {} => mem.pending.dir)
  BY <1>1, OpenParts
<1>3. /\ Standing(disk, mem) /\ Indexed(disk, mem) /\ ByStage(disk, mem, call)
      /\ Tells(disk, mem, acked, flushed) /\ Marker(mem, call, acked)
  BY <1>2 DEF Carries
<1>4. Settled(disk, mem) /\ call.op \in {"mark", "refresh"} /\ Durable
  BY <1>1, <1>2, <1>3 DEF ByStage, ByCall, Answer
<1>5. disk.behind = {}
  BY <1>2, <1>4, NoPendingIs DEF Settled
<1>6. "idle" \in Stages
  BY DEF Stages
<1>7. /\ mem' \in Mems /\ mem'.pc = "idle" /\ Alike(mem, mem') /\ mem'.gen = mem.gen
      /\ mem'.pending = mem.pending /\ mem'.owed = mem.owed
      /\ mem'.next = mem.next /\ mem'.target = mem.target
  BY <1>1, <1>2, <1>6, StageIs
<1>8. /\ Base(mem') = Base(mem) /\ Held(disk, mem') = Held(disk, mem)
      /\ Standing(disk, mem') /\ Settled(disk, mem') /\ Indexed(disk, mem')
  BY <1>3, <1>4, <1>7, AlikeIs
<1>9. /\ Agrees(acked, Held(disk, mem)) /\ mem.next = acked.next /\ mem.target = acked.target
  BY <1>1, <1>3 DEF Tells
<1>10. /\ mem.owed \in acked.owed /\ Base(mem).owed \in acked.owed /\ (Base(mem).owed => mem.owed)
       /\ call.op = "mark" => mem.owed = call.owed /\ Base(mem).owed = call.owed
  BY <1>1, <1>3 DEF Marker, InMark, FailedMark
<1>11. /\ Outcome.next = acked.next /\ Outcome.target = acked.target /\ Outcome.filed = acked.filed
       /\ mem.owed \in Outcome.owed /\ Base(mem).owed \in Outcome.owed
  <2>1. CASE call.op = "mark"
    <3>1. /\ Outcome \in Stores /\ Outcome.owed = {call.owed} /\ Outcome.next = acked.next
          /\ Outcome.target = acked.target /\ Outcome.filed = acked.filed
      <4>1. acked \in Stores /\ call \in Calls \union {Promise!NoCall} /\ call.op = "mark"
        BY <1>2, <2>1
      <4> QED BY ONLY <4>1, EffectIs DEF Outcome
    <3> QED BY <1>10, <2>1, <3>1
  <2>2. CASE call.op = "refresh"
    <3>1. Outcome = acked
      BY <1>2, <2>2, EffectIs DEF Outcome
    <3> QED BY <1>10, <3>1
  <2> QED BY <1>4, <2>1, <2>2
<1>12. Admits(Outcome, Held(disk', mem'))
  <2>1. Held(disk, mem).owed = Base(mem).owed
    BY <1>2, <1>3, StandingParts
  <2> QED BY <1>1, <1>8, <1>9, <1>11, <2>1 DEF Admits, Agrees
<1> QED BY <1>1, <1>2, <1>4, <1>5, <1>7, <1>8, <1>9, <1>10, <1>11, <1>12, DoneKeeps

LEMMA RefreshKeeps ==
    ASSUME IInv, Refresh
    PROVE  IInv' /\ Promise!PromiseNext
<1> DEFINE c == [op |-> "refresh"]
<1>1. /\ mem.pc = "idle" /\ mem.pc # "closed" /\ UNCHANGED disk /\ mem' = [mem EXCEPT !.pc = "undo"]
      /\ Begins(c, 0)
  BY DEF Refresh, Idle
<1>2. c \in Calls /\ c.op = "refresh" /\ "undo" \in Stages
  BY DEF Calls, Stages
<1>3. mem \in Mems
  BY <1>1, OpenParts
<1>4. /\ mem' \in Mems /\ mem'.pc = "undo" /\ Alike(mem, mem') /\ mem'.gen = mem.gen
      /\ mem'.pending = mem.pending /\ mem'.owed = mem.owed
  BY <1>1, <1>2, <1>3, StageIs
<1> HIDE DEF c
<1> QED BY <1>1, <1>2, <1>4, EnterKeeps

LEMMA SetResetOwedKeeps ==
    ASSUME IInv, NEW c \in Calls, SetResetOwed(c)
    PROVE  IInv' /\ Promise!PromiseNext
<1>1. /\ c.op = "mark" /\ mem.pc = "idle" /\ mem.pc # "closed" /\ UNCHANGED disk /\ Begins(c, 0)
      /\ mem' = IF Usable THEN Marking(mem, c) ELSE [mem EXCEPT !.pc = "undo"]
  BY DEF SetResetOwed, Idle
<1>2. mem \in Mems /\ disk \in Disks /\ Carries(disk, mem, call, acked, flushed, Views, Outcome)
  BY <1>1, OpenParts
<1>3. CASE Usable
  <2>1. mem' = Marking(mem, c) /\ Settled(disk, mem)
    BY <1>1, <1>3, UsableIs
  <2>2. /\ mem' \in Mems /\ Alike(mem, mem') /\ mem'.gen = mem.gen /\ mem'.pending = mem.pending
        /\ mem'.pc \in {"answer", "mark"} /\ mem'.durable = mem.durable /\ mem'.durableEnd = mem.durableEnd
        /\ mem'.pc = "answer" => /\ mem'.owed = mem.owed /\ mem'.owed = c.owed
                                 /\ \A p \in Positions : mem.slots[p].owed = c.owed
        /\ mem'.pc = "mark" => mem'.left = 2 /\ mem'.was = mem.owed /\ mem'.owed = c.owed
    BY <1>1, <1>2, <2>1, MarkingIs
  <2>3. mem'.pc = "answer" => mem.owed = c.owed /\ Base(mem).owed = c.owed
    <3>1. Standing(disk, mem)
      BY <1>2 DEF Carries
    <3>2. mem.durable \in Positions /\ mem.slots[mem.durable] = Base(mem)
      BY <1>2, <3>1, StandingParts
    <3> QED BY <2>2, <3>2
  <2> QED BY <1>1, <2>1, <2>2, <2>3, EnterKeeps
<1>4. CASE ~Usable
  <2>1. mem' = [mem EXCEPT !.pc = "undo"] /\ "undo" \in Stages
    BY <1>1, <1>4 DEF Stages
  <2>2. /\ mem' \in Mems /\ mem'.pc = "undo" /\ Alike(mem, mem') /\ mem'.gen = mem.gen
        /\ mem'.pending = mem.pending /\ mem'.owed = mem.owed
    BY <1>2, <2>1, StageIs
  <2> QED BY <1>1, <2>2, EnterKeeps
<1> QED BY <1>3, <1>4

\* A call fails with nothing more to undo.
LEMMA FailsKeeps ==
    ASSUME IInv, Fails
    PROVE  IInv' /\ Promise!PromiseNext
<1> DEFINE last == Promise!Unsure(call, acked)
<1>1. /\ mem.pc = "fails" /\ mem.pc # "closed" /\ mem.pc # "idle" /\ mem.pc # "renamed"
      /\ UNCHANGED disk /\ mem' = [mem EXCEPT !.pc = "idle"] /\ FailsAfter(0)
  BY DEF Fails
<1>2. /\ Shape /\ every = 1 /\ disk \in Disks /\ mem \in Mems /\ acked \in Stores
      /\ Behind(disk, mem, Views) /\ Carries(disk, mem, call, acked, flushed, Views, Outcome)
      /\ call # Promise!NoCall /\ kept = View(disk.slots, disk.recs) /\ kept \in Tellings
      /\ (disk.behind # {} => mem.pending.dir)
  BY <1>1, OpenParts
<1>3. /\ Standing(disk, mem) /\ Survives(disk, mem, Views) /\ Indexed(disk, mem)
      /\ ByStage(disk, mem, call) /\ Tells(disk, mem, acked, flushed) /\ Marker(mem, call, acked)
  BY <1>2 DEF Carries
<1>4. "idle" \in Stages
  BY DEF Stages
<1>5. /\ mem' \in Mems /\ mem'.pc = "idle" /\ Alike(mem, mem') /\ mem'.gen = mem.gen
      /\ mem'.pending = mem.pending /\ mem'.owed = mem.owed
      /\ mem'.next = mem.next /\ mem'.target = mem.target
  BY <1>1, <1>2, <1>4, StageIs
<1>6. /\ Base(mem') = Base(mem) /\ Held(disk, mem') = Held(disk, mem)
      /\ SlotsOut(disk, mem') = SlotsOut(disk, mem) /\ SameBase(mem, mem')
      /\ (RecordOut(disk, mem') <=> RecordOut(disk, mem))
      /\ Standing(disk, mem') /\ Indexed(disk, mem')
      /\ (Undoable(disk, mem) => Undoable(disk, mem'))
  BY <1>3, <1>5, AlikeIs
<1>7. UNCHANGED every /\ kept' = View(disk'.slots, disk'.recs)
  BY <1>1 DEF FailsAfter, Returns, Keeping
<1>8. kept' = kept
  BY <1>1, <1>2, <1>7
<1>9. /\ Shape' /\ Promise!PromiseNext
      /\ call' = Promise!NoCall /\ acked' = last /\ flushed' = flushed /\ Views' = Views
  BY <1>1, <1>2, <1>5, <1>8, FailShape DEF Lands, Kept
<1>10. /\ last.next = acked.next /\ last.target = acked.target /\ last.filed = acked.filed
       /\ acked.owed \subseteq last.owed /\ (call.op = "mark" => last.owed = BOOLEAN)
  BY <1>2, UnsureIs
<1> HIDE DEF last
<1>11. Survives(disk', mem', Views')
  BY <1>1, <1>3, <1>6, <1>9, SurvivesAgain
<1>12. ByStage(disk', mem', call')
  BY <1>1, <1>3, <1>5, <1>6 DEF ByStage
<1>13. Tells(disk', mem', last, flushed)
  BY <1>1, <1>3, <1>5, <1>6, <1>10 DEF Tells, Agrees
<1>14. Marker(mem', call', last)
  <2>1. Base(mem).owed => mem.owed
    BY <1>1, <1>3 DEF Marker, InMark
  <2>2. mem.owed \in last.owed /\ Base(mem).owed \in last.owed
    <3>1. CASE call.op = "mark"
      <4>1. mem.owed \in BOOLEAN /\ Base(mem).owed \in BOOLEAN
        BY <1>2, <1>3, StandingParts, MemParts
      <4> QED BY <1>10, <3>1, <4>1
    <3>2. CASE call.op # "mark"
      BY <1>1, <1>3, <1>10, <3>2 DEF Marker, InMark, FailedMark
    <3> QED BY <3>1, <3>2
  <2> QED BY <1>5, <1>6, <2>1, <2>2 DEF Marker, InMark, FailedMark
<1>15. Becomes(disk', mem', call', Outcome')
  BY <1>5 DEF Becomes
<1>16. Carries(disk', mem', call', acked', flushed', Views', Outcome')
  BY <1>1, <1>6, <1>9, <1>11, <1>12, <1>13, <1>14, <1>15 DEF Carries
<1>17. mem' # Closed
  BY <1>5, OpenIs
<1>18. ByCall(mem', call') /\ Behind(disk', mem', Views')
  BY <1>1, <1>2, <1>5, <1>9, <1>17 DEF ByCall, Behind
<1> QED BY <1>5, <1>7, <1>9, <1>16, <1>18, OpenAgain

-----------------------------------------------------------------------------
(* The reload                                                               *)

LEMMA ReflushKeeps ==
    ASSUME IInv, Reflush
    PROVE  IInv' /\ Promise!PromiseNext
<1> DEFINE m == Flushed
           held == Held(disk, mem)
<1>1. mem.pc = "reflush" /\ mem.pc # "closed" /\ mem.pc # "idle" /\ mem.pc # "renamed"
  BY DEF Reflush
<1>2. /\ Shape /\ every = 1 /\ disk \in Disks /\ mem \in Mems /\ acked \in Stores /\ flushed \in Stores
      /\ ByCall(mem, call) /\ Carries(disk, mem, call, acked, flushed, Views, Outcome)
      /\ call # Promise!NoCall /\ call \in Calls
      /\ kept = View(disk.slots, disk.recs)
      /\ (disk.behind # {} => mem.pending.dir)
  BY <1>1, OpenParts
<1>3. /\ Standing(disk, mem) /\ Indexed(disk, mem) /\ ByStage(disk, mem, call)
      /\ Tells(disk, mem, acked, flushed) /\ Marker(mem, call, acked)
  BY <1>2 DEF Carries
<1>4. Settled(disk, mem) /\ call.op \in {"mark", "refresh"}
  BY <1>1, <1>2, <1>3 DEF ByStage, ByCall
<1>5. mem.pending = NoPending /\ disk.behind = {}
  BY <1>2, <1>4, NoPendingIs DEF Settled
<1>6. Agrees(acked, held) /\ mem.next = acked.next /\ mem.target = acked.target
  BY <1>1, <1>3 DEF Tells
<1>7. mem.owed \in acked.owed /\ Base(mem).owed \in acked.owed /\ (Base(mem).owed => mem.owed)
  BY <1>1, <1>3 DEF Marker, InMark, FailedMark
<1>8. kept = held /\ Admits(acked, held)
  <2>1. held.owed = Base(mem).owed
    BY <1>2, <1>3, StandingParts
  <2> QED BY <1>2, <1>3, <1>4, <1>6, <1>7, <2>1, SettledIs DEF Admits
<1> HIDE DEF held
<1>9. CASE disk' = Synced(disk) /\ mem' = Resumed(Flushed) /\ Steps(0) /\ Covers(acked)
  <2>1. /\ disk' \in Disks /\ m \in Mems /\ Standing(disk', m) /\ Settled(disk', m)
        /\ disk'.behind = {} /\ m.next = mem.next /\ m.target = mem.target
        /\ m.owed = mem.owed /\ Base(m) = Base(mem) /\ Indexed(disk', m) /\ Held(disk', m) = held
    BY <1>2, <1>3, <1>4, <1>5, <1>9, FlushedIs DEF held
  <2>2. mem' = Resumed(m)
    BY <1>9
  <2> HIDE DEF m
  <2>4. /\ mem' \in Mems /\ Alike(m, mem') /\ mem'.gen = m.gen /\ mem'.pending = m.pending
        /\ mem'.pc \in {"answer", "mark"}
        /\ mem'.pc = "answer" => mem'.owed = m.owed /\ (call.op = "mark" => m.owed = call.owed /\ Base(m).owed = call.owed)
        /\ mem'.pc = "mark" => call.op = "mark" /\ mem'.left = 2 /\ mem'.was = m.owed /\ mem'.owed = call.owed
    <3>1. CASE call.op = "mark"
      <4>1. mem' = Marking(m, call)
        BY <2>2, <3>1 DEF Resumed
      <4>2. /\ mem' \in Mems /\ Alike(m, mem') /\ mem'.gen = m.gen /\ mem'.pending = m.pending
            /\ mem'.pc \in {"answer", "mark"} /\ mem'.durable = m.durable /\ mem'.durableEnd = m.durableEnd
            /\ mem'.pc = "answer" => /\ mem'.owed = m.owed /\ mem'.owed = call.owed
                                     /\ \A p \in Positions : m.slots[p].owed = call.owed
            /\ mem'.pc = "mark" => mem'.left = 2 /\ mem'.was = m.owed /\ mem'.owed = call.owed
        BY <1>2, <2>1, <3>1, <4>1, MarkingIs
      <4>3. m.durable \in Positions /\ m.slots[m.durable] = Base(m)
        BY <2>1, StandingParts
      <4> QED BY <3>1, <4>2, <4>3
    <3>2. CASE call.op = "refresh"
      <4>1. mem' = [m EXCEPT !.pc = "answer"] /\ "answer" \in Stages
        BY <2>2, <3>2 DEF Resumed, Stages
      <4>2. /\ mem' \in Mems /\ mem'.pc = "answer" /\ Alike(m, mem') /\ mem'.gen = m.gen
            /\ mem'.pending = m.pending /\ mem'.owed = m.owed
        BY <2>1, <4>1, StageIs
      <4> QED BY <3>2, <4>2
    <3> QED BY <1>4, <3>1, <3>2
  <2>5. /\ Base(mem') = Base(mem) /\ Held(disk', mem') = held
        /\ Standing(disk', mem') /\ Settled(disk', mem') /\ Indexed(disk', mem')
        /\ mem'.next = mem.next /\ mem'.target = mem.target
    <3>1. mem'.next = m.next /\ mem'.target = m.target
      BY <2>4 DEF Alike
    <3>2. /\ Base(mem') = Base(m) /\ Held(disk', mem') = Held(disk', m)
          /\ Standing(disk', m) => Standing(disk', mem')
          /\ Settled(disk', m) => Settled(disk', mem')
          /\ Indexed(disk', m) => Indexed(disk', mem')
      BY <2>4, AlikeIs
    <3> QED BY <2>1, <3>1, <3>2
  <2>6. UNCHANGED every /\ kept' = View(disk'.slots, disk'.recs)
    BY <1>9 DEF Steps, Keeping
  <2>7. /\ kept' = held /\ kept' \in Tellings
        /\ \A S : Promised(held, S) => Survives(disk', mem', S)
    BY <1>2, <2>1, <2>4, <2>5, <2>6, SettledIs
  <2>8. /\ Shape' /\ Promise!PromiseNext
        /\ call' = call /\ acked' = acked /\ Outcome' = Outcome
        /\ flushed' = acked /\ Views' = {acked, Outcome}
    BY <1>2, <1>8, <1>9, <2>1, <2>4, <2>7, StepShape DEF Lands, Kept
  <2>9. Survives(disk', mem', Views')
    BY <1>8, <2>7, <2>8 DEF Promised
  <2>10. ByStage(disk', mem', call)
    BY <2>4, <2>5 DEF ByStage
  <2>11. Tells(disk', mem', acked, acked)
    BY <1>6, <1>8, <2>5 DEF Tells
  <2>12. Marker(mem', call, acked)
    BY <1>7, <2>1, <2>4, <2>5 DEF Marker, InMark, FailedMark
  <2>13. Becomes(disk', mem', call, Outcome)
    BY <2>4 DEF Becomes
  <2>14. Carries(disk', mem', call', acked', flushed', Views', Outcome')
    BY <2>5, <2>8, <2>9, <2>10, <2>11, <2>12, <2>13 DEF Carries
  <2>15. ByCall(mem', call') /\ Behind(disk', mem', Views')
    <3>1. mem' # Closed
      BY <2>4, OpenIs
    <3> QED BY <1>2, <1>4, <2>1, <2>4, <2>8, <3>1 DEF ByCall, Behind
  <2> QED BY <2>4, <2>6, <2>8, <2>14, <2>15, OpenAgain
<1>10. ASSUME NEW f \in FlushFails, disk' = f.disk, mem' = [f.mem EXCEPT !.pc = "idle"],
              FlushFailsAfter(f.faults)
       PROVE  IInv' /\ Promise!PromiseNext
  <2>1. f.mem \in Mems /\ f.mem.owed = mem.owed
    BY <1>2, <1>3, <1>4, FlushFailsAre
  <2>2. "idle" \in Stages
    BY DEF Stages
  <2>3. /\ mem' \in Mems /\ mem'.pc = "idle" /\ Alike(f.mem, mem')
        /\ mem'.gen = f.mem.gen /\ mem'.pending = f.mem.pending /\ mem'.owed = f.mem.owed
    BY <1>10, <2>1, <2>2, StageIs
  <2>4. {mem'.owed, Base(mem).owed} \subseteq IF call.op = "mark" THEN BOOLEAN ELSE flushed.owed \union acked.owed
    <3>1. mem.owed \in BOOLEAN /\ Base(mem).owed \in BOOLEAN
      BY <1>2, <1>3, StandingParts, MemParts
    <3> QED BY <1>7, <2>1, <2>3, <3>1
  <2> QED BY <1>1, <1>7, <1>10, <2>1, <2>3, <2>4, FlushBackKeeps
<1> QED BY <1>9, <1>10 DEF Reflush

\* An undo or a load that fails, having undone some of what is pending.
LEMMA GiveUpKeeps ==
    ASSUME IInv, mem.pc \in {"undo", "load"}, mem' = [mem EXCEPT !.pc = "fails"],
           Steps(1), Unflushed, disk' \in Disks, disk'.behind = disk.behind,
           Standing(disk', mem), Undoable(disk', mem),
           SlotsOut(disk', mem) \subseteq SlotsOut(disk, mem),
           RecordOut(disk', mem) => RecordOut(disk, mem) /\ disk'.wrote = disk.wrote,
           Covered(disk', mem.durableEnd) = Covered(disk, mem.durableEnd),
           View(disk'.slots, disk'.recs) \in {View(disk.slots, disk.recs), Held(disk, mem)}
    PROVE  IInv' /\ Promise!PromiseNext
<1> DEFINE held == Held(disk, mem)
<1>1. mem.pc # "closed" /\ mem.pc # "idle" /\ mem.pc # "renamed" /\ ~InMark(mem) /\ ~FailedMark(mem, call)
  BY DEF InMark, FailedMark
<1>2. /\ Shape /\ every = 1 /\ disk \in Disks /\ mem \in Mems /\ acked \in Stores
      /\ ByCall(mem, call) /\ Behind(disk, mem, Views)
      /\ Carries(disk, mem, call, acked, flushed, Views, Outcome)
      /\ call # Promise!NoCall /\ kept = View(disk.slots, disk.recs) /\ kept \in Tellings
      /\ (disk.behind # {} => mem.pending.dir)
  BY <1>1, OpenParts
<1>3. /\ Standing(disk, mem) /\ Survives(disk, mem, Views) /\ Indexed(disk, mem)
      /\ Tells(disk, mem, acked, flushed) /\ Marker(mem, call, acked)
  BY <1>2 DEF Carries
<1>4. /\ Agrees(acked, held) /\ mem.next = acked.next /\ mem.target = acked.target
      /\ (~mem.pending.dir => Admits(flushed, held))
  BY <1>1, <1>3 DEF Tells
<1>5. mem.owed \in acked.owed /\ Base(mem).owed \in acked.owed /\ (Base(mem).owed => mem.owed)
  BY <1>1, <1>3 DEF Marker
<1>6. held \in Tellings /\ Admits(acked, held)
  <2>1. held \in Tellings /\ held.owed = Base(mem).owed
    BY <1>2, <1>3, StandingParts
  <2> QED BY <1>4, <1>5, <2>1 DEF Admits
<1>7. "fails" \in Stages
  BY DEF Stages
<1>8. /\ mem' \in Mems /\ mem'.pc = "fails" /\ Alike(mem, mem') /\ mem'.gen = mem.gen
      /\ mem'.pending = mem.pending /\ mem'.owed = mem.owed
      /\ mem'.next = mem.next /\ mem'.target = mem.target
  BY <1>2, <1>7, StageIs
<1>9. /\ SameBase(mem, mem') /\ Base(mem') = Base(mem) /\ Held(disk', mem') = Held(disk', mem)
      /\ SlotsOut(disk', mem') = SlotsOut(disk', mem)
      /\ (RecordOut(disk', mem') <=> RecordOut(disk', mem))
      /\ Standing(disk', mem') /\ Undoable(disk', mem')
  BY <1>8, AlikeIs
<1>10. Held(disk', mem') = held /\ Indexed(disk', mem')
  <2>1. mem'.index = mem.index /\ SameBase(mem, mem') /\ Indexed(disk, mem)
        /\ Covered(disk', mem.durableEnd) = Covered(disk, mem.durableEnd)
    BY <1>3, <1>8, <1>9 DEF Alike
  <2>2. Held(disk', mem') = Held(disk, mem)
        /\ (Indexed(disk, mem) /\ mem'.index = mem.index => Indexed(disk', mem'))
    BY ONLY <2>1, Transfer
  <2> QED BY <2>1, <2>2
<1> HIDE DEF held
<1>11. UNCHANGED every /\ kept' = View(disk'.slots, disk'.recs)
  BY DEF Steps, Keeping
<1>12. kept' \in Tellings /\ Kept({acked, flushed, Outcome})
  <2>1. CASE kept' = kept
    BY <1>2, <2>1 DEF Kept
  <2>2. CASE kept' = held
    BY <1>6, <2>2 DEF Kept, Promised
  <2> QED BY <1>2, <1>11, <2>1, <2>2 DEF held
<1>13. /\ Shape' /\ Promise!PromiseNext
       /\ call' = call /\ acked' = acked /\ Outcome' = Outcome
       /\ flushed' = flushed /\ Views' = Views
  BY <1>2, <1>8, <1>12, StepShape DEF Lands
<1>14. Survives(disk', mem', Views')
  BY <1>3, <1>9, <1>13, SurvivesAgain
<1>15. ByStage(disk', mem', call)
  BY <1>8, <1>9 DEF ByStage
<1>16. Tells(disk', mem', acked, flushed)
  BY <1>4, <1>8, <1>10 DEF Tells
<1>17. Marker(mem', call, acked)
  BY <1>5, <1>8, <1>9 DEF Marker, InMark, FailedMark
<1>18. Becomes(disk', mem', call, Outcome)
  BY <1>8 DEF Becomes
<1>19. Carries(disk', mem', call', acked', flushed', Views', Outcome')
  BY <1>9, <1>10, <1>13, <1>14, <1>15, <1>16, <1>17, <1>18 DEF Carries
<1>20. ByCall(mem', call') /\ Behind(disk', mem', Views')
  <2>1. mem' # Closed
    BY <1>8, OpenIs
  <2> QED BY <1>2, <1>8, <1>13, <2>1 DEF ByCall, Behind
<1> QED BY <1>8, <1>11, <1>13, <1>19, <1>20, OpenAgain

\* The directory is flushed at last.
LEMMA UndoRenameKeeps ==
    ASSUME IInv, UndoRename
    PROVE  IInv' /\ Promise!PromiseNext
<1> DEFINE held == Held(disk, mem)
<1>1. /\ mem.pc = "undo" /\ mem.pc # "closed" /\ mem.pc # "idle" /\ mem.pc # "renamed"
      /\ mem.pending.dir /\ ~InMark(mem) /\ ~FailedMark(mem, call)
  BY DEF UndoRename, InMark, FailedMark
<1>2. /\ Shape /\ every = 1 /\ disk \in Disks /\ mem \in Mems /\ acked \in Stores
      /\ ByCall(mem, call)
      /\ Carries(disk, mem, call, acked, flushed, Views, Outcome)
      /\ call # Promise!NoCall /\ kept = View(disk.slots, disk.recs) /\ kept \in Tellings
  BY <1>1, OpenParts
<1>3. /\ Standing(disk, mem) /\ Survives(disk, mem, Views) /\ Indexed(disk, mem)
      /\ ByStage(disk, mem, call)
      /\ Tells(disk, mem, acked, flushed) /\ Marker(mem, call, acked)
  BY <1>2 DEF Carries
<1>4. Undoable(disk, mem)
  BY <1>1, <1>3 DEF ByStage
<1>5. CASE UNCHANGED disk /\ mem' = [mem EXCEPT !.pc = "fails"] /\ Steps(1) /\ Unflushed
  <2>1. disk' = disk
    BY <1>5
  <2> QED BY <1>1, <1>2, <1>3, <1>4, <1>5, <2>1, GiveUpKeeps
<1>6. CASE /\ disk' = [disk EXCEPT !.behind = {}] /\ mem' = [mem EXCEPT !.pending.dir = FALSE]
           /\ Steps(0) /\ Covers(acked)
  <2>1. /\ Agrees(acked, held) /\ mem.next = acked.next /\ mem.target = acked.target
    BY <1>1, <1>3 DEF Tells
  <2>2. mem.owed \in acked.owed /\ Base(mem).owed \in acked.owed /\ (Base(mem).owed => mem.owed)
    BY <1>1, <1>3 DEF Marker
  <2>3. held \in Tellings /\ Admits(acked, held)
    <3>1. held \in Tellings /\ held.owed = Base(mem).owed
      BY <1>2, <1>3, StandingParts
    <3> QED BY <2>1, <2>2, <3>1 DEF Admits
  <2>4. /\ disk' \in Disks /\ disk'.behind = {} /\ disk'.slots = disk.slots /\ disk'.recs = disk.recs
        /\ disk'.may = disk.may /\ disk'.firm = disk.firm /\ disk'.wrote = disk.wrote
        /\ disk'.dropped = disk.dropped
    BY <1>2, <1>6 DEF Disks
  <2>5. /\ mem' \in Mems /\ mem'.pc = "undo" /\ Alike(mem, mem') /\ mem'.gen = mem.gen
        /\ mem'.pending = [mem.pending EXCEPT !.dir = FALSE] /\ mem'.owed = mem.owed
        /\ mem'.next = mem.next /\ mem'.target = mem.target
    <3>1. [mem.pending EXCEPT !.dir = FALSE] \in Pendings
      BY <1>2, MemParts DEF Pendings
    <3>2. mem' = [mem EXCEPT !.pending = [mem.pending EXCEPT !.dir = FALSE]]
      BY <1>6
    <3>3. /\ mem' \in Mems /\ mem'.pc = mem.pc /\ mem'.gen = mem.gen
          /\ mem'.pending = [mem.pending EXCEPT !.dir = FALSE] /\ mem'.owed = mem.owed
          /\ mem'.next = mem.next /\ mem'.target = mem.target /\ mem'.index = mem.index
      BY <1>2, <3>1, <3>2 DEF Mems
    <3>4. /\ mem'.durable = mem.durable /\ mem'.durableSlots = mem.durableSlots
          /\ mem'.durableEnd = mem.durableEnd /\ mem'.slots = mem.slots
          /\ mem'.active = mem.active /\ mem'.end = mem.end
      BY <1>2, <3>1, <3>2 DEF Mems
    <3> QED BY <1>1, <3>3, <3>4 DEF Alike, SameBase
  <2>6. ~mem'.pending.dir /\ mem'.pending.cut = mem.pending.cut /\ mem'.pending.slots = mem.pending.slots
    <3>1. mem.pending \in Pendings
      BY <1>2, MemParts
    <3> QED BY <2>5, <3>1 DEF Pendings
  <2>7. /\ SameBase(mem, mem') /\ Covered(disk', mem.durableEnd) = Covered(disk, mem.durableEnd)
        /\ NewSlots(disk', mem.durable, Base(mem)) = NewSlots(disk, mem.durable, Base(mem))
        /\ (NewRecord(disk', mem.durableEnd) <=> NewRecord(disk, mem.durableEnd))
        /\ Grounded(disk', mem.durable, Base(mem), mem.durableEnd, mem.gen)
        /\ mem'.slots = mem.slots /\ mem'.index = mem.index /\ mem'.active = mem.active
        /\ mem'.end = mem.end
    <3>1. Grounded(disk, mem.durable, Base(mem), mem.durableEnd, mem.gen)
      BY <1>3 DEF Standing
    <3>2. NewSlots(disk', mem.durable, Base(mem)) = NewSlots(disk, mem.durable, Base(mem))
          /\ (NewRecord(disk', mem.durableEnd) <=> NewRecord(disk, mem.durableEnd))
      BY <2>4 DEF NewSlots, NewRecord
    <3>3. Footing(disk', mem.durable, Base(mem), mem.durableEnd)
      BY <2>4, <3>1 DEF Grounded, Footing
    <3>4. Numbered(disk', mem.gen)
      BY <2>4, <3>1 DEF Grounded, Numbered
    <3>5. Single(disk', mem.durable, Base(mem), mem.durableEnd)
      BY <2>4, <3>1, <3>2 DEF Grounded, Single, Newer
    <3> QED BY <2>4, <2>5, <3>2, <3>3, <3>4, <3>5 DEF Grounded, Covered, First, Alike
  <2>8. /\ Base(mem') = Base(mem) /\ Spare(mem') = Spare(mem) /\ Held(disk', mem') = held
        /\ SlotsOut(disk', mem') = SlotsOut(disk, mem)
        /\ (RecordOut(disk', mem') <=> RecordOut(disk, mem))
        /\ Indexed(disk', mem') /\ Standing(disk', mem')
    <3>1. mem'.slots[mem.durable] = Base(mem) /\ mem'.gen = mem.gen
      BY <1>3, <2>5, <2>7 DEF Standing
    <3> QED BY <1>3, <2>7, <3>1, Transfer
  <2>9. /\ SlotsOut(disk, mem) = {} /\ ~RecordOut(disk, mem) /\ Undoable(disk', mem')
    <3>1. mem.pending.cut = NoCut /\ mem.pending.slots = NoSlots
      BY <1>1, <1>4 DEF Undoable
    <3>2. SlotsOut(disk, mem) = {} /\ ~RecordOut(disk, mem)
      BY <1>4, <3>1 DEF Undoable
    <3>3. mem'.durableSlots = mem.durableSlots /\ mem'.durableEnd = mem.durableEnd /\ mem'.durable = mem.durable
      BY <2>7 DEF SameBase
    <3> QED BY <1>4, <2>4, <2>6, <2>7, <2>8, <3>1, <3>2, <3>3 DEF Undoable
  <2> HIDE DEF held
  <2>10. UNCHANGED every /\ kept' = View(disk'.slots, disk'.recs)
    BY <1>6 DEF Steps, Keeping
  <2>11. kept' = kept
    BY <1>2, <2>4, <2>10
  <2>12. /\ Shape' /\ Promise!PromiseNext
         /\ call' = call /\ acked' = acked /\ Outcome' = Outcome
         /\ flushed' = acked /\ Views' = {acked, Outcome}
    BY <1>2, <1>6, <2>4, <2>5, <2>11, StepShape DEF Lands, Kept
  <2>13. Survives(disk', mem', Views')
    BY <2>3, <2>8, <2>9, <2>12 DEF Survives, Promised
  <2>14. ByStage(disk', mem', call)
    BY <2>5, <2>9 DEF ByStage
  <2>15. Tells(disk', mem', acked, acked)
    BY <2>1, <2>3, <2>5, <2>8 DEF Tells
  <2>16. Marker(mem', call, acked)
    BY <2>2, <2>5, <2>8 DEF Marker, InMark, FailedMark
  <2>17. Becomes(disk', mem', call, Outcome)
    BY <2>5 DEF Becomes
  <2>18. Carries(disk', mem', call', acked', flushed', Views', Outcome')
    BY <2>8, <2>12, <2>13, <2>14, <2>15, <2>16, <2>17 DEF Carries
  <2>19. ByCall(mem', call') /\ Behind(disk', mem', Views')
    <3>1. mem' # Closed
      BY <2>5, OpenIs
    <3> QED BY <1>1, <1>2, <2>4, <2>5, <2>12, <3>1 DEF ByCall, Behind
  <2> QED BY <2>5, <2>10, <2>12, <2>18, <2>19, OpenAgain
<1> QED BY <1>5, <1>6 DEF UndoRename

\* What undo_on_disk leaves, whether it got as far as the slots or not.
LEMMA UndoneAre ==
    ASSUME every = 1, disk \in Disks, mem \in Mems, Standing(disk, mem), Undoable(disk, mem),
           NEW flag \in BOOLEAN, NEW d, d = Undone(disk, flag)
    PROVE  /\ d \in Disks /\ d.behind = disk.behind /\ d.wrote = disk.wrote
           /\ Standing(d, mem) /\ Undoable(d, mem)
           /\ SlotsOut(d, mem) = SlotsOut(disk, mem) /\ (RecordOut(d, mem) <=> RecordOut(disk, mem))
           /\ Covered(d, mem.durableEnd) = Covered(disk, mem.durableEnd)
           /\ View(d.slots, d.recs) \in {View(disk.slots, disk.recs), Held(disk, mem)}
           /\ flag => /\ d.slots = mem.durableSlots /\ Len(d.recs) = mem.durableEnd /\ d.dropped.recs = {}
                      /\ Spare(mem) \in d.dropped.slots => SlotsOut(d, mem) = {}
<1> DEFINE p == mem.durable
           b == Base(mem)
           n == mem.durableEnd
           image == mem.durableSlots[Spare(mem)]
           cut == IF mem.pending.cut = NoCut THEN disk ELSE CutTo(disk, mem.pending.cut)
           put == PutSlot(cut, Other(p), image)
<1>1. /\ Grounded(disk, p, b, n, mem.gen) /\ mem.slots[p] = b /\ Older(image, b)
  BY DEF Standing
<1>2. /\ p \in Positions /\ Spare(mem) \in Positions /\ Spare(mem) # p /\ Other(p) = Spare(mem)
      /\ Positions = {p, Spare(mem)} /\ b \in Slots /\ n \in Nat /\ mem.gen \in Nat
      /\ disk.slots[p] = b /\ mem.durableSlots[p] = b
  BY StandingParts
<1>3. mem.durableSlots \in Pairs /\ mem.pending \in Pendings
  BY MemParts
<1>4. image \in Slots \union {Bad}
  BY <1>2, <1>3 DEF Pairs
<1>5. /\ mem.slots = mem.durableSlots /\ mem.active = mem.durable
      /\ mem.pending.slots \in {NoSlots, mem.durableSlots} /\ mem.pending.cut \in {NoCut, n}
      /\ (mem.pending.slots = NoSlots => disk.slots = mem.durableSlots /\ SlotsOut(disk, mem) = {})
      /\ (mem.pending.cut = NoCut => /\ Len(disk.recs) = n /\ mem.end = n
                                     /\ ~RecordOut(disk, mem) /\ disk.dropped.recs = {})
      /\ (Spare(mem) \in disk.dropped.slots => SlotsOut(disk, mem) = {} \/ disk.slots # mem.durableSlots)
      /\ (mem.pending.dir => mem.pending.cut = NoCut /\ mem.pending.slots = NoSlots)
  BY DEF Undoable
<1>6. SlotsOut(disk, mem) = NewSlots(disk, p, b) /\ (RecordOut(disk, mem) <=> NewRecord(disk, n))
  BY DEF SlotsOut, RecordOut
<1> HIDE DEF image, b
<1>7. /\ cut \in Disks /\ Grounded(cut, p, b, n, mem.gen)
      /\ NewSlots(cut, p, b) = NewSlots(disk, p, b) /\ (NewRecord(cut, n) <=> NewRecord(disk, n))
      /\ cut.slots = disk.slots /\ Len(cut.recs) = n /\ cut.dropped.slots = disk.dropped.slots
      /\ cut.dropped.recs = {} /\ cut.behind = disk.behind /\ cut.wrote = disk.wrote
      /\ Covered(cut, n) = Covered(disk, n)
  <2>1. CASE mem.pending.cut = NoCut
    BY <1>1, <1>5, <2>1
  <2>2. CASE mem.pending.cut # NoCut
    <3>1. cut = CutTo(disk, n)
      BY <1>5, <2>2
    <3> HIDE DEF cut
    <3>2. /\ n <= Len(disk.recs) /\ disk.dropped.recs \subseteq n + 1 .. Len(disk.recs)
          /\ disk.firm <= n /\ Len(disk.recs) \in Nat
      <4>1. /\ Len(disk.recs) \in {n, n + 1} /\ disk.dropped.recs \subseteq n + 1 .. Len(disk.recs)
            /\ disk.firm = n
        BY <1>1, GroundedParts
      <4> QED BY <1>2, <4>1
    <3>3. CutTo(disk, n).wrote = disk.wrote
      BY <1>2, <3>2, CutToIs
    <3>4. /\ CutTo(disk, n) \in Disks
          /\ Grounded(CutTo(disk, n), p, b, n, mem.gen)
          /\ NewSlots(CutTo(disk, n), p, b) = NewSlots(disk, p, b)
          /\ NewRecord(CutTo(disk, n), n) <=> NewRecord(disk, n)
          /\ CutTo(disk, n).slots = disk.slots /\ Len(CutTo(disk, n).recs) = n
          /\ CutTo(disk, n).dropped.slots = disk.dropped.slots /\ CutTo(disk, n).dropped.recs = {}
          /\ CutTo(disk, n).behind = disk.behind
          /\ Covered(CutTo(disk, n), n) = Covered(disk, n)
      BY <1>1, RecordCut
    <3> QED BY <3>1, <3>3, <3>4
  <2> QED BY <2>1, <2>2
<1>8. (d = cut /\ (flag => cut.slots = mem.durableSlots)) \/ d = put
  <2> DEFINE stale == {q \in Positions : cut.slots[q] # mem.pending.slots[q]}
  <2>1. d = IF ~flag \/ mem.pending.slots = NoSlots \/ stale = {} THEN cut
            ELSE PutSlot(cut, CHOOSE q \in stale : TRUE, mem.pending.slots[CHOOSE q \in stale : TRUE])
    BY DEF Undone
  <2>2. CASE ~flag
    BY <2>1, <2>2
  <2>3. CASE flag /\ mem.pending.slots = NoSlots
    <3>1. d = cut /\ cut.slots = mem.durableSlots
      BY <1>5, <1>7, <2>1, <2>3
    <3> QED BY <3>1
  <2>4. CASE flag /\ mem.pending.slots # NoSlots
    <3>1. mem.pending.slots = mem.durableSlots
      BY <1>5, <2>4
    <3>2. stale \subseteq {Spare(mem)}
      BY <1>2, <1>7, <3>1
    <3>3. CASE stale = {}
      <4>1. \A q \in Positions : cut.slots[q] = mem.durableSlots[q]
        BY <3>1, <3>3
      <4>2. cut.slots \in Pairs
        BY <1>7 DEF Disks
      <4>3. cut.slots = mem.durableSlots
        BY <1>3, <4>1, <4>2 DEF Pairs
      <4> QED BY <2>1, <2>4, <3>1, <3>3, <4>3
    <3>4. CASE stale # {}
      <4>1. (CHOOSE q \in stale : TRUE) = Other(p)
        BY <1>2, <3>2, <3>4
      <4>2. d = PutSlot(cut, Other(p), mem.durableSlots[Other(p)])
        BY <2>1, <2>4, <3>1, <3>4, <4>1
      <4>3. mem.durableSlots[Other(p)] = image
        BY <1>2 DEF image
      <4> QED BY <4>2, <4>3
    <3> QED BY <3>3, <3>4
  <2> QED BY <2>2, <2>3, <2>4
<1> HIDE DEF cut
<1>9. /\ put \in Disks /\ Grounded(put, p, b, n, mem.gen)
      /\ NewSlots(put, p, b) = NewSlots(disk, p, b) /\ (NewRecord(put, n) <=> NewRecord(disk, n))
      /\ put.slots[p] = b /\ put.slots[Other(p)] = image /\ put.slots = mem.durableSlots
      /\ Other(p) \notin put.dropped.slots /\ put.dropped.recs = {}
      /\ Len(put.recs) = n /\ put.behind = disk.behind /\ put.wrote = disk.wrote
      /\ Covered(put, n) = Covered(disk, n)
  <2>1. Grounded(put, p, b, n, mem.gen)
    BY <1>1, <1>4, <1>7, SlotBack
  <2>2. /\ NewSlots(put, p, b) = NewSlots(cut, p, b)
        /\ NewRecord(put, n) <=> NewRecord(cut, n)
        /\ put.slots[p] = b /\ put.slots[Other(p)] = image
        /\ Other(p) \notin put.dropped.slots /\ Covered(put, n) = Covered(cut, n)
    BY <1>1, <1>4, <1>7, SlotPut
  <2>0. cut \in Disks /\ Other(p) \in Positions /\ image \in Slots \union {Bad}
    BY <1>2, <1>4, <1>7
  <2>3. /\ put \in Disks /\ put.recs = cut.recs /\ put.wrote = cut.wrote
        /\ put.behind = cut.behind
        /\ put.dropped = [slots |-> cut.dropped.slots \ {Other(p)}, recs |-> cut.dropped.recs]
    BY ONLY <2>0, PutSlotIs DEF put
  <2> HIDE DEF put
  <2>4. put.slots \in Pairs
    BY <2>3 DEF Disks
  <2>5. put.slots = mem.durableSlots
    BY <1>2, <1>3, <2>2, <2>4 DEF Pairs, image
  <2> QED BY <1>7, <2>1, <2>2, <2>3, <2>5
<1> HIDE DEF put
<1>10. /\ d \in Disks /\ Grounded(d, p, b, n, mem.gen)
       /\ NewSlots(d, p, b) = NewSlots(disk, p, b) /\ (NewRecord(d, n) <=> NewRecord(disk, n))
       /\ Len(d.recs) = n /\ d.dropped.recs = {} /\ d.behind = disk.behind /\ d.wrote = disk.wrote
       /\ Covered(d, n) = Covered(disk, n)
       /\ \/ d.slots = mem.durableSlots /\ Spare(mem) \notin d.dropped.slots
          \/ d.slots = disk.slots /\ d.dropped.slots = disk.dropped.slots
       /\ flag => d.slots = mem.durableSlots
  <2>1. CASE d = cut /\ (flag => cut.slots = mem.durableSlots)
    BY <1>7, <2>1
  <2>2. CASE d = put
    <3>1. d.slots = mem.durableSlots /\ Spare(mem) \notin d.dropped.slots
      BY <1>2, <1>9, <2>2
    <3>2. /\ d \in Disks /\ Grounded(d, p, b, n, mem.gen)
          /\ NewSlots(d, p, b) = NewSlots(disk, p, b) /\ (NewRecord(d, n) <=> NewRecord(disk, n))
          /\ Len(d.recs) = n /\ d.dropped.recs = {} /\ d.behind = disk.behind /\ d.wrote = disk.wrote
          /\ Covered(d, n) = Covered(disk, n)
      BY ONLY <1>9, <2>2
    <3> QED BY <3>1, <3>2
  <2> QED BY <1>8, <2>1, <2>2
<1>11. /\ Standing(d, mem) /\ SlotsOut(d, mem) = SlotsOut(disk, mem)
       /\ (RecordOut(d, mem) <=> RecordOut(disk, mem)) /\ Held(d, mem) = Held(disk, mem)
  <2>1. Standing(d, mem)
    BY <1>1, <1>10 DEF Standing, b, image
  <2> QED BY <1>6, <1>10, <2>1 DEF SlotsOut, RecordOut, Held, b
<1>12. Undoable(d, mem)
  <2>1. mem.pending.slots = NoSlots => d.slots = mem.durableSlots /\ SlotsOut(d, mem) = {}
    BY <1>5, <1>10, <1>11
  <2>2. mem.pending.cut = NoCut => /\ Len(d.recs) = mem.durableEnd /\ mem.end = mem.durableEnd
                                   /\ ~RecordOut(d, mem) /\ d.dropped.recs = {}
    BY <1>5, <1>10, <1>11
  <2>3. Spare(mem) \in d.dropped.slots => SlotsOut(d, mem) = {} \/ d.slots # mem.durableSlots
    BY <1>5, <1>10, <1>11
  <2> QED BY <1>5, <2>1, <2>2, <2>3 DEF Undoable
<1>13. flag /\ Spare(mem) \in d.dropped.slots => SlotsOut(d, mem) = {}
  BY <1>10, <1>12 DEF Undoable
<1>14. View(d.slots, d.recs) \in {View(disk.slots, disk.recs), Held(disk, mem)}
  <2>1. d.slots[Spare(mem)] \in SlotsOut(d, mem) \/ Older(d.slots[Spare(mem)], Base(mem))
    <3>1. d.slots[Other(p)] \in d.may[Other(p)] /\ \A x \in d.may[Other(p)] : x \in NewSlots(d, p, b) \/ Older(x, b)
      BY <1>10, GroundedParts
    <3> QED BY <1>2, <3>1 DEF SlotsOut, b
  <2>2. CASE Older(d.slots[Spare(mem)], Base(mem))
    <3>1. View(d.slots, d.recs) = Held(d, mem)
      BY <1>10, <1>11, <2>2, ViewIs
    <3> QED BY <1>11, <3>1
  <2>3. CASE d.slots[Spare(mem)] \in SlotsOut(d, mem)
    <3>1. View(d.slots, d.recs) = Told(d.slots[Spare(mem)], Covered(d, mem.durableEnd))
      BY <1>10, <1>11, <2>3, ViewIs
    <3>2. ~Older(d.slots[Spare(mem)], b)
      BY <2>3 DEF SlotsOut, NewSlots, b
    <3>3. d.slots = disk.slots
      BY <1>2, <1>1, <1>10, <3>2 DEF image
    <3>4. View(disk.slots, disk.recs) = Told(disk.slots[Spare(mem)], Covered(disk, mem.durableEnd))
      BY <1>11, <2>3, <3>3, ViewIs
    <3> QED BY <1>10, <3>1, <3>3, <3>4
  <2> QED BY <2>1, <2>2, <2>3
<1> QED BY <1>10, <1>11, <1>12, <1>13, <1>14

\* The undo succeeded: no write is out.
LEMMA UndidKeeps ==
    ASSUME IInv, mem.pc = "undo", ~mem.pending.dir, mem' = [mem EXCEPT !.pc = "load"],
           Steps(0), Unflushed \/ Covers(acked), disk' \in Disks, disk'.behind = disk.behind,
           Standing(disk', mem), Undoable(disk', mem), Still(disk', mem),
           Covered(disk', mem.durableEnd) = Covered(disk, mem.durableEnd)
    PROVE  IInv' /\ Promise!PromiseNext
<1> DEFINE held == Held(disk, mem)
<1>1. mem.pc # "closed" /\ mem.pc # "idle" /\ mem.pc # "renamed" /\ ~InMark(mem) /\ ~FailedMark(mem, call)
  BY DEF InMark, FailedMark
<1>2. /\ Shape /\ every = 1 /\ disk \in Disks /\ mem \in Mems /\ acked \in Stores
      /\ ByCall(mem, call)
      /\ Carries(disk, mem, call, acked, flushed, Views, Outcome)
      /\ call # Promise!NoCall
      /\ (disk.behind # {} => mem.pending.dir)
  BY <1>1, OpenParts
<1>3. /\ Standing(disk, mem) /\ Survives(disk, mem, Views) /\ Indexed(disk, mem)
      /\ Tells(disk, mem, acked, flushed) /\ Marker(mem, call, acked)
  BY <1>2 DEF Carries
<1>4. /\ Agrees(acked, held) /\ mem.next = acked.next /\ mem.target = acked.target
      /\ Admits(flushed, held)
  BY <1>1, <1>3 DEF Tells
<1>5. mem.owed \in acked.owed /\ Base(mem).owed \in acked.owed /\ (Base(mem).owed => mem.owed)
  BY <1>1, <1>3 DEF Marker
<1>6. held \in Tellings /\ Admits(acked, held) /\ Promised(held, Views)
  <2>1. held \in Tellings /\ held.owed = Base(mem).owed
    BY <1>2, <1>3, StandingParts
  <2>2. Promised(held, Views)
    BY <1>3 DEF Survives
  <2> QED BY <1>4, <1>5, <2>1, <2>2 DEF Admits
<1>7. "load" \in Stages
  BY DEF Stages
<1>8. /\ mem' \in Mems /\ mem'.pc = "load" /\ Alike(mem, mem') /\ mem'.gen = mem.gen
      /\ mem'.pending = mem.pending /\ mem'.owed = mem.owed
      /\ mem'.next = mem.next /\ mem'.target = mem.target
  BY <1>2, <1>7, StageIs
<1>9. /\ SameBase(mem, mem') /\ Base(mem') = Base(mem) /\ Held(disk', mem') = Held(disk', mem)
      /\ Spare(mem') = Spare(mem)
      /\ Standing(disk', mem') /\ Undoable(disk', mem') /\ Still(disk', mem')
  BY <1>8, AlikeIs
<1>10. Held(disk', mem') = held /\ Indexed(disk', mem')
  <2>1. mem'.index = mem.index /\ SameBase(mem, mem') /\ Indexed(disk, mem)
        /\ Covered(disk', mem.durableEnd) = Covered(disk, mem.durableEnd)
    BY <1>3, <1>8, <1>9 DEF Alike
  <2>2. Held(disk', mem') = Held(disk, mem)
        /\ (Indexed(disk, mem) /\ mem'.index = mem.index => Indexed(disk', mem'))
    BY ONLY <2>1, Transfer
  <2> QED BY <2>1, <2>2
<1> HIDE DEF held
<1>11. UNCHANGED every /\ kept' = View(disk'.slots, disk'.recs)
  BY DEF Steps, Keeping
<1>12. /\ SlotsOut(disk', mem') = {} /\ ~RecordOut(disk', mem') /\ kept' = held
  <2>1. /\ SlotsOut(disk', mem') = {} /\ ~RecordOut(disk', mem') /\ Len(disk'.recs) = mem'.durableEnd
        /\ disk'.slots = mem'.durableSlots
    BY <1>9 DEF Still
  <2>2. Older(disk'.slots[Spare(mem')], Base(mem'))
    BY <1>9, <2>1 DEF Standing
  <2>3. View(disk'.slots, disk'.recs) = Held(disk', mem')
    BY <1>2, <1>8, <1>9, <2>1, <2>2, ViewIs
  <2> QED BY <1>10, <1>11, <2>1, <2>3
<1>13. kept' \in Tellings /\ Kept({acked, flushed, Outcome})
  BY <1>6, <1>12 DEF Kept, Promised
<1>14. /\ Shape' /\ Promise!PromiseNext
       /\ call' = call /\ acked' = acked /\ Outcome' = Outcome
       /\ Admits(flushed', held) /\ Promised(held, Views')
  <2>1. /\ Shape' /\ Promise!PromiseNext
        /\ call' = call /\ acked' = acked /\ Outcome' = Outcome
        /\ Unflushed => flushed' = flushed /\ Views' = Views
        /\ Covers(acked) => flushed' = acked /\ Views' = {acked, Outcome}
    BY <1>2, <1>8, <1>13, StepShape DEF Lands
  <2>2. CASE Unflushed
    BY <1>4, <1>6, <2>1, <2>2
  <2>3. CASE Covers(acked)
    BY <1>6, <2>1, <2>3 DEF Promised
  <2> QED BY <2>1, <2>2, <2>3
<1>15. Survives(disk', mem', Views')
  BY <1>10, <1>12, <1>14 DEF Survives
<1>16. ByStage(disk', mem', call)
  BY <1>8, <1>9 DEF ByStage
<1>17. Tells(disk', mem', acked, flushed')
  BY <1>4, <1>8, <1>10, <1>14 DEF Tells
<1>18. Marker(mem', call, acked)
  BY <1>5, <1>8, <1>9 DEF Marker, InMark, FailedMark
<1>19. Becomes(disk', mem', call, Outcome)
  BY <1>8 DEF Becomes
<1>20. Carries(disk', mem', call', acked', flushed', Views', Outcome')
  BY <1>9, <1>10, <1>14, <1>15, <1>16, <1>17, <1>18, <1>19 DEF Carries
<1>21. ByCall(mem', call') /\ Behind(disk', mem', Views')
  <2>1. mem' # Closed
    BY <1>8, OpenIs
  <2> QED BY <1>2, <1>8, <1>14, <2>1 DEF ByCall, Behind
<1> QED BY <1>8, <1>11, <1>14, <1>20, <1>21, OpenAgain

LEMMA UndoKeeps ==
    ASSUME IInv, Undo
    PROVE  IInv' /\ Promise!PromiseNext
<1> DEFINE n == mem.durableEnd
<1>1. mem.pc = "undo" /\ mem.pc # "closed" /\ ~mem.pending.dir
  BY DEF Undo
<1>2. /\ every = 1 /\ disk \in Disks /\ mem \in Mems /\ Undoable(disk, mem) /\ Standing(disk, mem)
  BY <1>1, OpenParts DEF Carries, ByStage
<1>3. CASE /\ mem.pending.cut = NoCut /\ mem.pending.slots = NoSlots
           /\ UNCHANGED disk /\ mem' = [mem EXCEPT !.pc = "load"] /\ Steps(0) /\ Unflushed
  <2>1. Still(disk, mem)
    BY <1>2, <1>3 DEF Undoable, Still
  <2>2. disk' = disk
    BY <1>3
  <2> QED BY <1>1, <1>2, <1>3, <2>1, <2>2, UndidKeeps
<1>4. CASE /\ disk' = Synced(Undone(disk, TRUE)) /\ mem' = UndoneIn /\ Steps(0) /\ Covers(acked)
  <2> DEFINE d == Undone(disk, TRUE)
  <2>1. PICK flag \in BOOLEAN : flag = TRUE
    OBVIOUS
  <2>2. d = Undone(disk, flag)
    BY <2>1
  <2> HIDE DEF d
  <2>3. /\ d \in Disks /\ d.behind = disk.behind
        /\ Standing(d, mem) /\ Undoable(d, mem)
        /\ Covered(d, n) = Covered(disk, n)
        /\ flag => /\ d.slots = mem.durableSlots /\ Len(d.recs) = n /\ d.dropped.recs = {}
                   /\ Spare(mem) \in d.dropped.slots => SlotsOut(d, mem) = {}
    BY ONLY <1>2, <2>2, UndoneAre
  <2>4. /\ Grounded(d, mem.durable, Base(mem), n, mem.gen) /\ Other(mem.durable) = Spare(mem)
        /\ Older(d.slots[Spare(mem)], Base(mem)) /\ mem.slots[mem.durable] = Base(mem)
    BY <1>2, <2>1, <2>3, StandingParts
  <2>5. SlotsOut(d, mem) = NewSlots(d, mem.durable, Base(mem))
    BY DEF SlotsOut
  <2>6. /\ Synced(d) \in Disks
        /\ Grounded(Synced(d), mem.durable, Base(mem), n, mem.gen)
        /\ NewSlots(Synced(d), mem.durable, Base(mem)) = {} /\ ~NewRecord(Synced(d), n)
        /\ Synced(d).slots = d.slots /\ Synced(d).recs = d.recs
        /\ Synced(d).dropped = d.dropped /\ Synced(d).behind = d.behind
        /\ Covered(Synced(d), n) = Covered(d, n)
    BY <2>1, <2>3, <2>4, <2>5, CleanSynced
  <2>7. disk' = Synced(d)
    BY <1>4 DEF d
  <2>8. SlotsOut(disk', mem) = {} /\ ~RecordOut(disk', mem)
    BY <2>6, <2>7 DEF SlotsOut, RecordOut
  <2>9. Standing(disk', mem)
    BY <1>2, <2>6, <2>7 DEF Standing
  <2>10. Still(disk', mem)
    BY <1>2, <2>1, <2>3, <2>6, <2>7, <2>8 DEF Still, Undoable
  <2>11. Undoable(disk', mem)
    <3>1. disk'.slots = mem.durableSlots /\ Len(disk'.recs) = n /\ disk'.dropped.recs = {}
      BY <2>1, <2>3, <2>6, <2>7
    <3> QED BY <1>2, <2>8, <3>1 DEF Undoable
  <2>12. mem' = [mem EXCEPT !.pc = "load"]
    <3>1. mem.pending.cut \in {NoCut, n} /\ mem.pending.slots \in {NoSlots, mem.durableSlots} /\ n \in Nat
      BY <1>2, MemParts DEF Undoable
    <3>2. Min({n, n}) = n
      BY <3>1, MinOfSame
    <3>3. (IF mem.pending.cut = NoCut THEN n ELSE Min({n, mem.pending.cut})) = n
      BY <3>1, <3>2
    <3>4. (IF mem.pending.slots = NoSlots THEN mem.durableSlots ELSE mem.pending.slots) = mem.durableSlots
      BY <3>1
    <3>5. mem' = [mem EXCEPT !.pc = "load", !.durableEnd = n, !.durableSlots = mem.durableSlots]
      BY <1>4, <3>3, <3>4 DEF UndoneIn
    <3>6. [mem EXCEPT !.pc = "load", !.durableEnd = n, !.durableSlots = mem.durableSlots] = [mem EXCEPT !.pc = "load"]
      BY <1>2 DEF Mems
    <3> QED BY <3>5, <3>6
  <2>13. disk' \in Disks /\ disk'.behind = disk.behind /\ Covered(disk', n) = Covered(disk, n)
    BY <2>3, <2>6, <2>7
  <2> QED BY <1>1, <1>4, <2>9, <2>10, <2>11, <2>12, <2>13, UndidKeeps
<1>5. CASE /\ disk' \in {disk, Undone(disk, FALSE), Undone(disk, TRUE)}
           /\ mem' = [mem EXCEPT !.pc = "fails"] /\ Steps(1) /\ Unflushed
  <2>1. CASE disk' = disk
    BY <1>1, <1>2, <1>5, <2>1, GiveUpKeeps
  <2>2. ASSUME NEW flag \in BOOLEAN, disk' = Undone(disk, flag) PROVE IInv' /\ Promise!PromiseNext
    <3> DEFINE d == Undone(disk, flag)
    <3>1. /\ d \in Disks /\ d.behind = disk.behind /\ d.wrote = disk.wrote
          /\ Standing(d, mem) /\ Undoable(d, mem)
          /\ SlotsOut(d, mem) = SlotsOut(disk, mem) /\ (RecordOut(d, mem) <=> RecordOut(disk, mem))
          /\ Covered(d, n) = Covered(disk, n)
          /\ View(d.slots, d.recs) \in {View(disk.slots, disk.recs), Held(disk, mem)}
      BY ONLY <1>2, UndoneAre
    <3>2. disk' = d
      BY <2>2
    <3> HIDE DEF d
    <3> QED BY <1>1, <1>5, <3>1, <3>2, GiveUpKeeps
  <2>3. disk' = disk \/ \E flag \in BOOLEAN : disk' = Undone(disk, flag)
    BY <1>5
  <2> QED BY <2>1, <2>2, <2>3
<1> QED BY <1>3, <1>4, <1>5 DEF Undo

\* What a journal makes of what it reads.
LEMMA LoadedIs ==
    ASSUME every = 1, NEW slots, NEW all, NEW p, NEW recs, Reads(slots, all, p, recs),
           NEW s \in Stages, NEW m, m = Loaded(Scan(slots, all), slots, s)
    PROVE  /\ m \in Mems /\ m.pc = s /\ m.slots = slots /\ m.durableSlots = slots
           /\ m.active = p /\ m.durable = p /\ m.end = Len(recs) /\ m.durableEnd = Len(recs)
           /\ m.next = Told(slots[p], recs).next /\ m.target = Told(slots[p], recs).target
           /\ m.owed = slots[p].owed /\ m.index = [n \in Seqs |-> LastOf(recs, n)]
           /\ m.pending = NoPending
           /\ \A q \in Positions : slots[q] = Bad \/ slots[q].gen < m.gen
           /\ \A i \in 1 .. Len(recs) : recs[i].gen < m.gen
<1> DEFINE g == 1 + Max(Generations(slots, recs))
           index == [n \in Seqs |-> LastOf(recs, n)]
           next == Sender(recs, slots[p])
<1>1. /\ slots \in Pairs /\ p \in Positions /\ slots[p] \in Slots /\ Older(slots[Other(p)], slots[p])
      /\ recs \in Seq(Records) /\ Len(recs) \in Nat
  BY DEF Reads, Whole
<1>2. Scan(slots, all) = [active |-> p, recs |-> recs, next |-> Sender(recs, slots[p]),
                          target |-> slots[p].target, owed |-> slots[p].owed]
  BY ReadsAre
<1>3. Valid(slots) # {}
  BY <1>1, NewestIs
<1>4. /\ Max(Generations(slots, recs)) \in Nat
      /\ \A q \in Positions : slots[q] = Bad \/ slots[q].gen <= Max(Generations(slots, recs))
      /\ \A i \in 1 .. Len(recs) : recs[i].gen <= Max(Generations(slots, recs))
  BY <1>1, <1>3, GenerationsAre
<1>5. /\ g \in Nat
      /\ \A q \in Positions : slots[q] = Bad \/ slots[q].gen < g
      /\ \A i \in 1 .. Len(recs) : recs[i].gen < g
  <2>1. \A q \in Positions : slots[q] = Bad \/ slots[q].gen \in Nat
    BY <1>1 DEF Pairs, Slots
  <2>2. \A i \in 1 .. Len(recs) : recs[i].gen \in Nat
    BY <1>1, RecordsIn
  <2> QED BY <1>4, <2>1, <2>2
<1>6. index \in [Seqs -> Nat]
  <2>1. \A n \in Seqs : LastOf(recs, n) \in 0 .. Len(recs)
    BY <1>1, LastOfIs
  <2> QED BY <1>1, <2>1
<1>7. next \in Numbers /\ slots[p].target \in Targets /\ slots[p].owed \in BOOLEAN
  BY <1>1, SenderIs DEF Slots
<1>8. Told(slots[p], recs).next = next /\ Told(slots[p], recs).target = slots[p].target
  BY <1>1, ToldType
<1>9. m = [pc |-> s, slots |-> slots, durableSlots |-> slots, active |-> p,
           durable |-> p, end |-> Len(recs), durableEnd |-> Len(recs),
           unsynced |-> 0, gen |-> g, next |-> next, target |-> slots[p].target,
           owed |-> slots[p].owed, index |-> index, pending |-> NoPending, left |-> 0, was |-> FALSE]
  BY <1>2 DEF Loaded
<1> HIDE DEF g, index, next
<1>10. NoPending \in Pendings
  BY NoPendingIs
<1>11. m \in Mems
  BY <1>1, <1>5, <1>6, <1>7, <1>9, <1>10 DEF Mems
<1>12. /\ m.pc = s /\ m.slots = slots /\ m.durableSlots = slots
       /\ m.active = p /\ m.durable = p /\ m.end = Len(recs) /\ m.durableEnd = Len(recs)
       /\ m.next = next /\ m.target = slots[p].target
       /\ m.owed = slots[p].owed /\ m.index = index /\ m.pending = NoPending /\ m.gen = g
  BY <1>9
<1> QED BY <1>5, <1>8, <1>11, <1>12 DEF index

LEMMA LoadKeeps ==
    ASSUME IInv, Load
    PROVE  IInv' /\ Promise!PromiseNext
<1> DEFINE held == Held(disk, mem)
           n == mem.durableEnd
           recs == Covered(disk, n)
<1>1. mem.pc = "load" /\ mem.pc # "closed" /\ mem.pc # "idle" /\ mem.pc # "renamed"
      /\ ~InMark(mem) /\ ~FailedMark(mem, call)
  BY DEF Load, InMark, FailedMark
<1>2. /\ Shape /\ every = 1 /\ disk \in Disks /\ mem \in Mems /\ acked \in Stores
      /\ ByCall(mem, call)
      /\ Carries(disk, mem, call, acked, flushed, Views, Outcome)
      /\ call # Promise!NoCall /\ kept = View(disk.slots, disk.recs)
      /\ (disk.behind # {} => mem.pending.dir)
  BY <1>1, OpenParts
<1>3. /\ Standing(disk, mem) /\ Survives(disk, mem, Views)
      /\ ByStage(disk, mem, call)
      /\ Tells(disk, mem, acked, flushed) /\ Marker(mem, call, acked)
  BY <1>2 DEF Carries
<1>4. Still(disk, mem) /\ Undoable(disk, mem) /\ ~mem.pending.dir /\ disk.behind = {}
  BY <1>1, <1>2, <1>3 DEF ByStage, ByCall
<1>5. CASE UNCHANGED disk /\ mem' = [mem EXCEPT !.pc = "fails"] /\ Steps(1) /\ Unflushed
  <2>1. disk' = disk
    BY <1>5
  <2> QED BY <1>1, <1>2, <1>3, <1>4, <1>5, <2>1, GiveUpKeeps
<1>6. CASE LET scan == Scan(disk.slots, disk.recs)
               read == Loaded(scan, disk.slots, "reflush")
           IN  /\ Opens(disk.slots, disk.recs)
               /\ disk' = CutTo(disk, Len(scan.recs))
               /\ mem' = [read EXCEPT !.durableEnd = Min({mem.durableEnd, read.end}),
                                      !.durableSlots = mem.durableSlots,
                                      !.gen = Max({@, mem.gen})]
               /\ Steps(0) /\ Unflushed
  <2> DEFINE read == Loaded(Scan(disk.slots, disk.recs), disk.slots, "reflush")
  <2>1. /\ Agrees(acked, held) /\ mem.next = acked.next /\ mem.target = acked.target
        /\ Admits(flushed, held)
    BY <1>1, <1>3, <1>4 DEF Tells
  <2>2. mem.owed \in acked.owed /\ Base(mem).owed \in acked.owed
    BY <1>1, <1>3 DEF Marker
  <2>3. held \in Tellings /\ Admits(acked, held) /\ Promised(held, Views) /\ held = Told(Base(mem), recs)
    <3>1. held \in Tellings /\ held.owed = Base(mem).owed
      BY <1>2, <1>3, StandingParts
    <3>2. Promised(held, Views)
      BY <1>3 DEF Survives
    <3> QED BY <2>1, <2>2, <3>1, <3>2 DEF Admits, Held
  <2>4. /\ Grounded(disk, mem.durable, Base(mem), n, mem.gen) /\ n \in Nat /\ mem.gen \in Nat
        /\ disk.slots = mem.durableSlots /\ mem.durableSlots[mem.durable] = Base(mem)
        /\ Older(mem.durableSlots[Spare(mem)], Base(mem)) /\ Other(mem.durable) = Spare(mem)
        /\ Len(disk.recs) = n /\ Len(recs) = n /\ Base(mem).owed \in BOOLEAN
    BY <1>2, <1>3, <1>4, StandingParts DEF Still
  <2>5. Reads(disk.slots, disk.recs, mem.durable, recs)
    BY <1>2, <2>4, DiskReads
  <2>6. "reflush" \in Stages
    BY DEF Stages
  <2>7. Scan(disk.slots, disk.recs).recs = recs
    <3>1. Scan(disk.slots, disk.recs) =
            [active |-> mem.durable, recs |-> recs, next |-> Sender(recs, disk.slots[mem.durable]),
             target |-> disk.slots[mem.durable].target, owed |-> disk.slots[mem.durable].owed]
      BY ONLY <1>2, <2>5, ReadsAre
    <3> QED BY <3>1
  <2>8. disk' = disk
    BY <1>6, <2>4, <2>7 DEF CutTo
  <2>9. /\ read \in Mems /\ read.pc = "reflush" /\ read.slots = disk.slots
        /\ read.active = mem.durable /\ read.durable = mem.durable /\ read.end = Len(recs)
        /\ read.next = Told(disk.slots[mem.durable], recs).next
        /\ read.target = Told(disk.slots[mem.durable], recs).target
        /\ read.owed = disk.slots[mem.durable].owed /\ read.index = [k \in Seqs |-> LastOf(recs, k)]
        /\ read.pending = NoPending
    <3>1. PICK s \in Stages : s = "reflush"
      BY <2>6
    <3>2. read = Loaded(Scan(disk.slots, disk.recs), disk.slots, s)
      BY <3>1
    <3>3. every = 1
      BY <1>2
    <3> HIDE DEF read, recs
    <3>4. /\ read \in Mems /\ read.pc = s /\ read.slots = disk.slots
          /\ read.active = mem.durable /\ read.durable = mem.durable /\ read.end = Len(recs)
          /\ read.next = Told(disk.slots[mem.durable], recs).next
          /\ read.target = Told(disk.slots[mem.durable], recs).target
          /\ read.owed = disk.slots[mem.durable].owed /\ read.index = [k \in Seqs |-> LastOf(recs, k)]
          /\ read.pending = NoPending
      BY ONLY <2>5, <3>2, <3>3, LoadedIs
    <3> QED BY <3>1, <3>4
  <2>10. mem' = [read EXCEPT !.durableEnd = n, !.durableSlots = mem.durableSlots,
                             !.gen = Max({read.gen, mem.gen})]
    <3>1. Min({n, read.end}) = n
      BY <2>4, <2>9, MinOfSame
    <3> QED BY <1>6, <3>1
  <2> HIDE DEF read
  <2>11. Max({read.gen, mem.gen}) \in Nat /\ mem.gen <= Max({read.gen, mem.gen})
    <3>1. read.gen \in Nat
      BY <2>9, MemParts
    <3> QED BY <2>4, <3>1, MaxOfTwo
  <2>12. /\ mem' \in Mems /\ mem'.pc = "reflush" /\ mem'.slots = mem.durableSlots
         /\ mem'.active = mem.durable /\ mem'.durable = mem.durable /\ mem'.end = n
         /\ mem'.durableEnd = n /\ mem'.durableSlots = mem.durableSlots
         /\ mem'.next = held.next /\ mem'.target = held.target /\ mem'.owed = Base(mem).owed
         /\ mem'.index = [k \in Seqs |-> LastOf(recs, k)] /\ mem'.pending = NoPending
         /\ mem'.gen = Max({read.gen, mem.gen})
    <3>1. mem.durableSlots \in Pairs
      BY <1>2, MemParts
    <3>2. mem' \in Mems /\ mem'.pc = "reflush" /\ mem'.slots = mem.durableSlots
          /\ mem'.active = mem.durable /\ mem'.durable = mem.durable /\ mem'.end = n
      BY <2>4, <2>9, <2>10, <2>11, <3>1 DEF Mems
    <3>3. mem'.durableEnd = n /\ mem'.durableSlots = mem.durableSlots
          /\ mem'.gen = Max({read.gen, mem.gen})
      BY <2>9, <2>10 DEF Mems
    <3>4. mem'.next = held.next /\ mem'.target = held.target /\ mem'.owed = Base(mem).owed
      BY <2>3, <2>4, <2>9, <2>10 DEF Mems
    <3>5. mem'.index = [k \in Seqs |-> LastOf(recs, k)] /\ mem'.pending = NoPending
      BY <2>9, <2>10 DEF Mems
    <3> QED BY <3>2, <3>3, <3>4, <3>5
  <2>13. SameBase(mem, mem') /\ Grounded(disk', mem.durable, Base(mem), n, mem'.gen)
    <3>1. Grounded(disk, mem.durable, Base(mem), n, Max({read.gen, mem.gen}))
      BY <1>2, <2>4, <2>11, GroundedLater
    <3> QED BY <2>8, <2>12, <3>1 DEF SameBase
  <2>14. /\ Base(mem') = Base(mem) /\ Spare(mem') = Spare(mem) /\ Held(disk', mem') = held
         /\ SlotsOut(disk', mem') = SlotsOut(disk, mem)
         /\ (RecordOut(disk', mem') <=> RecordOut(disk, mem))
    BY <2>8, <2>13, BaseIs
  <2>15. Standing(disk', mem')
    BY <2>4, <2>12, <2>13, <2>14 DEF Standing
  <2>16. Settled(disk', mem')
    BY <1>4, <2>8, <2>12, <2>14 DEF Settled, Still
  <2>17. Indexed(disk', mem')
    BY <2>8, <2>12 DEF Indexed
  <2>18. Agrees(acked, held) => held.next = acked.next /\ held.target = acked.target
    BY DEF Agrees
  <2> HIDE DEF held, recs
  <2>19. UNCHANGED every /\ kept' = View(disk'.slots, disk'.recs)
    BY <1>6 DEF Steps, Keeping
  <2>20. kept' = held /\ \A S : Promised(held, S) => Survives(disk', mem', S)
    BY <1>2, <2>8, <2>12, <2>14, <2>15, <2>16, <2>19, SettledIs
  <2>21. /\ Shape' /\ Promise!PromiseNext
         /\ call' = call /\ acked' = acked /\ Outcome' = Outcome
         /\ flushed' = flushed /\ Views' = Views
    <3>1. Lands
      BY <1>2, <2>3, <2>8, <2>12, <2>20 DEF Lands
    <3>2. Kept({acked, flushed, Outcome})
      BY <2>1, <2>20 DEF Kept, Promised
    <3> QED BY <1>2, <1>6, <3>1, <3>2, StepShape
  <2>22. Survives(disk', mem', Views')
    BY <2>3, <2>20, <2>21
  <2>23. ByStage(disk', mem', call)
    BY <2>12, <2>16 DEF ByStage
  <2>24. Tells(disk', mem', acked, flushed)
    BY <2>1, <2>12, <2>14, <2>18 DEF Tells
  <2>25. Marker(mem', call, acked)
    BY <2>2, <2>12, <2>14 DEF Marker, InMark, FailedMark
  <2>26. Becomes(disk', mem', call, Outcome)
    BY <2>12 DEF Becomes
  <2>27. Carries(disk', mem', call', acked', flushed', Views', Outcome')
    BY <2>15, <2>17, <2>21, <2>22, <2>23, <2>24, <2>25, <2>26 DEF Carries
  <2>28. ByCall(mem', call') /\ Behind(disk', mem', Views')
    <3>1. mem' # Closed
      BY <2>12, OpenIs
    <3> QED BY <1>1, <1>2, <1>4, <2>8, <2>12, <2>21, <3>1 DEF ByCall, Behind
  <2> QED BY <2>12, <2>19, <2>21, <2>27, <2>28, OpenAgain
<1> QED BY <1>5, <1>6 DEF Load

-----------------------------------------------------------------------------
(* Replacement                                                              *)

\* Whatever a power loss brings back opens, and was promised.
LEMMA SurvivorsAre ==
    ASSUME every = 1, NEW d \in Disks, NEW m, NEW S, Standing(d, m), Survives(d, m, S), NEW j \in Images(d)
    PROVE  j \in Journals /\ Openable(j) /\ Promised(View(j.slots, j.recs), S)
<1>1. Grounded(d, m.durable, Base(m), m.durableEnd, m.gen)
  BY DEF Standing
<1>2. /\ j \in Journals /\ Openable(j)
      /\ \/ View(j.slots, j.recs) = Told(Base(m), Covered(d, m.durableEnd))
         \/ \E x \in NewSlots(d, m.durable, Base(m)) :
               View(j.slots, j.recs) = Told(x, Covered(d, m.durableEnd))
         \/ /\ NewRecord(d, m.durableEnd)
            /\ View(j.slots, j.recs) = Told(Base(m), With(d, m.durableEnd, d.wrote[m.durableEnd + 1]))
  BY <1>1, ImagesRead
<1>3. Promised(View(j.slots, j.recs), S)
  BY <1>2 DEF Survives, Held, SlotsOut, RecordOut, LastRecord
<1> QED BY <1>2, <1>3

\* A journal replaced by a fresh one, with the one before it still behind.
LEMMA RenamedKeeps ==
    ASSUME IInv, mem.pc = "idle", NEW c \in Calls, c.op \in {"reset", "compact"}, Begins(c, 0),
           NEW recs \in Seq(Records), NEW g \in Nat, NEW next \in Numbers, NEW target \in Targets,
           \A i \in 1 .. Len(recs) : recs[i].gen <= g,
           NEW slots, slots = Fresh(g, next, target, Len(recs), mem.owed),
           disk' = Renamed(slots, recs),
           mem' = [Over(slots, recs, g + 2) EXCEPT !.next = next, !.target = target],
           Promise!Effect(acked, c).next = next, Promise!Effect(acked, c).target = target,
           Promise!Effect(acked, c).owed = acked.owed,
           \A n \in Seqs : Promise!Effect(acked, c).filed[n] = FrameAt(recs, LastOf(recs, n))
    PROVE  IInv' /\ Promise!PromiseNext
<1> DEFINE outcome == Promise!Effect(acked, c)
           n == Len(recs)
           index == [k \in Seqs |-> LastOf(recs, k)]
<1>1. mem.pc # "closed" /\ mem.pc # "renamed" /\ ~InMark(mem) /\ ~FailedMark(mem, call)
  BY DEF InMark, FailedMark
<1>2. /\ Shape /\ every = 1 /\ disk \in Disks /\ mem \in Mems /\ acked \in Stores
      /\ Behind(disk, mem, Views)
      /\ Carries(disk, mem, call, acked, flushed, Views, Outcome)
      /\ call = Promise!NoCall
  BY <1>1, OpenParts
<1>3. Standing(disk, mem) /\ Survives(disk, mem, Views) /\ Marker(mem, call, acked)
  BY <1>2 DEF Carries
<1>4. mem.owed \in acked.owed /\ mem.owed \in BOOLEAN
  BY <1>1, <1>2, <1>3, MemParts DEF Marker
<1>5. n \in Nat /\ g + 1 \in Nat /\ g + 2 \in Nat
  OBVIOUS
<1>6. PICK zero \in Positions : zero = 0
  BY DEF Positions
<1>7. PICK one \in Positions : one = 1
  BY DEF Positions
<1>8. Other(one) = zero /\ zero # one /\ \A q \in Positions : q = zero \/ q = one
  BY <1>6, <1>7 DEF Other, Positions
<1>9. /\ slots[zero] = Slot(g, next, target, mem.owed, n)
      /\ slots[one] = Slot(g + 1, next, target, mem.owed, n)
      /\ slots = [p \in Positions |-> slots[p]]
  <2>1. slots = [p \in Positions |-> Slot(g + p, next, target, mem.owed, n)]
    BY DEF Fresh
  <2>2. slots[zero] = Slot(g + 0, next, target, mem.owed, n) /\ g + 0 = g
    BY <1>6, <2>1
  <2> QED BY <1>7, <2>1, <2>2
<1>10. /\ slots[zero] \in Slots /\ slots[one] \in Slots /\ slots[zero].gen = g
       /\ slots[one].gen = g + 1 /\ slots[one].bound = n /\ slots[one].next = next
       /\ slots[one].target = target /\ slots[one].owed = mem.owed
  <2>1. Slot(g, next, target, mem.owed, n) \in Slots /\ Slot(g + 1, next, target, mem.owed, n) \in Slots
    BY <1>4, <1>5 DEF Slot, Slots
  <2> QED BY <1>9, <2>1 DEF Slot
<1>11. slots \in Pairs
  BY <1>8, <1>9, <1>10 DEF Pairs
<1>12. Older(slots[Other(one)], slots[one])
  BY <1>8, <1>10 DEF Older
<1> HIDE DEF n, index
<1>13. recs \in Written
  BY DEF Written
<1>14. /\ disk' \in Disks /\ disk'.slots = slots /\ disk'.recs = recs /\ disk'.wrote = recs
       /\ disk'.firm = n /\ disk'.dropped = Nothing
       /\ disk'.behind = disk.behind \union Images(disk)
       /\ \A q \in Positions : disk'.may[q] = {slots[q]}
  <2> DEFINE j == [slots |-> slots, recs |-> recs]
  <2>1. j \in Journals /\ j.slots = slots /\ j.recs = recs
    BY <1>11, <1>13 DEF Journals
  <2> HIDE DEF j
  <2>2. /\ Firm(j.slots, j.recs) \in Disks
        /\ Firm(j.slots, j.recs).slots = j.slots /\ Firm(j.slots, j.recs).recs = j.recs
        /\ Firm(j.slots, j.recs).wrote = j.recs /\ Firm(j.slots, j.recs).firm = Len(j.recs)
        /\ Firm(j.slots, j.recs).dropped = Nothing
        /\ \A q \in Positions : Firm(j.slots, j.recs).may[q] = {j.slots[q]}
    BY <2>1, FirmIs
  <2>3. disk.behind \union Images(disk) \subseteq Journals
    <3>1. disk.behind \subseteq Journals
      BY <1>2, DiskParts
    <3>2. ASSUME NEW k \in Images(disk) PROVE k \in Journals
      BY <1>2, <1>3, SurvivorsAre
    <3> QED BY <3>1, <3>2
  <2> DEFINE firm == Firm(j.slots, j.recs)
             more == disk.behind \union Images(disk)
  <2>4. disk' = [firm EXCEPT !.behind = more]
    BY <2>1 DEF Renamed
  <2> HIDE DEF firm, more
  <2>5. /\ disk' \in Disks /\ disk'.slots = firm.slots /\ disk'.recs = firm.recs
        /\ disk'.wrote = firm.wrote /\ disk'.firm = firm.firm /\ disk'.dropped = firm.dropped
        /\ disk'.behind = more /\ disk'.may = firm.may
    <3>1. firm \in Disks /\ more \subseteq Journals
      BY <2>2, <2>3 DEF firm, more
    <3> QED BY <2>4, <3>1 DEF Disks
  <2> QED BY <2>1, <2>2, <2>5 DEF firm, more, n
<1>15. /\ Grounded(disk', one, slots[one], n, g + 2)
       /\ NewSlots(disk', one, slots[one]) = {} /\ ~NewRecord(disk', n)
       /\ Covered(disk', n) = recs
  <2>1. \A q \in Positions : disk'.slots[q] = Bad \/ disk'.slots[q].gen < g + 2
    BY <1>8, <1>10, <1>14
  <2>2. \A i \in 1 .. Len(recs) : recs[i].gen < g + 2
    BY RecordsIn
  <2>3. /\ disk' \in Disks /\ one \in Positions /\ disk'.recs = recs /\ disk'.wrote = recs
        /\ disk'.firm = Len(recs) /\ disk'.dropped = Nothing
        /\ \A q \in Positions : disk'.may[q] = {disk'.slots[q]}
        /\ disk'.slots[one] \in Slots /\ disk'.slots[one].bound <= Len(recs)
        /\ Older(disk'.slots[Other(one)], disk'.slots[one])
    BY <1>5, <1>10, <1>12, <1>14 DEF n
  <2> DEFINE h == g + 2
             d == disk'
  <2>5. h \in Nat /\ recs \in Seq(Records) /\ one \in Positions
    BY <1>5
  <2>6. /\ \A q \in Positions : d.slots[q] = Bad \/ d.slots[q].gen < h
        /\ \A i \in 1 .. Len(recs) : recs[i].gen < h
        /\ d \in Disks /\ d.recs = recs /\ d.wrote = recs
        /\ d.firm = Len(recs) /\ d.dropped = Nothing
        /\ \A q \in Positions : d.may[q] = {d.slots[q]}
        /\ d.slots[one] \in Slots /\ d.slots[one].bound <= Len(recs)
        /\ Older(d.slots[Other(one)], d.slots[one])
    BY <2>1, <2>2, <2>3
  <2> HIDE DEF h, d
  <2>4. /\ Grounded(d, one, d.slots[one], Len(recs), h)
        /\ NewSlots(d, one, d.slots[one]) = {} /\ ~NewRecord(d, Len(recs))
        /\ Covered(d, Len(recs)) = recs
    BY ONLY <2>5, <2>6, FreshlyGrounded
  <2> QED BY <1>14, <2>4 DEF n, d, h
<1>16. index \in [Seqs -> Nat]
  <2>1. \A k \in Seqs : LastOf(recs, k) \in 0 .. Len(recs)
    BY LastOfIs
  <2> QED BY <2>1 DEF index
<1>17. /\ mem' \in Mems /\ mem'.pc = "renamed" /\ mem'.pending = NoPending
       /\ mem'.slots = slots /\ mem'.durableSlots = slots /\ mem'.active = one /\ mem'.durable = one
       /\ mem'.end = n /\ mem'.durableEnd = n /\ mem'.gen = g + 2 /\ mem'.index = index
       /\ mem'.next = next /\ mem'.target = target /\ mem'.owed = mem.owed
  <2>1. mem' = [mem EXCEPT !.pc = "renamed", !.pending = NoPending, !.slots = slots, !.durableSlots = slots,
                !.active = one, !.durable = one, !.end = n, !.durableEnd = n,
                !.unsynced = 0, !.gen = g + 2, !.index = index, !.next = next, !.target = target]
    <3>1. mem' = [mem EXCEPT !.pc = "renamed", !.pending = NoPending, !.slots = slots,
                  !.durableSlots = slots, !.active = one, !.durable = one, !.end = n, !.durableEnd = n,
                  !.unsynced = 0, !.gen = g + 2, !.index = index, !.next = next, !.target = target]
      BY <1>7 DEF Over, n, index
    <3> QED BY <3>1
  <2>2. /\ "renamed" \in Stages /\ NoPending \in Pendings /\ slots \in Pairs /\ one \in Positions
        /\ n \in Nat /\ g + 2 \in Nat /\ index \in [Seqs -> Nat] /\ next \in Numbers /\ target \in Targets
        /\ 0 \in Nat /\ mem \in Mems
    BY <1>2, <1>5, <1>11, <1>16, NoPendingIs DEF Stages, n
  <2> DEFINE h == g + 2
             base == [mem EXCEPT !.pc = "renamed", !.pending = NoPending, !.slots = slots,
                      !.durableSlots = slots, !.active = one, !.durable = one]
  <2>3. /\ base \in Mems /\ base.pc = "renamed" /\ base.pending = NoPending /\ base.slots = slots
        /\ base.durableSlots = slots /\ base.active = one /\ base.durable = one /\ base.owed = mem.owed
    BY ONLY <2>2 DEF Mems
  <2>4. mem' = [base EXCEPT !.end = n, !.durableEnd = n, !.unsynced = 0, !.gen = h, !.index = index,
                !.next = next, !.target = target]
    BY ONLY <2>1, <2>2 DEF Mems
  <2>5. h \in Nat
    BY <2>2
  <2> HIDE DEF base, h
  <2>6. /\ mem' \in Mems /\ mem'.pc = base.pc /\ mem'.pending = base.pending /\ mem'.slots = base.slots
        /\ mem'.durableSlots = base.durableSlots /\ mem'.active = base.active
        /\ mem'.durable = base.durable /\ mem'.owed = base.owed
    BY ONLY <2>2, <2>3, <2>4, <2>5 DEF Mems
  <2>7. /\ mem'.end = n /\ mem'.durableEnd = n /\ mem'.gen = h /\ mem'.index = index
        /\ mem'.next = next /\ mem'.target = target
    BY ONLY <2>3, <2>4 DEF Mems
  <2> QED BY <2>3, <2>6, <2>7 DEF h
<1>18. /\ Base(mem') = slots[one] /\ Spare(mem') = zero /\ Held(disk', mem') = Told(slots[one], recs)
       /\ SlotsOut(disk', mem') = {} /\ ~RecordOut(disk', mem')
  BY <1>8, <1>15, <1>17 DEF Base, Spare, Held, SlotsOut, RecordOut
<1>19. Standing(disk', mem')
  BY <1>8, <1>12, <1>15, <1>17, <1>18 DEF Standing
<1>20. Settled(disk', mem')
  <2>1. disk'.dropped.recs = {} /\ Len(disk'.recs) = n
    BY <1>14 DEF Nothing, n
  <2> QED BY <1>14, <1>17, <1>18, <2>1 DEF Settled, Still
<1>21. Indexed(disk', mem')
  BY <1>15, <1>17 DEF Indexed, index
<1>22. outcome \in Stores
  BY <1>2, EffectIs
<1>23. Admits(outcome, Held(disk', mem'))
  <2>1. slots[one] \in Slots /\ \A i \in 1 .. Len(recs) : recs[i].gen <= slots[one].gen
    BY <1>10, RecordsIn
  <2>2. /\ Told(slots[one], recs).next = next /\ Told(slots[one], recs).target = target
        /\ Told(slots[one], recs).owed = mem.owed
    BY <1>10, <2>1, ToldSlot
  <2>3. /\ Told(slots[one], recs) \in Tellings
        /\ \A k \in Seqs : Told(slots[one], recs).filed[k] = FrameAt(recs, LastOf(recs, k))
    BY <2>1, ToldType
  <2>4. Told(slots[one], recs).filed \in [Seqs -> Frames \union {0}]
    BY <2>3 DEF Tellings
  <2>5. outcome.filed \in [Seqs -> Frames \union {0}]
    BY <1>22 DEF Stores
  <2>6. outcome.filed = Told(slots[one], recs).filed
    BY <2>3, <2>4, <2>5
  <2>7. outcome.next = next /\ outcome.target = target /\ mem.owed \in outcome.owed
    BY <1>4
  <2> QED BY <1>18, <2>2, <2>6, <2>7 DEF Admits, Agrees
<1>24. UNCHANGED every /\ kept' = View(disk'.slots, disk'.recs)
  BY DEF Begins, Keeping
<1>25. kept' = Held(disk', mem') /\ kept' \in Tellings
       /\ \A S : Promised(Held(disk', mem'), S) => Survives(disk', mem', S)
  <2>1. every = 1 => View(disk'.slots, disk'.recs) = Held(disk', mem') /\ View(disk'.slots, disk'.recs) \in Tellings
    BY <1>14, <1>17, <1>19, <1>20, SettledIs
  <2>2. \A S : Promised(Held(disk', mem'), S) => Survives(disk', mem', S)
    BY <1>14, <1>17, <1>19, <1>20, SettledIs
  <2> QED BY <1>2, <1>24, <2>1, <2>2
<1>26. /\ Shape' /\ Promise!PromiseNext
       /\ call' = c /\ acked' = acked /\ flushed' = flushed /\ Views \subseteq Views'
       /\ outcome \in Views' /\ Outcome' = outcome
  <2>1. Lands /\ Kept({acked, flushed, outcome})
    BY <1>14, <1>17, <1>23, <1>25 DEF Lands, Kept, Promised
  <2> QED BY <1>2, <2>1, BeginShape
<1> HIDE DEF outcome
<1>27. Survives(disk', mem', Views')
  BY <1>23, <1>25, <1>26 DEF Promised
<1>28. ByStage(disk', mem', c)
  BY <1>17, <1>20 DEF ByStage
<1>29. Tells(disk', mem', acked, flushed)
  BY <1>17 DEF Tells
<1>30. Marker(mem', c, acked)
  BY <1>10, <1>17, <1>18 DEF Marker, InMark, FailedMark
<1>31. Becomes(disk', mem', c, outcome)
  <2>1. outcome.next = next /\ outcome.target = target /\ mem.owed \in outcome.owed
    BY <1>4 DEF outcome
  <2> QED BY <1>17, <1>23, <2>1 DEF Becomes
<1>32. Carries(disk', mem', call', acked', flushed', Views', Outcome')
  BY <1>19, <1>21, <1>26, <1>27, <1>28, <1>29, <1>30, <1>31 DEF Carries
<1>33. mem' # Closed /\ c # Promise!NoCall
  BY <1>17, OpenIs, CallsAre
<1>34. ByCall(mem', call')
  BY <1>17, <1>26, <1>33 DEF ByCall
<1>35. Behind(disk', mem', Views')
  <2>1. ASSUME NEW j \in disk.behind \union Images(disk)
        PROVE  Openable(j) /\ Promised(View(j.slots, j.recs), Views')
    <3>1. CASE j \in disk.behind
      BY <1>2, <1>26, <3>1, PromisedMore DEF Behind
    <3>2. CASE j \in Images(disk)
      <4>1. Openable(j) /\ Promised(View(j.slots, j.recs), Views)
        BY <1>2, <1>3, <3>2, SurvivorsAre
      <4> QED BY <1>26, <4>1, PromisedMore
    <3> QED BY <3>1, <3>2
  <2> QED BY <1>14, <1>17, <2>1 DEF Behind
<1> QED BY <1>17, <1>24, <1>26, <1>32, <1>34, <1>35, OpenAgain

\* A reset, of the counters and of everything filed under them.
LEMMA ResetToKeeps ==
    ASSUME IInv, NEW c \in Calls, ResetTo(c)
    PROVE  IInv' /\ Promise!PromiseNext
<1> DEFINE slots == Fresh(0, c.next, c.next, 0, mem.owed)
<1>1. /\ c.op = "reset" /\ mem.pc = "idle" /\ Begins(c, 0)
      /\ disk' = Renamed(slots, <<>>)
      /\ mem' = [Over(slots, <<>>, 2) EXCEPT !.next = c.next, !.target = c.next]
  BY DEF ResetTo, Idle
<1>2. acked \in Stores
  BY DEF IInv, Shape
<1>3. c.next \in Numbers /\ c.next \in Targets
  BY <1>1, CallsAre
<1>4. PICK recs \in Seq(Records) : recs = <<>>
  <2>1. <<>> \in Seq(Records)
    OBVIOUS
  <2> QED BY <2>1
<1>5. PICK g \in Nat : g = 0
  OBVIOUS
<1>6. Len(recs) = 0 /\ g + 2 = 2 /\ \A i \in 1 .. Len(recs) : recs[i].gen <= g
  BY <1>4, <1>5
<1>7. slots = Fresh(g, c.next, c.next, Len(recs), mem.owed)
  BY <1>5, <1>6
<1>8. /\ disk' = Renamed(slots, recs)
      /\ mem' = [Over(slots, recs, g + 2) EXCEPT !.next = c.next, !.target = c.next]
  BY <1>1, <1>4, <1>6
<1>9. /\ Promise!Effect(acked, c).next = c.next /\ Promise!Effect(acked, c).target = c.next
      /\ Promise!Effect(acked, c).owed = acked.owed
      /\ Promise!Effect(acked, c).filed = [n \in Seqs |-> 0]
  BY <1>1, <1>2, EffectIs
<1>10. ASSUME NEW n \in Seqs PROVE Promise!Effect(acked, c).filed[n] = FrameAt(recs, LastOf(recs, n))
  <2>1. LastOf(recs, n) \in 0 .. Len(recs)
    BY LastOfIs
  <2>2. LastOf(recs, n) = 0
    BY <1>6, <2>1
  <2> QED BY <1>9, <2>2 DEF FrameAt
<1> HIDE DEF slots
<1>11. /\ IInv /\ mem.pc = "idle" /\ c \in Calls /\ c.op \in {"reset", "compact"} /\ Begins(c, 0)
       /\ recs \in Seq(Records) /\ g \in Nat /\ c.next \in Numbers /\ c.next \in Targets
  BY <1>1, <1>3
<1> QED BY ONLY <1>6, <1>7, <1>8, <1>9, <1>10, <1>11, RenamedKeeps

\* A compaction keeps the last record of each number.
LEMMA CompactKeeps ==
    ASSUME IInv, Compact
    PROVE  IInv' /\ Promise!PromiseNext
<1> DEFINE c == [op |-> "compact"]
           recs == LiveRecords(mem.index, disk.recs)
           slots == CompactedSlots(recs)
           n == mem.durableEnd
<1>1. /\ Usable /\ mem.pc = "idle" /\ mem.pc # "closed" /\ disk' = Renamed(slots, recs) /\ Begins(c, 0)
      /\ mem' = Over(slots, recs, mem.gen + 2)
  BY DEF Compact, Usable, Idle
<1>2. c \in Calls /\ c.op = "compact"
  BY DEF Calls
<1>3. /\ disk \in Disks /\ mem \in Mems /\ acked \in Stores /\ every = 1
      /\ Carries(disk, mem, call, acked, flushed, Views, Outcome)
  BY <1>1, OpenParts
<1>4. Standing(disk, mem) /\ Indexed(disk, mem)
  BY <1>3 DEF Carries
<1>5. /\ Settled(disk, mem) /\ Agrees(acked, Held(disk, mem))
      /\ mem.next = acked.next /\ mem.target = acked.target
  BY <1>1, UsableIs
<1>6. /\ Covered(disk, n) \in Seq(Records) /\ Len(Covered(disk, n)) = n /\ mem.gen \in Nat /\ Base(mem) \in Slots
      /\ \A i \in 1 .. n : Covered(disk, n)[i] = disk.recs[i] /\ disk.recs[i].gen \in Nat /\ disk.recs[i].gen < mem.gen
  BY <1>3, <1>4, StandingParts
<1>7. disk.recs = Covered(disk, n)
  <2>1. Len(disk.recs) = n /\ disk.recs \in Seq(Records \union {Bad})
    BY <1>3, <1>5, DiskParts DEF Settled, Still
  <2>2. disk.recs = [i \in 1 .. n |-> disk.recs[i]]
    BY <2>1
  <2> QED BY <2>2 DEF Covered, First
<1>8. mem.index \in [Seqs -> Nat] /\ mem.next \in Numbers /\ mem.target \in Targets
  BY <1>3, MemParts
<1>9. \A k \in Seqs : mem.index[k] = LastOf(disk.recs, k)
  BY <1>4, <1>7 DEF Indexed
<1>10. /\ recs \in Seq(Records)
       /\ \A i \in 1 .. Len(recs) : \E k \in 1 .. Len(disk.recs) : recs[i] = disk.recs[k]
       /\ \A k \in Seqs : FrameAt(recs, LastOf(recs, k)) = FrameAt(disk.recs, LastOf(disk.recs, k))
  <2>1. disk.recs \in Seq(Records)
    BY <1>6, <1>7
  <2> QED BY <1>8, <1>9, <2>1, LiveRecordsAre
<1> HIDE DEF recs
<1>11. \A i \in 1 .. Len(recs) : recs[i].gen <= mem.gen
  BY <1>6, <1>7, <1>10
<1>12. slots = Fresh(mem.gen, mem.next, mem.target, Len(recs), mem.owed)
  BY DEF CompactedSlots
<1> HIDE DEF slots, c
<1>13. mem' = [Over(slots, recs, mem.gen + 2) EXCEPT !.next = mem.next, !.target = mem.target]
  <2> DEFINE over == Over(slots, recs, mem.gen + 2)
  <2>1. over.next = mem.next /\ over.target = mem.target
    BY <1>3 DEF Over, Mems
  <2>2. over = [over EXCEPT !.next = over.next, !.target = over.target]
    <3> DEFINE end == Len(recs)
               gen == mem.gen + 2
               index == [k \in Seqs |-> LastOf(recs, k)]
    <3>1. over = [mem EXCEPT !.pc = "renamed", !.pending = NoPending, !.slots = slots,
                  !.durableSlots = slots, !.active = 1, !.durable = 1, !.end = end, !.durableEnd = end,
                  !.unsynced = 0, !.gen = gen, !.index = index]
      BY DEF Over
    <3> HIDE DEF over, end, gen, index
    <3>2. mem \in Mems
      BY <1>3
    <3>3. over = [pc |-> "renamed", slots |-> slots, durableSlots |-> slots, active |-> 1, durable |-> 1,
                  end |-> end, durableEnd |-> end, unsynced |-> 0, gen |-> gen, next |-> mem.next,
                  target |-> mem.target, owed |-> mem.owed, index |-> index, pending |-> NoPending,
                  left |-> mem.left, was |-> mem.was]
      BY ONLY <3>1, <3>2 DEF Mems
    <3> QED BY ONLY <3>3
  <2> QED BY <1>1, <2>1, <2>2
<1>14. Promise!Effect(acked, c) = acked
  BY <1>2, <1>3, EffectIs
<1>15. ASSUME NEW k \in Seqs PROVE acked.filed[k] = FrameAt(recs, LastOf(recs, k))
  <2>1. acked.filed = Held(disk, mem).filed
    BY <1>5 DEF Agrees
  <2>2. Held(disk, mem).filed[k] = FrameAt(Covered(disk, n), LastOf(Covered(disk, n), k))
    BY <1>6, ToldType DEF Held
  <2> QED BY <1>7, <1>10, <2>1, <2>2
<1>16. /\ IInv /\ mem.pc = "idle" /\ c \in Calls /\ c.op \in {"reset", "compact"} /\ Begins(c, 0)
       /\ recs \in Seq(Records) /\ mem.gen \in Nat /\ mem.next \in Numbers /\ mem.target \in Targets
       /\ disk' = Renamed(slots, recs)
       /\ Promise!Effect(acked, c).next = mem.next /\ Promise!Effect(acked, c).target = mem.target
       /\ Promise!Effect(acked, c).owed = acked.owed
       /\ \A k \in Seqs : Promise!Effect(acked, c).filed[k] = FrameAt(recs, LastOf(recs, k))
  BY <1>1, <1>2, <1>5, <1>6, <1>8, <1>10, <1>14, <1>15
<1> QED BY ONLY <1>11, <1>12, <1>13, <1>16, RenamedKeeps

\* A rename whose directory flush fails is made all the same.
LEMMA RenameFailShape ==
    ASSUME Shape, NEW f, Returns(f, Outcome), Unflushed, Lands,
           call \in Calls, call.op \in {"reset", "compact"}, Kept({acked, flushed, Outcome})
    PROVE  /\ Shape' /\ Promise!PromiseNext
           /\ call' = Promise!NoCall /\ acked' = Outcome /\ flushed' = flushed /\ Views' = Views
<1>1. /\ every = 1 /\ every' = every /\ call' = Promise!NoCall /\ acked' = Outcome
      /\ flushed' = flushed /\ tried' = tried /\ late' = late
      /\ acked \in Stores /\ flushed \in Stores /\ tried \subseteq Stores
      /\ call # Promise!NoCall /\ Outcome \in Stores
  BY CallsAre DEF Returns, Unflushed, Shape
<1>2. kept' = View(disk.slots, disk.recs)'
  BY ViewStays DEF Returns
<1>3. Shape'
  BY <1>1, <1>2 DEF Shape, Lands
<1>4. Promise!Keeps(Promise!Reachable(call)) /\ flushed' \in Promise!Reachable(call)
  BY <1>1, ReachableIs, KeepsIt DEF Lands, Outcome
<1>5. \/ acked' = Promise!Unsure(call, acked)
      \/ call.op = "reset" /\ acked' = Promise!Effect(acked, call)
  <2>1. CASE call.op = "compact"
    <3>1. Promise!Effect(acked, call) = acked /\ Promise!Unsure(call, acked) = acked
      BY <1>1, <2>1, EffectIs, UnsureIs
    <3> QED BY <1>1, <3>1 DEF Outcome
  <2> QED BY <1>1, <2>1 DEF Outcome
<1>6. Promise!Fail
  BY <1>1, <1>4, <1>5 DEF Promise!Fail
<1> QED BY <1>1, <1>3, <1>6 DEF Views, Promise!PromiseNext

\* A rename returns, its directory flushed or not.
LEMMA AfterRenameKeeps ==
    ASSUME IInv, AfterRename
    PROVE  IInv' /\ Promise!PromiseNext
<1> DEFINE held == Held(disk, mem)
<1>1. mem.pc = "renamed" /\ mem.pc # "closed" /\ mem.pc # "idle" /\ ~InMark(mem) /\ ~FailedMark(mem, call)
  BY DEF AfterRename, InMark, FailedMark
<1>2. /\ Shape /\ every = 1 /\ disk \in Disks /\ mem \in Mems
      /\ ByCall(mem, call) /\ Behind(disk, mem, Views)
      /\ Carries(disk, mem, call, acked, flushed, Views, Outcome)
      /\ call # Promise!NoCall /\ call \in Calls /\ Outcome \in Views
      /\ kept = View(disk.slots, disk.recs) /\ kept \in Tellings
  BY <1>1, OpenParts
<1>3. /\ Standing(disk, mem) /\ ByStage(disk, mem, call) /\ Indexed(disk, mem)
      /\ Marker(mem, call, acked) /\ Becomes(disk, mem, call, Outcome)
  BY <1>2 DEF Carries
<1>4. Settled(disk, mem) /\ call.op \in {"reset", "compact"}
  BY <1>1, <1>2, <1>3 DEF ByStage, ByCall
<1>5. /\ Admits(Outcome, held) /\ mem.next = Outcome.next /\ mem.target = Outcome.target
      /\ mem.owed \in Outcome.owed
  BY <1>1, <1>3 DEF Becomes
<1>6. Base(mem).owed => mem.owed
  BY <1>1, <1>3 DEF Marker
<1>7. held \in Tellings /\ held.owed = Base(mem).owed /\ kept = held
  BY <1>2, <1>3, <1>4, StandingParts, SettledIs
<1>8. PICK dir \in BOOLEAN, opened \in BOOLEAN :
         /\ disk' = IF dir THEN [disk EXCEPT !.behind = {}] ELSE disk
         /\ mem' = [mem EXCEPT !.pc = "idle", !.pending.dir = ~dir, !.pending.reopen = ~opened]
         /\ Returns((IF dir THEN 0 ELSE 1) + (IF opened THEN 0 ELSE 1), Outcome)
         /\ flushed' = IF dir THEN Outcome ELSE flushed
         /\ tried' = IF dir THEN {} ELSE tried
         /\ late' = IF dir THEN 0 ELSE late
  BY DEF AfterRename
<1> DEFINE due == ~dir
           shut == ~opened
<1>24. due \in BOOLEAN /\ shut \in BOOLEAN /\ (due <=> ~dir)
  OBVIOUS
<1>25. mem' = [mem EXCEPT !.pc = "idle", !.pending.dir = due, !.pending.reopen = shut]
  BY <1>8
<1> HIDE DEF due, shut
<1>9. /\ disk' \in Disks /\ disk'.slots = disk.slots /\ disk'.recs = disk.recs
      /\ disk'.may = disk.may /\ disk'.firm = disk.firm /\ disk'.wrote = disk.wrote
      /\ disk'.dropped = disk.dropped
      /\ disk'.behind = IF dir THEN {} ELSE disk.behind
  <2>1. CASE dir
    BY <1>2, <1>8, <2>1 DEF Disks
  <2>2. CASE ~dir
    BY <1>2, <1>8, <2>2
  <2> QED BY <2>1, <2>2
<1>10. /\ mem' \in Mems /\ mem'.pc = "idle" /\ Alike(mem, mem') /\ mem'.gen = mem.gen
       /\ mem'.pending.cut = NoCut /\ mem'.pending.slots = NoSlots /\ mem'.pending.dir = due
       /\ mem'.owed = mem.owed /\ mem'.next = mem.next /\ mem'.target = mem.target
  <2> DEFINE owing == [mem.pending EXCEPT !.dir = due, !.reopen = shut]
  <2>1. mem.pending \in Pendings /\ mem.pending.cut = NoCut /\ mem.pending.slots = NoSlots
    BY <1>4, NoPendingIs DEF Settled
  <2>2. /\ owing \in Pendings /\ owing.cut = NoCut /\ owing.slots = NoSlots
        /\ owing.dir = due /\ owing.reopen = shut
    BY ONLY <1>24, <2>1 DEF Pendings
  <2>4. mem' = [mem EXCEPT !.pc = "idle", !.pending = owing]
    BY <1>2, <1>25 DEF Mems
  <2> HIDE DEF owing
  <2>5. "idle" \in Stages
    BY DEF Stages
  <2>6. /\ mem' \in Mems /\ mem'.pc = "idle" /\ mem'.gen = mem.gen
        /\ mem'.pending = owing /\ mem'.owed = mem.owed
        /\ mem'.next = mem.next /\ mem'.target = mem.target /\ mem'.index = mem.index
    BY <1>2, <2>2, <2>4, <2>5 DEF Mems
  <2>7. /\ mem'.durable = mem.durable /\ mem'.durableSlots = mem.durableSlots
        /\ mem'.durableEnd = mem.durableEnd /\ mem'.slots = mem.slots
        /\ mem'.active = mem.active /\ mem'.end = mem.end
    BY <1>2, <2>2, <2>4, <2>5 DEF Mems
  <2> QED BY <2>2, <2>6, <2>7 DEF Alike, SameBase
<1>11. /\ SameBase(mem, mem') /\ Covered(disk', mem.durableEnd) = Covered(disk, mem.durableEnd)
       /\ NewSlots(disk', mem.durable, Base(mem)) = NewSlots(disk, mem.durable, Base(mem))
       /\ (NewRecord(disk', mem.durableEnd) <=> NewRecord(disk, mem.durableEnd))
       /\ Grounded(disk', mem.durable, Base(mem), mem.durableEnd, mem.gen)
       /\ mem'.slots = mem.slots /\ mem'.index = mem.index /\ mem'.active = mem.active
       /\ mem'.end = mem.end
  <2>1. Grounded(disk, mem.durable, Base(mem), mem.durableEnd, mem.gen)
    BY <1>3 DEF Standing
  <2>2. NewSlots(disk', mem.durable, Base(mem)) = NewSlots(disk, mem.durable, Base(mem))
        /\ (NewRecord(disk', mem.durableEnd) <=> NewRecord(disk, mem.durableEnd))
    BY <1>9 DEF NewSlots, NewRecord
  <2>3. Footing(disk', mem.durable, Base(mem), mem.durableEnd)
    BY <1>9, <2>1 DEF Grounded, Footing
  <2>4. Numbered(disk', mem.gen)
    BY <1>9, <2>1 DEF Grounded, Numbered
  <2>5. Single(disk', mem.durable, Base(mem), mem.durableEnd)
    BY <1>9, <2>1, <2>2 DEF Grounded, Single, Newer
  <2> QED BY <1>9, <1>10, <2>2, <2>3, <2>4, <2>5 DEF Grounded, Covered, First, Alike
<1>12. /\ Base(mem') = Base(mem) /\ Spare(mem') = Spare(mem) /\ Held(disk', mem') = held
       /\ SlotsOut(disk', mem') = {} /\ ~RecordOut(disk', mem')
       /\ Indexed(disk', mem') /\ Standing(disk', mem')
  <2>1. mem'.slots[mem.durable] = Base(mem) /\ mem'.gen = mem.gen
    BY <1>3, <1>10, <1>11 DEF Standing
  <2>2. SlotsOut(disk, mem) = {} /\ ~RecordOut(disk, mem)
    BY <1>4 DEF Settled, Still
  <2> QED BY <1>3, <1>11, <2>1, <2>2, Transfer
<1>13. Undoable(disk', mem')
  <2>1. mem'.durableSlots = mem.durableSlots /\ mem'.durableEnd = mem.durableEnd /\ mem'.durable = mem.durable
    BY <1>11 DEF SameBase
  <2> QED BY <1>4, <1>9, <1>10, <1>11, <1>12, <2>1 DEF Undoable, Settled, Still
<1> HIDE DEF held
<1>14. UNCHANGED every /\ kept' = View(disk'.slots, disk'.recs)
  BY <1>8 DEF Returns, Keeping
<1>15. kept' = held /\ Lands
  BY <1>2, <1>7, <1>9, <1>10, <1>14 DEF Lands
<1>16. /\ Shape' /\ Promise!PromiseNext /\ call' = Promise!NoCall /\ acked' = Outcome
       /\ Promised(held, Views') /\ (~mem'.pending.dir => Admits(flushed', held))
       /\ Behind(disk', mem', Views')
  <2>1. CASE dir
    <3>1. Durable
      BY <1>8, <2>1 DEF Durable
    <3>2. /\ Shape' /\ Promise!PromiseNext
          /\ call' = Promise!NoCall /\ acked' = Outcome /\ flushed' = Outcome /\ Views' = {Outcome}
      BY <1>2, <1>5, <1>8, <1>15, <3>1, SucceedShape
    <3> QED BY <1>5, <1>9, <2>1, <3>2 DEF Promised, Behind
  <2>2. CASE ~dir
    <3>1. Unflushed /\ Kept({acked, flushed, Outcome})
      BY <1>7, <1>8, <1>15, <2>2 DEF Unflushed, Kept
    <3>2. /\ Shape' /\ Promise!PromiseNext
          /\ call' = Promise!NoCall /\ acked' = Outcome /\ flushed' = flushed /\ Views' = Views
      BY <1>2, <1>4, <1>8, <1>15, <3>1, RenameFailShape
    <3>3. mem'.pending.dir
      BY <1>10, <1>24, <2>2
    <3>4. Promised(held, Views)
      BY <1>2, <1>5 DEF Promised
    <3>5. Behind(disk', mem', Views')
      BY <1>2, <1>9, <2>2, <3>2, <3>3 DEF Behind
    <3> QED BY <3>2, <3>3, <3>4, <3>5
  <2> QED BY <2>1, <2>2
<1>17. Survives(disk', mem', Views')
  BY <1>12, <1>16 DEF Survives
<1>18. ByStage(disk', mem', call')
  BY <1>10, <1>13 DEF ByStage
<1>19. Tells(disk', mem', Outcome, flushed')
  BY <1>5, <1>10, <1>12, <1>16 DEF Tells, Admits
<1>20. Marker(mem', call', Outcome)
  BY <1>5, <1>6, <1>7, <1>10, <1>12 DEF Marker, InMark, FailedMark, Admits
<1>21. Becomes(disk', mem', call', Outcome')
  BY <1>10 DEF Becomes
<1>22. Carries(disk', mem', call', acked', flushed', Views', Outcome')
  BY <1>12, <1>16, <1>17, <1>18, <1>19, <1>20, <1>21 DEF Carries
<1>23. ByCall(mem', call')
  <2>1. mem' # Closed
    BY <1>10, OpenIs
  <2> QED BY <1>10, <1>16, <2>1 DEF ByCall
<1> QED BY <1>10, <1>14, <1>16, <1>22, <1>23, OpenAgain

-----------------------------------------------------------------------------
(* Death and recovery                                                       *)

\* A journal that opens, and what its caller would find in it.
LEMMA OpenableIs ==
    ASSUME every = 1, NEW j, Openable(j)
    PROVE  j.slots \in Pairs /\ j.recs \in Written /\ View(j.slots, j.recs) \in Tellings
<1>1. PICK p \in Positions, n \in 0 .. Len(j.recs) : Reads(j.slots, j.recs, p, First(j.recs, n))
  BY DEF Openable
<1> DEFINE recs == First(j.recs, n)
<1>2. Reads(j.slots, j.recs, p, recs)
  BY <1>1
<1> HIDE DEF recs
<1>3. j.slots \in Pairs /\ j.recs \in Written /\ j.slots[p] \in Slots /\ recs \in Seq(Records)
  BY <1>2 DEF Reads, Whole
<1>4. View(j.slots, j.recs) = Told(j.slots[p], recs)
  BY <1>2, ReadsAre
<1> QED BY <1>3, <1>4, ToldType

\* What a process or a machine that dies leaves behind.
LEMMA LeftIs ==
    ASSUME IInv, NEW j \in Images(disk) \union disk.behind
    PROVE  j \in Journals /\ Openable(j) /\ Promised(View(j.slots, j.recs), Views)
<1>1. every = 1 /\ disk \in Disks
  BY DEF IInv, Shape
<1>2. Openable(j) /\ Promised(View(j.slots, j.recs), Views)
  <2>1. CASE j \in disk.behind
    BY <2>1 DEF IInv, Behind
  <2>2. CASE j \in Images(disk) /\ mem = Closed
    BY <2>2 DEF IInv, ClosedOn
  <2>3. CASE j \in Images(disk) /\ mem # Closed
    BY <1>1, <2>3, SurvivorsAre DEF IInv
  <2> QED BY <2>1, <2>2, <2>3
<1>3. j \in Journals
  <2>1. CASE j \in disk.behind
    BY <1>1, <2>1, DiskParts
  <2>2. CASE j \in Images(disk)
    <3>1. j = [slots |-> j.slots, recs |-> j.recs]
      BY <2>2 DEF Images
    <3>2. j.slots \in Pairs /\ j.recs \in Written
      BY <1>1, <1>2, OpenableIs
    <3> QED BY <3>1, <3>2 DEF Journals
  <2> QED BY <2>1, <2>2
<1> QED BY <1>2, <1>3

\* The invariant of a journal nobody has open.
LEMMA ClosedAgain ==
    ASSUME UNCHANGED every, Shape', mem' = Closed, call' = Promise!NoCall, ClosedOn(disk', Views'),
           acked' = Promise!Certain(kept'),
           \A j \in disk'.behind : Openable(j) /\ Promised(View(j.slots, j.recs), Views')
    PROVE  IInv'
<1>1. mem'.pc = "closed"
  BY DEF Closed
<1>2. ByCall(mem', call')
  BY <1>1 DEF ByCall
<1>3. Behind(disk', mem', Views')
  BY DEF Behind
<1>4. ByCall(mem, call)'
  BY <1>2
<1>5. Behind(disk, mem, Views)'
  BY <1>3 DEF Behind, View, Opens, MayCut
<1>6. ClosedOn(disk, Views)'
  BY DEF ClosedOn, View, Opens, MayCut
<1>7. (acked = Promise!Certain(kept))'
  BY DEF Promise!Certain
<1>8. (mem = Closed)'
  BY DEF Closed
<1> QED BY <1>4, <1>5, <1>6, <1>7, <1>8 DEF IInv

\* The process dies, or closes the store.
LEMMA CrashKeeps ==
    ASSUME IInv, Crash
    PROVE  IInv' /\ Promise!PromiseNext
<1>1. /\ mem # Closed /\ disk' = disk /\ mem' = Closed /\ call' = Promise!NoCall /\ every' = every
      /\ acked' = Promise!Certain(kept') /\ kept' = View(disk'.slots, disk'.recs)
      /\ flushed' = flushed /\ tried' = tried /\ late' = late
  BY DEF Crash, Died, Keeping, Unflushed
<1>2. mem \in Mems
  BY <1>1 DEF IInv, Shape
<1>3. mem.pc # "closed"
  BY <1>2 DEF Mems, Stages
<1>4. /\ Shape /\ every = 1 /\ disk \in Disks
      /\ flushed \in Stores /\ tried \subseteq Stores
      /\ kept = View(disk.slots, disk.recs) /\ kept \in Tellings
      /\ Behind(disk, mem, Views)
      /\ Carries(disk, mem, call, acked, flushed, Views, Outcome)
  BY <1>3, OpenParts
<1>5. kept' = kept
  BY <1>1, <1>4
<1>6. acked' \in Stores
  BY <1>1, <1>4, <1>5, CertainIs
<1>7. Views' = Views
  BY <1>1 DEF Views
<1>8. Standing(disk, mem) /\ Survives(disk, mem, Views)
  BY <1>4 DEF Carries
<1>9. ClosedOn(disk', Views')
  <2>1. [slots |-> disk.slots, recs |-> disk.recs] \in Images(disk)
    BY <1>4, <1>8, AsItIs DEF Standing
  <2>2. \A j \in Images(disk) : Openable(j) /\ Promised(View(j.slots, j.recs), Views)
    BY <1>2, <1>4, <1>8, SurvivorsAre
  <2> QED BY <1>1, <1>7, <2>1, <2>2 DEF ClosedOn
<1>10. (kept = View(disk.slots, disk.recs))'
  BY ViewStays, <1>1 DEF Crash, Died
<1>11. Shape'
  BY <1>1, <1>4, <1>6, <1>10 DEF Shape
<1>12. \A j \in disk'.behind : Openable(j) /\ Promised(View(j.slots, j.recs), Views')
  BY <1>1, <1>4, <1>7 DEF Behind
<1>13. IInv'
  BY <1>1, <1>9, <1>11, <1>12, ClosedAgain
<1>14. Promise!Die
  BY <1>1, <1>5 DEF Promise!Die
<1> QED BY <1>13, <1>14 DEF Promise!PromiseNext

\* The machine dies: one of the journals a power loss may leave is all there is.
LEMMA PowerLossKeeps ==
    ASSUME IInv, PowerLoss
    PROVE  IInv' /\ Promise!PromiseNext
<1>1. /\ mem' = Closed /\ call' = Promise!NoCall /\ every' = every
      /\ acked' = Promise!Certain(kept') /\ kept' = View(disk'.slots, disk'.recs)
      /\ flushed' = acked' /\ tried' = {} /\ late' = 0
  BY DEF PowerLoss, Died, Keeping
<1>2. PICK j \in Images(disk) \union disk.behind : disk' = Firm(j.slots, j.recs)
  BY DEF PowerLoss
<1>3. every = 1 /\ flushed \in Stores /\ tried \subseteq Stores
  BY DEF IInv, Shape
<1>4. j \in Journals /\ Openable(j) /\ Promised(View(j.slots, j.recs), Views)
  BY LeftIs
<1>5. View(j.slots, j.recs) \in Tellings
  BY <1>3, <1>4, OpenableIs
<1>6. /\ disk' \in Disks /\ disk'.slots = j.slots /\ disk'.recs = j.recs
      /\ disk'.behind = {} /\ Images(disk') = {j}
  BY <1>2, <1>4, FirmIs
<1>7. kept' = View(j.slots, j.recs)
  BY <1>1, <1>6
<1>8. acked' \in Stores /\ Admits(acked', kept')
  BY <1>1, <1>5, <1>7, CertainIs
<1>9. Views' = {acked'}
  BY <1>1 DEF Views
<1>10. ClosedOn(disk', Views')
  <2>1. j = [slots |-> disk'.slots, recs |-> disk'.recs]
    BY <1>4, <1>6 DEF Journals
  <2>2. Promised(View(j.slots, j.recs), Views')
    BY <1>7, <1>8, <1>9 DEF Promised
  <2> QED BY <1>4, <1>6, <2>1, <2>2 DEF ClosedOn
<1>11. (kept = View(disk.slots, disk.recs))'
  BY ViewStays, <1>1 DEF PowerLoss, Died
<1>12. Shape'
  BY <1>1, <1>3, <1>6, <1>8, <1>11 DEF Shape
<1>13. IInv'
  BY <1>1, <1>6, <1>10, <1>12, ClosedAgain
<1>14. kept' \in UNION {Promise!Concrete(s) : s \in tried \union {flushed}}
  <2>1. PICK s \in tried \union {flushed} : Admits(s, kept')
    BY <1>4, <1>7 DEF Promised, Views
  <2>2. s \in Stores
    BY <1>3
  <2>3. kept' \in Promise!Concrete(s)
    BY <1>5, <1>7, <2>1, <2>2, AdmitsIs
  <2> QED BY <2>3
<1>15. Promise!PowerLoss
  BY <1>1, <1>3, <1>14 DEF Promise!PowerLoss
<1> QED BY <1>13, <1>15 DEF Promise!PromiseNext

-----------------------------------------------------------------------------
(* A journal that is opened                                                 *)

LEMMA MinOfTwo ==
    ASSUME NEW a \in Nat, NEW b \in Nat
    PROVE  Min({a, b}) \in Nat
<1>1. \E x \in {a, b} : \A y \in {a, b} : x <= y
  OBVIOUS
<1>2. Min({a, b}) \in {a, b}
  BY <1>1 DEF Min
<1> QED BY <1>2

\* set_len, on whatever disk an open finds.
LEMMA CutLeaves ==
    ASSUME NEW d \in Disks, NEW n \in 0 .. Len(d.recs)
    PROVE  CutTo(d, n) \in Disks /\ CutTo(d, n).slots = d.slots /\ CutTo(d, n).recs = First(d.recs, n)
<1>1. /\ d.recs \in Seq(Records \union {Bad}) /\ Len(d.recs) \in Nat /\ n \in Nat /\ d.firm \in Nat
      /\ d.dropped \in [slots : SUBSET Positions, recs : SUBSET Nat]
  BY DiskParts
<1>2. /\ First(d.recs, n) = SubSeq(d.recs, 1, n) /\ First(d.recs, n) \in Written
  BY <1>1, FirstIs DEF Written
<1>3. CASE n = Len(d.recs)
  <2>1. CutTo(d, n) = d
    BY <1>1, <1>3 DEF CutTo
  <2>2. First(d.recs, n) = d.recs
    BY <1>1, <1>3 DEF First
  <2> QED BY <2>1, <2>2
<1>4. CASE n # Len(d.recs)
  <2> DEFINE recs == First(d.recs, n)
             firm == Min({d.firm, n})
             lost == d.dropped.recs \intersect 1 .. n
             dropped == [d.dropped EXCEPT !.recs = lost]
  <2>1. firm \in Nat
    BY <1>1, MinOfTwo
  <2>2. lost \in SUBSET Nat
    BY <1>1
  <2>3. CutTo(d, n) = [d EXCEPT !.recs = recs, !.firm = firm, !.dropped.recs = lost]
    BY <1>1, <1>2, <1>4 DEF CutTo
  <2>4. recs \in Written
    BY <1>2
  <2> HIDE DEF recs, firm, lost
  <2>5. dropped = [slots |-> d.dropped.slots, recs |-> lost]
    BY <1>1, DroppedIs
  <2>6. dropped \in [slots : SUBSET Positions, recs : SUBSET Nat]
    BY <1>1, <2>2, <2>5
  <2>7. CutTo(d, n) = [d EXCEPT !.recs = recs, !.firm = firm, !.dropped = dropped]
    BY <2>3 DEF Disks
  <2> HIDE DEF dropped
  <2>8. /\ CutTo(d, n) \in Disks /\ CutTo(d, n).slots = d.slots /\ CutTo(d, n).recs = recs
    BY <2>1, <2>4, <2>6, <2>7 DEF Disks
  <2> QED BY <2>8 DEF recs
<1> QED BY <1>3, <1>4

\* What was read is all there is: the invariant of a journal just opened.
LEMMA FreshCarries ==
    ASSUME every = 1, NEW d \in Disks, NEW p, NEW recs, Reads(d.slots, recs, p, recs),
           d.recs = recs, d.wrote = recs, d.firm = Len(recs), d.dropped = Nothing, d.behind = {},
           \A q \in Positions : d.may[q] = {d.slots[q]},
           NEW m, m = Loaded(Scan(d.slots, recs), d.slots, "idle"),
           NEW s, NEW outcome, Admits(s, Told(d.slots[p], recs))
    PROVE  /\ m \in Mems /\ m.pc = "idle"
           /\ Carries(d, m, Promise!NoCall, s, s, {s}, outcome)
           /\ View(d.slots, recs) = Told(d.slots[p], recs)
<1>1. PICK idle \in Stages : idle = "idle"
  BY DEF Stages
<1>2. /\ m \in Mems /\ m.pc = "idle" /\ m.slots = d.slots /\ m.durableSlots = d.slots
      /\ m.active = p /\ m.durable = p /\ m.end = Len(recs) /\ m.durableEnd = Len(recs)
      /\ m.next = Told(d.slots[p], recs).next /\ m.target = Told(d.slots[p], recs).target
      /\ m.owed = d.slots[p].owed /\ m.index = [n \in Seqs |-> LastOf(recs, n)]
      /\ m.pending = NoPending
      /\ \A q \in Positions : d.slots[q] = Bad \/ d.slots[q].gen < m.gen
      /\ \A i \in 1 .. Len(recs) : recs[i].gen < m.gen
  <2>1. m = Loaded(Scan(d.slots, recs), d.slots, idle)
    BY <1>1
  <2> QED BY <1>1, <2>1, LoadedIs
<1>3. /\ p \in Positions /\ recs \in Seq(Records) /\ d.slots[p] \in Slots
      /\ Older(d.slots[Other(p)], d.slots[p]) /\ d.slots[p].bound <= Len(recs)
  BY DEF Reads, Whole
<1>4. m.gen \in Nat
  BY <1>2, MemParts
<1>5. /\ Grounded(d, p, d.slots[p], Len(recs), m.gen)
      /\ NewSlots(d, p, d.slots[p]) = {} /\ ~NewRecord(d, Len(recs))
      /\ Covered(d, Len(recs)) = recs
  BY <1>2, <1>3, <1>4, FreshlyGrounded
<1>6. /\ Base(m) = d.slots[p] /\ Spare(m) = Other(p) /\ Held(d, m) = Told(d.slots[p], recs)
      /\ SlotsOut(d, m) = {} /\ ~RecordOut(d, m)
  BY <1>2, <1>5 DEF Base, Spare, Held, SlotsOut, RecordOut
<1>7. Standing(d, m)
  BY <1>2, <1>3, <1>5, <1>6 DEF Standing
<1>8. Settled(d, m)
  <2>1. d.dropped.recs = {} /\ Len(d.recs) = m.durableEnd
    BY <1>2 DEF Nothing
  <2> QED BY <1>2, <1>6, <2>1 DEF Settled, Still
<1>9. Indexed(d, m)
  BY <1>2, <1>5 DEF Indexed
<1>10. Promised(Held(d, m), {s})
  BY <1>6 DEF Promised
<1>11. Survives(d, m, {s}) /\ Undoable(d, m)
  BY <1>2, <1>7, <1>8, <1>10, SettledIs
<1>12. ByStage(d, m, Promise!NoCall)
  BY <1>2, <1>11 DEF ByStage
<1>13. Tells(d, m, s, s)
  BY <1>2, <1>6 DEF Tells, Admits, Agrees
<1>14. Told(d.slots[p], recs).owed = d.slots[p].owed
  BY <1>3, ToldType
<1>15. Marker(m, Promise!NoCall, s)
  BY <1>2, <1>6, <1>14 DEF Marker, InMark, FailedMark, Admits
<1>16. Becomes(d, m, Promise!NoCall, outcome)
  BY <1>2 DEF Becomes
<1>17. View(d.slots, recs) = Told(d.slots[p], recs)
  BY ReadsAre
<1> QED BY <1>2, <1>7, <1>9, <1>11, <1>12, <1>13, <1>15, <1>16, <1>17 DEF Carries

\* open_journal, where what was left unflushed has settled by then.
LEMMA OpenKeeps ==
    ASSUME IInv, Settles, Open
    PROVE  IInv' /\ Promise!PromiseNext
<1>1. /\ mem = Closed /\ every' = every /\ call' = call /\ acked' = acked
      /\ flushed' = acked /\ tried' = {} /\ late' = 0
      /\ kept' = View(disk'.slots, disk'.recs)
  BY DEF Open, Keeping
<1>2. /\ every = 1 /\ disk \in Disks /\ kept = View(disk.slots, disk.recs)
      /\ ClosedOn(disk, Views) /\ acked = Promise!Certain(kept) /\ ByCall(mem, call)
      /\ acked \in Stores
  BY <1>1 DEF IInv, Shape
<1>3. call = Promise!NoCall
  BY <1>1, <1>2 DEF ByCall
<1> DEFINE j == [slots |-> disk.slots, recs |-> disk.recs]
<1>4. Openable(j) /\ j.slots = disk.slots /\ j.recs = disk.recs
  BY <1>2 DEF ClosedOn
<1>5. PICK p \in Positions, n \in 0 .. Len(disk.recs) : Reads(disk.slots, disk.recs, p, First(disk.recs, n))
  BY <1>4 DEF Openable
<1> DEFINE recs == First(disk.recs, n)
<1>6. Reads(disk.slots, disk.recs, p, recs)
  BY <1>5
<1>7. Len(recs) = n /\ recs \in Seq(Records) /\ n \in Nat
  <2>1. disk.recs \in Seq(Records \union {Bad})
    BY <1>2, DiskParts
  <2> QED BY <1>6, <2>1, FirstIs DEF Reads, Whole
<1>8. /\ CutTo(disk, n) \in Disks /\ CutTo(disk, n).slots = disk.slots /\ CutTo(disk, n).recs = recs
  BY <1>2, CutLeaves
<1> HIDE DEF recs
<1>9. /\ Scan(disk.slots, disk.recs).recs = recs
      /\ Scan(disk.slots, disk.recs) = [active |-> p, recs |-> recs, next |-> Sender(recs, disk.slots[p]),
                                  target |-> disk.slots[p].target, owed |-> disk.slots[p].owed]
      /\ View(disk.slots, disk.recs) = Told(disk.slots[p], recs)
  BY <1>2, <1>6, ReadsAre
<1> DEFINE cut == CutTo(disk, n)
           settled == [cut EXCEPT !.behind = {}, !.dropped = Nothing]
<1>10. disk' = Synced(settled) /\ mem' = Loaded(Scan(disk.slots, disk.recs), disk.slots, "idle")
  BY <1>7, <1>9 DEF Open
<1>11. cut \in Disks /\ cut.slots = disk.slots /\ cut.recs = recs
  BY <1>8
<1> HIDE DEF cut
<1>12. Nothing \in [slots : SUBSET Positions, recs : SUBSET Nat] /\ Nothing.recs = {} /\ Nothing.slots = {}
  BY DEF Nothing
<1>13. /\ settled \in Disks /\ settled.slots = disk.slots /\ settled.recs = recs
       /\ settled.dropped = Nothing /\ settled.behind = {}
  BY <1>11, <1>12 DEF Disks
<1> HIDE DEF settled
<1>14. /\ disk' \in Disks /\ disk'.slots = disk.slots /\ disk'.recs = recs /\ disk'.wrote = recs
       /\ disk'.firm = Len(recs) /\ disk'.dropped = Nothing /\ disk'.behind = {}
       /\ \A q \in Positions : disk'.may[q] = {disk'.slots[q]}
  <2>1. /\ Synced(settled) \in Disks
        /\ Synced(settled).slots = settled.slots /\ Synced(settled).recs = settled.recs
        /\ Synced(settled).wrote = settled.recs /\ Synced(settled).firm = Len(settled.recs)
        /\ Synced(settled).dropped = settled.dropped /\ Synced(settled).behind = settled.behind
        /\ \A q \in Positions : Synced(settled).may[q] =
              IF q \in settled.dropped.slots THEN settled.may[q] ELSE {settled.slots[q]}
    BY <1>12, <1>13, SyncedIs
  <2>2. \A q \in Positions : Synced(settled).may[q] = {settled.slots[q]}
    BY <1>12, <1>13, <2>1
  <2> QED BY <1>10, <1>13, <2>1, <2>2
<1>15. Reads(disk'.slots, recs, p, recs)
  <2>1. Whole(recs, recs)
    <3>1. recs \in Written
      BY <1>7 DEF Written
    <3> QED BY <1>7, <3>1 DEF Whole
  <2> QED BY <1>6, <1>14, <2>1 DEF Reads
<1>16. mem' = Loaded(Scan(disk'.slots, recs), disk'.slots, "idle")
  <2>1. Scan(disk'.slots, recs) = Scan(disk.slots, disk.recs)
    BY <1>2, <1>9, <1>14, <1>15, ReadsAre
  <2> QED BY <1>10, <1>14, <2>1
<1>17. kept \in Tellings /\ kept = Told(disk'.slots[p], recs)
  <2>1. disk.slots[p] \in Slots
    BY <1>6 DEF Reads
  <2> QED BY <1>2, <1>7, <1>9, <1>14, <2>1, ToldType
<1>18. Admits(acked, Told(disk'.slots[p], recs))
  BY <1>2, <1>17, CertainIs
<1>19. /\ mem' \in Mems /\ mem'.pc = "idle"
       /\ Carries(disk', mem', Promise!NoCall, acked, acked, {acked}, Outcome')
       /\ View(disk'.slots, recs) = Told(disk'.slots[p], recs)
  <2> DEFINE d == disk'
             m == mem'
             o == Outcome'
  <2>1. /\ d \in Disks /\ Reads(d.slots, recs, p, recs)
        /\ d.recs = recs /\ d.wrote = recs /\ d.firm = Len(recs) /\ d.dropped = Nothing /\ d.behind = {}
        /\ \A q \in Positions : d.may[q] = {d.slots[q]}
        /\ m = Loaded(Scan(d.slots, recs), d.slots, "idle") /\ Admits(acked, Told(d.slots[p], recs))
        /\ every = 1
    BY <1>2, <1>14, <1>15, <1>16, <1>18
  <2> HIDE DEF d, m, o
  <2>2. /\ m \in Mems /\ m.pc = "idle"
        /\ Carries(d, m, Promise!NoCall, acked, acked, {acked}, o)
        /\ View(d.slots, recs) = Told(d.slots[p], recs)
    BY ONLY <2>1, FreshCarries, ZenonT(30)
  <2> QED BY <2>2 DEF d, m, o
<1>20. kept' = kept
  BY <1>1, <1>14, <1>17, <1>19
<1>21. Views' = {acked}
  BY <1>1 DEF Views
<1>22. (kept = View(disk.slots, disk.recs))'
  BY ViewStays, <1>1 DEF Open
<1>23. Shape'
  BY <1>1, <1>2, <1>3, <1>14, <1>19, <1>22 DEF Shape
<1>24. ByCall(mem', call')
  BY <1>1, <1>3, <1>19 DEF ByCall
<1>25. Behind(disk', mem', Views')
  BY <1>14 DEF Behind
<1>26. Carries(disk', mem', call', acked', flushed', Views', Outcome')
  BY <1>1, <1>3, <1>19, <1>21
<1>27. IInv'
  BY <1>1, <1>19, <1>23, <1>24, <1>25, <1>26, OpenAgain
<1>28. Promise!Reopen
  BY <1>1, <1>3, <1>20 DEF Promise!Reopen
<1> QED BY <1>27, <1>28 DEF Promise!PromiseNext

-----------------------------------------------------------------------------
(* The theorems                                                             *)

LEMMA CreatedIs ==
    /\ Created \in Pairs /\ Reads(Created, <<>>, 1, <<>>)
    /\ Told(Created[1], <<>>) \in Tellings
    /\ Told(Created[1], <<>>).next = 1 /\ Told(Created[1], <<>>).target = 1
    /\ Told(Created[1], <<>>).owed = FALSE /\ Told(Created[1], <<>>).filed = Promise!Empty
<1>1. PICK one \in Numbers : one = 1
  BY Constants
<1>2. PICK two \in Targets : two = 1
  BY Constants
<1>3. FALSE \in BOOLEAN /\ 0 \in Nat /\ 1 \in Nat
  OBVIOUS
<1>4. PICK no \in BOOLEAN : no = FALSE
  BY <1>3
<1>5. /\ Created[0] = Slot(0, 1, 1, FALSE, 0) /\ Created[1] = Slot(1, 1, 1, FALSE, 0)
      /\ Created = [p \in Positions |-> Created[p]]
  BY DEF Created, Fresh, Positions
<1>6. /\ Created[0] \in Slots /\ Created[1] \in Slots
      /\ Created[0].gen = 0 /\ Created[1].gen = 1 /\ Created[1].bound = 0
      /\ Created[1].next = 1 /\ Created[1].target = 1 /\ Created[1].owed = FALSE
  <2> DEFINE x == Slot(0, one, two, no, 0)
             y == Slot(1, one, two, no, 0)
  <2>1. x \in Slots /\ y \in Slots
    BY <1>3 DEF Slot, Slots
  <2>2. /\ x.gen = 0 /\ y.gen = 1 /\ y.bound = 0
        /\ y.next = one /\ y.target = two /\ (y.owed <=> no)
    BY DEF Slot
  <2>3. Created[0] = x /\ Created[1] = y
    BY <1>1, <1>2, <1>4, <1>5
  <2> HIDE DEF x, y
  <2>4. Created[1].owed = FALSE
    <3>1. y.owed \in BOOLEAN
      BY <2>1 DEF Slots
    <3> QED BY <1>4, <2>2, <2>3, <3>1
  <2> QED BY <1>1, <1>2, <2>1, <2>2, <2>3, <2>4
<1>7. Created \in Pairs
  BY <1>5, <1>6 DEF Pairs, Positions
<1>8. /\ <<>> \in Seq(Records) /\ <<>> \in Written /\ Len(<<>>) = 0
  BY DEF Written
<1>9. Whole(<<>>, <<>>)
  BY <1>8 DEF Whole
<1>10. 1 \in Positions /\ Other(1) = 0
  BY DEF Positions, Other
<1>11. Reads(Created, <<>>, 1, <<>>)
  BY <1>6, <1>7, <1>8, <1>9, <1>10 DEF Reads, Older
<1>12. /\ Told(Created[1], <<>>) \in Tellings
       /\ Told(Created[1], <<>>).next = 1 /\ Told(Created[1], <<>>).target = 1
       /\ Told(Created[1], <<>>).owed = FALSE
       /\ \A n \in Seqs : Told(Created[1], <<>>).filed[n] = FrameAt(<<>>, LastOf(<<>>, n))
  <2> DEFINE none == <<>>
             slot == Created[1]
  <2>1. none \in Seq(Records) /\ slot \in Slots /\ \A i \in 1 .. Len(none) : none[i].gen <= slot.gen
    BY <1>6, <1>8
  <2> HIDE DEF none, slot
  <2>2. /\ Told(slot, none) \in Tellings
        /\ \A n \in Seqs : Told(slot, none).filed[n] = FrameAt(none, LastOf(none, n))
    BY <2>1, ToldType
  <2>3. /\ Told(slot, none).next = slot.next /\ Told(slot, none).target = slot.target
        /\ Told(slot, none).owed = slot.owed
    BY <2>1, ToldSlot
  <2> QED BY <1>6, <2>2, <2>3 DEF none, slot
<1>13. \A n \in Seqs : FrameAt(<<>>, LastOf(<<>>, n)) = 0
  <2> SUFFICES ASSUME NEW n \in Seqs PROVE FrameAt(<<>>, LastOf(<<>>, n)) = 0
    OBVIOUS
  <2>1. {i \in DOMAIN <<>> : <<>>[i].seq = n} = {}
    OBVIOUS
  <2>2. LastOf(<<>>, n) = 0
    BY <2>1 DEF LastOf
  <2> QED BY <2>2 DEF FrameAt
<1> DEFINE told == Told(Created[1], <<>>)
<1> HIDE DEF told
<1>14. told.filed = Promise!Empty
  <2>1. told.filed \in [Seqs -> Frames \union {0}] /\ \A n \in Seqs : told.filed[n] = 0
    BY <1>12, <1>13 DEF told, Tellings
  <2>2. told.filed = [n \in Seqs |-> told.filed[n]]
    BY <2>1
  <2>3. told.filed = [n \in Seqs |-> 0]
    BY <2>1, <2>2
  <2> QED BY <2>3 DEF Promise!Empty
<1> QED BY <1>7, <1>11, <1>12, <1>14 DEF told

\* A journal just created.
LEMMA InitIs ==
    ASSUME Policies = {1}, Init
    PROVE  IInv
<1> DEFINE told == Told(Created[1], <<>>)
<1>1. /\ every = 1 /\ disk = Firm(Created, <<>>)
      /\ mem = Loaded(Scan(Created, <<>>), Created, "idle")
      /\ acked = [next |-> 1, target |-> 1, owed |-> {FALSE}, filed |-> Promise!Empty]
      /\ flushed = acked /\ kept \in Promise!Concrete(acked) /\ tried = {} /\ call = Promise!NoCall
  BY DEF Init, Promise!PromiseInit
<1>2. /\ Created \in Pairs /\ Reads(Created, <<>>, 1, <<>>)
      /\ told \in Tellings /\ told.next = 1 /\ told.target = 1 /\ told.owed = FALSE
      /\ told.filed = Promise!Empty
  BY CreatedIs
<1>3. /\ <<>> \in Written /\ Len(<<>>) = 0
  BY DEF Written
<1>4. /\ disk \in Disks /\ disk.slots = Created /\ disk.recs = <<>> /\ disk.wrote = <<>>
      /\ disk.firm = Len(<<>>) /\ disk.dropped = Nothing /\ disk.behind = {}
      /\ \A q \in Positions : disk.may[q] = {disk.slots[q]}
  <2> DEFINE j == [slots |-> Created, recs |-> <<>>]
  <2>1. j \in Journals /\ j.slots = Created /\ j.recs = <<>>
    BY <1>2, <1>3 DEF Journals
  <2> HIDE DEF j
  <2>2. /\ Firm(j.slots, j.recs) \in Disks
        /\ Firm(j.slots, j.recs).slots = j.slots /\ Firm(j.slots, j.recs).recs = j.recs
        /\ Firm(j.slots, j.recs).wrote = j.recs /\ Firm(j.slots, j.recs).firm = Len(j.recs)
        /\ Firm(j.slots, j.recs).dropped = Nothing /\ Firm(j.slots, j.recs).behind = {}
        /\ \A q \in Positions : Firm(j.slots, j.recs).may[q] = {j.slots[q]}
    BY <2>1, FirmIs
  <2> QED BY <1>1, <2>1, <2>2
<1> DEFINE marks == {FALSE}
<1> HIDE DEF told
<1>5. acked = [next |-> 1, target |-> 1, owed |-> marks, filed |-> Promise!Empty]
  BY <1>1
<1>6. told.owed \in marks /\ marks = {told.owed} /\ \A b \in marks : b = told.owed
  BY <1>2
<1> HIDE DEF marks
<1>16. /\ acked.next = 1 /\ acked.target = 1 /\ acked.owed = marks /\ acked.filed = Promise!Empty
       /\ told = [next |-> told.next, target |-> told.target, owed |-> told.owed, filed |-> told.filed]
  BY <1>2, <1>5 DEF Tellings
<1>7. Admits(acked, told)
  BY <1>2, <1>6, <1>16 DEF Admits, Agrees
<1>8. acked = Promise!Certain(told) /\ kept = told
  <2>1. PICK b \in marks : kept = [acked EXCEPT !.owed = b]
    BY <1>1, <1>16 DEF Promise!Concrete
  <2>2. kept = [next |-> 1, target |-> 1, owed |-> told.owed, filed |-> Promise!Empty]
    BY <1>5, <1>6, <2>1
  <2>3. Promise!Certain(told) = [next |-> told.next, target |-> told.target, owed |-> {told.owed}, filed |-> told.filed]
    BY <1>16 DEF Promise!Certain
  <2> QED BY <1>2, <1>5, <1>6, <1>16, <2>2, <2>3
<1>9. acked \in Stores
  BY <1>2, <1>8, CertainIs
<1>10. /\ mem \in Mems /\ mem.pc = "idle"
       /\ Carries(disk, mem, Promise!NoCall, acked, acked, {acked}, Outcome)
       /\ View(disk.slots, disk.recs) = told
  <2> DEFINE none == <<>>
             one == 1
             o == Outcome
  <2>1. /\ disk \in Disks /\ Reads(disk.slots, none, one, none) /\ every = 1
        /\ disk.recs = none /\ disk.wrote = none /\ disk.firm = Len(none)
        /\ disk.dropped = Nothing /\ disk.behind = {}
        /\ \A q \in Positions : disk.may[q] = {disk.slots[q]}
        /\ mem = Loaded(Scan(disk.slots, none), disk.slots, "idle")
        /\ Admits(acked, Told(disk.slots[one], none))
    BY <1>1, <1>2, <1>4, <1>7 DEF told
  <2>2. told = Told(disk.slots[one], none)
    BY <1>4 DEF told
  <2> HIDE DEF none, one, o
  <2>3. /\ mem \in Mems /\ mem.pc = "idle"
        /\ Carries(disk, mem, Promise!NoCall, acked, acked, {acked}, o)
        /\ View(disk.slots, none) = Told(disk.slots[one], none)
    BY ONLY <2>1, FreshCarries, ZenonT(30)
  <2> QED BY <2>1, <2>2, <2>3 DEF o
<1>11. Views = {acked}
  BY <1>1 DEF Views
<1>12. Shape
  BY <1>1, <1>4, <1>8, <1>9, <1>10 DEF Shape
<1>13. mem # Closed
  BY <1>10, OpenIs
<1>14. ByCall(mem, call)
  BY <1>1, <1>10 DEF ByCall
<1>15. Behind(disk, mem, Views)
  BY <1>4 DEF Behind
<1> QED BY <1>1, <1>10, <1>11, <1>12, <1>13, <1>14, <1>15 DEF IInv, Carries

\* What is invariant does not depend on the budget: a stuttering step keeps it.
LEMMA StutterKeeps ==
    ASSUME IInv, UNCHANGED vars
    PROVE  IInv' /\ UNCHANGED Promise!pvars
<1>1. /\ every' = every /\ disk' = disk /\ mem' = mem /\ call' = call /\ kept' = kept
      /\ acked' = acked /\ flushed' = flushed /\ tried' = tried /\ late' = late
  BY DEF vars
<1>2. UNCHANGED Promise!pvars
  BY <1>1 DEF Promise!pvars
<1>3. Views' = Views /\ Outcome' = Outcome
  BY <1>1 DEF Views, Outcome
<1>10. View(disk.slots, disk.recs)' = View(disk.slots, disk.recs)
  BY <1>1 DEF View, Opens, MayCut
<1>11. kept' = View(disk.slots, disk.recs)' /\ (call' # Promise!NoCall => Outcome' \in tried')
  BY <1>1, <1>3, <1>10 DEF IInv, Shape
<1>4. Shape'
  <2>1. /\ every' = 1 /\ disk' \in Disks /\ mem' \in Mems \union {Closed}
        /\ call' \in Calls \union {Promise!NoCall}
        /\ acked' \in Stores /\ flushed' \in Stores /\ tried' \subseteq Stores
    BY <1>1 DEF IInv, Shape
  <2> QED BY <1>11, <2>1 DEF Shape
<1>5. Behind(disk, mem, Views)' /\ (ClosedOn(disk, Views)' <=> ClosedOn(disk, Views))
  BY <1>1, <1>3 DEF IInv, Behind, ClosedOn, View, Opens, MayCut
<1>6. ByCall(mem, call)'
  BY <1>1 DEF IInv
<1>7. mem # Closed => Carries(disk, mem, call, acked, flushed, Views, Outcome)
  BY DEF IInv, Carries
<1>8. (mem # Closed)' => Carries(disk', mem', call', acked', flushed', Views', Outcome')
  BY <1>1, <1>3, <1>7
<1>9. (mem = Closed => ClosedOn(disk, Views) /\ acked = Promise!Certain(kept))'
  BY <1>1, <1>5 DEF IInv, Promise!Certain
<1> QED BY <1>2, <1>4, <1>5, <1>6, <1>8, <1>9 DEF IInv, Carries

\* Every step of the journal is one its promise allows.
LEMMA NextKeeps ==
    ASSUME Settles, IInv, [Next]_vars
    PROVE  IInv' /\ [Promise!PromiseNext]_(Promise!pvars)
<1>1. ASSUME NEW c \in Calls, FileOutbound(c) \/ SetCounters(c) \/ SetResetOwed(c) \/ ResetTo(c)
      PROVE  IInv' /\ Promise!PromiseNext
  BY <1>1, FileOutboundKeeps, SetCountersKeeps, SetResetOwedKeeps, ResetToKeeps
<1>2. CASE Sync \/ Refresh \/ Compact
  BY <1>2, SyncKeeps, RefreshKeeps, CompactKeeps
<1>3. CASE AfterWrite \/ Fails \/ MarkSlot \/ MarkFlush \/ Answer
  BY <1>3, AfterWriteKeeps, FailsKeeps, MarkSlotKeeps, MarkFlushKeeps, AnswerKeeps
<1>4. CASE UndoRename \/ Undo \/ Load \/ Reflush \/ AfterRename
  BY <1>4, UndoRenameKeeps, UndoKeeps, LoadKeeps, ReflushKeeps, AfterRenameKeeps
<1>5. CASE Crash \/ PowerLoss \/ Open
  BY <1>5, CrashKeeps, PowerLossKeeps, OpenKeeps
<1>6. CASE UNCHANGED vars
  BY <1>6, StutterKeeps
<1> QED BY <1>1, <1>2, <1>3, <1>4, <1>5, <1>6 DEF Next

\* The invariant, of every state the journal reaches under EveryWrite when what
\* a process left unflushed has settled by the time another opens the journal.
LEMMA JournalInvariant ==
    ASSUME Policies = {1}, Settles
    PROVE  Spec => []IInv
<1>1. Init => IInv
  BY InitIs
<1>2. IInv /\ [Next]_vars => IInv'
  BY NextKeeps
<1> QED BY <1>1, <1>2, PTL DEF Spec

\* However writes, flushes and undos fail, and wherever the process or the
\* machine dies, a slot of the journal stays readable, nothing the journal
\* counts as durable is beyond what a flush covered, and no counter leaves the
\* range of the calls (newest_slot, flush, reload, open_journal).
THEOREM JournalTypeOK ==
    ASSUME Policies = {1}, Settles
    PROVE  Spec => []TypeOK
<1>1. ASSUME IInv PROVE TypeOK
  <2>1. /\ every \in Policies /\ disk \in Disks /\ acked \in Stores /\ flushed \in Stores
        /\ mem \in Mems \union {Closed}
    BY <1>1 DEF IInv, Shape
  <2>2. flushed.next \in 1 .. MaxSeq + 1 /\ acked.next \in 1 .. MaxSeq + 1
    BY <2>1 DEF Stores, Numbers
  <2>3. disk.firm \in Nat /\ Len(disk.recs) \in Nat /\ Len(disk.wrote) \in Nat
    BY <2>1, DiskParts
  <2>4. CASE mem = Closed
    <3>1. [slots |-> disk.slots, recs |-> disk.recs] \in Images(disk)
      BY <1>1, <2>4 DEF IInv, ClosedOn
    <3> DEFINE j == [slots |-> disk.slots, recs |-> disk.recs]
    <3>2. Openable(j) /\ j.slots = disk.slots /\ j.recs = disk.recs /\ j \in Images(disk)
      BY <1>1, <2>4, <3>1 DEF IInv, ClosedOn
    <3> HIDE DEF j
    <3>3. Valid(disk.slots) # {}
      <4>1. \E p \in Positions : /\ disk.slots \in Pairs /\ disk.slots[p] \in Slots
                                 /\ Older(disk.slots[Other(p)], disk.slots[p])
        BY <3>2 DEF Openable, Reads
      <4> QED BY <4>1, NewestIs
    <3>4. \E n \in disk.firm .. Len(disk.wrote) : Len(disk.recs) = n
      <4>1. PICK n \in disk.firm .. Len(disk.wrote), lost \in SUBSET (disk.firm + 1 .. Len(disk.wrote)) :
              disk.recs = Damaged(SubSeq(disk.wrote, 1, n), lost)
        <5>1. PICK zero \in disk.may[0], one \in disk.may[1], n \in disk.firm .. Len(disk.wrote),
                   lost \in SUBSET (disk.firm + 1 .. Len(disk.wrote)) :
                j = [slots |-> [p \in Positions |-> IF p = 0 THEN zero ELSE one],
                     recs |-> Damaged(SubSeq(disk.wrote, 1, n), lost)]
          BY <3>2 DEF Images
        <5>2. j.recs = disk.recs /\ j.recs = Damaged(SubSeq(disk.wrote, 1, n), lost)
          BY <3>2, <5>1
        <5> QED BY <5>1, <5>2
      <4>2. disk.wrote \in Seq(Records \union {Bad}) /\ n \in 0 .. Len(disk.wrote) /\ n \in Nat
        BY <2>1, <2>3, DiskParts
      <4>3. Len(SubSeq(disk.wrote, 1, n)) = n /\ SubSeq(disk.wrote, 1, n) \in Seq(Records \union {Bad})
        BY <4>2, SubSeqProperties
      <4>4. DOMAIN disk.recs = 1 .. n
        BY <4>1, <4>3 DEF Damaged
      <4>5. disk.recs \in Seq(Records \union {Bad})
        BY <2>1, DiskParts
      <4>6. Len(disk.recs) = n
        BY <4>2, <4>4, <4>5
      <4> QED BY <4>6
    <3> QED BY <2>1, <2>2, <2>3, <2>4, <3>3, <3>4 DEF TypeOK
  <2>5. CASE mem # Closed
    <3>1. mem \in Mems /\ Standing(disk, mem)
      BY <1>1, <2>1, <2>5 DEF IInv
    <3>2. /\ Footing(disk, mem.durable, Base(mem), mem.durableEnd)
          /\ disk.slots[mem.durable] = Base(mem) /\ Base(mem) # Bad
          /\ mem.slots[mem.durable] = mem.durableSlots[mem.durable]
          /\ mem.durable \in Positions /\ mem.durableEnd \in Nat
      BY <2>1, <3>1, StandingParts
    <3>3. mem.durable \in Valid(disk.slots)
      BY <3>2 DEF Valid
    <3>4. disk.firm = mem.durableEnd /\ disk.firm <= Len(disk.recs) /\ disk.firm <= Len(disk.wrote)
      BY <2>3, <3>2 DEF Footing
    <3>5. mem.pending.cut >= NoCut
      <4>1. mem.pending.cut \in Nat \union {NoCut}
        BY <3>1, MemParts
      <4> QED BY <4>1 DEF NoCut
    <3>6. mem.active \in Positions /\ mem.next \in 1 .. MaxSeq + 1 /\ mem.target \in 1 .. MaxTarget + 1
      BY <3>1, MemParts DEF Numbers, Targets
    <3> QED BY <2>1, <2>2, <2>3, <3>2, <3>3, <3>4, <3>5, <3>6 DEF TypeOK
  <2> QED BY <2>4, <2>5
<1>2. IInv => TypeOK
  BY <1>1
<1> QED BY <1>2, JournalInvariant, PTL

\* A journal that takes calls serves what the calls that returned have left:
\* its counters, the frame last filed under each number, and never less than
\* its slots of a reset being owed (append_frame, write_counters, reload, compact).
THEOREM JournalServesAcked ==
    ASSUME Policies = {1}, Settles
    PROVE  Spec => []ServesAcked
<1>1. ASSUME IInv, Usable
      PROVE  /\ mem.next = acked.next /\ mem.target = acked.target
             /\ \A n \in Seqs : acked.filed[n] = FrameAt(disk.recs, mem.index[n])
             /\ kept.owed => mem.owed
  <2>1. /\ mem.pc = "idle" /\ mem.pc # "closed"
        /\ kept = Held(disk, mem) /\ Agrees(acked, Held(disk, mem))
        /\ mem.next = acked.next /\ mem.target = acked.target /\ (Base(mem).owed => mem.owed)
    BY <1>1, UsableIs
  <2>2. /\ disk \in Disks /\ mem \in Mems
        /\ Standing(disk, mem) /\ Indexed(disk, mem)
    BY <1>1, <2>1, OpenParts DEF Carries
  <2>3. /\ Base(mem) \in Slots /\ Held(disk, mem).owed = Base(mem).owed
        /\ Covered(disk, mem.durableEnd) \in Seq(Records)
        /\ Len(Covered(disk, mem.durableEnd)) = mem.durableEnd /\ mem.durableEnd \in Nat
        /\ \A i \in 1 .. mem.durableEnd : Covered(disk, mem.durableEnd)[i] = disk.recs[i]
    BY <2>2, StandingParts
  <2>4. ASSUME NEW n \in Seqs PROVE acked.filed[n] = FrameAt(disk.recs, mem.index[n])
    <3> DEFINE recs == Covered(disk, mem.durableEnd)
    <3>1. acked.filed[n] = FrameAt(recs, LastOf(recs, n))
      BY <2>1, <2>3, ToldType DEF Agrees, Held
    <3>2. LastOf(recs, n) \in 0 .. mem.durableEnd
      BY <2>3, LastOfIs
    <3>3. mem.index[n] = LastOf(recs, n)
      BY <2>2 DEF Indexed
    <3>4. mem.index[n] = 0 \/ mem.index[n] \in 1 .. mem.durableEnd
      BY <2>3, <3>2, <3>3
    <3> QED BY <2>3, <3>1, <3>3, <3>4 DEF FrameAt
  <2> QED BY <2>1, <2>3, <2>4
<1>2. IInv => ServesAcked
  BY <1>1 DEF ServesAcked
<1> QED BY <1>2, JournalInvariant, PTL

\* "A write that returned Ok survives an operating-system crash or a power loss"
\* (SyncPolicy, ADR-0006): when what was unflushed settles before the next open,
\* whichever journal comes back has every frame a call that returned Ok filed.
THEOREM JournalFiledSurvives ==
    ASSUME Policies = {1}, Settles
    PROVE  Spec => []FiledSurvives
<1>1. ASSUME IInv, Usable, NEW j \in Images(disk) \union disk.behind, NEW n \in Seqs
      PROVE  View(j.slots, j.recs).filed[n] = acked.filed[n]
  <2>1. /\ mem.pc # "closed" /\ disk.behind = {} /\ Settled(disk, mem)
        /\ Agrees(acked, Held(disk, mem))
    BY <1>1, UsableIs
  <2>2. every = 1 /\ disk \in Disks /\ mem \in Mems /\ Standing(disk, mem)
    BY <1>1, <2>1, OpenParts DEF Carries
  <2>3. SlotsOut(disk, mem) = {} /\ ~RecordOut(disk, mem)
    BY <2>1, <2>2, SettledIs
  <2>4. Grounded(disk, mem.durable, Base(mem), mem.durableEnd, mem.gen) /\ j \in Images(disk)
    BY <1>1, <2>1, <2>2 DEF Standing
  <2>5. \/ View(j.slots, j.recs) = Told(Base(mem), Covered(disk, mem.durableEnd))
        \/ \E x \in NewSlots(disk, mem.durable, Base(mem)) :
              View(j.slots, j.recs) = Told(x, Covered(disk, mem.durableEnd))
        \/ /\ NewRecord(disk, mem.durableEnd)
           /\ View(j.slots, j.recs) =
                Told(Base(mem), With(disk, mem.durableEnd, disk.wrote[mem.durableEnd + 1]))
    BY <2>2, <2>4, ImagesRead
  <2>6. View(j.slots, j.recs) = Held(disk, mem)
    BY <2>3, <2>5 DEF SlotsOut, RecordOut, Held
  <2> QED BY <2>1, <2>6 DEF Agrees
<1>2. IInv => FiledSurvives
  BY <1>1 DEF FiledSurvives
<1> QED BY <1>2, JournalInvariant, PTL

\* Failed writes, flushes and undos, deaths at any step, and power losses that
\* keep, drop or tear the writes since the last flush: what a caller sees of the
\* journal is what StorePromise allows of a store.
THEOREM JournalKeepsPromise ==
    ASSUME Policies = {1}, Settles
    PROVE  Spec => KeepsPromise
<1>1. Init => Promise!PromiseInit
  BY DEF Init
<1>2. IInv /\ [Next]_vars => [Promise!PromiseNext]_(Promise!pvars)
  BY NextKeeps
<1> QED BY <1>1, <1>2, JournalInvariant, PTL DEF Spec, KeepsPromise, Promise!PromiseSpec
=============================================================================
