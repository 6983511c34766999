------------------------ MODULE CircularBufferLemmas ------------------------
(***************************************************************************)
(* Facts about the operators of CircularBuffer, for every capacity.  They  *)
(* serve the proofs of the ring alone (CircularBufferProofs) and of the    *)
(* modules that use it.                                                    *)
(***************************************************************************)
EXTENDS CircularBuffer, NaturalLemmas, TLAPS

\* The slots from in_offs up to, not including, out_offs, cyclically; all of
\* them when the two indices are equal.
Gap(b, i) ==
  \/ b.in_offs < b.out_offs /\ b.in_offs <= i /\ i < b.out_offs
  \/ b.out_offs < b.in_offs /\ (b.in_offs <= i \/ i < b.out_offs)
  \/ b.in_offs = b.out_offs

GapIsEmpty(b) == \A i \in Slot : Gap(b, i) => b.entry[i].buffptr = NULL

SlotSizes(b) ==
  \A i \in Slot : b.entry[i].size =
    IF b.entry[i].buffptr = NULL THEN 0 ELSE Len(b.entry[i].buffptr)

RunningTotal(b, total) ==
  /\ total \in [0 .. MAX_WRITE_OPERATIONS -> Nat]
  /\ total[0] = 0
  /\ total[MAX_WRITE_OPERATIONS] = b.size
  /\ \A i \in Slot : total[i + 1] = total[i] + b.entry[i].size
  /\ \A i, j \in 0 .. MAX_WRITE_OPERATIONS : i <= j => total[i] <= total[j]

Accounted(b) == SlotSizes(b) /\ \E total : RunningTotal(b, total)

Ring(b) ==
  /\ b \in aesd_circular_buffer
  /\ (b.full /\ b.in_offs = b.out_offs) \/ GapIsEmpty(b)
  /\ Accounted(b)

-----------------------------------------------------------------------------

\* Stepping an index stays in the array and wraps at its end.
LEMMA AdvanceWraps ==
  ASSUME NEW i \in Slot
  PROVE  /\ Advance(i) \in Slot
         /\ Advance(i) = IF i = MAX_WRITE_OPERATIONS - 1 THEN 0 ELSE i + 1
BY MaxAssumption DEF Slot, Advance

\* Eviction lets the gap grow by one slot at its end,
LEMMA GapGrows ==
  ASSUME NEW b, NEW c, b.in_offs \in Slot, b.out_offs \in Slot,
         c.in_offs = b.in_offs, c.out_offs = Advance(b.out_offs),
         NEW i \in Slot, Gap(c, i), i # b.out_offs
  PROVE  b.in_offs # b.out_offs /\ Gap(b, i)
<1>1. c.out_offs = IF b.out_offs = MAX_WRITE_OPERATIONS - 1 THEN 0 ELSE b.out_offs + 1
  BY AdvanceWraps
<1> QED BY <1>1, MaxAssumption DEF Gap, Slot

\* and a store takes its first slot.
LEMMA GapShrinks ==
  ASSUME NEW b, NEW c, b.in_offs \in Slot, b.out_offs \in Slot,
         c.in_offs = Advance(b.in_offs), c.out_offs = b.out_offs, c.in_offs # c.out_offs,
         NEW i \in Slot, Gap(c, i)
  PROVE  i # b.in_offs /\ Gap(b, i)
<1>1. c.in_offs = IF b.in_offs = MAX_WRITE_OPERATIONS - 1 THEN 0 ELSE b.in_offs + 1
  BY AdvanceWraps
<1> QED BY <1>1, MaxAssumption DEF Gap, Slot

\* aesd_circular_buffer_init yields a ring.
LEMMA RingInit == Ring(aesd_circular_buffer_init)
<1> DEFINE b == aesd_circular_buffer_init
           t == [i \in 0 .. MAX_WRITE_OPERATIONS |-> 0]
<1>1. b \in aesd_circular_buffer
  BY MaxAssumption DEF aesd_circular_buffer_init, aesd_circular_buffer,
     aesd_buffer_entry, NoEntry, Slot
<1>2. GapIsEmpty(b) /\ SlotSizes(b)
  BY DEF GapIsEmpty, SlotSizes, aesd_circular_buffer_init, NoEntry
<1>3. RunningTotal(b, t)
  BY MaxAssumption DEF RunningTotal, aesd_circular_buffer_init, NoEntry, Slot
<1> QED BY <1>1, <1>2, <1>3 DEF Ring, Accounted

\* Changing the size of slot k by d moves the running totals after k by d.
LEMMA TotalAfterChange ==
  ASSUME NEW b \in aesd_circular_buffer, NEW c, NEW k \in Slot, NEW e \in aesd_buffer_entry,
         Accounted(b),
         c.entry = [b.entry EXCEPT ![k] = e],
         c.size = b.size - b.entry[k].size + e.size
  PROVE  c.size \in Nat /\ \E total : RunningTotal(c, total)
<1>1. PICK t : RunningTotal(b, t)
  BY DEF Accounted
<1> DEFINE u == [i \in 0 .. MAX_WRITE_OPERATIONS |->
                   IF i <= k THEN t[i] ELSE t[i] - b.entry[k].size + e.size]
<1>2. /\ b.entry[k].size \in Nat /\ e.size \in Nat /\ b.size \in Nat
      /\ \A i \in Slot : b.entry[i].size \in Nat
  BY DEF aesd_circular_buffer, aesd_buffer_entry
<1>3. /\ k \in 0 .. MAX_WRITE_OPERATIONS /\ k + 1 \in 0 .. MAX_WRITE_OPERATIONS
      /\ \A i \in 0 .. MAX_WRITE_OPERATIONS : t[i] \in Nat
      /\ t[k + 1] = t[k] + b.entry[k].size
  BY <1>1, MaxAssumption DEF RunningTotal, Slot
<1>4. \A i \in 0 .. MAX_WRITE_OPERATIONS : i > k => t[k + 1] <= t[i]
  BY <1>1, <1>3, MaxAssumption DEF RunningTotal, Slot
<1>5. u \in [0 .. MAX_WRITE_OPERATIONS -> Nat]
  BY <1>2, <1>3, <1>4
<1>6. u[0] = 0 /\ u[MAX_WRITE_OPERATIONS] = c.size
  BY <1>1, <1>2, <1>3, MaxAssumption DEF RunningTotal, Slot
<1>7. \A i \in Slot : u[i + 1] = u[i] + c.entry[i].size
  <2> TAKE i \in Slot
  <2>1. i \in 0 .. MAX_WRITE_OPERATIONS /\ i + 1 \in 0 .. MAX_WRITE_OPERATIONS
    BY MaxAssumption DEF Slot
  <2>2. t[i + 1] = t[i] + b.entry[i].size
    BY <1>1 DEF RunningTotal
  <2>3. CASE i = k
    <3>1. c.entry[i] = e
      BY <2>3 DEF aesd_circular_buffer
    <3> QED BY <2>1, <2>2, <2>3, <3>1, <1>2, <1>3 DEF Slot
  <2>4. CASE i # k
    <3>1. c.entry[i] = b.entry[i]
      BY <2>4 DEF aesd_circular_buffer
    <3> QED BY <2>1, <2>2, <2>4, <3>1, <1>2, <1>3 DEF Slot
  <2> QED BY <2>3, <2>4
<1>8. \A i, j \in 0 .. MAX_WRITE_OPERATIONS : i <= j => u[i] <= u[j]
  <2> TAKE i, j \in 0 .. MAX_WRITE_OPERATIONS
  <2>1. i <= j => t[i] <= t[j]
    BY <1>1 DEF RunningTotal
  <2>2. i <= k => t[i] <= t[k]
    BY <1>1, <1>3 DEF RunningTotal
  <2> QED BY <2>1, <2>2, <1>2, <1>3, <1>4 DEF Slot
<1>9. RunningTotal(c, u)
  BY <1>5, <1>6, <1>7, <1>8 DEF RunningTotal
<1>10. c.size \in Nat
  BY <1>5, <1>6, MaxAssumption
<1> QED BY <1>9, <1>10

\* add_entry's first half: after it the gap is empty even when the two
\* indices meet, so the slot at in_offs owns no block.
Room(b) == IF b.full THEN Evict(b) ELSE b

\* my_malloc's result overwrites no pointer: the slot is empty by then.
LEMMA RoomIsFree ==
  ASSUME NEW b, Ring(b)
  PROVE  /\ Ring(Room(b))
         /\ GapIsEmpty(Room(b))
         /\ Room(b).entry[b.in_offs] = NoEntry
         /\ Room(b).in_offs = b.in_offs
<1> DEFINE r == Evict(b)
<1>1. /\ b \in aesd_circular_buffer /\ b.in_offs \in Slot /\ b.out_offs \in Slot
      /\ b.full \in BOOLEAN
      /\ b.entry \in [Slot -> aesd_buffer_entry] /\ Accounted(b)
  BY DEF Ring, aesd_circular_buffer
<1>2. NoEntry \in aesd_buffer_entry
  BY DEF NoEntry, aesd_buffer_entry
<1>3. CASE b.full
  <2>1. /\ r.entry = [b.entry EXCEPT ![b.out_offs] = NoEntry]
        /\ r.size = b.size - b.entry[b.out_offs].size
        /\ r.out_offs = Advance(b.out_offs)
        /\ r.in_offs = b.in_offs /\ r.full = b.full
    BY <1>1 DEF Evict, aesd_circular_buffer
  <2>2. r.size = b.size - b.entry[b.out_offs].size + NoEntry.size
    BY <2>1, <1>1 DEF NoEntry, aesd_circular_buffer, aesd_buffer_entry
  <2>3. r.size \in Nat /\ \E total : RunningTotal(r, total)
    BY <2>1, <2>2, <1>1, <1>2, TotalAfterChange
  <2>4. SlotSizes(r)
    BY <2>1, <1>1 DEF SlotSizes, Accounted, NoEntry
  <2>5. Advance(b.out_offs) \in Slot
    BY <1>1, AdvanceWraps
  <2>6. r \in aesd_circular_buffer
    BY <2>1, <2>3, <2>5, <1>1, <1>2 DEF aesd_circular_buffer, Evict
  <2>7. GapIsEmpty(r)
    <3> SUFFICES ASSUME NEW i \in Slot, Gap(r, i), i # b.out_offs
                 PROVE  b.entry[i].buffptr = NULL
      BY <2>1, <1>1 DEF GapIsEmpty, NoEntry
    <3>1. b.in_offs # b.out_offs /\ Gap(b, i)
      BY <2>1, <1>1, GapGrows
    <3> QED BY <3>1 DEF Ring, GapIsEmpty
  <2>8. r.entry[b.in_offs].buffptr = NULL
    <3>1. CASE b.in_offs = b.out_offs
      BY <3>1, <2>1, <1>1 DEF NoEntry
    <3>2. CASE b.in_offs # b.out_offs
      <4>1. Gap(b, b.in_offs)
        BY <3>2, <1>1 DEF Gap, Slot
      <4> QED BY <4>1, <3>2, <2>1, <1>1 DEF Ring, GapIsEmpty
    <3> QED BY <3>1, <3>2
  <2>9. r.entry[b.in_offs] = NoEntry
    BY <2>1, <2>4, <2>6, <2>8, <1>1 DEF SlotSizes, NoEntry, aesd_circular_buffer, aesd_buffer_entry
  <2> QED BY <1>3, <2>1, <2>3, <2>4, <2>6, <2>7, <2>9 DEF Room, Ring, Accounted
<1>4. CASE ~ b.full
  <2>1. GapIsEmpty(b) /\ Gap(b, b.in_offs)
    BY <1>4, <1>1 DEF Ring, Gap, Slot
  <2>2. b.entry[b.in_offs].buffptr = NULL
    BY <2>1, <1>1 DEF GapIsEmpty
  <2>3. b.entry[b.in_offs] = NoEntry
    BY <2>2, <1>1 DEF Accounted, SlotSizes, NoEntry, aesd_buffer_entry
  <2> QED BY <1>4, <2>1, <2>3 DEF Room
<1> QED BY <1>3, <1>4, <1>1

\* add_entry's second half, and with it the whole call, keeps the ring.
LEMMA RingAdd ==
  ASSUME NEW b, Ring(b), NEW e \in aesd_buffer_entry, e.buffptr # NULL,
         e.size = Len(e.buffptr), NEW malloc_ok \in BOOLEAN
  PROVE  Ring(aesd_circular_buffer_add_entry(b, e, malloc_ok))
<1> DEFINE r == Room(b)
           s == Store(r, e)
           f == StoreFailed(r)
<1>1. Ring(r) /\ GapIsEmpty(r) /\ r.entry[r.in_offs] = NoEntry
  BY RoomIsFree
<1>2. /\ r \in aesd_circular_buffer /\ r.in_offs \in Slot /\ r.out_offs \in Slot
      /\ r.full \in BOOLEAN /\ r.size \in Nat
      /\ r.entry \in [Slot -> aesd_buffer_entry] /\ Accounted(r)
  BY <1>1 DEF Ring, aesd_circular_buffer
<1>3. Advance(r.in_offs) \in Slot
  BY <1>2, AdvanceWraps
<1>4. Ring(s)
  <2>1. /\ s.entry = [r.entry EXCEPT ![r.in_offs] = e]
        /\ s.size = r.size + e.size
        /\ s.in_offs = Advance(r.in_offs)
        /\ s.out_offs = r.out_offs
        /\ s.full = (Advance(r.in_offs) = r.out_offs)
    BY <1>2 DEF Store, aesd_circular_buffer
  <2>2. s.size = r.size - r.entry[r.in_offs].size + e.size
    BY <2>1, <1>1, <1>2 DEF NoEntry, aesd_buffer_entry
  <2>3. s.size \in Nat /\ \E total : RunningTotal(s, total)
    BY <2>1, <2>2, <1>2, TotalAfterChange
  <2>4. SlotSizes(s)
    BY <2>1, <1>2 DEF SlotSizes, Accounted
  <2>5. s \in aesd_circular_buffer
    BY <2>1, <2>3, <1>2, <1>3 DEF aesd_circular_buffer, Store
  <2>6. (s.full /\ s.in_offs = s.out_offs) \/ GapIsEmpty(s)
    <3> SUFFICES ASSUME s.in_offs # s.out_offs, NEW i \in Slot, Gap(s, i)
                 PROVE  s.entry[i].buffptr = NULL
      BY <2>1 DEF GapIsEmpty
    <3>1. i # r.in_offs /\ Gap(r, i)
      BY <2>1, <1>2, GapShrinks
    <3> QED BY <3>1, <2>1, <1>1, <1>2 DEF GapIsEmpty
  <2> QED BY <2>3, <2>4, <2>5, <2>6 DEF Ring, Accounted
<1>5. f = r
  BY <1>1, <1>2 DEF StoreFailed, NoEntry, aesd_circular_buffer, aesd_buffer_entry
<1> QED BY <1>1, <1>4, <1>5 DEF aesd_circular_buffer_add_entry, Room
-----------------------------------------------------------------------------
(* The search.                                                             *)

\* The walk from out_offs wraps at most once.
LEMMA NthSlotWraps ==
  ASSUME NEW b, b.out_offs \in Slot, NEW i \in 0 .. MAX_WRITE_OPERATIONS
  PROVE  /\ NthSlot(b, i) \in Slot
         /\ NthSlot(b, i) = IF b.out_offs + i < MAX_WRITE_OPERATIONS
                            THEN b.out_offs + i
                            ELSE b.out_offs + i - MAX_WRITE_OPERATIONS
BY MaxAssumption DEF Slot, NthSlot

\* current_offset adds up the sizes of the slots the walk has passed, whatever
\* the slots point to.
LEMMA OffsetsAddUp ==
  ASSUME NEW b, b.out_offs \in Slot, \A i \in Slot : b.entry[i].size \in Nat
  PROVE  /\ CurrentOffset(b) \in [0 .. MAX_WRITE_OPERATIONS -> Nat]
         /\ CurrentOffset(b)[0] = 0
         /\ \A i \in Slot : CurrentOffset(b)[i + 1] =
              CurrentOffset(b)[i] + b.entry[NthSlot(b, i)].size
<1> DEFINE N == MAX_WRITE_OPERATIONS
           g == [i \in 0 .. N - 1 |-> b.entry[NthSlot(b, i)].size]
           Walk(f) == f = [i \in 0 .. N |-> IF i = 0 THEN 0
                             ELSE f[i - 1] + b.entry[NthSlot(b, i - 1)].size]
           off == CurrentOffset(b)
<1>1. N \in Nat \ {0} /\ Slot = 0 .. N - 1
  BY MaxAssumption DEF Slot
<1>2. \A i \in 0 .. N - 1 : g[i] \in Nat
  <2> TAKE i \in 0 .. N - 1
  <2>1. i \in 0 .. MAX_WRITE_OPERATIONS
    BY <1>1
  <2>2. NthSlot(b, i) \in Slot
    BY <2>1, NthSlotWraps
  <2> QED BY <2>2
<1>3. \E f : Walk(f)
  <2>1. PICK f \in [0 .. N -> Nat] : f[0] = 0 /\ \A i \in 1 .. N : f[i] = f[i - 1] + g[i - 1]
    <3> HIDE DEF g, N
    <3> QED BY <1>1, <1>2, PrefixSums
  <2>2. \A i \in 1 .. N : f[i] = f[i - 1] + b.entry[NthSlot(b, i - 1)].size
    BY <1>1, <2>1
  <2>3. Walk(f)
    BY <1>1, <2>1, <2>2
  <2> QED BY <2>3
<1>4. off = CHOOSE f : Walk(f)
  BY DEF CurrentOffset
<1>5. Walk(off)
  <2> HIDE DEF off, Walk
  <2> QED BY <1>3, <1>4
<1> HIDE DEF off, g
<1>6. off[0] = 0 /\ \A i \in 1 .. N : off[i] = off[i - 1] + b.entry[NthSlot(b, i - 1)].size
  BY <1>1, <1>5
<1>7. \A i \in 0 .. N - 1 : off[i + 1] = off[i] + b.entry[NthSlot(b, i)].size
  <2> TAKE i \in 0 .. N - 1
  <2>1. i + 1 \in 1 .. N /\ (i + 1) - 1 = i
    BY <1>1
  <2> QED BY <1>6, <2>1
<1>8. \A i \in 0 .. N : off[i] \in Nat
  <2> DEFINE S == {i \in Nat : i <= N => off[i] \in Nat}
  <2>1. 0 \in S
    BY <1>6
  <2>2. ASSUME NEW i \in Nat, i \in S PROVE i + 1 \in S
    <3>1. CASE i + 1 <= N
      <4>1. i \in 0 .. N - 1 /\ off[i] \in Nat
        BY <1>1, <2>2, <3>1
      <4>2. b.entry[NthSlot(b, i)].size \in Nat
        BY <1>2, <4>1 DEF g
      <4> QED BY <1>7, <4>1, <4>2
    <3> QED BY <3>1
  <2> HIDE DEF S
  <2>3. \A i \in Nat : i \in S
    BY <2>1, <2>2, SetInduction
  <2> QED BY <2>3, <1>1 DEF S
<1>9. off \in [0 .. N -> Nat]
  BY <1>5, <1>8
<1> QED BY <1>1, <1>6, <1>7, <1>9 DEF off

\* What the search returns is a place inside a slot that owns a block.
LEMMA FindHits ==
  ASSUME NEW b, b.out_offs \in Slot, \A i \in Slot : b.entry[i].size \in Nat,
         NEW char_offset \in Nat, NEW hit,
         hit = aesd_circular_buffer_find_entry_offset_for_fpos(b, char_offset), hit # NULL
  PROVE  /\ hit \in [slot : Slot, offset : Nat]
         /\ b.entry[hit.slot].buffptr # NULL
         /\ hit.offset < b.entry[hit.slot].size
<1> DEFINE off == CurrentOffset(b)
           hits == {i \in Slot : /\ Reaches(b, i)
                                 /\ off[i] <= char_offset
                                 /\ char_offset < off[i + 1]}
<1>1. /\ \A i \in Slot : off[i] \in Nat /\ off[i + 1] = off[i] + b.entry[NthSlot(b, i)].size
      /\ \A i \in Slot : i \in 0 .. MAX_WRITE_OPERATIONS
  BY OffsetsAddUp, MaxAssumption DEF Slot
<1>2. hits # {} /\ hit = LET i == CHOOSE h \in hits : TRUE
                        IN  [slot |-> NthSlot(b, i), offset |-> char_offset - off[i]]
  BY DEF aesd_circular_buffer_find_entry_offset_for_fpos
<1>3. PICK i \in hits : hit = [slot |-> NthSlot(b, i), offset |-> char_offset - off[i]]
  <2> HIDE DEF hits, off
  <2> QED BY <1>2
<1>4. NthSlot(b, i) \in Slot /\ b.entry[NthSlot(b, i)].size \in Nat
  BY <1>1, <1>3, NthSlotWraps
<1>5. b.entry[NthSlot(b, i)].buffptr # NULL
  BY <1>3 DEF Reaches, Slot
<1>6. char_offset - off[i] \in Nat /\ char_offset - off[i] < b.entry[NthSlot(b, i)].size
  <2> HIDE DEF off
  <2> QED BY <1>1, <1>3, <1>4
<1> HIDE DEF hits, off
<1> QED BY <1>3, <1>4, <1>5, <1>6

-----------------------------------------------------------------------------
(* When allocations succeed the ring is a queue.                           *)

\* `full` is only set when the indices meet, and every write between them
\* owns a block.
Queue(b) ==
  /\ Ring(b)
  /\ b.full => b.in_offs = b.out_offs
  /\ \A k \in 0 .. Count(b) - 1 : b.entry[NthSlot(b, k)].buffptr # NULL

\* The ring's count never exceeds its capacity, and reaches it exactly when
\* `full` is set.
LEMMA CountBounds ==
  ASSUME NEW b \in aesd_circular_buffer
  PROVE  /\ Count(b) \in 0 .. MAX_WRITE_OPERATIONS
         /\ b.full <=> Count(b) = MAX_WRITE_OPERATIONS
<1>1. b.in_offs \in Slot /\ b.out_offs \in Slot /\ b.full \in BOOLEAN
  BY DEF aesd_circular_buffer
<1> QED BY <1>1, MaxAssumption DEF Count, Slot

\* The fields add_entry leaves in a queue when its allocation succeeds.
AddedTo(b, e, c) ==
  /\ c.in_offs = Advance(b.in_offs)
  /\ c.out_offs = IF b.full THEN Advance(b.out_offs) ELSE b.out_offs
  /\ c.full <=> c.in_offs = c.out_offs
  /\ c.entry = [b.entry EXCEPT ![b.in_offs] = e]

\* What a successful add_entry leaves in each field.
LEMMA FieldsAfterAdd ==
  ASSUME NEW b \in aesd_circular_buffer, b.full => b.in_offs = b.out_offs, NEW e, NEW c,
         c = aesd_circular_buffer_add_entry(b, e, TRUE)
  PROVE  AddedTo(b, e, c)
<1> USE DEF AddedTo
<1>1. CASE b.full
  BY <1>1 DEF aesd_circular_buffer_add_entry, Store, Evict, aesd_circular_buffer
<1>2. CASE ~ b.full
  BY <1>2 DEF aesd_circular_buffer_add_entry, Store, aesd_circular_buffer
<1> QED BY <1>1, <1>2

\* Where the walk arrives after an add: at the new write last, and before it
\* at the old writes, without the oldest when the ring was full.
LEMMA WalkAfterAdd ==
  ASSUME NEW b \in aesd_circular_buffer, b.full => b.in_offs = b.out_offs, NEW c,
         c.in_offs = Advance(b.in_offs),
         c.out_offs = IF b.full THEN Advance(b.out_offs) ELSE b.out_offs,
         c.full <=> c.in_offs = c.out_offs,
         NEW dropped, b.full => dropped = 1, ~ b.full => dropped = 0,
         NEW n, n = Count(b) - dropped
  PROVE  /\ n \in 0 .. MAX_WRITE_OPERATIONS - 1
         /\ Count(c) = n + 1
         /\ NthSlot(c, n) = b.in_offs
         /\ \A k \in 0 .. n - 1 : /\ NthSlot(c, k) = NthSlot(b, k + dropped)
                                  /\ NthSlot(c, k) \in Slot \ {b.in_offs}
<1> DEFINE N == MAX_WRITE_OPERATIONS
<1>1. b.in_offs \in Slot /\ b.out_offs \in Slot /\ b.full \in BOOLEAN
  BY DEF aesd_circular_buffer
<1>2. /\ Advance(b.in_offs) \in Slot /\ Advance(b.out_offs) \in Slot
      /\ Advance(b.in_offs) = IF b.in_offs = N - 1 THEN 0 ELSE b.in_offs + 1
      /\ Advance(b.out_offs) = IF b.out_offs = N - 1 THEN 0 ELSE b.out_offs + 1
  BY <1>1, AdvanceWraps
<1>4. c.in_offs \in Slot /\ c.out_offs \in Slot
  BY <1>1, <1>2
<1>5. /\ Count(b) \in 0 .. N
      /\ b.full => Count(b) = N
      /\ ~ b.full => Count(b) = IF b.in_offs >= b.out_offs THEN b.in_offs - b.out_offs
                                ELSE b.in_offs + N - b.out_offs
      /\ ~ b.full => Count(b) # N
  BY CountBounds DEF Count
<1>6. dropped \in 0 .. 1 /\ n \in 0 .. N - 1
  BY <1>1, <1>5, MaxAssumption
<1>7. Count(c) = n + 1
  <2>1. CASE c.in_offs = c.out_offs
    <3>1. Count(c) = N
      BY <2>1 DEF Count
    <3>2. CASE b.full
      BY <3>1, <3>2, <1>5, <1>6, MaxAssumption
    <3>3. CASE ~ b.full
      <4>1. b.out_offs = IF b.in_offs = N - 1 THEN 0 ELSE b.in_offs + 1
        BY <3>3, <2>1, <1>2
      <4>2. Count(b) = N - 1
        BY <4>1, <3>3, <1>1, <1>5, MaxAssumption DEF Slot
      <4> QED BY <4>2, <3>1, <3>3, MaxAssumption
    <3> QED BY <3>2, <3>3
  <2>2. CASE c.in_offs # c.out_offs
    <3>1. Count(c) = IF c.in_offs >= c.out_offs THEN c.in_offs - c.out_offs
                     ELSE c.in_offs + N - c.out_offs
      BY <2>2 DEF Count
    <3>2. ~ b.full
      BY <2>2
    <3> QED BY <3>1, <3>2, <2>2, <1>1, <1>2, <1>5, <1>6, MaxAssumption, SMTT(30) DEF Slot
  <2> QED BY <2>1, <2>2
<1>8. NthSlot(c, n) = b.in_offs
  <2>1. NthSlot(c, n) = IF c.out_offs + n < N THEN c.out_offs + n ELSE c.out_offs + n - N
    BY <1>4, <1>6, NthSlotWraps, MaxAssumption
  <2>2. CASE b.full
    BY <2>1, <2>2, <1>1, <1>2, <1>5, <1>6, MaxAssumption DEF Slot
  <2>3. CASE ~ b.full
    BY <2>1, <2>3, <1>1, <1>2, <1>5, <1>6, MaxAssumption DEF Slot
  <2> QED BY <2>2, <2>3
<1>9. ASSUME NEW k \in 0 .. n - 1
      PROVE  /\ NthSlot(c, k) = NthSlot(b, k + dropped)
             /\ NthSlot(c, k) \in Slot \ {b.in_offs}
  <2>1. k \in 0 .. N /\ k + dropped \in 0 .. N /\ n \in 0 .. N /\ N \in Nat
    BY <1>6, MaxAssumption
  <2>2. /\ NthSlot(c, k) \in Slot
        /\ NthSlot(c, k) = IF c.out_offs + k < N THEN c.out_offs + k ELSE c.out_offs + k - N
    BY <1>4, <2>1, NthSlotWraps
  <2>3. NthSlot(b, k + dropped) = IF b.out_offs + (k + dropped) < N
                                  THEN b.out_offs + (k + dropped)
                                  ELSE b.out_offs + (k + dropped) - N
    BY <1>1, <2>1, NthSlotWraps
  <2>4. NthSlot(c, k) = NthSlot(b, k + dropped)
    <3>1. CASE b.full
      BY <3>1, <2>1, <2>2, <2>3, <1>1, <1>2, <1>6 DEF Slot
    <3>2. CASE ~ b.full
      BY <3>2, <2>1, <2>2, <2>3, <1>1, <1>6 DEF Slot
    <3> QED BY <3>1, <3>2
  <2>5. NthSlot(c, n) = IF c.out_offs + n < N THEN c.out_offs + n ELSE c.out_offs + n - N
    BY <1>4, <2>1, NthSlotWraps
  <2>6. NthSlot(c, k) # b.in_offs
    BY <2>1, <2>2, <2>5, <1>4, <1>6, <1>8 DEF Slot
  <2> QED BY <2>2, <2>4, <2>6
<1> QED BY <1>6, <1>7, <1>8, <1>9

\* Adding to a queue whose allocation succeeds is LastWrites' Add.
LEMMA QueueAdd ==
  ASSUME NEW b, Queue(b), NEW e \in aesd_buffer_entry, e.buffptr # NULL, NEW c,
         Ring(c), AddedTo(b, e, c)
  PROVE  /\ Queue(c)
         /\ Contents(c) = Append(IF Len(Contents(b)) = MAX_WRITE_OPERATIONS
                                 THEN Tail(Contents(b)) ELSE Contents(b), e.buffptr)
<1>0. /\ c.in_offs = Advance(b.in_offs)
      /\ c.out_offs = IF b.full THEN Advance(b.out_offs) ELSE b.out_offs
      /\ c.full <=> c.in_offs = c.out_offs
      /\ c.entry = [b.entry EXCEPT ![b.in_offs] = e]
  BY DEF AddedTo
<1>1. /\ b \in aesd_circular_buffer /\ b.full \in BOOLEAN /\ b.in_offs \in Slot
      /\ b.entry \in [Slot -> aesd_buffer_entry]
      /\ b.full => b.in_offs = b.out_offs
  BY DEF Queue, Ring, aesd_circular_buffer
<1>2. PICK d \in 0 .. 1 : (b.full => d = 1) /\ (~ b.full => d = 0)
  BY <1>1
<1>3. PICK n : n = Count(b) - d
  OBVIOUS
<1>4. /\ n \in 0 .. MAX_WRITE_OPERATIONS - 1
      /\ Count(c) = n + 1
      /\ NthSlot(c, n) = b.in_offs
      /\ \A k \in 0 .. n - 1 : /\ NthSlot(c, k) = NthSlot(b, k + d)
                               /\ NthSlot(c, k) \in Slot \ {b.in_offs}
  BY <1>0, <1>1, <1>2, <1>3, WalkAfterAdd
<1>5. /\ Count(b) \in 0 .. MAX_WRITE_OPERATIONS
      /\ b.full <=> Count(b) = MAX_WRITE_OPERATIONS
  BY <1>1, CountBounds
<1>6. c.entry[NthSlot(c, n)].buffptr = e.buffptr
  BY <1>0, <1>1, <1>4
<1>7. \A k \in 0 .. n - 1 : c.entry[NthSlot(c, k)] = b.entry[NthSlot(b, k + d)]
  BY <1>0, <1>1, <1>4
<1>8. Queue(c)
  <2>1. \A k \in 0 .. n - 1 : k + d \in 0 .. Count(b) - 1
    BY <1>2, <1>3, <1>4, <1>5
  <2>2. \A k \in 0 .. n - 1 : c.entry[NthSlot(c, k)].buffptr # NULL
    BY <2>1, <1>7 DEF Queue
  <2>3. \A k \in 0 .. Count(c) - 1 : k = n \/ k \in 0 .. n - 1
    BY <1>4, MaxAssumption
  <2> QED BY <1>0, <2>2, <2>3, <1>6 DEF Queue
<1>9. Contents(c) = Append(IF Len(Contents(b)) = MAX_WRITE_OPERATIONS
                           THEN Tail(Contents(b)) ELSE Contents(b), e.buffptr)
  <2> DEFINE old == Contents(b)
             kept == IF Len(old) = MAX_WRITE_OPERATIONS THEN Tail(old) ELSE old
  <2>1. Len(old) = Count(b) /\ old \in Seq(Seq(Byte) \cup {NULL})
    <3>1. \A k \in 1 .. Count(b) : k - 1 \in 0 .. MAX_WRITE_OPERATIONS
      BY <1>5, MaxAssumption
    <3>2. \A k \in 1 .. Count(b) : NthSlot(b, k - 1) \in Slot
      BY <3>1, <1>1, NthSlotWraps DEF aesd_circular_buffer
    <3>3. \A k \in 1 .. Count(b) :
            b.entry[NthSlot(b, k - 1)].buffptr \in Seq(Byte) \cup {NULL}
      <4>1. \A i \in Slot : b.entry[i].buffptr \in Seq(Byte) \cup {NULL}
        BY <1>1 DEF aesd_buffer_entry
      <4> QED BY <3>2, <4>1
    <3>4. old \in [1 .. Count(b) -> Seq(Byte) \cup {NULL}]
      BY <3>3 DEF Contents
    <3> HIDE DEF old
    <3> QED BY <3>4, <1>5
  <2>2. \A k \in 1 .. Count(b) : old[k] = b.entry[NthSlot(b, k - 1)].buffptr
    BY DEF Contents
  <2> HIDE DEF old
  <2>3. /\ kept \in Seq(Seq(Byte) \cup {NULL}) /\ Len(kept) = n
        /\ \A k \in 1 .. n : kept[k] = old[k + d]
    <3>1. CASE b.full
      BY <3>1, <2>1, <1>2, <1>3, <1>4, <1>5
    <3>2. CASE ~ b.full
      BY <3>2, <2>1, <1>2, <1>3, <1>4, <1>5
    <3> QED BY <3>1, <3>2
  <2> HIDE DEF kept
  <2>4. /\ Len(Append(kept, e.buffptr)) = n + 1
        /\ \A k \in 1 .. n : Append(kept, e.buffptr)[k] = old[k + d]
        /\ Append(kept, e.buffptr)[n + 1] = e.buffptr
    BY <2>3, <1>4
  <2>5. \A k \in 1 .. n + 1 : Contents(c)[k] = Append(kept, e.buffptr)[k]
    <3> TAKE k \in 1 .. n + 1
    <3>1. Contents(c)[k] = c.entry[NthSlot(c, k - 1)].buffptr
      BY <1>4 DEF Contents
    <3>2. CASE k = n + 1
      <4>1. k - 1 = n
        BY <3>2, <1>4
      <4> QED BY <4>1, <3>1, <3>2, <2>4, <1>6
    <3>3. CASE k # n + 1
      <4>1. k \in 1 .. n /\ k - 1 \in 0 .. n - 1 /\ k + d \in 1 .. Count(b)
            /\ (k + d) - 1 = (k - 1) + d
        BY <3>3, <1>2, <1>3, <1>4, <1>5
      <4>2. Contents(c)[k] = b.entry[NthSlot(b, (k - 1) + d)].buffptr
        BY <4>1, <3>1, <1>7
      <4>3. old[k + d] = b.entry[NthSlot(b, (k + d) - 1)].buffptr
        BY <4>1, <2>2
      <4> QED BY <4>1, <4>2, <4>3, <2>4
    <3> QED BY <3>2, <3>3
  <2>6. Contents(c) = [k \in 1 .. n + 1 |-> Contents(c)[k]]
    BY <1>4 DEF Contents
  <2>7. Append(kept, e.buffptr) = [k \in 1 .. n + 1 |-> Append(kept, e.buffptr)[k]]
    BY <2>3, <1>4
  <2>8. Contents(c) = Append(kept, e.buffptr)
    BY <2>5, <2>6, <2>7
  <2> QED BY <2>8 DEF kept, old
<1> QED BY <1>8, <1>9

\* The same for the call itself.
LEMMA QueueAddEntry ==
  ASSUME NEW b, Queue(b), NEW e \in aesd_buffer_entry, e.buffptr # NULL,
         e.size = Len(e.buffptr), NEW c, c = aesd_circular_buffer_add_entry(b, e, TRUE)
  PROVE  /\ Queue(c)
         /\ Contents(c) = Append(IF Len(Contents(b)) = MAX_WRITE_OPERATIONS
                                 THEN Tail(Contents(b)) ELSE Contents(b), e.buffptr)
<1>1. Ring(b) /\ b \in aesd_circular_buffer /\ (b.full => b.in_offs = b.out_offs)
  BY DEF Queue, Ring
<1>2. Ring(c)
  BY <1>1, RingAdd
<1>3. AddedTo(b, e, c)
  BY <1>1, FieldsAfterAdd
<1> QED BY <1>2, <1>3, QueueAdd

-----------------------------------------------------------------------------
(* The stream of a queue: what the searches find is where the              *)
(* concatenation of the writes has it.                                     *)

\* Behind the newest write the walk meets only slots without a block.
LEMMA BeyondCount ==
  ASSUME NEW b, Queue(b), NEW k \in Count(b) .. MAX_WRITE_OPERATIONS - 1
  PROVE  LET e == b.entry[NthSlot(b, k)] IN e.buffptr = NULL /\ e.size = 0
<1> DEFINE N == MAX_WRITE_OPERATIONS
<1>1. /\ b \in aesd_circular_buffer /\ b.in_offs \in Slot /\ b.out_offs \in Slot
      /\ b.full \in BOOLEAN /\ N \in Nat \ {0}
  BY MaxAssumption DEF Queue, Ring, aesd_circular_buffer
<1>2. Count(b) \in 0 .. N /\ (b.full <=> Count(b) = N)
  BY <1>1, CountBounds
<1>3. ~ b.full /\ k \in 0 .. N
  BY <1>1, <1>2
<1>4. GapIsEmpty(b) /\ SlotSizes(b)
  BY <1>3 DEF Queue, Ring, Accounted
<1>5. /\ NthSlot(b, k) \in Slot
      /\ NthSlot(b, k) = IF b.out_offs + k < N THEN b.out_offs + k ELSE b.out_offs + k - N
  BY <1>1, <1>3, NthSlotWraps
<1>6. Count(b) = IF b.in_offs >= b.out_offs THEN b.in_offs - b.out_offs
                 ELSE b.in_offs + N - b.out_offs
  BY <1>3 DEF Count
<1>7. Gap(b, NthSlot(b, k))
  BY <1>1, <1>2, <1>5, <1>6 DEF Gap, Slot
<1> QED BY <1>4, <1>5, <1>7 DEF GapIsEmpty, SlotSizes

\* So the walk gets as far as the writes go.
LEMMA ReachesWindow ==
  ASSUME NEW b, Queue(b), NEW i \in Slot
  PROVE  Reaches(b, i) <=> i < Count(b)
<1>1. Count(b) \in 0 .. MAX_WRITE_OPERATIONS /\ MAX_WRITE_OPERATIONS \in Nat \ {0}
  BY CountBounds, MaxAssumption DEF Queue, Ring
<1>2. CASE i < Count(b)
  <2>1. \A j \in 0 .. i : j \in 0 .. Count(b) - 1
    BY <1>1, <1>2 DEF Slot
  <2> QED BY <1>2, <2>1 DEF Reaches, Queue
<1>3. CASE ~ (i < Count(b))
  <2>1. Count(b) \in 0 .. i /\ Count(b) \in Count(b) .. MAX_WRITE_OPERATIONS - 1
    BY <1>1, <1>3 DEF Slot
  <2>2. b.entry[NthSlot(b, Count(b))].buffptr = NULL
    BY <2>1, BeyondCount
  <2> QED BY <1>3, <2>1, <2>2 DEF Reaches
<1> QED BY <1>2, <1>3

\* The sizes add up to buffer->size also in the order of the walk.
LEMMA WalkTotal ==
  ASSUME NEW b, Ring(b)
  PROVE  CurrentOffset(b)[MAX_WRITE_OPERATIONS] = b.size
<1> DEFINE N == MAX_WRITE_OPERATIONS
           off == CurrentOffset(b)
           o == b.out_offs
<1>1. N \in Nat \ {0} /\ Slot = 0 .. N - 1
  BY MaxAssumption DEF Slot
<1>2. PICK t : RunningTotal(b, t)
  BY DEF Ring, Accounted
<1>3. o \in 0 .. N - 1 /\ \A i \in Slot : b.entry[i].size \in Nat
  BY <1>1 DEF Ring, aesd_circular_buffer, aesd_buffer_entry
<1>4. /\ off[0] = 0 /\ \A i \in 0 .. N : off[i] \in Nat
      /\ \A i \in 0 .. N - 1 : off[i + 1] = off[i] + b.entry[NthSlot(b, i)].size
  BY <1>1, <1>3, OffsetsAddUp
<1>5. /\ t[0] = 0 /\ t[N] = b.size /\ \A i \in 0 .. N : t[i] \in Nat
      /\ \A i \in 0 .. N - 1 : t[i + 1] = t[i] + b.entry[i].size
  BY <1>1, <1>2 DEF RunningTotal
<1>6. \A i \in 0 .. N - 1 : /\ NthSlot(b, i) \in 0 .. N - 1
                            /\ NthSlot(b, i) = IF o + i < N THEN o + i ELSE o + i - N
  BY <1>1, <1>3, NthSlotWraps
<1> HIDE DEF off
<1> DEFINE Passed(i) == IF o + i <= N THEN t[o + i] - t[o] ELSE t[N] - t[o] + t[o + i - N]
           S == {i \in Nat : i <= N => off[i] = Passed(i)}
<1>7. 0 \in S
  BY <1>1, <1>3, <1>4, <1>5
<1>8. ASSUME NEW i \in Nat, i \in S PROVE i + 1 \in S
  <2> SUFFICES ASSUME i + 1 <= N PROVE off[i + 1] = Passed(i + 1)
    OBVIOUS
  <2>1. i \in 0 .. N - 1 /\ i <= N /\ off[i] = Passed(i)
    BY <1>1, <1>8
  <2> DEFINE n == NthSlot(b, i)
  <2>2. n \in 0 .. N - 1 /\ off[i + 1] = off[i] + b.entry[n].size
        /\ t[n + 1] = t[n] + b.entry[n].size /\ b.entry[n].size \in Nat
    BY <1>1, <1>3, <1>4, <1>5, <1>6, <2>1
  <2>3. n = IF o + i < N THEN o + i ELSE o + i - N
    BY <1>6, <2>1
  <2> HIDE DEF n
  <2>4. t[o] \in Nat /\ t[n] \in Nat /\ t[N] \in Nat /\ off[i] \in Nat
    <3>1. o \in 0 .. N /\ n \in 0 .. N /\ N \in 0 .. N /\ i \in 0 .. N
      BY <1>1, <1>3, <2>1, <2>2
    <3> QED BY <1>4, <1>5, <3>1
  <2>5. CASE o + i < N
    <3>1. n = o + i /\ n + 1 = o + (i + 1) /\ o + (i + 1) <= N /\ o + i <= N
      <4>1. n = o + i
        BY <2>3, <2>5
      <4>2. o \in Int /\ i \in Int /\ N \in Int
        BY <1>1, <1>3
      <4> HIDE DEF o, N
      <4> QED BY <2>5, <4>1, <4>2
    <3>2. off[i] = t[n] - t[o] /\ Passed(i + 1) = t[n + 1] - t[o]
      BY <2>1, <3>1
    <3> QED BY <2>2, <2>4, <3>2
  <2>6. CASE ~ (o + i < N)
    <3>1. n = o + i - N /\ n + 1 = o + (i + 1) - N /\ ~ (o + (i + 1) <= N)
      BY <1>1, <1>3, <2>3, <2>6
    <3>2. off[i] = t[N] - t[o] + t[n]
      <4>1. CASE o + i <= N
        <5>1. o + i = N /\ n = 0
          BY <1>1, <1>3, <2>6, <3>1, <4>1, SMTT(30)
        <5> QED BY <1>5, <2>1, <2>4, <4>1, <5>1
      <4>2. CASE ~ (o + i <= N)
        BY <2>1, <3>1, <4>2
      <4> QED BY <4>1, <4>2
    <3>3. Passed(i + 1) = t[N] - t[o] + t[n + 1]
      BY <3>1
    <3> QED BY <2>2, <2>4, <3>2, <3>3
  <2> QED BY <2>5, <2>6
<1> HIDE DEF S
<1>9. N \in S
  BY <1>1, <1>7, <1>8, SetInduction
<1>10. off[N] = Passed(N)
  BY <1>1, <1>9 DEF S
<1>11. Passed(N) = t[N]
  <2>1. t[o] \in Nat /\ t[N] \in Nat /\ (o + N) - N = o
    BY <1>1, <1>3, <1>5
  <2>2. o + N <= N => o = 0
    BY <1>1, <1>3
  <2>3. CASE o + N <= N
    <3>1. o = 0 /\ o + N = N
      BY <1>1, <2>2, <2>3
    <3> QED BY <1>5, <2>1, <2>3, <3>1
  <2>4. CASE ~ (o + N <= N)
    <3>1. Passed(N) = t[N] - t[o] + t[(o + N) - N]
      BY <1>1, <1>3, <2>1, <2>4
    <3>2. Passed(N) = t[N] - t[o] + t[o]
      BY <2>1, <3>1
    <3> HIDE DEF Passed, o, N
    <3> QED BY <2>1, <3>2
  <2> QED BY <2>3, <2>4
<1> QED BY <1>5, <1>10, <1>11 DEF off

\* And only the writes count.
LEMMA CountTotal ==
  ASSUME NEW b, Queue(b)
  PROVE  CurrentOffset(b)[Count(b)] = b.size
<1> DEFINE N == MAX_WRITE_OPERATIONS
           off == CurrentOffset(b)
           n == Count(b)
<1>1. N \in Nat \ {0} /\ Slot = 0 .. N - 1 /\ n \in 0 .. N
  BY CountBounds, MaxAssumption DEF Slot, Queue, Ring
<1>2. /\ \A i \in 0 .. N : off[i] \in Nat
      /\ \A i \in 0 .. N - 1 : off[i + 1] = off[i] + b.entry[NthSlot(b, i)].size
  <2>1. b.out_offs \in Slot /\ \A i \in Slot : b.entry[i].size \in Nat
    BY DEF Queue, Ring, aesd_circular_buffer, aesd_buffer_entry
  <2> QED BY <1>1, <2>1, OffsetsAddUp
<1>3. \A i \in n .. N - 1 : b.entry[NthSlot(b, i)].size = 0
  BY BeyondCount
<1> HIDE DEF off, n
<1> DEFINE S == {d \in Nat : n + d <= N => off[n + d] = off[n]}
<1>4. 0 \in S
  BY <1>1
<1>5. ASSUME NEW d \in Nat, d \in S PROVE d + 1 \in S
  <2> SUFFICES ASSUME n + (d + 1) <= N PROVE off[n + (d + 1)] = off[n]
    OBVIOUS
  <2>1. n + d \in n .. N - 1 /\ n + d \in 0 .. N - 1 /\ n + d <= N /\ (n + d) + 1 = n + (d + 1)
    BY <1>1
  <2>2. off[n + d] = off[n] /\ off[n + (d + 1)] = off[n + d] + 0 /\ off[n] \in Nat
    BY <1>1, <1>2, <1>3, <1>5, <2>1
  <2> QED BY <2>2
<1> HIDE DEF S
<1>6. N - n \in Nat /\ n + (N - n) = N
  BY <1>1
<1>7. off[N] = off[n]
  <2>1. N - n \in S
    BY <1>4, <1>5, <1>6, SetInduction
  <2> QED BY <1>6, <1>1, <2>1 DEF S
<1>8. off[N] = b.size
  BY WalkTotal DEF Queue, off
<1> QED BY <1>7, <1>8 DEF off, n

\* The stream has buffer->size bytes, and the i-th write begins where
\* current_offset says.
LEMMA StreamOfQueue ==
  ASSUME NEW b, Queue(b)
  PROVE  /\ FlattenSeq(Contents(b)) \in Seq(Byte)
         /\ Len(FlattenSeq(Contents(b))) = b.size
         /\ \A i \in 0 .. Count(b) - 1 : \A j \in 1 .. b.entry[NthSlot(b, i)].size :
              FlattenSeq(Contents(b))[CurrentOffset(b)[i] + j]
                = b.entry[NthSlot(b, i)].buffptr[j]
<1> DEFINE N == MAX_WRITE_OPERATIONS
           off == CurrentOffset(b)
           n == Count(b)
           seqs == Contents(b)
<1>1. N \in Nat \ {0} /\ Slot = 0 .. N - 1 /\ n \in 0 .. N
  BY CountBounds, MaxAssumption DEF Slot, Queue, Ring
<1>2. b.out_offs \in Slot /\ \A i \in Slot : b.entry[i].size \in Nat
  BY DEF Queue, Ring, aesd_circular_buffer, aesd_buffer_entry
<1>3. /\ \A i \in 0 .. N : off[i] \in Nat
      /\ off[0] = 0
      /\ \A i \in 0 .. N - 1 : off[i + 1] = off[i] + b.entry[NthSlot(b, i)].size
  BY <1>1, <1>2, OffsetsAddUp
<1>4. ASSUME NEW i \in 0 .. n - 1
      PROVE  /\ b.entry[NthSlot(b, i)].buffptr \in Seq(Byte)
             /\ b.entry[NthSlot(b, i)].size = Len(b.entry[NthSlot(b, i)].buffptr)
  <2>1. i \in 0 .. N
    BY <1>1
  <2>2. NthSlot(b, i) \in Slot
    BY <1>2, <2>1, NthSlotWraps
  <2>3. b.entry[NthSlot(b, i)].buffptr # NULL
    BY DEF Queue
  <2> QED BY <2>2, <2>3 DEF Queue, Ring, Accounted, SlotSizes, aesd_circular_buffer, aesd_buffer_entry
<1>5. seqs = [k \in 1 .. n |-> b.entry[NthSlot(b, k - 1)].buffptr]
  BY DEF Contents
<1>6. \A k \in 1 .. n : k - 1 \in 0 .. n - 1 /\ (k - 1) + 1 = k /\ k - 1 \in 0 .. N - 1
  BY <1>1
<1> HIDE DEF off, n, seqs
<1>7. seqs \in Seq(Seq(Byte)) /\ Len(seqs) = n
  <2>1. seqs \in [1 .. n -> Seq(Byte)]
    BY <1>4, <1>5, <1>6
  <2> QED BY <1>1, <2>1
<1>8. \A k \in 1 .. n : /\ seqs[k] = b.entry[NthSlot(b, k - 1)].buffptr
                        /\ Len(seqs[k]) = b.entry[NthSlot(b, k - 1)].size
  BY <1>4, <1>5, <1>6
<1>9. \A k \in 1 .. n : off[k] = off[k - 1] + Len(seqs[k])
  BY <1>3, <1>6, <1>8
<1>10. \A i \in 0 .. n : off[i] \in Nat
  BY <1>1, <1>3
<1>11. /\ FlattenSeq(seqs) \in Seq(Byte)
       /\ Len(FlattenSeq(seqs)) = off[n]
       /\ \A k \in 1 .. n : \A j \in 1 .. Len(seqs[k]) :
            FlattenSeq(seqs)[off[k - 1] + j] = seqs[k][j]
  <2>1. n \in Nat /\ n = Len(seqs) /\ seqs \in Seq(Seq(Byte)) /\ off[0] = 0
    BY <1>1, <1>3, <1>7
  <2>2. PartsBegin(off, seqs, n)
    BY <2>1, <1>9, <1>10 DEF PartsBegin
  <2> QED BY <2>1, <2>2, FlattenParts, SMTT(30)
<1>12. off[n] = b.size
  BY CountTotal DEF off, n
<1>13. ASSUME NEW i \in 0 .. n - 1, NEW j \in 1 .. b.entry[NthSlot(b, i)].size
       PROVE  FlattenSeq(seqs)[off[i] + j] = b.entry[NthSlot(b, i)].buffptr[j]
  <2>1. i + 1 \in 1 .. n /\ (i + 1) - 1 = i
    BY <1>1
  <2> QED BY <1>8, <1>11, <2>1
<1> QED BY <1>11, <1>12, <1>13 DEF off, n, seqs

\* The search finds every position of the stream and nothing behind it, in the
\* write and at the offset where the concatenation has it.
LEMMA FindFinds ==
  ASSUME NEW b, Queue(b), NEW p \in Nat, NEW hit,
         hit = aesd_circular_buffer_find_entry_offset_for_fpos(b, p)
  PROVE  /\ hit = NULL <=> p >= b.size
         /\ hit # NULL =>
              \E i \in 0 .. Count(b) - 1 :
                /\ i \in Slot /\ NthSlot(b, i) \in Slot
                /\ hit = [slot |-> NthSlot(b, i), offset |-> p - CurrentOffset(b)[i]]
                /\ CurrentOffset(b)[i] \in Nat /\ CurrentOffset(b)[i] <= p
                /\ CurrentOffset(b)[i + 1] = CurrentOffset(b)[i] + b.entry[NthSlot(b, i)].size
                /\ p < CurrentOffset(b)[i + 1] /\ CurrentOffset(b)[i + 1] <= b.size
<1> DEFINE N == MAX_WRITE_OPERATIONS
           off == CurrentOffset(b)
           n == Count(b)
           hits == {i \in Slot : /\ Reaches(b, i)
                                 /\ off[i] <= p
                                 /\ p < off[i + 1]}
<1>1. N \in Nat \ {0} /\ Slot = 0 .. N - 1 /\ n \in 0 .. N
  BY CountBounds, MaxAssumption DEF Slot, Queue, Ring
<1>2. b.out_offs \in Slot /\ \A i \in Slot : b.entry[i].size \in Nat
  BY DEF Queue, Ring, aesd_circular_buffer, aesd_buffer_entry
<1>3. /\ \A i \in 0 .. N : off[i] \in Nat
      /\ off[0] = 0
      /\ \A i \in 0 .. N - 1 : off[i + 1] = off[i] + b.entry[NthSlot(b, i)].size
  BY <1>1, <1>2, OffsetsAddUp
<1>4. \A i \in 0 .. N - 1 : NthSlot(b, i) \in Slot /\ b.entry[NthSlot(b, i)].size \in Nat
  BY <1>1, <1>2, NthSlotWraps
<1>5. off[n] = b.size
  BY CountTotal
<1>6. hit = IF hits = {} THEN NULL
            ELSE LET i == CHOOSE h \in hits : TRUE
                 IN  [slot |-> NthSlot(b, i), offset |-> p - off[i]]
  BY DEF aesd_circular_buffer_find_entry_offset_for_fpos
<1>7. \A i \in hits : i \in 0 .. n - 1
  <2> TAKE i \in hits
  <2>1. i \in Slot /\ i < Count(b)
    BY ReachesWindow
  <2> QED BY <1>1, <2>1
<1> HIDE DEF off, n
<1>8. \A i, j \in 0 .. n : i <= j => off[i] <= off[j]
  <2>1. n \in Nat /\ \A i \in 0 .. n : off[i] \in Nat
    BY <1>1, <1>3
  <2>2. ASSUME NEW i \in 0 .. n - 1 PROVE off[i] <= off[i + 1]
    <3>1. i \in 0 .. N - 1 /\ i \in 0 .. N
      BY <1>1
    <3>2. off[i + 1] = off[i] + b.entry[NthSlot(b, i)].size
      BY <1>3, <3>1
    <3>3. b.entry[NthSlot(b, i)].size \in Nat /\ off[i] \in Nat
      BY <1>3, <1>4, <3>1
    <3> QED BY <3>2, <3>3
  <2> QED BY <2>1, <2>2, SumsGrow
<1>9. ASSUME NEW i \in hits
      PROVE  /\ i \in 0 .. n - 1 /\ i \in Slot /\ NthSlot(b, i) \in Slot
             /\ off[i] \in Nat /\ off[i] <= p
             /\ off[i + 1] = off[i] + b.entry[NthSlot(b, i)].size
             /\ p < off[i + 1] /\ off[i + 1] <= b.size
  <2>1. i \in 0 .. n - 1 /\ i \in Slot /\ i \in 0 .. N - 1 /\ i \in 0 .. N /\ i + 1 \in 0 .. n
        /\ n \in 0 .. n /\ i + 1 <= n
    BY <1>1, <1>7
  <2>2. off[i + 1] <= off[n]
    BY <1>8, <2>1
  <2> QED BY <1>3, <1>4, <1>5, <2>1, <2>2
<1>10. ASSUME p < b.size PROVE hits # {}
  <2> DEFINE T == {k \in Nat : k \in 0 .. n /\ p < off[k]}
  <2>1. n \in T
    BY <1>1, <1>5, <1>10
  <2>2. PICK k \in T : \A y \in T : k <= y
    <3>1. T \in SUBSET Nat /\ T # {}
      BY <2>1
    <3> HIDE DEF T
    <3> QED BY <3>1, LeastNat
  <2>3. k # 0
    BY <1>3, <2>2
  <2>4. k - 1 \in 0 .. n - 1 /\ k - 1 \in 0 .. n /\ k - 1 \in Nat /\ k - 1 \in 0 .. N
        /\ ~ (k <= k - 1) /\ (k - 1) + 1 = k /\ k - 1 \in Slot
    BY <1>1, <2>2, <2>3
  <2>5. ~ (p < off[k - 1]) /\ off[k - 1] \in Nat
    BY <1>3, <2>2, <2>4
  <2>6. off[k - 1] <= p /\ p < off[(k - 1) + 1]
    BY <2>2, <2>4, <2>5
  <2>7. Reaches(b, k - 1)
    <3>1. k - 1 < Count(b)
      BY <1>1, <2>4 DEF n
    <3> QED BY <2>4, <3>1, ReachesWindow
  <2>8. k - 1 \in hits
    BY <2>4, <2>6, <2>7
  <2> QED BY <2>8
<1>11. b.size \in Nat
  BY <1>1, <1>3, <1>5
<1>12. CASE hits = {}
  <2>1. hit = NULL
    BY <1>6, <1>12
  <2>2. p >= b.size
    BY <1>10, <1>11, <1>12
  <2> QED BY <2>1, <2>2
<1>13. CASE hits # {}
  <2> HIDE DEF hits
  <2>1. PICK i \in hits : hit = [slot |-> NthSlot(b, i), offset |-> p - off[i]]
    BY <1>6, <1>13
  <2>2. /\ i \in 0 .. n - 1 /\ i \in Slot /\ NthSlot(b, i) \in Slot
        /\ off[i] \in Nat /\ off[i] <= p
        /\ off[i + 1] = off[i] + b.entry[NthSlot(b, i)].size
        /\ p < off[i + 1] /\ off[i + 1] <= b.size
    BY <1>9
  <2>3. off[i + 1] \in Nat
    <3>1. i + 1 \in 0 .. N
      BY <1>1, <2>2
    <3> QED BY <1>3, <3>1
  <2>4. ~ (p >= b.size)
    BY <1>11, <2>2, <2>3
  <2>5. hit # NULL
    <3>1. p - off[i] \in Nat
      BY <2>2
    <3> QED BY <2>1, <2>2, <3>1, FoundAssumption
  <2> QED BY <2>1, <2>2, <2>4, <2>5 DEF off, n
<1> QED BY <1>12, <1>13
=============================================================================
