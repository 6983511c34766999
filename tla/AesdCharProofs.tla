--------------------------- MODULE AesdCharProofs ---------------------------
(***************************************************************************)
(* Proofs about the driver, for every capacity, every set of files and     *)
(* arguments and any length of the unfinished line.                        *)
(***************************************************************************)
EXTENDS AesdChar, CircularBufferLemmas, FiniteSetTheorems

Errors == {"OK", "EINVAL", "EFAULT", "ENOMEM", "EBUSY", "ENODEV"}

\* The temporary buffer knows the length of what it holds.
Temporary(t) ==
  t \in aesd_temperary_buffer /\ (t.buffptr # NULL => t.size = Len(t.buffptr))

\* What a temporary buffer holds.
Pieces(t) == IF t.buffptr = NULL THEN <<>> ELSE t.buffptr

Files ==
  /\ opened \subseteq File
  /\ opened # {} => loaded
  /\ f_pos \in [File -> Int]
  /\ last.err \in Errors

\* The heap holds what the device leads to, and perhaps what failed loads left.
Inv ==
  /\ loaded \in BOOLEAN
  /\ Ring(bufferCircular)
  /\ Temporary(bufferTemperary)
  /\ heap \in Int /\ heap >= Reachable
  /\ regions \in Nat /\ (loaded => regions >= 1)
  /\ Files

Balanced == loaded \/ loaded' => heap' - Reachable' = heap - Reachable

-----------------------------------------------------------------------------
(* The temporary buffer.                                                   *)

\* aesd_temperary_buffer_add joins the bytes to what is there.
LEMMA TemporaryAdd ==
  ASSUME NEW t, Temporary(t), NEW data \in Seq(Byte), NEW u,
         u = aesd_temperary_buffer_add(t, data)
  PROVE  /\ Temporary(u)
         /\ u.buffptr \in Seq(Byte) /\ u.buffptr # NULL
         /\ u.buffptr = Pieces(t) \o data
         /\ u.size = Len(u.buffptr)
         /\ SubSeq(u.buffptr, 1, u.size) = u.buffptr
<1>1. Len(data) \in Nat /\ t.buffptr \in Seq(Byte) \cup {NULL} /\ t.size \in Nat
  BY DEF Temporary, aesd_temperary_buffer
<1>2. CASE t.buffptr = NULL
  <2>1. u = [buffptr |-> data, size |-> Len(data)]
    BY <1>2 DEF aesd_temperary_buffer_add
  <2>2. <<>> \o data = data
    OBVIOUS
  <2>3. u.buffptr = data /\ u.size = Len(data) /\ data # NULL
    BY <2>1, NullAssumption
  <2>4. SubSeq(data, 1, Len(data)) = data
    OBVIOUS
  <2> QED BY <1>1, <1>2, <2>1, <2>2, <2>3, <2>4 DEF Temporary, aesd_temperary_buffer, Pieces
<1>3. CASE t.buffptr # NULL
  <2> DEFINE s == t.buffptr
             j == s \o data
  <2>1. u = [buffptr |-> j, size |-> t.size + Len(data)] /\ t.size = Len(s) /\ s \in Seq(Byte)
    BY <1>1, <1>3 DEF aesd_temperary_buffer_add, Temporary
  <2>2. j \in Seq(Byte) /\ Len(j) = Len(s) + Len(data)
    BY <2>1, ConcatProperties
  <2> HIDE DEF j
  <2>3. u.buffptr = j /\ u.size = Len(j) /\ j # NULL /\ Len(j) \in Nat
    BY <2>1, <2>2, NullAssumption
  <2>4. SubSeq(j, 1, Len(j)) = j
    BY <2>2
  <2>5. u \in aesd_temperary_buffer
    BY <2>1, <2>2, <2>3 DEF aesd_temperary_buffer
  <2>6. j = Pieces(t) \o data
    BY <1>3 DEF j, Pieces
  <2> QED BY <2>2, <2>3, <2>4, <2>5, <2>6 DEF Temporary
<1> QED BY <1>2, <1>3

\* aesd_temperary_buffer_init leaves an empty buffer without a block.
LEMMA TemporaryInit ==
  /\ Temporary(aesd_temperary_buffer_init)
  /\ Pieces(aesd_temperary_buffer_init) = <<>>
  /\ Blocks(aesd_temperary_buffer_init.buffptr) = 0
BY DEF Temporary, Pieces, Blocks, aesd_temperary_buffer, aesd_temperary_buffer_init

-----------------------------------------------------------------------------
(* The blocks of the ring.                                                 *)

\* The ring has finitely many slots to own a block.
LEMMA LiveFinite ==
  ASSUME NEW b
  PROVE  IsFiniteSet(LiveSlots(b)) /\ Cardinality(LiveSlots(b)) \in Nat
<1>1. IsFiniteSet(Slot)
  BY MaxAssumption, FS_Interval DEF Slot
<1>2. LiveSlots(b) \in SUBSET Slot
  BY DEF LiveSlots
<1>3. IsFiniteSet(LiveSlots(b))
  BY <1>1, <1>2, FS_Subset
<1> QED BY <1>3, FS_CardinalityType

\* AddEntryBlocks is what add_entry does to the number of live slots.
LEMMA LiveAfterAdd ==
  ASSUME NEW b, Ring(b), NEW e \in aesd_buffer_entry, e.buffptr # NULL,
         NEW malloc_ok \in BOOLEAN, NEW c,
         c = aesd_circular_buffer_add_entry(b, e, malloc_ok)
  PROVE  Cardinality(LiveSlots(c)) = Cardinality(LiveSlots(b)) + AddEntryBlocks(b, malloc_ok)
<1> DEFINE r == Room(b)
           freed == IF b.full THEN Blocks(b.entry[b.out_offs].buffptr) ELSE 0
<1>1. /\ b \in aesd_circular_buffer /\ b.out_offs \in Slot /\ b.in_offs \in Slot
      /\ b.full \in BOOLEAN /\ b.entry \in [Slot -> aesd_buffer_entry]
  BY DEF Ring, aesd_circular_buffer
<1>2. Ring(r) /\ r.entry[r.in_offs] = NoEntry /\ r.in_offs \in Slot
      /\ r.entry \in [Slot -> aesd_buffer_entry]
  BY <1>1, RoomIsFree DEF Ring, aesd_circular_buffer
<1>3. freed \in {0, 1} /\ Cardinality(LiveSlots(b)) \in Nat /\ Cardinality(LiveSlots(r)) \in Nat
      /\ IsFiniteSet(LiveSlots(b)) /\ IsFiniteSet(LiveSlots(r))
  BY LiveFinite DEF Blocks
<1>4. Cardinality(LiveSlots(r)) = Cardinality(LiveSlots(b)) - freed
  <2>1. CASE b.full
    <3>1. r.entry = [b.entry EXCEPT ![b.out_offs] = NoEntry]
      BY <1>1, <2>1 DEF Room, Evict, aesd_circular_buffer
    <3>2. LiveSlots(r) = LiveSlots(b) \ {b.out_offs}
      BY <1>1, <3>1 DEF LiveSlots, NoEntry
    <3>3. Cardinality(LiveSlots(r)) =
            IF b.out_offs \in LiveSlots(b) THEN Cardinality(LiveSlots(b)) - 1
            ELSE Cardinality(LiveSlots(b))
      BY <1>3, <3>2, FS_RemoveElement
    <3>4. b.out_offs \in LiveSlots(b) <=> b.entry[b.out_offs].buffptr # NULL
      BY <1>1 DEF LiveSlots
    <3>5. freed = IF b.out_offs \in LiveSlots(b) THEN 1 ELSE 0
      BY <2>1, <3>4 DEF Blocks
    <3> QED BY <1>3, <3>3, <3>5
  <2>2. CASE ~ b.full
    <3>1. r = b /\ freed = 0
      BY <2>2 DEF Room
    <3> QED BY <1>3, <3>1
  <2> QED BY <1>1, <2>1, <2>2
<1> HIDE DEF r
<1>5. CASE malloc_ok
  <2>1. c = Store(r, e)
    BY <1>5 DEF aesd_circular_buffer_add_entry, Room, r
  <2>2. c.entry = [r.entry EXCEPT ![r.in_offs] = e]
    BY <1>2, <2>1 DEF Store, Ring, aesd_circular_buffer
  <2>3. LiveSlots(c) = LiveSlots(r) \cup {r.in_offs}
    BY <1>2, <2>2 DEF LiveSlots
  <2>4. r.in_offs \notin LiveSlots(r)
    BY <1>2 DEF LiveSlots, NoEntry
  <2>5. Cardinality(LiveSlots(c)) = Cardinality(LiveSlots(r)) + 1
    BY <1>3, <2>3, <2>4, FS_AddElement
  <2>6. AddEntryBlocks(b, malloc_ok) = 1 - freed
    BY <1>5 DEF AddEntryBlocks
  <2> HIDE DEF freed
  <2> QED BY <1>3, <1>4, <2>5, <2>6
<1>6. CASE ~ malloc_ok
  <2>1. c = StoreFailed(r)
    BY <1>6 DEF aesd_circular_buffer_add_entry, Room, r
  <2>2. LiveSlots(c) = LiveSlots(r)
    <3>1. \A i \in Slot : c.entry[i].buffptr = r.entry[i].buffptr
      BY <1>2, <2>1 DEF StoreFailed, Ring, aesd_circular_buffer, aesd_buffer_entry, NoEntry
    <3> QED BY <3>1 DEF LiveSlots
  <2>3. AddEntryBlocks(b, malloc_ok) = 0 - freed
    BY <1>6 DEF AddEntryBlocks
  <2> HIDE DEF freed
  <2> QED BY <1>3, <1>4, <2>2, <2>3
<1> QED BY <1>5, <1>6

-----------------------------------------------------------------------------
(* The calls.                                                              *)

\* A read copies bytes, some of those from the position to the end of the
\* entry that holds it.
LEMMA ReadableBytes ==
  ASSUME Ring(bufferCircular), NEW f, f_pos[f] \in Nat, NEW count \in Nat
  PROVE  Readable(f, count) \in Seq(Byte)
<1> DEFINE found == aesd_circular_buffer_find_entry_offset_for_fpos(bufferCircular, f_pos[f])
           entry == bufferCircular.entry[found.slot]
           available == entry.size - found.offset
           to_copy == IF count < available THEN count ELSE available
<1>1. CASE found = NULL
  BY <1>1 DEF Readable
<1>2. CASE found # NULL
  <2>1. /\ bufferCircular.out_offs \in Slot
        /\ bufferCircular.entry \in [Slot -> aesd_buffer_entry]
        /\ \A i \in Slot : bufferCircular.entry[i].size \in Nat
    BY DEF Ring, aesd_circular_buffer, aesd_buffer_entry
  <2> HIDE DEF found
  <2>2. /\ found \in [slot : Slot, offset : Nat]
        /\ bufferCircular.entry[found.slot].buffptr # NULL
        /\ found.offset < bufferCircular.entry[found.slot].size
    BY <1>2, <2>1, FindHits DEF found
  <2>3. found.slot \in Slot /\ found.offset \in Nat
    BY <2>2
  <2>4. entry.buffptr \in Seq(Byte) /\ entry.size = Len(entry.buffptr)
    BY <2>1, <2>2, <2>3 DEF Ring, Accounted, SlotSizes, aesd_buffer_entry
  <2>5. Readable(f, count) = SubSeq(entry.buffptr, found.offset + 1, found.offset + to_copy)
    BY <1>2 DEF Readable, found
  <2> HIDE DEF entry
  <2>6. entry.size \in Nat /\ found.offset < entry.size
    BY <2>1, <2>2, <2>3 DEF entry
  <2>7. to_copy \in Int /\ found.offset + to_copy <= entry.size
    BY <2>3, <2>6
  <2> HIDE DEF to_copy
  <2>8. /\ found.offset + 1 \in 1 .. Len(entry.buffptr) + 1
        /\ found.offset + to_copy \in Int
        /\ found.offset + to_copy <= Len(entry.buffptr)
    BY <2>3, <2>4, <2>6, <2>7
  <2>9. ASSUME NEW s \in Seq(Byte), NEW m \in 1 .. Len(s) + 1, NEW n \in Int, n <= Len(s)
        PROVE  SubSeq(s, m, n) \in Seq(Byte)
    <3>1. CASE n < m
      BY <2>9, <3>1
    <3>2. CASE n >= m
      BY <2>9, <3>2
    <3> QED BY <2>9, <3>1, <3>2
  <2> QED BY <2>4, <2>5, <2>8, <2>9
<1> QED BY <1>1, <1>2

\* A call that leaves the device alone: only the file and its position change.
QuietStep == UNCHANGED device /\ Files'

\* Such a call cannot disturb the accounting.
LEMMA QuietKeeps ==
  ASSUME Inv, QuietStep
  PROVE  Inv' /\ Balanced
<1>1. UNCHANGED <<loaded, bufferCircular, bufferTemperary, heap, regions>> /\ Files'
  BY DEF QuietStep, device
<1>2. Reachable' = Reachable
  BY <1>1 DEF Reachable, LiveSlots
<1>3. Inv'
  BY <1>1, <1>2 DEF Inv
<1> QED BY <1>1, <1>2, <1>3 DEF Balanced

\* The file operations other than write, and every refused call, are quiet.
LEMMA FilesStep ==
  ASSUME Inv, NEW f \in File,
         \/ aesd_open(f)
         \/ aesd_release(f)
         \/ \E call, err, arg : err \in Errors /\ Fails(call, f, err, arg)
         \/ \E call, pos, val, arg : pos \in Int /\ Moved(call, f, pos, val, arg)
         \/ \E count \in Counts : aesd_read(f, count)
  PROVE  QuietStep
<1>1. opened \subseteq File /\ (opened # {} => loaded) /\ f_pos \in [File -> Int]
  BY DEF Inv, Files
<1>2. CASE aesd_open(f)
  <2>1. last'.err = "OK"
    BY <1>2 DEF aesd_open, Result
  <2> QED BY <1>1, <1>2, <2>1 DEF aesd_open, QuietStep, Files, Errors, device
<1>3. CASE aesd_release(f)
  <2>1. last'.err = "OK"
    BY <1>3 DEF aesd_release, Result
  <2> QED BY <1>1, <1>3, <2>1 DEF aesd_release, QuietStep, Files, Errors, device
<1>4. ASSUME NEW call, NEW err, NEW arg, err \in Errors, Fails(call, f, err, arg)
      PROVE  QuietStep
  <2>1. last'.err = err
    BY <1>4 DEF Fails, Result
  <2> QED BY <1>1, <1>4, <2>1 DEF Fails, QuietStep, Files, device
<1>5. ASSUME NEW call, NEW pos, NEW val, NEW arg, pos \in Int, Moved(call, f, pos, val, arg)
      PROVE  QuietStep
  <2>1. last'.err = "OK"
    BY <1>5 DEF Moved, Result
  <2> QED BY <1>1, <1>5, <2>1 DEF Moved, QuietStep, Files, Errors, device
<1>6. ASSUME NEW count \in Counts, aesd_read(f, count)
      PROVE  QuietStep
  <2>1. f_pos[f] \in Nat /\ count \in Nat
    BY <1>1, <1>6, CountsAssumption DEF aesd_read
  <2>2. Readable(f, count) \in Seq(Byte)
    BY <2>1, ReadableBytes DEF Inv
  <2>3. Len(Readable(f, count)) \in Nat
    BY <2>2
  <2>4. /\ last'.err = "OK"
        /\ f_pos' = [f_pos EXCEPT ![f] = @ + Len(Readable(f, count))]
        /\ UNCHANGED <<device, opened>>
    BY <1>6 DEF aesd_read, Result
  <2>5. f_pos' \in [File -> Int]
    BY <1>1, <2>1, <2>3, <2>4
  <2> QED BY <1>1, <2>4, <2>5 DEF QuietStep, Files, Errors, device
<1> QED BY <1>2, <1>3, <1>4, <1>5, <1>6

\* Loading, failing to load, and unloading account for every block.
LEMMA LoadKeeps ==
  ASSUME Inv,
         \/ \E err, blocks, kept : /\ err \in Errors /\ blocks \in Nat /\ kept \in Nat
                                   /\ InsmodFails(err, blocks, kept)
         \/ aesd_init_module
         \/ aesd_cleanup_module
  PROVE  Inv' /\ Balanced
<1>1. /\ heap \in Int /\ heap >= Reachable /\ regions \in Nat /\ Files
      /\ Ring(bufferCircular) /\ Temporary(bufferTemperary)
  BY DEF Inv
<1>2. ASSUME NEW err, NEW blocks, NEW kept, err \in Errors, blocks \in Nat, kept \in Nat,
             InsmodFails(err, blocks, kept)
      PROVE  Inv' /\ Balanced
  <2>1. /\ ~ loaded /\ ~ loaded' /\ Reachable = 0 /\ Reachable' = 0
        /\ loaded' = loaded /\ loaded' \in BOOLEAN
        /\ heap' = heap + blocks /\ regions' = regions + kept /\ last'.err = err
        /\ UNCHANGED <<loaded, bufferCircular, bufferTemperary, opened, f_pos>>
    BY <1>2 DEF InsmodFails, Result, Reachable, Inv
  <2>2. heap' \in Int /\ heap' >= Reachable' /\ regions' \in Nat
    BY <1>1, <1>2, <2>1
  <2>3. Files'
    BY <1>1, <1>2, <2>1 DEF Files
  <2>4. Ring(bufferCircular)' /\ Temporary(bufferTemperary)'
    BY <1>1, <2>1
  <2> QED BY <2>1, <2>2, <2>3, <2>4 DEF Inv, Balanced
<1>3. CASE aesd_init_module
  <2>1. /\ ~ loaded /\ loaded' = TRUE /\ Reachable = 0
        /\ heap' = heap + 2 /\ regions' = regions + 1 /\ last'.err = "OK"
        /\ bufferCircular' = aesd_circular_buffer_init
        /\ bufferTemperary' = aesd_temperary_buffer_init
        /\ UNCHANGED <<opened, f_pos>>
    BY <1>3 DEF aesd_init_module, Result, Reachable
  <2>2. LiveSlots(aesd_circular_buffer_init) = {}
    BY DEF LiveSlots, aesd_circular_buffer_init, NoEntry
  <2>3. Cardinality(LiveSlots(aesd_circular_buffer_init)) = 0
    BY <2>2, FS_EmptySet
  <2>4. Reachable' = 2 + Cardinality(LiveSlots(bufferCircular')) + Blocks(bufferTemperary'.buffptr)
    BY <2>1 DEF Reachable, LiveSlots, Blocks
  <2>5. Reachable' = 2
    BY <2>1, <2>3, <2>4, TemporaryInit
  <2>6. heap' \in Int /\ heap' >= Reachable' /\ regions' \in Nat /\ regions' >= 1
    BY <1>1, <2>1, <2>5
  <2>7. Files'
    BY <1>1, <2>1 DEF Files, Errors
  <2>8. Ring(bufferCircular)' /\ Temporary(bufferTemperary)'
    BY <2>1, RingInit, TemporaryInit
  <2>9. heap' - Reachable' = heap - Reachable
    BY <1>1, <2>1, <2>5
  <2> QED BY <2>1, <2>6, <2>7, <2>8, <2>9 DEF Inv, Balanced
<1>4. CASE aesd_cleanup_module
  <2> DEFINE live == Cardinality(LiveSlots(bufferCircular))
             own == Blocks(bufferTemperary.buffptr)
  <2>1. /\ loaded /\ loaded' = FALSE /\ opened = {} /\ Reachable = 2 + live + own
        /\ heap' = heap - live - 1 - own - 1
        /\ regions' = regions - 1 /\ regions >= 1 /\ last'.err = "OK"
        /\ bufferTemperary' = aesd_temperary_buffer_init
        /\ UNCHANGED <<bufferCircular, opened, f_pos>>
        /\ Reachable' = 0
    BY <1>4 DEF aesd_cleanup_module, Result, Reachable, Inv
  <2>2. live \in Nat /\ own \in Nat
    BY LiveFinite DEF Blocks
  <2> HIDE DEF live, own
  <2>3. /\ heap' \in Int /\ heap' >= Reachable' /\ regions' \in Nat
        /\ heap' - Reachable' = heap - Reachable
    BY <1>1, <2>1, <2>2
  <2>4. Files'
    BY <1>1, <2>1 DEF Files, Errors
  <2>5. Ring(bufferCircular)' /\ Temporary(bufferTemperary)'
    BY <1>1, <2>1, TemporaryInit
  <2> QED BY <2>1, <2>3, <2>4, <2>5 DEF Inv, Balanced
<1> QED BY <1>2, <1>3, <1>4

\* A write that changes the ring as add_entry does, or not at all, and leaves
\* a temporary buffer, keeps the heap in step with the device.
Adds(e, ok) ==
  /\ e \in aesd_buffer_entry /\ e.buffptr # NULL /\ e.size = Len(e.buffptr)
  /\ bufferCircular' = aesd_circular_buffer_add_entry(bufferCircular, e, ok)

\* aesd_write's last part keeps the invariant and the balance of blocks, whether
\* the line reached the ring, was refused by it or waits for its newline.
LEMMA WriteKeeps ==
  ASSUME Inv, NEW f, NEW buf, Written(f, buf), Temporary(bufferTemperary'), NEW ringBlocks,
         \/ bufferCircular' = bufferCircular /\ ringBlocks = 0
         \/ \E ok \in BOOLEAN : \E e : Adds(e, ok) /\ ringBlocks = AddEntryBlocks(bufferCircular, ok),
         heap' = heap + ringBlocks + Blocks(bufferTemperary'.buffptr)
                      - Blocks(bufferTemperary.buffptr)
  PROVE  Inv' /\ Balanced
<1> DEFINE live == Cardinality(LiveSlots(bufferCircular))
           liveAfter == Cardinality(LiveSlots(bufferCircular'))
           own == Blocks(bufferTemperary.buffptr)
           ownAfter == Blocks(bufferTemperary'.buffptr)
<1>1. /\ f \in opened /\ loaded /\ loaded' = loaded /\ regions' = regions
      /\ UNCHANGED <<opened, f_pos>> /\ last'.err = "OK" /\ loaded \in BOOLEAN
      /\ heap \in Int /\ heap >= Reachable /\ regions \in Nat /\ regions >= 1
      /\ Files /\ Ring(bufferCircular)
  BY DEF Written, Result, Inv, Files
<1>2. live \in Nat /\ liveAfter \in Nat /\ own \in Nat /\ ownAfter \in Nat
  BY LiveFinite DEF Blocks
<1>3. Ring(bufferCircular') /\ liveAfter = live + ringBlocks
  <2>1. CASE bufferCircular' = bufferCircular /\ ringBlocks = 0
    BY <1>1, <1>2, <2>1
  <2>2. ASSUME NEW ok \in BOOLEAN, NEW e, Adds(e, ok),
               ringBlocks = AddEntryBlocks(bufferCircular, ok)
        PROVE  Ring(bufferCircular') /\ liveAfter = live + ringBlocks
    <3>1. /\ e \in aesd_buffer_entry /\ e.buffptr # NULL /\ e.size = Len(e.buffptr)
          /\ bufferCircular' = aesd_circular_buffer_add_entry(bufferCircular, e, ok)
      BY <2>2 DEF Adds
    <3>2. Ring(bufferCircular')
      BY <1>1, <3>1, RingAdd
    <3>3. liveAfter = live + AddEntryBlocks(bufferCircular, ok)
      BY <1>1, <3>1, LiveAfterAdd
    <3> QED BY <2>2, <3>2, <3>3
  <2> QED BY <2>1, <2>2
<1>4. ringBlocks \in Int
  BY DEF AddEntryBlocks, Blocks
<1>5. Reachable = 2 + live + own /\ Reachable' = 2 + liveAfter + ownAfter
  BY <1>1 DEF Reachable, LiveSlots, Blocks
<1>6. Files'
  BY <1>1 DEF Files, Errors
<1>7. heap' = heap + ringBlocks + ownAfter - own
  OBVIOUS
<1> HIDE DEF live, liveAfter, own, ownAfter
<1>8. /\ heap' \in Int /\ heap' >= Reachable' /\ heap' - Reachable' = heap - Reachable
  BY <1>1, <1>2, <1>3, <1>4, <1>5, <1>7
<1> QED BY <1>1, <1>3, <1>6, <1>8 DEF Inv, Balanced

\* A write operation as the ring receives it.
Operation(bytes) == [buffptr |-> bytes, size |-> Len(bytes)]

\* Both ways of ending a write operation hand the ring all the pieces and
\* leave none behind.
LEMMA LineWritten ==
  ASSUME Inv, NEW f, NEW buf \in Data, NEW ok, WriteLine(f, buf, ok) \/ WriteRest(f, buf, ok)
  PROVE  /\ HasNewline(buf) /\ Written(f, buf)
         /\ Adds(Operation(Pieces(bufferTemperary) \o buf), ok)
         /\ Temporary(bufferTemperary') /\ Pieces(bufferTemperary') = <<>>
         /\ heap' = heap + AddEntryBlocks(bufferCircular, ok)
                         + Blocks(bufferTemperary'.buffptr) - Blocks(bufferTemperary.buffptr)
<1> DEFINE t == bufferTemperary
           joined == aesd_temperary_buffer_add(t, buf)
           own == Blocks(t.buffptr)
           added == AddEntryBlocks(bufferCircular, ok)
<1>1. buf \in Seq(Byte) /\ Temporary(t) /\ heap \in Int /\ own \in Int /\ added \in Int
  BY DataAssumption DEF Inv, Blocks, AddEntryBlocks
<1>2. ASSUME NEW s \in Seq(Byte), bufferCircular' = aesd_circular_buffer_add_entry(
               bufferCircular, [buffptr |-> s, size |-> Len(s)], ok)
      PROVE  Adds(Operation(s), ok)
  <2>1. Len(s) \in Nat /\ s # NULL
    BY NullAssumption
  <2> QED BY <1>2, <2>1 DEF Adds, Operation, aesd_buffer_entry
<1>3. CASE WriteLine(f, buf, ok)
  <2>1. /\ HasNewline(buf) /\ Written(f, buf) /\ t' = t /\ heap' = heap + added
        /\ t.buffptr = NULL \/ t.size = 0
        /\ bufferCircular' = aesd_circular_buffer_add_entry(
             bufferCircular, [buffptr |-> buf, size |-> Len(buf)], ok)
    BY <1>3 DEF WriteLine, aesd_temperary_buffer_is_empty
  <2>2. Pieces(t) = <<>>
    <3>1. CASE t.buffptr = NULL
      BY <3>1 DEF Pieces
    <3>2. CASE t.buffptr # NULL
      <4>1. t.buffptr \in Seq(Byte) /\ Len(t.buffptr) = 0
        BY <1>1, <2>1, <3>2 DEF Temporary, aesd_temperary_buffer
      <4>2. t.buffptr = <<>>
        BY <4>1, EmptySeq
      <4> QED BY <3>2, <4>2 DEF Pieces
    <3> QED BY <3>1, <3>2
  <2>3. Pieces(t) \o buf = buf
    BY <1>1, <2>2
  <2>4. heap' = heap + added + own - own
    BY <1>1, <2>1
  <2>5. Blocks(t'.buffptr) = own
    BY <2>1
  <2> QED BY <1>1, <1>2, <2>1, <2>2, <2>3, <2>4, <2>5
<1>4. CASE WriteRest(f, buf, ok)
  <2>0. joined = aesd_temperary_buffer_add(t, buf)
    OBVIOUS
  <2> HIDE DEF joined
  <2>1. /\ HasNewline(buf) /\ Written(f, buf)
        /\ t' = aesd_temperary_buffer_delete(joined)
        /\ heap' = heap + 1 - own + added - Blocks(joined.buffptr)
        /\ bufferCircular' = aesd_circular_buffer_add_entry(bufferCircular,
             [buffptr |-> SubSeq(joined.buffptr, 1, joined.size), size |-> joined.size], ok)
    BY <1>4 DEF WriteRest, joined
  <2>2. /\ joined.buffptr \in Seq(Byte) /\ joined.buffptr # NULL
        /\ joined.buffptr = Pieces(t) \o buf /\ joined.size = Len(joined.buffptr)
        /\ SubSeq(joined.buffptr, 1, joined.size) = joined.buffptr
    BY <1>1, <2>0, TemporaryAdd
  <2>3. t' = aesd_temperary_buffer_init /\ Blocks(joined.buffptr) = 1
    BY <2>1, <2>2 DEF aesd_temperary_buffer_delete, Blocks
  <2>4. heap' = heap + added + 0 - own
    BY <1>1, <2>1, <2>3
  <2>5. /\ Temporary(t') /\ Pieces(t') = <<>> /\ Blocks(t'.buffptr) = 0
    BY <2>3, TemporaryInit
  <2>6. Adds(Operation(joined.buffptr), ok)
    BY <1>2, <2>1, <2>2
  <2> QED BY <2>1, <2>2, <2>4, <2>5, <2>6
<1> QED BY <1>3, <1>4

\* A write without a newline only lengthens the unfinished line.
LEMMA PartialWritten ==
  ASSUME Inv, NEW f, NEW buf \in Data, WritePartial(f, buf)
  PROVE  /\ ~ HasNewline(buf) /\ Written(f, buf)
         /\ bufferCircular' = bufferCircular
         /\ Temporary(bufferTemperary')
         /\ Pieces(bufferTemperary') = Pieces(bufferTemperary) \o buf
         /\ heap' = heap + 0 + Blocks(bufferTemperary'.buffptr) - Blocks(bufferTemperary.buffptr)
<1>1. buf \in Seq(Byte) /\ Temporary(bufferTemperary) /\ heap \in Int
  BY DataAssumption DEF Inv
<1>2. /\ ~ HasNewline(buf) /\ Written(f, buf) /\ bufferCircular' = bufferCircular
      /\ bufferTemperary' = aesd_temperary_buffer_add(bufferTemperary, buf)
      /\ heap' = heap + 1 - Blocks(bufferTemperary.buffptr)
  BY DEF WritePartial
<1>3. /\ Temporary(bufferTemperary') /\ bufferTemperary'.buffptr # NULL
      /\ bufferTemperary'.buffptr = Pieces(bufferTemperary) \o buf
  BY <1>1, <1>2, TemporaryAdd
<1>4. Blocks(bufferTemperary'.buffptr) = 1 /\ Blocks(bufferTemperary.buffptr) \in Int
  BY <1>3 DEF Blocks
<1>5. heap' = heap + 0 + Blocks(bufferTemperary'.buffptr) - Blocks(bufferTemperary.buffptr)
  BY <1>1, <1>2, <1>4
<1>6. Pieces(bufferTemperary') = bufferTemperary'.buffptr
  BY <1>3 DEF Pieces
<1> QED BY <1>2, <1>3, <1>5, <1>6

\* The offset the ioctl's search returns is a position.
LEMMA IoctlPosition ==
  ASSUME Ring(bufferCircular), NEW cmd \in Nat, NEW offset \in Nat
  PROVE  aesd_circular_buffer_find_entry_for_ioctl(bufferCircular, cmd, offset) \in Nat
<1>1. bufferCircular.out_offs \in Slot /\ \A i \in Slot : bufferCircular.entry[i].size \in Nat
  BY DEF Ring, aesd_circular_buffer, aesd_buffer_entry
<1>2. CurrentOffset(bufferCircular) \in [0 .. MAX_WRITE_OPERATIONS -> Nat]
  BY <1>1, OffsetsAddUp
<1>3. cmd \in Slot => CurrentOffset(bufferCircular)[cmd] \in Nat
  BY <1>2, MaxAssumption DEF Slot
<1> QED BY <1>3 DEF aesd_circular_buffer_find_entry_for_ioctl

\* Every call keeps the invariant and the balance of the heap.
LEMMA DriverNext ==
  ASSUME Inv, [Next]_vars
  PROVE  Inv' /\ Balanced
<1> USE DEF Errors
<1>1. CASE UNCHANGED vars
  <2>1. UNCHANGED device /\ Files'
    BY <1>1 DEF vars, device, Inv, Files
  <2> QED BY <2>1, QuietKeeps DEF QuietStep
<1>2. CASE NoRegion
  BY <1>2, LoadKeeps DEF NoRegion
<1>3. CASE NoDeviceMemory
  <2>1. PICK blocks \in 0 .. 1 : InsmodFails("ENOMEM", blocks, 1)
    BY <1>3 DEF NoDeviceMemory
  <2> QED BY <2>1, LoadKeeps
<1>4. CASE NoCdev
  BY <1>4, LoadKeeps DEF NoCdev
<1>5. CASE aesd_init_module \/ aesd_cleanup_module
  BY <1>5, LoadKeeps
<1>6. ASSUME NEW f \in File,
             \/ aesd_open(f) \/ aesd_release(f)
             \/ \E call \in {"read", "write"} : rw_verify_area(call, f)
             \/ \E count \in Counts : aesd_read(f, count) \/ ReadFaults(f, count)
             \/ SeekOther(f) \/ IocRejected(f)
             \/ \E buf \in Data : WriteNoKbuf(f, buf) \/ WriteFaults(f, buf) \/ WriteNoTemperary(f, buf)
      PROVE  Inv' /\ Balanced
  <2>1. f_pos[f] \in Int
    BY DEF Inv, Files
  <2>2. CASE aesd_open(f) \/ aesd_release(f) \/ \E count \in Counts : aesd_read(f, count)
    <3>1. QuietStep
      BY <2>2, FilesStep
    <3> QED BY <3>1, QuietKeeps
  <2>3. ASSUME NEW call, NEW err \in Errors, NEW arg, Fails(call, f, err, arg)
        PROVE  Inv' /\ Balanced
    <3>1. QuietStep
      BY <2>3, FilesStep
    <3> QED BY <3>1, QuietKeeps
  <2>4. CASE SeekOther(f)
    <3>1. QuietStep
      BY <2>1, <2>4, FilesStep DEF SeekOther
    <3> QED BY <3>1, QuietKeeps
  <2>5. CASE \E call \in {"read", "write"} : rw_verify_area(call, f)
    BY <2>3, <2>5 DEF rw_verify_area
  <2>6. CASE \E count \in Counts : ReadFaults(f, count)
    BY <2>3, <2>6 DEF ReadFaults
  <2>7. CASE IocRejected(f)
    BY <2>3, <2>7 DEF IocRejected
  <2>8. CASE \E buf \in Data : WriteNoKbuf(f, buf) \/ WriteFaults(f, buf) \/ WriteNoTemperary(f, buf)
    BY <2>3, <2>8 DEF WriteNoKbuf, WriteFaults, WriteNoTemperary
  <2> QED BY <1>6, <2>2, <2>4, <2>5, <2>6, <2>7, <2>8
<1>7. ASSUME NEW f \in File, NEW offset \in Offsets,
             SeekSet(f, offset) \/ SeekCur(f, offset) \/ SeekEnd(f, offset)
      PROVE  Inv' /\ Balanced
  <2>1. f_pos[f] \in Int /\ offset \in Int /\ bufferCircular.size \in Int /\ MaxPos \in Nat
    BY OffsetsAssumption, BoundsAssumption DEF Inv, Files, Ring, aesd_circular_buffer
  <2>2. QuietStep
    <3>1. CASE SeekSet(f, offset)
      BY <2>1, <3>1, FilesStep DEF SeekSet
    <3>2. CASE SeekCur(f, offset)
      BY <2>1, <3>2, FilesStep DEF SeekCur
    <3>3. CASE SeekEnd(f, offset)
      <4>1. bufferCircular.size + offset \in Int
        BY <2>1
      <4> QED BY <3>3, <4>1, FilesStep DEF SeekEnd
    <3> QED BY <1>7, <3>1, <3>2, <3>3
  <2> QED BY <2>2, QuietKeeps
<1>8. ASSUME NEW f \in File, NEW cmd \in Cmds, NEW offset \in CmdOffsets, IocSeekTo(f, cmd, offset)
      PROVE  Inv' /\ Balanced
  <2>1. cmd \in Nat /\ offset \in Nat
    BY SeekAssumption
  <2>2. aesd_circular_buffer_find_entry_for_ioctl(bufferCircular, cmd, offset) \in Int
    BY <2>1, IoctlPosition DEF Inv
  <2>3. QuietStep
    BY <1>8, <2>2, FilesStep DEF IocSeekTo
  <2> QED BY <2>3, QuietKeeps
<1>9. ASSUME NEW f \in File, NEW buf \in Data, NEW ok \in KmallocOutcomes,
             WriteLine(f, buf, ok) \/ WriteRest(f, buf, ok)
      PROVE  Inv' /\ Balanced
  <2>1. ok \in BOOLEAN
    BY KmallocAssumption
  <2> QED BY <1>9, <2>1, LineWritten, WriteKeeps
<1>10. ASSUME NEW f \in File, NEW buf \in Data, WritePartial(f, buf)
       PROVE  Inv' /\ Balanced
  BY <1>10, PartialWritten, WriteKeeps
<1> QED BY <1>1, <1>2, <1>3, <1>4, <1>5, <1>6, <1>7, <1>8, <1>9, <1>10 DEF Next

\* Before the first load there is nothing to account for.
LEMMA DriverInit == Init => Inv
<1> SUFFICES ASSUME Init
             PROVE  Inv
  OBVIOUS
<1>1. Reachable = 0 /\ heap = 0 /\ regions = 0 /\ loaded = FALSE
  BY DEF Init, Reachable
<1>2. Ring(bufferCircular) /\ Temporary(bufferTemperary)
  BY RingInit, TemporaryInit DEF Init
<1>3. Files
  BY DEF Init, Files, Errors
<1>4. loaded \in BOOLEAN /\ ~ loaded
  BY <1>1, Zenon
<1>5. heap \in Int /\ heap >= Reachable /\ regions \in Nat
  BY <1>1
<1> QED BY <1>2, <1>3, <1>4, <1>5 DEF Inv

-----------------------------------------------------------------------------
(* What holds whichever allocations fail.                                  *)

\* Whatever calls the driver gets and whichever of its allocations fail, its
\* structures keep their types, and the counts of kmalloc'ed blocks and of
\* registered regions never go below zero: nothing is freed twice.
THEOREM TypesOfDriver == Spec => []TypeOK
<1>1. Inv => TypeOK
  <2> SUFFICES ASSUME Inv
               PROVE  TypeOK
    OBVIOUS
  <2>1. Reachable \in Nat
    BY LiveFinite DEF Reachable, Blocks
  <2>2. heap \in Nat
    BY <2>1 DEF Inv
  <2> QED BY <2>2 DEF TypeOK, Inv, Files, Errors, Ring, Temporary
<1>2. Inv /\ [Next]_vars => Inv'
  BY DriverNext
<1> QED BY <1>1, <1>2, DriverInit, PTL DEF Spec

\* No call on a loaded module, its load and its unload included, loses or
\* doubly frees a block: what the heap holds beyond the blocks the device
\* leads to does not change, for any capacity and any failing allocation.
THEOREM BlocksBalance == Spec => NoBlockLost
<1>1. Inv /\ [Next]_vars => Inv'
  BY DriverNext
<1>2. Inv /\ [Next]_vars => [loaded \/ loaded' => heap' - Reachable' = heap - Reachable]_vars
  BY DriverNext DEF Balanced
<1> QED BY <1>1, <1>2, DriverInit, PTL DEF Spec, NoBlockLost

-----------------------------------------------------------------------------
(* While memory lasts the ring is a queue.                                 *)

\* The ring changes by the load, by a finished write operation, or not at all.
LEMMA RingChanges ==
  ASSUME Inv, [Next]_vars
  PROVE  \/ bufferCircular' = bufferCircular
         \/ bufferCircular' = aesd_circular_buffer_init
         \/ \E e : \E ok \in KmallocOutcomes : Adds(e, ok)
<1>1. CASE UNCHANGED vars
  BY <1>1 DEF vars
<1>2. CASE NoRegion \/ NoDeviceMemory \/ NoCdev \/ aesd_init_module \/ aesd_cleanup_module
  BY <1>2 DEF NoRegion, NoDeviceMemory, NoCdev, InsmodFails, aesd_init_module, aesd_cleanup_module
<1>3. ASSUME NEW f \in File,
             \/ aesd_open(f) \/ aesd_release(f)
             \/ \E call \in {"read", "write"} : rw_verify_area(call, f)
             \/ \E count \in Counts : aesd_read(f, count) \/ ReadFaults(f, count)
             \/ SeekOther(f) \/ IocRejected(f)
             \/ \E buf \in Data : \/ WriteNoKbuf(f, buf) \/ WriteFaults(f, buf)
                                  \/ WriteNoTemperary(f, buf) \/ WritePartial(f, buf)
             \/ \E offset \in Offsets : SeekSet(f, offset) \/ SeekCur(f, offset) \/ SeekEnd(f, offset)
             \/ \E cmd \in Cmds, cmd_offset \in CmdOffsets : IocSeekTo(f, cmd, cmd_offset)
      PROVE  bufferCircular' = bufferCircular
  <2>1. ASSUME NEW call, NEW err, NEW arg, Fails(call, f, err, arg)
        PROVE  bufferCircular' = bufferCircular
    BY <2>1 DEF Fails, device
  <2>2. ASSUME NEW call, NEW pos, NEW val, NEW arg, Moved(call, f, pos, val, arg)
        PROVE  bufferCircular' = bufferCircular
    BY <2>2 DEF Moved, device
  <2>3. CASE \/ aesd_open(f) \/ aesd_release(f)
             \/ \E count \in Counts : aesd_read(f, count)
             \/ \E buf \in Data : WritePartial(f, buf)
    BY <2>3 DEF aesd_open, aesd_release, aesd_read, WritePartial, device
  <2>4. CASE \/ \E call \in {"read", "write"} : rw_verify_area(call, f)
             \/ \E count \in Counts : ReadFaults(f, count)
             \/ IocRejected(f)
             \/ \E buf \in Data : WriteNoKbuf(f, buf) \/ WriteFaults(f, buf) \/ WriteNoTemperary(f, buf)
    BY <2>1, <2>4 DEF rw_verify_area, ReadFaults, IocRejected, WriteNoKbuf, WriteFaults,
       WriteNoTemperary
  <2>5. CASE \/ SeekOther(f)
             \/ \E offset \in Offsets : SeekSet(f, offset) \/ SeekCur(f, offset) \/ SeekEnd(f, offset)
    BY <2>1, <2>2, <2>5 DEF SeekOther, SeekSet, SeekCur, SeekEnd
  <2>6. CASE \E cmd \in Cmds, cmd_offset \in CmdOffsets : IocSeekTo(f, cmd, cmd_offset)
    BY <2>1, <2>2, <2>6 DEF IocSeekTo
  <2> QED BY <1>3, <2>3, <2>4, <2>5, <2>6
<1>4. ASSUME NEW f \in File, NEW buf \in Data, NEW ok \in KmallocOutcomes,
             WriteLine(f, buf, ok) \/ WriteRest(f, buf, ok)
      PROVE  \E e : Adds(e, ok)
  BY <1>4, LineWritten
<1> QED BY <1>1, <1>2, <1>3, <1>4 DEF Next

\* The queue holds when the driver's allocations succeed.
LEMMA QueueNext ==
  ASSUME FALSE \notin KmallocOutcomes, Inv, Queue(bufferCircular), [Next]_vars
  PROVE  Queue(bufferCircular')
<1>1. Queue(aesd_circular_buffer_init)
  BY RingInit DEF Queue, Count, aesd_circular_buffer_init
<1>2. ASSUME NEW e, NEW ok \in KmallocOutcomes, Adds(e, ok)
      PROVE  Queue(bufferCircular')
  <2>1. ok = TRUE
    BY KmallocAssumption
  <2> QED BY <1>2, <2>1, QueueAddEntry DEF Adds
<1> QED BY <1>1, <1>2, RingChanges

\* So the driver keeps both.
LEMMA QueueAlways ==
  ASSUME FALSE \notin KmallocOutcomes
  PROVE  Spec => [](Inv /\ Queue(bufferCircular))
<1>1. Init => Queue(bufferCircular)
  BY RingInit DEF Init, Queue, Count, aesd_circular_buffer_init
<1>2. Inv /\ Queue(bufferCircular) /\ [Next]_vars => Queue(bufferCircular)'
  <2> SUFFICES ASSUME Inv, Queue(bufferCircular), [Next]_vars
               PROVE  Queue(bufferCircular)'
    OBVIOUS
  <2>1. Queue(bufferCircular')
    BY QueueNext
  <2> QED BY <2>1
<1>3. Inv /\ [Next]_vars => Inv'
  BY DriverNext
<1> QED BY <1>1, <1>2, <1>3, DriverInit, PTL DEF Spec

\* The only call that is recorded as "ioctl" is AESDCHAR_IOCSEEKTO.
LEMMA IoctlSteps ==
  ASSUME Next, last'.call = "ioctl"
  PROVE  \E f \in File : \E cmd \in Cmds, offset \in CmdOffsets : IocSeekTo(f, cmd, offset)
<1> SUFFICES ASSUME ~ \E f \in File : \E cmd \in Cmds, offset \in CmdOffsets : IocSeekTo(f, cmd, offset)
             PROVE  FALSE
  OBVIOUS
<1>1. ASSUME NEW call, NEW f, NEW err, NEW val, NEW data, NEW arg,
             Result(call, f, err, val, data, arg), call # "ioctl"
      PROVE  FALSE
  BY <1>1 DEF Result
<1>2. ASSUME NEW call, NEW f, NEW err, NEW arg, Fails(call, f, err, arg), call # "ioctl"
      PROVE  FALSE
  BY <1>1, <1>2 DEF Fails
<1>3. ASSUME NEW call, NEW f, NEW pos, NEW val, NEW arg, Moved(call, f, pos, val, arg), call # "ioctl"
      PROVE  FALSE
  BY <1>1, <1>3 DEF Moved
<1>4. ~ (NoRegion \/ NoDeviceMemory \/ NoCdev \/ aesd_init_module \/ aesd_cleanup_module)
  BY <1>1 DEF NoRegion, NoDeviceMemory, NoCdev, InsmodFails, aesd_init_module, aesd_cleanup_module
<1>5. PICK f \in File :
        \/ aesd_open(f)
        \/ aesd_release(f)
        \/ \E call \in {"read", "write"} : rw_verify_area(call, f)
        \/ \E count \in Counts : aesd_read(f, count) \/ ReadFaults(f, count)
        \/ \E buf \in Data :
             \/ WriteNoKbuf(f, buf)
             \/ WriteFaults(f, buf)
             \/ WriteNoTemperary(f, buf)
             \/ \E malloc_ok \in KmallocOutcomes :
                  WriteLine(f, buf, malloc_ok) \/ WriteRest(f, buf, malloc_ok)
             \/ WritePartial(f, buf)
        \/ \E offset \in Offsets : SeekSet(f, offset) \/ SeekCur(f, offset) \/ SeekEnd(f, offset)
        \/ SeekOther(f)
        \/ IocRejected(f)
  BY <1>4 DEF Next
<1>6. ~ (aesd_open(f) \/ aesd_release(f))
  BY <1>1 DEF aesd_open, aesd_release
<1>7. ~ \E call \in {"read", "write"} : rw_verify_area(call, f)
  BY <1>2 DEF rw_verify_area
<1>8. ~ \E count \in Counts : aesd_read(f, count) \/ ReadFaults(f, count)
  BY <1>1, <1>2 DEF aesd_read, ReadFaults
<1>9. ~ \E buf \in Data : WriteNoKbuf(f, buf) \/ WriteFaults(f, buf) \/ WriteNoTemperary(f, buf)
  BY <1>2 DEF WriteNoKbuf, WriteFaults, WriteNoTemperary
<1>10. ~ \E buf \in Data : \/ \E ok \in KmallocOutcomes : WriteLine(f, buf, ok) \/ WriteRest(f, buf, ok)
                           \/ WritePartial(f, buf)
  BY <1>1 DEF WriteLine, WriteRest, WritePartial, Written
<1>11. ~ \E offset \in Offsets : SeekSet(f, offset) \/ SeekCur(f, offset) \/ SeekEnd(f, offset)
  BY <1>2, <1>3 DEF SeekSet, SeekCur, SeekEnd
<1>12. ~ (SeekOther(f) \/ IocRejected(f))
  BY <1>2, <1>3 DEF SeekOther, IocRejected
<1> QED BY <1>5, <1>6, <1>7, <1>8, <1>9, <1>10, <1>11, <1>12

\* In an aligned queue the slot numbered n is the n-th from the oldest, and a
\* slot beyond the last write has size 0: the two checks of the ioctl agree.
LEMMA AlignedSeek ==
  ASSUME Inv, Queue(bufferCircular), bufferCircular.out_offs = 0,
         NEW f \in File, NEW cmd \in Nat, NEW offset \in Nat, IocSeekTo(f, cmd, offset)
  PROVE  SeekRight
<1> DEFINE b == bufferCircular
           N == MAX_WRITE_OPERATIONS
           valid == cmd < N /\ offset < b.entry[cmd].size
           exists == cmd < Count(b) /\ offset < b.entry[NthSlot(b, cmd)].size
           start == CurrentOffset(b)[cmd]
<1>1. /\ N \in Nat \ {0} /\ Slot = 0 .. N - 1 /\ Count(b) \in 0 .. N
      /\ b.out_offs \in Slot /\ \A i \in Slot : b.entry[i].size \in Nat
  BY CountBounds, MaxAssumption DEF Slot, Queue, Ring, aesd_circular_buffer, aesd_buffer_entry
<1>2. ASSUME cmd < N
      PROVE  cmd \in Slot /\ NthSlot(b, cmd) = cmd /\ start \in Nat
  <2>1. cmd \in 0 .. N /\ cmd \in Slot
    BY <1>1, <1>2
  <2>2. NthSlot(b, cmd) = cmd
    BY <1>1, <1>2, <2>1, NthSlotWraps
  <2>3. start \in Nat
    BY <1>1, <2>1, OffsetsAddUp
  <2> QED BY <2>1, <2>2, <2>3
<1>3. valid <=> exists
  <2>1. ASSUME exists PROVE valid
    <3>1. cmd < N
      BY <1>1, <2>1
    <3> QED BY <1>2, <2>1, <3>1
  <2>2. ASSUME valid PROVE exists
    <3>1. cmd \in Slot /\ NthSlot(b, cmd) = cmd
      BY <1>2, <2>2
    <3>2. cmd < Count(b)
      <4> SUFFICES ASSUME ~ (cmd < Count(b)) PROVE FALSE
        OBVIOUS
      <4>1. cmd \in Count(b) .. N - 1
        BY <1>1, <3>1
      <4>2. b.entry[NthSlot(b, cmd)].size = 0
        BY <4>1, BeyondCount
      <4> QED BY <2>2, <3>1, <4>2
    <3> QED BY <2>2, <3>1, <3>2
  <2> QED BY <2>1, <2>2
<1>4. f \in opened /\ f_pos \in [File -> Int]
  BY DEF IocSeekTo, Fails, Moved, Inv, Files
<1>5. CASE ~ valid
  <2>1. Fails("ioctl", f, "EINVAL", <<cmd, offset>>)
    BY <1>5 DEF IocSeekTo
  <2>2. last'.err = "EINVAL" /\ last'.arg = <<cmd, offset>> /\ last'.file = f
    BY <2>1 DEF Fails, Result
  <2>3. TruePosition(b, cmd, offset) = -1
    BY <1>3, <1>5 DEF TruePosition
  <2> QED BY <2>2, <2>3 DEF SeekRight
<1>6. CASE valid
  <2> DEFINE p == aesd_circular_buffer_find_entry_for_ioctl(b, cmd, offset)
  <2>1. Moved("ioctl", f, p, 0, <<cmd, offset>>)
    BY <1>6 DEF IocSeekTo
  <2>2. /\ last'.err = "OK" /\ last'.arg = <<cmd, offset>> /\ last'.file = f
        /\ f_pos' = [f_pos EXCEPT ![f] = p]
    BY <2>1 DEF Moved, Result
  <2>3. exists /\ cmd \in Slot /\ start \in Nat
    BY <1>2, <1>3, <1>6
  <2>4. TruePosition(b, cmd, offset) = start + offset
    BY <2>3 DEF TruePosition
  <2>5. Reaches(b, cmd)
    BY <2>3, ReachesWindow
  <2>6. p = start + offset
    BY <2>3, <2>5 DEF aesd_circular_buffer_find_entry_for_ioctl
  <2>7. start + offset # -1
    BY <2>3
  <2>8. f_pos'[f] = p
    BY <1>4, <2>2
  <2> HIDE DEF p, start
  <2>9. last'.arg[1] = cmd /\ last'.arg[2] = offset
    BY <2>2
  <2> QED BY <2>2, <2>4, <2>6, <2>7, <2>8, <2>9 DEF SeekRight
<1> QED BY <1>5, <1>6

\* While memory lasts, AESDCHAR_IOCSEEKTO accepts exactly the bytes that exist
\* and lands on the one that was asked for whenever the oldest write is in
\* slot 0, for every capacity, every set of files and any sequence of calls.
THEOREM SeekIsExactWhenAligned ==
  ASSUME FALSE \notin KmallocOutcomes
  PROVE  Spec => SeekExactWhenAligned
<1>1. Inv /\ Queue(bufferCircular) /\ [Next]_vars
        => [last'.call = "ioctl" /\ bufferCircular.out_offs = 0 => SeekRight]_vars
  <2> SUFFICES ASSUME Inv, Queue(bufferCircular), Next,
                      last'.call = "ioctl", bufferCircular.out_offs = 0
               PROVE  SeekRight
    OBVIOUS
  <2>1. PICK f \in File, cmd \in Cmds, offset \in CmdOffsets : IocSeekTo(f, cmd, offset)
    BY IoctlSteps
  <2>2. cmd \in Nat /\ offset \in Nat
    BY SeekAssumption
  <2> QED BY <2>1, <2>2, AlignedSeek
<1> QED BY <1>1, QueueAlways, PTL DEF Spec, SeekExactWhenAligned

-----------------------------------------------------------------------------
(* The driver implements LineDevice.                                       *)

\* The refinement mapping.
Lines == IF loaded THEN Contents(bufferCircular) ELSE <<>>
Partial == Pieces(bufferTemperary)

\* What the mapping makes of the variables the calls leave alone.
LEMMA MappingKeeps ==
  /\ UNCHANGED <<loaded, bufferCircular>> => Lines' = Lines
  /\ UNCHANGED bufferTemperary => Partial' = Partial
<1>1. ASSUME UNCHANGED <<loaded, bufferCircular>> PROVE Lines' = Lines
  <2>1. Contents(bufferCircular)' = Contents(bufferCircular)
    BY <1>1
  <2> QED BY <1>1, <2>1 DEF Lines
<1>2. ASSUME UNCHANGED bufferTemperary PROVE Partial' = Partial
  BY <1>2 DEF Partial, Pieces
<1> QED BY <1>1, <1>2

\* A call that fails changes nothing but its result,
LEMMA RefusedStep ==
  ASSUME last'.err # "OK", Lines' = Lines, Partial' = Partial, f_pos' = f_pos
  PROVE  Device!Next
BY DEF Device!Next, Device!Refuse, Lines, Partial, Pieces

\* a load and an unload leave nothing,
LEMMA LoadStep ==
  ASSUME last'.call \in {"init", "cleanup"}, Lines' = <<>>, Partial' = <<>>, f_pos' = f_pos
  PROVE  Device!Next
BY DEF Device!Next, Device!LoadOrUnload, Lines, Partial, Pieces

\* and a write appends to the unfinished operation, or ends it.
LEMMA WriteStep ==
  ASSUME NEW f \in File, NEW buf \in Data,
         last'.call = "write", last'.file = f, last'.err = "OK", last'.val = Len(buf),
         f_pos' = f_pos,
         \/ /\ HasNewline(buf)
            /\ Lines' = Append(IF Len(Lines) = MAX_WRITE_OPERATIONS THEN Tail(Lines) ELSE Lines,
                               Partial \o buf)
            /\ Partial' = <<>>
         \/ ~ HasNewline(buf) /\ Partial' = Partial \o buf /\ Lines' = Lines
  PROVE  Device!Next
<1>1. HasNewline(buf) <=> Device!Contains(buf, Newline)
  BY DEF HasNewline, Device!Contains
<1>2. Device!Done("write", f, Len(buf))
  BY DEF Device!Done
<1>3. Device!Write(f, buf)
  BY <1>1, <1>2 DEF Device!Write, Lines, Partial, Pieces
<1> QED BY <1>3 DEF Device!Next

\* The abstract stream is the concatenation of the writes in the ring.
LEMMA StreamIs == Device!Stream = FlattenSeq(Lines)
BY DEF Device!Stream, Device!FlattenSeq, FlattenSeq, Lines

\* A read delivers the stream at the position: it stays inside one entry, and
\* the entry's bytes are the stream's.
LEMMA ReadInStream ==
  ASSUME Queue(bufferCircular), NEW f, f_pos[f] \in Nat, NEW count \in Nat,
         NEW stream, stream = FlattenSeq(Contents(bufferCircular)),
         NEW data, data = Readable(f, count)
  PROVE  /\ Len(data) \in 0 .. count
         /\ data = SubSeq(stream, f_pos[f] + 1, f_pos[f] + Len(data))
         /\ Len(data) = 0 <=> (count = 0 \/ f_pos[f] >= Len(stream))
<1> DEFINE b == bufferCircular
           p == f_pos[f]
           found == aesd_circular_buffer_find_entry_offset_for_fpos(b, p)
<1>0. p \in Nat
  OBVIOUS
<1> HIDE DEF p
<1>1. stream \in Seq(Byte) /\ Len(stream) = b.size /\ b.size \in Nat
  BY StreamOfQueue DEF Queue, Ring, aesd_circular_buffer
<1>2. CASE found = NULL
  <2>1. data = <<>>
    BY <1>2 DEF Readable, p
  <2>2. p >= b.size
    BY <1>0, <1>2, FindFinds
  <2>3. Len(data) = 0 /\ p + Len(data) = p /\ p + Len(data) < p + 1
    BY <1>0, <2>1
  <2>4. SubSeq(stream, p + 1, p + Len(data)) = <<>>
    BY <1>0, <1>1, <2>3, SubSeqEmpty
  <2> QED BY <1>0, <1>1, <2>1, <2>2, <2>3, <2>4 DEF p
<1>3. CASE found # NULL
  <2> DEFINE off == CurrentOffset(b)
  <2>1. PICK i \in 0 .. Count(b) - 1 :
          /\ i \in Slot /\ NthSlot(b, i) \in Slot
          /\ found = [slot |-> NthSlot(b, i), offset |-> p - off[i]]
          /\ off[i] \in Nat /\ off[i] <= p
          /\ off[i + 1] = off[i] + b.entry[NthSlot(b, i)].size
          /\ p < off[i + 1] /\ off[i + 1] <= b.size
    BY <1>0, <1>3, FindFinds
  <2> DEFINE s == b.entry[NthSlot(b, i)].buffptr
             size == b.entry[NthSlot(b, i)].size
             start == off[i]
             in == p - start
             available == size - in
             to_copy == IF count < available THEN count ELSE available
  <2>2. /\ b.entry \in [Slot -> aesd_buffer_entry] /\ SlotSizes(b)
        /\ s # NULL
    BY <2>1 DEF Queue, Ring, Accounted, aesd_circular_buffer
  <2>3. s \in Seq(Byte) /\ size = Len(s) /\ size \in Nat
    BY <2>1, <2>2 DEF SlotSizes, aesd_buffer_entry
  <2>4. data = SubSeq(s, in + 1, in + to_copy)
    <3>1. found.slot = NthSlot(b, i) /\ found.offset = in
      BY <2>1
    <3>2. data = LET entry == b.entry[found.slot]
                     rest == entry.size - found.offset
                     n == IF count < rest THEN count ELSE rest
                 IN  SubSeq(entry.buffptr, found.offset + 1, found.offset + n)
      BY <1>3 DEF Readable, p
    <3> HIDE DEF found
    <3> QED BY <3>1, <3>2
  <2>5. \A j \in 1 .. size : stream[start + j] = s[j]
    BY StreamOfQueue
  <2>6. start \in Nat /\ start <= p /\ p < start + size /\ start + size <= b.size
    BY <2>1
  <2> HIDE DEF s, size, start
  <2>7. p < b.size
    BY <1>0, <1>1, <2>3, <2>6
  <2>8. in \in Nat /\ in < size /\ available \in Nat /\ available > 0
    BY <1>0, <2>3, <2>6
  <2>9. /\ to_copy \in 0 .. count /\ to_copy <= available /\ to_copy \in Nat
        /\ to_copy = 0 <=> count = 0
    BY <2>8
  <2> HIDE DEF to_copy
  <2>10. in + to_copy <= size /\ p + to_copy <= b.size /\ in = p - start
    BY <1>0, <1>1, <2>3, <2>6, <2>8, <2>9
  <2> HIDE DEF in
  <2>11. /\ in + 1 \in Int /\ in + to_copy \in Int
        /\ \A k \in in + 1 .. in + to_copy : k \in 1 .. Len(s)
    BY <2>3, <2>8, <2>9, <2>10, SMTT(30)
  <2>12. /\ p + 1 \in Int /\ p + to_copy \in Int
        /\ \A k \in p + 1 .. p + to_copy : k \in 1 .. Len(stream)
    BY <1>0, <1>1, <2>9, <2>10
  <2>13. /\ Len(data) = to_copy
         /\ \A k \in 1 .. to_copy : data[k] = s[in + k]
         /\ data \in Seq(Byte)
    <3>1. \A k \in in + 1 .. in + to_copy : s[k] \in Byte
      BY <2>3, <2>11
    <3>2. /\ SubSeq(s, in + 1, in + to_copy) \in Seq(Byte)
          /\ Len(SubSeq(s, in + 1, in + to_copy)) =
               IF in + 1 <= in + to_copy THEN (in + to_copy) - (in + 1) + 1 ELSE 0
          /\ \A k \in 1 .. (in + to_copy) - (in + 1) + 1 :
               SubSeq(s, in + 1, in + to_copy)[k] = s[(in + 1) + k - 1]
      BY <2>11, <3>1, SubSeqProperties
    <3>3. /\ (in + to_copy) - (in + 1) + 1 = to_copy
          /\ \A k \in 1 .. to_copy : (in + 1) + k - 1 = in + k
          /\ (IF in + 1 <= in + to_copy THEN (in + to_copy) - (in + 1) + 1 ELSE 0) = to_copy
      BY <2>8, <2>9
    <3> QED BY <2>4, <3>2, <3>3
  <2> DEFINE part == SubSeq(stream, p + 1, p + to_copy)
  <2>14. /\ Len(part) = to_copy
         /\ \A k \in 1 .. to_copy : part[k] = stream[p + k]
         /\ part \in Seq(Byte)
    <3>1. \A k \in p + 1 .. p + to_copy : stream[k] \in Byte
      BY <1>1, <2>12
    <3>2. /\ part \in Seq(Byte)
          /\ Len(part) = IF p + 1 <= p + to_copy THEN (p + to_copy) - (p + 1) + 1 ELSE 0
          /\ \A k \in 1 .. (p + to_copy) - (p + 1) + 1 : part[k] = stream[(p + 1) + k - 1]
      BY <2>12, <3>1, SubSeqProperties
    <3>3. /\ (p + to_copy) - (p + 1) + 1 = to_copy
          /\ \A k \in 1 .. to_copy : (p + 1) + k - 1 = p + k
          /\ (IF p + 1 <= p + to_copy THEN (p + to_copy) - (p + 1) + 1 ELSE 0) = to_copy
      BY <1>0, <2>9
    <3> HIDE DEF part
    <3> QED BY <3>2, <3>3
  <2> HIDE DEF part
  <2>15. \A k \in 1 .. to_copy : data[k] = part[k]
    <3> TAKE k \in 1 .. to_copy
    <3>1. in + k \in 1 .. size /\ start + (in + k) = p + k
      BY <1>0, <2>3, <2>6, <2>8, <2>9, <2>10
    <3>2. stream[p + k] = s[in + k]
      BY <2>5, <3>1
    <3> QED BY <2>13, <2>14, <3>2
  <2>16. data = part
    BY <2>13, <2>14, <2>15, SeqEqual
  <2>17. /\ Len(data) \in 0 .. count
         /\ Len(data) = 0 <=> (count = 0 \/ p >= Len(stream))
    BY <1>0, <1>1, <2>7, <2>9, <2>13
  <2> QED BY <2>13, <2>16, <2>17 DEF part, p
<1> QED BY <1>2, <1>3

\* Wherever the ring begins, an accepted AESDCHAR_IOCSEEKTO lands on a stored
\* byte: on the one it counts to, or on the first, and then there is one.
LEMMA IoctlInStream ==
  ASSUME Ring(bufferCircular), NEW cmd \in Slot, NEW offset \in Nat,
         offset < bufferCircular.entry[cmd].size
  PROVE  aesd_circular_buffer_find_entry_for_ioctl(bufferCircular, cmd, offset)
           \in 0 .. bufferCircular.size - 1
<1> DEFINE b == bufferCircular
           N == MAX_WRITE_OPERATIONS
           off == CurrentOffset(b)
           here == b.entry[NthSlot(b, cmd)].size
<1>1. /\ N \in Nat \ {0} /\ Slot = 0 .. N - 1 /\ b.size \in Nat
      /\ b.out_offs \in Slot /\ \A i \in Slot : b.entry[i].size \in Nat
  BY MaxAssumption DEF Slot, Ring, aesd_circular_buffer, aesd_buffer_entry
<1>2. /\ \A i \in 0 .. N : off[i] \in Nat
      /\ \A i \in 0 .. N - 1 : off[i + 1] = off[i] + b.entry[NthSlot(b, i)].size
  BY <1>1, OffsetsAddUp
<1>3. \A i \in 0 .. N - 1 : NthSlot(b, i) \in Slot /\ b.entry[NthSlot(b, i)].size \in Nat
  <2> TAKE i \in 0 .. N - 1
  <2>1. i \in 0 .. N
    BY <1>1
  <2>2. NthSlot(b, i) \in Slot
    BY <1>1, <2>1, NthSlotWraps
  <2> QED BY <1>1, <2>2
<1>4. off[N] = b.size
  BY WalkTotal
<1>5. PICK t : RunningTotal(b, t)
  BY DEF Ring, Accounted
<1>6. cmd \in 0 .. N - 1 /\ cmd \in 0 .. N /\ cmd + 1 \in 0 .. N /\ N \in 0 .. N /\ cmd + 1 <= N
  BY <1>1
<1>7. b.size > 0
  <2>1. /\ t[cmd] \in Nat /\ t[cmd + 1] \in Nat /\ t[cmd + 1] = t[cmd] + b.entry[cmd].size
        /\ t[cmd + 1] <= t[N] /\ t[N] = b.size
    BY <1>1, <1>5, <1>6 DEF RunningTotal
  <2>2. b.entry[cmd].size \in Nat
    BY <1>1
  <2> QED BY <1>1, <2>1, <2>2
<1> HIDE DEF off
<1>8. \A i, j \in 0 .. N : i <= j => off[i] <= off[j]
  <2>1. ASSUME NEW i \in 0 .. N - 1 PROVE off[i] <= off[i + 1]
    <3>1. i \in 0 .. N
      BY <1>1
    <3> QED BY <1>2, <1>3, <3>1
  <2>2. N \in Nat
    BY <1>1
  <2> QED BY <1>2, <2>1, <2>2, SumsGrow
<1>9. off[cmd] + here <= b.size /\ off[cmd] \in Nat /\ here \in Nat
  <2>1. off[cmd + 1] = off[cmd] + here /\ off[cmd] \in Nat /\ here \in Nat
    BY <1>2, <1>3, <1>6
  <2>2. off[cmd + 1] <= off[N]
    BY <1>6, <1>8
  <2> QED BY <1>4, <2>1, <2>2
<1>10. offset < here => off[cmd] + offset \in 0 .. b.size - 1
  BY <1>1, <1>9, SMTT(30)
<1>11. 0 \in 0 .. b.size - 1
  BY <1>1, <1>7
<1> QED BY <1>10, <1>11 DEF aesd_circular_buffer_find_entry_for_ioctl, off

\* Every call of the driver is a step of the device it stands for.
LEMMA DeviceStep ==
  ASSUME FALSE \notin KmallocOutcomes, Inv, Queue(bufferCircular), Next
  PROVE  Device!Next
<1>1. /\ f_pos \in [File -> Int] /\ opened \subseteq File /\ (opened # {} => loaded)
      /\ Ring(bufferCircular) /\ bufferCircular.size \in Nat
  BY DEF Inv, Files, Ring, aesd_circular_buffer
<1>2. ASSUME NEW err, NEW blocks, NEW kept, InsmodFails(err, blocks, kept), err # "OK"
      PROVE  Device!Next
  <2>1. /\ last'.err = err /\ f_pos' = f_pos
        /\ UNCHANGED <<loaded, bufferCircular>> /\ UNCHANGED bufferTemperary
    BY <1>2 DEF InsmodFails, Result
  <2> QED BY <1>2, <2>1, MappingKeeps, RefusedStep
<1>3. CASE NoRegion \/ NoDeviceMemory \/ NoCdev
  BY <1>2, <1>3 DEF NoRegion, NoDeviceMemory, NoCdev
<1>4. CASE aesd_init_module
  <2>1. /\ last'.call = "init" /\ f_pos' = f_pos /\ loaded' = TRUE
        /\ bufferCircular' = aesd_circular_buffer_init
        /\ bufferTemperary' = aesd_temperary_buffer_init
    BY <1>4 DEF aesd_init_module, Result
  <2>2. Contents(bufferCircular)' = <<>>
    BY <2>1, MaxAssumption DEF aesd_circular_buffer_init, Contents, Count
  <2>3. Lines' = <<>> /\ Partial' = <<>>
    BY <2>1, <2>2 DEF Lines, Partial, Pieces, aesd_temperary_buffer_init
  <2> QED BY <2>1, <2>3, LoadStep
<1>5. CASE aesd_cleanup_module
  <2>1. /\ last'.call = "cleanup" /\ f_pos' = f_pos /\ loaded' = FALSE
        /\ bufferTemperary' = aesd_temperary_buffer_init
    BY <1>5 DEF aesd_cleanup_module, Result
  <2>2. Lines' = <<>> /\ Partial' = <<>>
    BY <2>1 DEF Lines, Partial, Pieces, aesd_temperary_buffer_init
  <2> QED BY <2>1, <2>2, LoadStep
<1>6. ASSUME NEW f \in File, NEW call, NEW err, NEW arg, Fails(call, f, err, arg), err # "OK"
      PROVE  Device!Next
  <2>1. /\ last'.err = err /\ f_pos' = f_pos
        /\ UNCHANGED <<loaded, bufferCircular>> /\ UNCHANGED bufferTemperary
    BY <1>6 DEF Fails, Result, device
  <2> QED BY <1>6, <2>1, MappingKeeps, RefusedStep
<1>7. ASSUME NEW f \in File, aesd_open(f) \/ aesd_release(f)
      PROVE  Device!Next
  <2>1. /\ Device!Done("open", f, 0) \/ Device!Done("release", f, 0)
        /\ f_pos' = [f_pos EXCEPT ![f] = 0]
        /\ UNCHANGED <<loaded, bufferCircular>> /\ UNCHANGED bufferTemperary
    BY <1>7 DEF aesd_open, aesd_release, Result, device, Device!Done
  <2>2. Lines' = Lines /\ Partial' = Partial
    BY <2>1, MappingKeeps
  <2>3. Device!OpenOrClose(f)
    BY <2>1, <2>2 DEF Device!OpenOrClose, Lines, Partial, Pieces
  <2> QED BY <2>3 DEF Device!Next
<1>8. ASSUME NEW f \in File, NEW count \in Counts, aesd_read(f, count)
      PROVE  Device!Next
  <2> DEFINE data == Readable(f, count)
             n == Len(data)
  <2>1. f_pos[f] \in Nat /\ count \in Nat /\ loaded
    BY <1>1, <1>8, CountsAssumption DEF aesd_read
  <2>2. /\ last'.call = "read" /\ last'.file = f /\ last'.err = "OK" /\ last'.val = n
        /\ last'.data = data
        /\ f_pos' = [f_pos EXCEPT ![f] = @ + n]
        /\ UNCHANGED <<loaded, bufferCircular>> /\ UNCHANGED bufferTemperary
    BY <1>8 DEF aesd_read, Result, device
  <2>3. Device!Stream = FlattenSeq(Contents(bufferCircular))
    BY <2>1, StreamIs DEF Lines
  <2>4. /\ n \in 0 .. count
        /\ data = SubSeq(Device!Stream, f_pos[f] + 1, f_pos[f] + n)
        /\ n = 0 <=> (count = 0 \/ f_pos[f] >= Len(Device!Stream))
    BY <2>1, <2>3, ReadInStream
  <2>5. Lines' = Lines /\ Partial' = Partial
    BY <2>2, MappingKeeps
  <2>6. Device!Done("read", f, n)
    BY <2>2 DEF Device!Done
  <2>7. Len(last'.data) = n
    BY <2>2
  <2> HIDE DEF n, data
  <2>8. Device!Read(f, count)
    BY <2>2, <2>4, <2>5, <2>6, <2>7 DEF Device!Read, Lines, Partial, Pieces
  <2> QED BY <2>8 DEF Device!Next
<1>9. ASSUME NEW f \in File, NEW call, NEW pos, NEW val, NEW arg, Moved(call, f, pos, val, arg),
             \/ call = "llseek" /\ val = pos /\ (pos >= 0 \/ pos = f_pos[f])
             \/ call = "llseek_end" /\ val = pos
                  /\ \E offset \in Offsets : pos = bufferCircular.size + offset
             \/ call = "ioctl" /\ val = 0 /\ pos \in 0 .. bufferCircular.size - 1
      PROVE  Device!Next
  <2>1. /\ last'.call = call /\ last'.file = f /\ last'.err = "OK" /\ last'.val = val
        /\ f_pos' = [f_pos EXCEPT ![f] = pos] /\ loaded
        /\ UNCHANGED <<loaded, bufferCircular>> /\ UNCHANGED bufferTemperary
    BY <1>1, <1>9 DEF Moved, Result, device
  <2>2. f_pos'[f] = pos /\ (pos = f_pos[f] => f_pos' = f_pos)
    BY <1>1, <2>1
  <2>3. Lines' = Lines /\ Partial' = Partial
    BY <2>1, MappingKeeps
  <2>4. Device!Stream = FlattenSeq(Contents(bufferCircular))
    BY <2>1, StreamIs DEF Lines
  <2>5. Len(Device!Stream) = bufferCircular.size
    BY <2>4, StreamOfQueue
  <2>6. Device!Done(call, f, val)
    BY <2>1 DEF Device!Done
  <2>7. Device!Seek(f)
    BY <1>9, <2>1, <2>2, <2>3, <2>5, <2>6 DEF Device!Seek, Lines, Partial, Pieces
  <2> QED BY <2>7 DEF Device!Next
<1>10. ASSUME NEW f \in File, NEW offset \in Offsets,
              SeekSet(f, offset) \/ SeekCur(f, offset) \/ SeekEnd(f, offset)
       PROVE  Device!Next
  <2>1. offset \in Int /\ f_pos[f] \in Int /\ MaxPos \in Nat
    BY <1>1, OffsetsAssumption, BoundsAssumption
  <2>2. CASE SeekSet(f, offset)
    BY <1>6, <1>9, <2>1, <2>2 DEF SeekSet
  <2>3. CASE SeekCur(f, offset)
    <3>1. f_pos[f] + offset \in 0 .. MaxPos => f_pos[f] + offset >= 0
      BY <2>1
    <3> QED BY <1>6, <1>9, <2>3, <3>1 DEF SeekCur
  <2>4. CASE SeekEnd(f, offset)
    BY <1>9, <2>4 DEF SeekEnd
  <2> QED BY <1>10, <2>2, <2>3, <2>4
<1>11. ASSUME NEW f \in File, NEW cmd \in Cmds, NEW offset \in CmdOffsets, IocSeekTo(f, cmd, offset)
       PROVE  Device!Next
  <2> DEFINE valid == cmd < MAX_WRITE_OPERATIONS /\ offset < bufferCircular.entry[cmd].size
             p == aesd_circular_buffer_find_entry_for_ioctl(bufferCircular, cmd, offset)
  <2>1. cmd \in Nat /\ offset \in Nat
    BY SeekAssumption
  <2>2. CASE ~ valid
    <3>1. Fails("ioctl", f, "EINVAL", <<cmd, offset>>)
      BY <1>11, <2>2 DEF IocSeekTo
    <3> QED BY <1>6, <3>1
  <2>3. CASE valid
    <3>1. Moved("ioctl", f, p, 0, <<cmd, offset>>)
      BY <1>11, <2>3 DEF IocSeekTo
    <3>2. cmd \in Slot
      BY <2>1, <2>3, MaxAssumption DEF Slot
    <3>3. p \in 0 .. bufferCircular.size - 1
      BY <1>1, <2>1, <2>3, <3>2, IoctlInStream
    <3> QED BY <1>9, <3>1, <3>3
  <2> QED BY <2>2, <2>3
<1>12. ASSUME NEW f \in File, NEW buf \in Data, NEW ok \in KmallocOutcomes,
              WriteLine(f, buf, ok) \/ WriteRest(f, buf, ok)
       PROVE  Device!Next
  <2> DEFINE e == Operation(Pieces(bufferTemperary) \o buf)
  <2>1. /\ HasNewline(buf) /\ Written(f, buf) /\ Adds(e, ok) /\ Pieces(bufferTemperary') = <<>>
    BY <1>12, LineWritten
  <2>2. ok = TRUE
    BY KmallocAssumption
  <2>3. Contents(bufferCircular') =
          Append(IF Len(Contents(bufferCircular)) = MAX_WRITE_OPERATIONS
                 THEN Tail(Contents(bufferCircular)) ELSE Contents(bufferCircular), e.buffptr)
    BY <2>1, <2>2, QueueAddEntry DEF Adds
  <2>4. /\ last'.call = "write" /\ last'.file = f /\ last'.err = "OK" /\ last'.val = Len(buf)
        /\ f_pos' = f_pos /\ loaded /\ loaded' = loaded
    BY <1>1, <2>1 DEF Written, Result
  <2>5. e.buffptr = Partial \o buf
    BY DEF Operation, Partial
  <2>6. Lines = Contents(bufferCircular) /\ Lines' = Contents(bufferCircular')
    BY <2>4 DEF Lines
  <2>7. Partial' = <<>>
    BY <2>1 DEF Partial
  <2> HIDE DEF e
  <2> QED BY <2>1, <2>3, <2>4, <2>5, <2>6, <2>7, WriteStep
<1>13. ASSUME NEW f \in File, NEW buf \in Data, WritePartial(f, buf)
       PROVE  Device!Next
  <2>1. /\ ~ HasNewline(buf) /\ Written(f, buf) /\ bufferCircular' = bufferCircular
        /\ Pieces(bufferTemperary') = Pieces(bufferTemperary) \o buf
    BY <1>13, PartialWritten
  <2>2. /\ last'.call = "write" /\ last'.file = f /\ last'.err = "OK" /\ last'.val = Len(buf)
        /\ f_pos' = f_pos /\ UNCHANGED <<loaded, bufferCircular>>
    BY <2>1 DEF Written, Result
  <2>3. Lines' = Lines
    BY <2>2, MappingKeeps
  <2>4. Partial' = Partial \o buf
    BY <2>1 DEF Partial
  <2> QED BY <2>1, <2>2, <2>3, <2>4, WriteStep
<1>14. ASSUME NEW f \in File, SeekOther(f)
       PROVE  Device!Next
  BY <1>9, <1>14 DEF SeekOther
<1>15. ASSUME NEW f \in File,
              \/ \E call \in {"read", "write"} : rw_verify_area(call, f)
              \/ \E count \in Counts : ReadFaults(f, count)
              \/ IocRejected(f)
              \/ \E buf \in Data : WriteNoKbuf(f, buf) \/ WriteFaults(f, buf) \/ WriteNoTemperary(f, buf)
       PROVE  Device!Next
  BY <1>6, <1>15 DEF rw_verify_area, ReadFaults, IocRejected, WriteNoKbuf, WriteFaults,
     WriteNoTemperary
<1> QED BY <1>3, <1>4, <1>5, <1>7, <1>8, <1>10, <1>11, <1>12, <1>13, <1>14, <1>15 DEF Next

\* While memory lasts the driver implements LineDevice, for every capacity and
\* any files, data and arguments: the stream is the last write operations in
\* order, the partial writes of all files join one operation, a read delivers
\* the stream's bytes at the position and reports the end only at the end, a
\* refused call has no effect.
THEOREM RefinesLineDevice ==
  ASSUME FALSE \notin KmallocOutcomes
  PROVE  Spec => ImplementsLineDevice
<1>1. Init => Device!Init
  <2> SUFFICES ASSUME Init
               PROVE  Device!Init
    OBVIOUS
  <2>1. loaded = FALSE /\ bufferTemperary.buffptr = NULL
    BY DEF Init, aesd_temperary_buffer_init
  <2> QED BY <2>1 DEF Init, Device!Init
<1>2. Inv /\ Queue(bufferCircular) /\ [Next]_vars => [Device!Next]_(Device!vars)
  <2> SUFFICES ASSUME Inv, Queue(bufferCircular), [Next]_vars
               PROVE  [Device!Next]_(Device!vars)
    OBVIOUS
  <2>1. CASE Next
    BY <2>1, DeviceStep
  <2>2. CASE UNCHANGED vars
    <3>1. Lines' = Lines /\ Partial' = Partial /\ f_pos' = f_pos /\ last' = last
      BY <2>2, MappingKeeps DEF vars
    <3> QED BY <3>1 DEF Device!vars, Lines, Partial, Pieces
  <2> QED BY <2>1, <2>2
<1> QED BY <1>1, <1>2, QueueAlways, PTL DEF Spec, ImplementsLineDevice, Device!Spec
=============================================================================
