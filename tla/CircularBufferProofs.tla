------------------------ MODULE CircularBufferProofs ------------------------
(***************************************************************************)
(* The ring for every capacity, every set of writes and every behaviour of *)
(* my_malloc.                                                              *)
(*                                                                         *)
(* The invariant that carries the proofs is Ring: the slots from in_offs   *)
(* up to out_offs, the gap, own no block, and a running total of the slot  *)
(* sizes ends at `size`.  Eviction empties one more slot of the gap, which *)
(* is why the slot about to be written is always free (RoomIsFree).        *)
(***************************************************************************)
EXTENDS CircularBufferMachine, CircularBufferLemmas

-----------------------------------------------------------------------------
(* Whatever my_malloc does.                                                *)

\* A write makes an entry whose size is that of its block.
LEMMA EntryOfWrite ==
  ASSUME NEW write \in Write
  PROVE  LET e == [buffptr |-> write, size |-> Len(write)]
         IN  e \in aesd_buffer_entry /\ e.buffptr # NULL /\ e.size = Len(e.buffptr)
<1>1. write \in Seq(Byte)
  BY WriteAssumption
<1>2. Len(write) \in Nat /\ write # NULL
  BY <1>1, NullAssumption
<1> QED BY <1>1, <1>2 DEF aesd_buffer_entry

\* Ring holds in every reachable state, whichever allocations fail.
LEMMA RingInvariant == Spec => []Ring(buffer)
<1>1. Init => Ring(buffer)
  BY RingInit DEF Init
<1>2. Ring(buffer) /\ [Next]_buffer => Ring(buffer)'
  <2> SUFFICES ASSUME Ring(buffer), [Next]_buffer
               PROVE  Ring(buffer')
    BY DEF Ring, Accounted, RunningTotal, SlotSizes, GapIsEmpty, Gap
  <2>1. ASSUME NEW write \in Write, NEW malloc_ok \in MallocOutcomes, Add(write, malloc_ok)
        PROVE  Ring(buffer')
    BY <2>1, EntryOfWrite, RingAdd, MallocAssumption DEF Add
  <2>2. CASE UNCHANGED buffer
    BY <2>2
  <2> QED BY <2>1, <2>2 DEF Next
<1> QED BY <1>1, <1>2, PTL DEF Spec

\* The type invariant: in particular `size` never wraps below zero, because
\* it is the sum of the slot sizes, one of which is subtracted.
THEOREM TypeCorrect == Spec => []TypeOK
<1>1. Ring(buffer) => TypeOK
  BY DEF Ring, TypeOK
<1> QED BY <1>1, RingInvariant, PTL

\* buffer->size is the number of stored bytes, also after failed allocations.
THEOREM SizeCorrect == Spec => []SizeIsSum
<1>1. ASSUME Ring(buffer) PROVE SizeIsSum
  <2>1. PICK t : RunningTotal(buffer, t)
    BY <1>1 DEF Ring, Accounted
  <2>2. t \in [0 .. MAX_WRITE_OPERATIONS -> 0 .. buffer.size]
    BY <2>1, MaxAssumption DEF RunningTotal
  <2> QED BY <1>1, <2>1, <2>2 DEF SizeIsSum, Ring, Accounted, SlotSizes, RunningTotal
<1> QED BY <1>1, RingInvariant, PTL

\* add_entry never overwrites the pointer to a block it has not freed.
THEOREM NoLeak == Spec => []NoLeakOnAdd
<1>1. ASSUME Ring(buffer) PROVE NoLeakOnAdd
  <2>1. buffer.in_offs \in Slot /\ buffer.out_offs \in Slot
    BY <1>1 DEF Ring, aesd_circular_buffer
  <2>2. Gap(buffer, buffer.in_offs)
    BY <2>1 DEF Gap, Slot
  <2> QED BY <1>1, <2>1, <2>2 DEF NoLeakOnAdd, LiveSlots, Ring, GapIsEmpty
<1> QED BY <1>1, RingInvariant, PTL
-----------------------------------------------------------------------------
(* When allocations succeed the ring is a queue.                           *)

\* One add of the machine, allocation granted, is one Add of LastWrites.
LEMMA QueueStep ==
  ASSUME Queue(buffer), NEW write \in Write, Add(write, TRUE)
  PROVE  /\ Queue(buffer')
         /\ Contents(buffer') = Append(IF Len(Contents(buffer)) = MAX_WRITE_OPERATIONS
                                       THEN Tail(Contents(buffer)) ELSE Contents(buffer), write)
<1> DEFINE e == [buffptr |-> write, size |-> Len(write)]
<1>1. e \in aesd_buffer_entry /\ e.buffptr # NULL /\ e.size = Len(e.buffptr) /\ e.buffptr = write
  BY EntryOfWrite
<1>2. buffer' = aesd_circular_buffer_add_entry(buffer, e, TRUE)
  BY DEF Add
<1> HIDE DEF e
<1>3. /\ Queue(buffer')
      /\ Contents(buffer') = Append(IF Len(Contents(buffer)) = MAX_WRITE_OPERATIONS
                                    THEN Tail(Contents(buffer)) ELSE Contents(buffer), e.buffptr)
  BY <1>1, <1>2, QueueAddEntry
<1> QED BY <1>1, <1>3

\* The queue is invariant while no allocation fails.
LEMMA QueueInvariant ==
  ASSUME FALSE \notin MallocOutcomes
  PROVE  Spec => []Queue(buffer)
<1>1. Init => Queue(buffer)
  <2> SUFFICES ASSUME Init PROVE Queue(buffer)
    OBVIOUS
  <2>1. ~ buffer.full /\ Count(buffer) = 0
    BY MaxAssumption DEF Init, aesd_circular_buffer_init, Count
  <2> QED BY <2>1, RingInit DEF Init, Queue
<1>2. Queue(buffer) /\ [Next]_buffer => Queue(buffer)'
  <2> SUFFICES ASSUME Queue(buffer), [Next]_buffer
               PROVE  Queue(buffer')
    BY DEF Queue, Ring, Accounted, RunningTotal, SlotSizes, GapIsEmpty, Gap, Count, NthSlot
  <2>1. ASSUME NEW write \in Write, NEW malloc_ok \in MallocOutcomes, Add(write, malloc_ok)
        PROVE  Queue(buffer')
    <3>1. malloc_ok = TRUE
      BY <2>1, MallocAssumption
    <3> QED BY <2>1, <3>1, QueueStep
  <2>2. CASE UNCHANGED buffer
    BY <2>2
  <2> QED BY <2>1, <2>2 DEF Next
<1> QED BY <1>1, <1>2, PTL DEF Spec

\* While no allocation fails the ring refines LastWrites: it holds exactly the
\* last MAX_WRITE_OPERATIONS writes, in order, whatever the capacity is.
THEOREM RefinesLastWrites ==
  ASSUME FALSE \notin MallocOutcomes
  PROVE  Spec => KeepsLastWrites
<1>1. Init => Abstract!Init
  BY MaxAssumption DEF Init, aesd_circular_buffer_init, Abstract!Init, Contents, Count
<1>2. Queue(buffer) /\ [Next]_buffer => [Abstract!Next]_(Contents(buffer))
  <2> SUFFICES ASSUME Queue(buffer), [Next]_buffer
               PROVE  [Abstract!Next]_(Contents(buffer))
    OBVIOUS
  <2>1. ASSUME NEW write \in Write, NEW malloc_ok \in MallocOutcomes, Add(write, malloc_ok)
        PROVE  Abstract!Next
    <3>1. malloc_ok = TRUE
      BY <2>1, MallocAssumption
    <3>2. Contents(buffer') = Append(IF Len(Contents(buffer)) = MAX_WRITE_OPERATIONS
                                     THEN Tail(Contents(buffer)) ELSE Contents(buffer), write)
      BY <2>1, <3>1, QueueStep
    <3>3. Contents(buffer)' = Contents(buffer')
      BY DEF Contents, Count, NthSlot
    <3> QED BY <3>2, <3>3 DEF Abstract!Next, Abstract!Add
  <2>2. CASE UNCHANGED buffer
    BY <2>2 DEF Contents, Count, NthSlot
  <2> QED BY <2>1, <2>2 DEF Next
<1> QED BY <1>1, <1>2, QueueInvariant, PTL DEF Spec, KeepsLastWrites, Abstract!Spec

\* While no allocation fails, the slots that own a block are exactly those
\* the indices delimit: the search never stops short of a stored write.
THEOREM WindowIsLive ==
  ASSUME FALSE \notin MallocOutcomes
  PROVE  Spec => []LiveIsWindow
<1>1. ASSUME Queue(buffer) PROVE LiveIsWindow
  <2> DEFINE N == MAX_WRITE_OPERATIONS
  <2>1. /\ buffer \in aesd_circular_buffer /\ buffer.in_offs \in Slot /\ buffer.out_offs \in Slot
        /\ buffer.full \in BOOLEAN
        /\ buffer.full => buffer.in_offs = buffer.out_offs
        /\ (buffer.full /\ buffer.in_offs = buffer.out_offs) \/ GapIsEmpty(buffer)
    BY <1>1 DEF Queue, Ring, aesd_circular_buffer
  <2>2. /\ Count(buffer) \in 0 .. N
        /\ buffer.full => Count(buffer) = N
        /\ ~ buffer.full => Count(buffer) = IF buffer.in_offs >= buffer.out_offs
                                            THEN buffer.in_offs - buffer.out_offs
                                            ELSE buffer.in_offs + N - buffer.out_offs
    BY <2>1, CountBounds DEF Count
  <2>3. ASSUME NEW k \in 0 .. Count(buffer) - 1
        PROVE  NthSlot(buffer, k) \in LiveSlots(buffer)
    <3>1. k \in 0 .. N
      BY <2>2, MaxAssumption
    <3>2. NthSlot(buffer, k) \in Slot
      BY <3>1, <2>1, NthSlotWraps
    <3> QED BY <3>2, <1>1 DEF Queue, LiveSlots
  <2>4. ASSUME NEW i \in LiveSlots(buffer)
        PROVE  \E k \in 0 .. Count(buffer) - 1 : i = NthSlot(buffer, k)
    <3>1. i \in Slot /\ buffer.entry[i].buffptr # NULL
      BY DEF LiveSlots
    <3>2. buffer.full \/ ~ Gap(buffer, i)
      BY <3>1, <2>1 DEF GapIsEmpty
    <3>3. PICK k : k = IF i >= buffer.out_offs THEN i - buffer.out_offs ELSE i + N - buffer.out_offs
      OBVIOUS
    <3>4. k \in 0 .. N - 1
      BY <3>1, <3>3, <2>1, MaxAssumption DEF Slot
    <3>5. NthSlot(buffer, k) = IF buffer.out_offs + k < N THEN buffer.out_offs + k
                               ELSE buffer.out_offs + k - N
      BY <3>4, <2>1, NthSlotWraps, MaxAssumption
    <3>6. i = NthSlot(buffer, k)
      BY <3>1, <3>3, <3>4, <3>5, <2>1, MaxAssumption DEF Slot
    <3>7. k \in 0 .. Count(buffer) - 1
      <4>1. CASE buffer.full
        BY <4>1, <3>4, <2>2
      <4>2. CASE ~ buffer.full
        BY <4>2, <3>1, <3>2, <3>3, <3>4, <2>1, <2>2, MaxAssumption DEF Gap, Slot
      <4> QED BY <4>1, <4>2
    <3> QED BY <3>6, <3>7
  <2> QED BY <2>3, <2>4 DEF LiveIsWindow
<1> QED BY <1>1, QueueInvariant, PTL

\* What aesd_read copies is what a concatenation of the writes would deliver:
\* the search finds the byte of every position and none just behind the last.
THEOREM FindsConcatenation ==
  ASSUME FALSE \notin MallocOutcomes
  PROVE  Spec => []FindIsConcatenation
<1>1. ASSUME Queue(buffer) PROVE FindIsConcatenation
  <2> DEFINE stream == FlattenSeq(Contents(buffer))
             Found(pos) == aesd_circular_buffer_find_entry_offset_for_fpos(buffer, pos)
  <2>1. /\ stream \in Seq(Byte) /\ Len(stream) = buffer.size /\ buffer.size \in Nat
        /\ \A i \in 0 .. Count(buffer) - 1 : \A j \in 1 .. buffer.entry[NthSlot(buffer, i)].size :
             stream[CurrentOffset(buffer)[i] + j] = buffer.entry[NthSlot(buffer, i)].buffptr[j]
    BY <1>1, StreamOfQueue DEF Queue, Ring, aesd_circular_buffer
  <2> HIDE DEF stream
  <2>2. Found(Len(stream)) = NULL
    <3>1. buffer.size >= buffer.size
      BY <2>1
    <3> QED BY <1>1, <2>1, <3>1, FindFinds
  <2>3. ASSUME NEW pos \in 0 .. Len(stream) - 1
        PROVE  /\ Found(pos) # NULL
               /\ buffer.entry[Found(pos).slot].buffptr[Found(pos).offset + 1] = stream[pos + 1]
    <3>1. pos \in Nat /\ ~ (pos >= buffer.size)
      BY <2>1
    <3>2. Found(pos) # NULL
      BY <1>1, <3>1, FindFinds
    <3> DEFINE off == CurrentOffset(buffer)
    <3>3. PICK i \in 0 .. Count(buffer) - 1 :
            /\ Found(pos) = [slot |-> NthSlot(buffer, i), offset |-> pos - off[i]]
            /\ off[i] \in Nat /\ off[i] <= pos
            /\ off[i + 1] = off[i] + buffer.entry[NthSlot(buffer, i)].size
            /\ NthSlot(buffer, i) \in Slot
            /\ pos < off[i + 1]
      BY <1>1, <3>1, <3>2, FindFinds
    <3> HIDE DEF off, Found
    <3>4. buffer.entry[NthSlot(buffer, i)].size \in Nat
      BY <1>1, <3>3 DEF Queue, Ring, aesd_circular_buffer, aesd_buffer_entry
    <3>5. /\ (pos - off[i]) + 1 \in 1 .. buffer.entry[NthSlot(buffer, i)].size
          /\ off[i] + ((pos - off[i]) + 1) = pos + 1
      BY <3>1, <3>3, <3>4, SMTT(30)
    <3>6. stream[pos + 1] = buffer.entry[NthSlot(buffer, i)].buffptr[(pos - off[i]) + 1]
      BY <2>1, <3>5 DEF off
    <3>7. Found(pos).slot = NthSlot(buffer, i) /\ Found(pos).offset = pos - off[i]
      BY <3>3
    <3> QED BY <3>2, <3>6, <3>7
  <2> QED BY <2>2, <2>3 DEF FindIsConcatenation, stream
<1> QED BY <1>1, QueueInvariant, PTL
=============================================================================
