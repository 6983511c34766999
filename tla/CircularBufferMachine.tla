----------------------- MODULE CircularBufferMachine -----------------------
(***************************************************************************)
(* The ring on its own: a caller that keeps adding entries, as the unit    *)
(* test of assignment 7 and the driver's write path do.                    *)
(***************************************************************************)
EXTENDS CircularBuffer, SequencesExt

CONSTANTS
  Write,           \* the contents a caller may add
  MallocOutcomes   \* what my_malloc may do: {TRUE} or {TRUE, FALSE}

\* Every write the driver adds contains a newline, so it is not empty.
ASSUME WriteAssumption == Write \subseteq (Seq(Byte) \ {<<>>})
ASSUME MallocAssumption == MallocOutcomes \subseteq BOOLEAN

VARIABLE buffer

Init == buffer = aesd_circular_buffer_init

Add(write, malloc_ok) ==
  buffer' = aesd_circular_buffer_add_entry(buffer,
                [buffptr |-> write, size |-> Len(write)], malloc_ok)

Next == \E write \in Write, malloc_ok \in MallocOutcomes : Add(write, malloc_ok)

Spec == Init /\ [][Next]_buffer

-----------------------------------------------------------------------------
(* Properties that hold whatever my_malloc does.                           *)

\* Every field of struct aesd_circular_buffer stays in its range; in
\* particular the unsigned `size` never wraps below zero.
TypeOK == buffer \in aesd_circular_buffer

\* `size`, which llseek(SEEK_END) trusts, is the number of bytes stored:
\* each slot's size is the length of its block, zero without one, and a
\* running total over the slots ends at `size`.  It follows every eviction,
\* every store and every failed allocation.
SizeIsSum ==
  /\ \A i \in Slot : buffer.entry[i].size =
       IF buffer.entry[i].buffptr = NULL THEN 0 ELSE Len(buffer.entry[i].buffptr)
  /\ \E total \in [0 .. MAX_WRITE_OPERATIONS -> 0 .. buffer.size] :
       /\ total[0] = 0
       /\ total[MAX_WRITE_OPERATIONS] = buffer.size
       /\ \A i \in Slot : total[i + 1] = total[i] + buffer.entry[i].size

\* add_entry stores its pointer over whatever the slot at in_offs holds.  A
\* block may be there only when this call is about to free it (the ring is
\* full and the slot is the oldest): no block is ever leaked.
NoLeakOnAdd ==
  buffer.in_offs \in LiveSlots(buffer) =>
    buffer.full /\ buffer.in_offs = buffer.out_offs

-----------------------------------------------------------------------------
(* Properties of a ring whose allocations succeed.                         *)

\* The slots that own a block are exactly those between the two indices, and
\* `full` is what tells a full ring from an empty one.
LiveIsWindow ==
  LiveSlots(buffer) = {NthSlot(buffer, k) : k \in 0 .. Count(buffer) - 1}

\* The search behind aesd_read finds, for every position, the byte that a
\* concatenation of the stored writes has there, and nothing at its end.
FindIsConcatenation ==
  LET stream == FlattenSeq(Contents(buffer))
      Found(pos) == aesd_circular_buffer_find_entry_offset_for_fpos(buffer, pos)
  IN  /\ \A pos \in 0 .. Len(stream) - 1 :
           /\ Found(pos) # NULL
           /\ buffer.entry[Found(pos).slot].buffptr[Found(pos).offset + 1] = stream[pos + 1]
      /\ Found(Len(stream)) = NULL

\* The ring implements the sequence of the last MAX_WRITE_OPERATIONS writes.
Abstract == INSTANCE LastWrites
              WITH Capacity <- MAX_WRITE_OPERATIONS, log <- Contents(buffer)

KeepsLastWrites == Abstract!Spec

=============================================================================
