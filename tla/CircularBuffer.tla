--------------------------- MODULE CircularBuffer ---------------------------
(***************************************************************************)
(* The ring of the most recent writes, aesd_circular_buffer.c.             *)
(*                                                                         *)
(* The C structure is one record, the operations are operators on it, so   *)
(* that the ring can be checked alone (CircularBufferMachine) and inside   *)
(* the driver (AesdChar).  The only outside influence is my_malloc: its     *)
(* outcome is the argument malloc_ok.                                      *)
(***************************************************************************)
EXTENDS Memory

CONSTANT MAX_WRITE_OPERATIONS  \* AESDCHAR_MAX_WRITE_OPERATIONS_SUPPORTED

ASSUME MaxAssumption == MAX_WRITE_OPERATIONS \in Nat \ {0}

-----------------------------------------------------------------------------
(* The structures of aesd_circular_buffer.h.                               *)

Slot == 0 .. MAX_WRITE_OPERATIONS - 1

\* A search that found something did not return NULL.
ASSUME FoundAssumption == NULL \notin [slot : Slot, offset : Nat]

aesd_buffer_entry == [buffptr : Seq(Byte) \cup {NULL}, size : Nat]

aesd_circular_buffer ==
  [entry    : [Slot -> aesd_buffer_entry],
   in_offs  : Slot,
   out_offs : Slot,
   full     : BOOLEAN,
   size     : Nat]

NoEntry == [buffptr |-> NULL, size |-> 0]

aesd_circular_buffer_init ==
  [entry    |-> [i \in Slot |-> NoEntry],
   in_offs  |-> 0,
   out_offs |-> 0,
   full     |-> FALSE,
   size     |-> 0]

\* A mistake: the index runs off the array.
AdvanceNoWrap(i) == i + 1

Advance(i) == (i + 1) % MAX_WRITE_OPERATIONS

-----------------------------------------------------------------------------
(* aesd_circular_buffer_add_entry: make room, then store.                  *)

\* Mistakes: the total forgets the freed bytes; the read end stays.
EvictKeepsTotal(buffer) ==
  [buffer EXCEPT !.entry[buffer.out_offs] = NoEntry, !.out_offs = Advance(@)]

EvictStays(buffer) ==
  [buffer EXCEPT !.entry[buffer.out_offs] = NoEntry,
                 !.size = @ - buffer.entry[buffer.out_offs].size]

\* The oldest entry is freed and the read end moves on.  `full` keeps its
\* value: it is only assigned when an entry is stored.
Evict(buffer) ==
  [buffer EXCEPT !.entry[buffer.out_offs] = NoEntry,
                 !.size = @ - buffer.entry[buffer.out_offs].size,
                 !.out_offs = Advance(@)]

\* Mistakes: the indices are compared before the write end moves; `full` is
\* never set.
StoreComparesEarly(buffer, add_entry) ==
  [buffer EXCEPT !.entry[buffer.in_offs] = add_entry,
                 !.size = @ + add_entry.size,
                 !.in_offs = Advance(@),
                 !.full = (buffer.in_offs = buffer.out_offs)]

StoreNeverFull(buffer, add_entry) ==
  [buffer EXCEPT !.entry[buffer.in_offs] = add_entry,
                 !.size = @ + add_entry.size,
                 !.in_offs = Advance(@)]

\* The slot of in_offs receives a copy of the caller's bytes.
Store(buffer, add_entry) ==
  [buffer EXCEPT !.entry[buffer.in_offs] = add_entry,
                 !.size = @ + add_entry.size,
                 !.in_offs = Advance(@),
                 !.full = (Advance(buffer.in_offs) = buffer.out_offs)]

\* When my_malloc fails its null result is already in the slot.
StoreFailed(buffer) == [buffer EXCEPT !.entry[buffer.in_offs].buffptr = NULL]

aesd_circular_buffer_add_entry(buffer, add_entry, malloc_ok) ==
  LET room == IF buffer.full THEN Evict(buffer) ELSE buffer
  IN  IF malloc_ok THEN Store(room, add_entry) ELSE StoreFailed(room)

\* What the call does to the number of allocated blocks.
AddEntryBlocks(buffer, malloc_ok) ==
  (IF malloc_ok THEN 1 ELSE 0)
    - (IF buffer.full THEN Blocks(buffer.entry[buffer.out_offs].buffptr) ELSE 0)

-----------------------------------------------------------------------------
(* The two searches.  Both walk from out_offs and give up at the first     *)
(* slot without a block.                                                   *)

NthSlot(buffer, i) == (buffer.out_offs + i) % MAX_WRITE_OPERATIONS

\* The walk gets as far as the i-th slot, and that slot has a block.
Reaches(buffer, i) ==
  \A j \in 0 .. i : buffer.entry[NthSlot(buffer, j)].buffptr # NULL

\* current_offset when the walk arrives at its i-th slot.
CurrentOffset(buffer) ==
  LET offset[i \in 0 .. MAX_WRITE_OPERATIONS] ==
        IF i = 0 THEN 0
        ELSE offset[i - 1] + buffer.entry[NthSlot(buffer, i - 1)].size
  IN  offset

\* A mistake: <= for < at the end of an entry.
FindIncludesEnd(buffer, char_offset) ==
  LET offset == CurrentOffset(buffer)
      hits   == {i \in Slot : /\ Reaches(buffer, i)
                              /\ offset[i] <= char_offset
                              /\ char_offset <= offset[i + 1]}
  IN  IF hits = {}
      THEN NULL
      ELSE LET i == CHOOSE h \in hits : TRUE
           IN  [slot |-> NthSlot(buffer, i), offset |-> char_offset - offset[i]]

\* The slot that holds character char_offset, and the offset inside it.
aesd_circular_buffer_find_entry_offset_for_fpos(buffer, char_offset) ==
  LET offset == CurrentOffset(buffer)
      hits   == {i \in Slot : /\ Reaches(buffer, i)
                              /\ offset[i] <= char_offset
                              /\ char_offset < offset[i + 1]}
  IN  IF hits = {}
      THEN NULL
      ELSE LET i == CHOOSE h \in hits : TRUE
           IN  [slot |-> NthSlot(buffer, i), offset |-> char_offset - offset[i]]

\* A mistake: the offset inside the write is forgotten.
SeekToStartOfWrite(buffer, write_cmd, write_cmd_offset) ==
  IF /\ write_cmd \in Slot
     /\ Reaches(buffer, write_cmd)
     /\ write_cmd_offset < buffer.entry[NthSlot(buffer, write_cmd)].size
  THEN CurrentOffset(buffer)[write_cmd]
  ELSE 0

\* *entry_offset_byte_rtn: the position of byte write_cmd_offset of the
\* write_cmd-th write counted from the oldest, 0 where the search returns NULL.
aesd_circular_buffer_find_entry_for_ioctl(buffer, write_cmd, write_cmd_offset) ==
  IF /\ write_cmd \in Slot
     /\ Reaches(buffer, write_cmd)
     /\ write_cmd_offset < buffer.entry[NthSlot(buffer, write_cmd)].size
  THEN CurrentOffset(buffer)[write_cmd] + write_cmd_offset
  ELSE 0

-----------------------------------------------------------------------------
(* What the ring stands for: used by the properties, not by the code.      *)

\* The slots that own a block of memory.
LiveSlots(buffer) == {i \in Slot : buffer.entry[i].buffptr # NULL}

\* How many writes the indices say are in the ring.
Count(buffer) ==
  IF buffer.full THEN MAX_WRITE_OPERATIONS
  ELSE IF buffer.in_offs >= buffer.out_offs
       THEN buffer.in_offs - buffer.out_offs
       ELSE buffer.in_offs + MAX_WRITE_OPERATIONS - buffer.out_offs

\* Those writes, oldest first.
Contents(buffer) ==
  [k \in 1 .. Count(buffer) |-> buffer.entry[NthSlot(buffer, k - 1)].buffptr]
=============================================================================
