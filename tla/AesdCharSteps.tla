--------------------------- MODULE AesdCharSteps ---------------------------
(***************************************************************************)
(* aesd_read and the store of a line by aesd_write, step by step: the      *)
(* search and the copy of a read; the test, free, clear, malloc, copy and  *)
(* publication of a store.  The assignments to one slot in ClearOldest and *)
(* in Publish are one step each, and so is the walk of Find.               *)
(*                                                                         *)
(* The driver takes no lock: the ring's comments leave it to the caller,   *)
(* and the server's handlers hold fileMutex around their calls.  Locking   *)
(* names the tasks that do.  With all of them in it the steps implement    *)
(* the atomic ring that AesdChar uses.                                     *)
(*                                                                         *)
(* Here a pointer is the address of a block, and memory says what is in    *)
(* it, so that a block can be used after it was freed.                     *)
(***************************************************************************)
EXTENDS CircularBuffer, FiniteSets

CONSTANTS
  Task,            \* threads of user space, each with a file of its own
  Locking,         \* the tasks that hold fileMutex during a call
  Write,           \* the lines they write
  MallocOutcomes,  \* what my_malloc may do
  Block,           \* addresses
  Free, Garbage,   \* contents of a block: not allocated, not yet written
  Nobody

ASSUME LockingAssumption == Locking \subseteq Task /\ Nobody \notin Task
ASSUME WriteAssumption == Write \subseteq (Seq(Byte) \ {<<>>})
ASSUME MallocAssumption == MallocOutcomes \subseteq BOOLEAN
ASSUME BlockAssumption == NULL \notin Block
ASSUME ContentAssumption ==
  Free # Garbage /\ {Free, Garbage} \cap (Seq(Byte) \cup {NULL}) = {}

VARIABLES
  ring,       \* dev->bufferCircular, its buffptr fields addresses
  memory,     \* per block
  fileMutex,
  pc,         \* per task
  line,       \* per task: kbuf
  f_pos,      \* per task
  found,      \* per task: what the search returned
  got,        \* per task: what the last read delivered
  misused,    \* a block was used or freed that is not allocated
  before      \* history: the ring's contents when the current store began

vars == <<ring, memory, fileMutex, pc, line, f_pos, found, got, misused, before>>

NotFound == [slot |-> 0, offset |-> 0]

\* The ring with its pointers followed.
Flat == [ring EXCEPT !.entry = [i \in Slot |->
           [ring.entry[i] EXCEPT !.buffptr = IF @ = NULL THEN NULL ELSE memory[@]]]]

Init ==
  /\ ring = aesd_circular_buffer_init
  /\ memory = [b \in Block |-> Free]
  /\ fileMutex = Nobody
  /\ pc = [t \in Task |-> "idle"]
  /\ line = [t \in Task |-> <<>>]
  /\ f_pos = [t \in Task |-> 0]
  /\ found = [t \in Task |-> NotFound]
  /\ got = [t \in Task |-> <<>>]
  /\ misused = FALSE
  /\ before = aesd_circular_buffer_init

At(t, place) == pc[t] = place /\ ~ misused

Goto(t, place) == pc' = [pc EXCEPT ![t] = place]

\* A mistake: the mutex is not waited for.
EnterUnlocked(t) == UNCHANGED fileMutex

\* The caller's pthread_mutex_lock, if it uses one.
Enter(t) ==
  IF t \in Locking THEN fileMutex = Nobody /\ fileMutex' = t ELSE UNCHANGED fileMutex

\* The locals go out of scope.
Return(t) ==
  /\ At(t, "return")
  /\ Goto(t, "idle")
  /\ fileMutex' = IF fileMutex = t THEN Nobody ELSE fileMutex
  /\ line' = [line EXCEPT ![t] = <<>>]
  /\ found' = [found EXCEPT ![t] = NotFound]
  /\ got' = [got EXCEPT ![t] = <<>>]
  /\ UNCHANGED <<ring, memory, f_pos, misused, before>>

-----------------------------------------------------------------------------
(* aesd_write of a line: aesd_circular_buffer_add_entry.                   *)

BeginWrite(t, buf) ==
  /\ At(t, "idle")
  /\ Enter(t)
  /\ line' = [line EXCEPT ![t] = buf]
  /\ before' = Flat
  /\ Goto(t, "test")
  /\ UNCHANGED <<ring, memory, f_pos, found, got, misused>>

TestFull(t) ==
  /\ At(t, "test")
  /\ Goto(t, IF ring.full THEN "free" ELSE "malloc")
  /\ UNCHANGED <<ring, memory, fileMutex, line, f_pos, found, got, misused, before>>

\* my_free of the oldest entry; of NULL it does nothing.
FreeOldest(t) ==
  LET b == ring.entry[ring.out_offs].buffptr
  IN  /\ At(t, "free")
      /\ misused' = (b # NULL /\ memory[b] = Free)
      /\ memory' = IF b = NULL THEN memory ELSE [memory EXCEPT ![b] = Free]
      /\ Goto(t, "clear")
      /\ UNCHANGED <<ring, fileMutex, line, f_pos, found, got, before>>

ClearOldest(t) ==
  /\ At(t, "clear")
  /\ ring' = Evict(ring)
  /\ Goto(t, "malloc")
  /\ UNCHANGED <<memory, fileMutex, line, f_pos, found, got, misused, before>>

\* The result of my_malloc, any free block or NULL, goes straight into the slot.
Malloc(t) ==
  /\ At(t, "malloc")
  /\ \/ \E b \in Block :
          /\ TRUE \in MallocOutcomes /\ memory[b] = Free
          /\ ring' = [ring EXCEPT !.entry[ring.in_offs].buffptr = b]
          /\ memory' = [memory EXCEPT ![b] = Garbage]
          /\ Goto(t, "copy")
     \/ /\ FALSE \in MallocOutcomes
        /\ ring' = [ring EXCEPT !.entry[ring.in_offs].buffptr = NULL]
        /\ Goto(t, "return")
        /\ UNCHANGED memory
  /\ UNCHANGED <<fileMutex, line, f_pos, found, got, misused, before>>

Usable(b) == b # NULL /\ memory[b] # Free

Copy(t) ==
  LET b == ring.entry[ring.in_offs].buffptr
  IN  /\ At(t, "copy")
      /\ misused' = ~ Usable(b)
      /\ memory' = IF Usable(b) THEN [memory EXCEPT ![b] = line[t]] ELSE memory
      /\ Goto(t, "publish")
      /\ UNCHANGED <<ring, fileMutex, line, f_pos, found, got, before>>

\* A mistake: `full` is not assigned.
PublishNotFull(t) ==
  /\ At(t, "publish")
  /\ ring' = [ring EXCEPT !.size = @ + Len(line[t]),
                          !.entry[ring.in_offs].size = Len(line[t]),
                          !.in_offs = Advance(@)]
  /\ Goto(t, "return")
  /\ UNCHANGED <<memory, fileMutex, line, f_pos, found, got, misused, before>>

Publish(t) ==
  /\ At(t, "publish")
  /\ ring' = [ring EXCEPT !.size = @ + Len(line[t]),
                          !.entry[ring.in_offs].size = Len(line[t]),
                          !.in_offs = Advance(@),
                          !.full = (Advance(ring.in_offs) = ring.out_offs)]
  /\ before' = aesd_circular_buffer_init
  /\ Goto(t, "return")
  /\ UNCHANGED <<memory, fileMutex, line, f_pos, found, got, misused>>

-----------------------------------------------------------------------------
(* aesd_read.                                                              *)

\* A mistake: readers do not lock.
FindUnlocked(t) ==
  /\ At(t, "idle")
  /\ LET hit == aesd_circular_buffer_find_entry_offset_for_fpos(ring, f_pos[t])
     IN  IF hit = NULL
         THEN /\ Goto(t, "return")
              /\ f_pos' = [f_pos EXCEPT ![t] = 0]
              /\ UNCHANGED found
         ELSE /\ Goto(t, "copy_to_user")
              /\ found' = [found EXCEPT ![t] = hit]
              /\ UNCHANGED f_pos
  /\ UNCHANGED <<ring, memory, fileMutex, line, got, misused, before>>

\* The search.  At the end of the stream the caller closes its file.
Find(t) ==
  /\ At(t, "idle")
  /\ Enter(t)
  /\ LET hit == aesd_circular_buffer_find_entry_offset_for_fpos(ring, f_pos[t])
     IN  IF hit = NULL
         THEN /\ Goto(t, "return")
              /\ f_pos' = [f_pos EXCEPT ![t] = 0]
              /\ UNCHANGED found
         ELSE /\ Goto(t, "copy_to_user")
              /\ found' = [found EXCEPT ![t] = hit]
              /\ UNCHANGED f_pos
  /\ UNCHANGED <<ring, memory, line, got, misused, before>>

\* Size and pointer are read again from the slot.  A size that has become less
\* than the offset wraps around.
CopyToUser(t) ==
  LET e == ring.entry[found[t].slot]
      good == Usable(e.buffptr) /\ e.size >= found[t].offset
  IN  /\ At(t, "copy_to_user")
      /\ misused' = ~ good
      /\ got' = [got EXCEPT ![t] = IF good /\ memory[e.buffptr] # Garbage
                                   THEN SubSeq(memory[e.buffptr], found[t].offset + 1, e.size)
                                   ELSE <<>>]
      /\ f_pos' = [f_pos EXCEPT ![t] = @ + Len(got'[t])]
      /\ Goto(t, "return")
      /\ UNCHANGED <<ring, memory, fileMutex, line, found, before>>

-----------------------------------------------------------------------------

Next ==
  \E t \in Task :
    \/ \E buf \in Write : BeginWrite(t, buf)
    \/ TestFull(t) \/ FreeOldest(t) \/ ClearOldest(t) \/ Malloc(t) \/ Copy(t) \/ Publish(t)
    \/ Find(t) \/ CopyToUser(t)
    \/ Return(t)

Spec == Init /\ [][Next]_vars

-----------------------------------------------------------------------------
(* Properties of tasks that all lock.                                      *)

Storing(t) == pc[t] \in {"test", "free", "clear", "malloc", "copy", "publish"}

\* No call reads, writes or frees a block that is not allocated, though
\* pointers are read in one step and used in a later one, and whatever
\* my_malloc does.
NoMisuse == ~ misused

\* Between calls every allocated block is the block of exactly one slot, and
\* has been written.
BlocksOwned ==
  (\A t \in Task : ~ Storing(t)) =>
    /\ \A b \in Block : memory[b] # Free =>
         Cardinality({i \in Slot : ring.entry[i].buffptr = b}) = 1
    /\ \A i \in LiveSlots(ring) : memory[ring.entry[i].buffptr] \notin {Free, Garbage}

\* What a read delivers is what a search in one step would have found at that
\* moment: no line moves under a reader.
ReadIsAtomic ==
  [][\A t \in Task : CopyToUser(t) =>
       LET hit == aesd_circular_buffer_find_entry_offset_for_fpos(ring, f_pos[t])
       IN  /\ hit # NULL
           /\ LET e == Flat.entry[hit.slot]
              IN  /\ e.buffptr \notin {NULL, Free, Garbage}
                  /\ got'[t] = SubSeq(e.buffptr, hit.offset + 1, e.size)]_vars

\* The steps implement the ring whose add_entry is one step: a store takes
\* effect with its last assignment, or not at all.
Atomic == INSTANCE CircularBufferMachine
            WITH buffer <- IF \E t \in Task : Storing(t) THEN before ELSE Flat

ImplementsAtomicRing == Atomic!Spec
=============================================================================
