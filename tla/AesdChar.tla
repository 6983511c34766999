------------------------------ MODULE AesdChar ------------------------------
(***************************************************************************)
(* The character driver, aesd-char-driver/main.c: module load and unload   *)
(* and the file operations on one device, each call as one atomic step.    *)
(* (Nothing in the driver makes them atomic; the server does, by holding   *)
(* fileMutex around every use of the device.)                              *)
(*                                                                         *)
(* `last` is the most recent call with its result, as user space sees it:  *)
(* err is "OK" or the errno, val the returned number, data the bytes a     *)
(* read delivered, arg the seek an ioctl asked for.  heap and regions      *)
(* count the kmalloc'ed blocks and the device regions the driver holds.    *)
(***************************************************************************)
EXTENDS CircularBuffer, TemporaryBuffer, FiniteSets

CONSTANTS
  Newline,         \* the byte that ends a write operation
  File,            \* struct file: one per open()
  Data,            \* what user space may pass to write()
  Counts,          \* and to read()
  Offsets,         \* and to llseek()
  Cmds,            \* write_cmd of the ioctl: may lie outside the ring
  CmdOffsets,      \* write_cmd_offset
  KmallocOutcomes, \* {TRUE}, or {TRUE, FALSE} when memory may run out
  MaxPartial,      \* bound on the unfinished line
  MaxPos,          \* bound on SEEK_SET and SEEK_CUR
  MaxLost          \* bound on what failed loads leave behind

ASSUME NewlineAssumption == Newline \in Byte
ASSUME DataAssumption == Data \subseteq Seq(Byte)
ASSUME CountsAssumption == Counts \subseteq Nat
ASSUME OffsetsAssumption == Offsets \subseteq Int
ASSUME SeekAssumption == Cmds \subseteq Nat /\ CmdOffsets \subseteq Nat
ASSUME KmallocAssumption == KmallocOutcomes \subseteq BOOLEAN
ASSUME BoundsAssumption == MaxPartial \in Nat /\ MaxPos \in Nat /\ MaxLost \in Nat

VARIABLES
  loaded,           \* the module is in the kernel
  bufferCircular,   \* aesd_device.bufferCircular
  bufferTemperary,  \* aesd_device.bufferTemperary
  heap,             \* kmalloc'ed blocks
  regions,          \* chrdev regions
  opened,           \* files with an open() and no release()
  f_pos,            \* filp->f_pos
  last              \* the last call and its result

device == <<loaded, bufferCircular, bufferTemperary, heap, regions>>
vars == <<loaded, bufferCircular, bufferTemperary, heap, regions, opened, f_pos, last>>

NoArg == <<0, 0>>

Result(call, f, err, val, data, arg) ==
  last' = [call |-> call, file |-> f, err |-> err, val |-> val, data |-> data, arg |-> arg]

Init ==
  /\ loaded = FALSE
  /\ bufferCircular = aesd_circular_buffer_init
  /\ bufferTemperary = aesd_temperary_buffer_init
  /\ heap = 0
  /\ regions = 0
  /\ opened = {}
  /\ f_pos = [f \in File |-> 0]
  /\ last = [call |-> "none", file |-> NULL, err |-> "OK", val |-> 0, data |-> <<>>, arg |-> NoArg]

-----------------------------------------------------------------------------
(* aesd_init_module and its failures: no region, no memory for the first   *)
(* or the second structure, no cdev.                                       *)

InsmodFails(err, blocks, kept_regions) ==
  /\ ~ loaded
  /\ heap + blocks <= MaxLost /\ regions + kept_regions <= MaxLost
  /\ heap' = heap + blocks
  /\ regions' = regions + kept_regions
  /\ Result("init", NULL, err, 0, <<>>, NoArg)
  /\ UNCHANGED <<loaded, bufferCircular, bufferTemperary, opened, f_pos>>

NoRegion == InsmodFails("EBUSY", 0, 0)

\* -ENOMEM returns at once: the region stays registered, the first structure
\* stays allocated when it is the second that failed.
NoDeviceMemory ==
  FALSE \in KmallocOutcomes /\ \E blocks \in 0 .. 1 : InsmodFails("ENOMEM", blocks, 1)

\* cdev_add failed: the region is given back, the two structures are not.
NoCdev == InsmodFails("ENODEV", 2, 0)

aesd_init_module ==
  /\ ~ loaded
  /\ loaded' = TRUE
  /\ regions' = regions + 1
  /\ heap' = heap + 2
  /\ bufferCircular' = aesd_circular_buffer_init
  /\ bufferTemperary' = aesd_temperary_buffer_init
  /\ Result("init", NULL, "OK", 0, <<>>, NoArg)
  /\ UNCHANGED <<opened, f_pos>>

\* The kernel refuses to unload while a file is open (fops.owner).
aesd_cleanup_module ==
  /\ loaded
  /\ opened = {}
  /\ loaded' = FALSE
  /\ regions' = regions - 1
  /\ heap' = heap - Cardinality(LiveSlots(bufferCircular)) - 1
                  - Blocks(bufferTemperary.buffptr) - 1
  /\ bufferTemperary' = aesd_temperary_buffer_init
  /\ Result("cleanup", NULL, "OK", 0, <<>>, NoArg)
  /\ UNCHANGED <<bufferCircular, opened, f_pos>>

-----------------------------------------------------------------------------
(* File operations.  The virtual file system rejects a read or a write at  *)
(* a negative position before it reaches the driver.                       *)

aesd_open(f) ==
  /\ loaded
  /\ f \notin opened
  /\ opened' = opened \cup {f}
  /\ f_pos' = [f_pos EXCEPT ![f] = 0]
  /\ Result("open", f, "OK", 0, <<>>, NoArg)
  /\ UNCHANGED device

aesd_release(f) ==
  /\ f \in opened
  /\ opened' = opened \ {f}
  /\ f_pos' = [f_pos EXCEPT ![f] = 0]
  /\ Result("release", f, "OK", 0, <<>>, NoArg)
  /\ UNCHANGED device

Fails(call, f, err, arg) ==
  /\ f \in opened
  /\ Result(call, f, err, 0, <<>>, arg)
  /\ UNCHANGED <<device, opened, f_pos>>

rw_verify_area(call, f) == f_pos[f] < 0 /\ Fails(call, f, "EINVAL", NoArg)

\* What copy_to_user is asked to copy: from the position to the end of the
\* entry that holds it, at most count bytes.
Readable(f, count) ==
  LET found == aesd_circular_buffer_find_entry_offset_for_fpos(bufferCircular, f_pos[f])
  IN  IF found = NULL THEN <<>>
      ELSE LET entry == bufferCircular.entry[found.slot]
               available == entry.size - found.offset
               to_copy == IF count < available THEN count ELSE available
           IN  SubSeq(entry.buffptr, found.offset + 1, found.offset + to_copy)

aesd_read(f, count) ==
  /\ f \in opened
  /\ f_pos[f] >= 0
  /\ LET data == Readable(f, count)
     IN  /\ f_pos' = [f_pos EXCEPT ![f] = @ + Len(data)]
         /\ Result("read", f, "OK", Len(data), data, NoArg)
  /\ UNCHANGED <<device, opened>>

ReadFaults(f, count) ==
  /\ f_pos[f] >= 0
  /\ Readable(f, count) # <<>>
  /\ Fails("read", f, "EFAULT", NoArg)

-----------------------------------------------------------------------------
(* aesd_write.  The whole of a write that contains a newline ends a write  *)
(* operation, wherever the newline is.  The position is neither used nor   *)
(* moved.  kbuf is allocated first and freed on every way out, so it does  *)
(* not appear in heap'.                                                    *)

HasNewline(buf) == \E i \in 1 .. Len(buf) : buf[i] = Newline

WriteNoKbuf(f, buf) ==
  /\ f_pos[f] >= 0
  /\ FALSE \in KmallocOutcomes
  /\ Fails("write", f, "ENOMEM", NoArg)

WriteFaults(f, buf) ==
  /\ f_pos[f] >= 0
  /\ buf # <<>>
  /\ Fails("write", f, "EFAULT", NoArg)

\* A mistake: this way out does not free kbuf.
WriteNoTemperaryLeaks(f, buf) ==
  /\ f \in opened
  /\ f_pos[f] >= 0
  /\ FALSE \in KmallocOutcomes
  /\ ~ HasNewline(buf) \/ ~ aesd_temperary_buffer_is_empty(bufferTemperary)
  /\ heap' = heap + 1
  /\ Result("write", f, "ENOMEM", 0, <<>>, NoArg)
  /\ UNCHANGED <<loaded, bufferCircular, bufferTemperary, regions, opened, f_pos>>

\* aesd_temperary_buffer_add found no memory; what it held is kept.
WriteNoTemperary(f, buf) ==
  /\ f_pos[f] >= 0
  /\ FALSE \in KmallocOutcomes
  /\ ~ HasNewline(buf) \/ ~ aesd_temperary_buffer_is_empty(bufferTemperary)
  /\ Fails("write", f, "ENOMEM", NoArg)

Written(f, buf) ==
  /\ f \in opened
  /\ f_pos[f] >= 0
  /\ Result("write", f, "OK", Len(buf), <<>>, NoArg)
  /\ UNCHANGED <<loaded, regions, opened, f_pos>>

\* A whole line.  The result is count whether or not the ring had memory.
WriteLine(f, buf, malloc_ok) ==
  /\ HasNewline(buf)
  /\ aesd_temperary_buffer_is_empty(bufferTemperary)
  /\ bufferCircular' = aesd_circular_buffer_add_entry(bufferCircular,
                         [buffptr |-> buf, size |-> Len(buf)], malloc_ok)
  /\ heap' = heap + AddEntryBlocks(bufferCircular, malloc_ok)
  /\ UNCHANGED bufferTemperary
  /\ Written(f, buf)

\* The rest of a line whose beginning is in the temporary buffer.  The
\* buffer's block is replaced by the joined one, which is freed at the end.
WriteRest(f, buf, malloc_ok) ==
  LET joined == aesd_temperary_buffer_add(bufferTemperary, buf)
  IN  /\ HasNewline(buf)
      /\ ~ aesd_temperary_buffer_is_empty(bufferTemperary)
      /\ bufferCircular' = aesd_circular_buffer_add_entry(bufferCircular,
                             [buffptr |-> SubSeq(joined.buffptr, 1, joined.size),
                              size |-> joined.size], malloc_ok)
      /\ bufferTemperary' = aesd_temperary_buffer_delete(joined)
      /\ heap' = heap + 1 - Blocks(bufferTemperary.buffptr)
                      + AddEntryBlocks(bufferCircular, malloc_ok)
                      - Blocks(joined.buffptr)
      /\ Written(f, buf)

WritePartial(f, buf) ==
  /\ ~ HasNewline(buf)
  /\ bufferTemperary.size + Len(buf) <= MaxPartial
  /\ bufferTemperary' = aesd_temperary_buffer_add(bufferTemperary, buf)
  /\ heap' = heap + 1 - Blocks(bufferTemperary.buffptr)
  /\ UNCHANGED bufferCircular
  /\ Written(f, buf)

-----------------------------------------------------------------------------
(* aesd_llseek and aesd_ioctl.                                             *)

Moved(call, f, pos, val, arg) ==
  /\ f \in opened
  /\ f_pos' = [f_pos EXCEPT ![f] = pos]
  /\ Result(call, f, "OK", val, <<>>, arg)
  /\ UNCHANGED <<device, opened>>

SeekSet(f, offset) ==
  \/ /\ offset \in 0 .. MaxPos
     /\ Moved("llseek", f, offset, offset, NoArg)
  \/ offset < 0 /\ Fails("llseek", f, "EINVAL", NoArg)

SeekCur(f, offset) ==
  \/ /\ f_pos[f] + offset \in 0 .. MaxPos
     /\ Moved("llseek", f, f_pos[f] + offset, f_pos[f] + offset, NoArg)
  \/ f_pos[f] + offset < 0 /\ Fails("llseek", f, "EINVAL", NoArg)

\* No check: the position, and with it the result, may be negative.
SeekEnd(f, offset) ==
  LET pos == bufferCircular.size + offset
  IN  Moved("llseek_end", f, pos, pos, NoArg)

SeekOther(f) == Moved("llseek", f, f_pos[f], f_pos[f], NoArg)

\* AESDCHAR_IOCSEEKTO.  The offset is compared with the size in the slot
\* numbered write_cmd, the search counts write_cmd slots from the oldest.
IocSeekTo(f, write_cmd, write_cmd_offset) ==
  LET arg == <<write_cmd, write_cmd_offset>>
      valid == /\ write_cmd < MAX_WRITE_OPERATIONS
               /\ write_cmd_offset < bufferCircular.entry[write_cmd].size
  IN  \/ ~ valid /\ Fails("ioctl", f, "EINVAL", arg)
      \/ /\ valid
         /\ Moved("ioctl", f, aesd_circular_buffer_find_entry_for_ioctl(
                                bufferCircular, write_cmd, write_cmd_offset), 0, arg)

\* Another magic or number; an unreadable argument.
IocRejected(f) == \E err \in {"EINVAL", "EFAULT"} : Fails("ioctl_rejected", f, err, NoArg)

-----------------------------------------------------------------------------

Next ==
  \/ NoRegion
  \/ NoDeviceMemory
  \/ NoCdev
  \/ aesd_init_module
  \/ aesd_cleanup_module
  \/ \E f \in File :
       \/ aesd_open(f)
       \/ aesd_release(f)
       \/ \E call \in {"read", "write"} : rw_verify_area(call, f)
       \/ \E count \in Counts : aesd_read(f, count) \/ ReadFaults(f, count)
       \/ \E buf \in Data :
            \/ WriteNoKbuf(f, buf)
            \/ WriteFaults(f, buf)
            \/ WriteNoTemperary(f, buf)
            \/ \E malloc_ok \in KmallocOutcomes :
                 WriteLine(f, buf, malloc_ok) \/ WriteRest(f, buf, malloc_ok)
            \/ WritePartial(f, buf)
       \/ \E offset \in Offsets : SeekSet(f, offset) \/ SeekCur(f, offset) \/ SeekEnd(f, offset)
       \/ SeekOther(f)
       \/ \E cmd \in Cmds, cmd_offset \in CmdOffsets : IocSeekTo(f, cmd, cmd_offset)
       \/ IocRejected(f)

Spec == Init /\ [][Next]_vars

-----------------------------------------------------------------------------
(* Properties.                                                             *)

\* The structures keep their types and the counts of blocks and regions never
\* go below what the loaded module needs.
TypeOK ==
  /\ loaded \in BOOLEAN
  /\ bufferCircular \in aesd_circular_buffer
  /\ bufferTemperary \in aesd_temperary_buffer
  /\ heap \in Nat /\ regions \in Nat
  /\ opened \subseteq File
  /\ f_pos \in [File -> Int]
  /\ last.err \in {"OK", "EINVAL", "EFAULT", "ENOMEM", "EBUSY", "ENODEV"}

\* The blocks that the device structure leads to.
Reachable ==
  IF loaded THEN 2 + Cardinality(LiveSlots(bufferCircular)) + Blocks(bufferTemperary.buffptr)
  ELSE 0

\* No call on a loaded module, its load and its unload included, loses or
\* doubly frees a block, whichever of its allocations fail: evicted entries,
\* joined partial writes and failed adds all keep the balance.
NoBlockLost == [][loaded \/ loaded' => heap' - Reachable' = heap - Reachable]_vars

\* Where byte `offset` of the n-th write from the oldest is in the stream, or
\* -1 when there is no such byte.
TruePosition(ring, n, offset) ==
  IF n < Count(ring) /\ offset < ring.entry[NthSlot(ring, n)].size
  THEN CurrentOffset(ring)[n] + offset
  ELSE -1

SeekRight ==
  LET f == last'.file
      true_position == TruePosition(bufferCircular, last'.arg[1], last'.arg[2])
  IN  IF true_position = -1 THEN last'.err = "EINVAL"
      ELSE last'.err = "OK" /\ f_pos'[f] = true_position

\* Until the ring has wrapped, and again whenever the oldest write is back in
\* slot 0, AESDCHAR_IOCSEEKTO accepts exactly the bytes that exist and lands
\* on the byte that was asked for.
SeekExactWhenAligned ==
  [][last'.call = "ioctl" /\ bufferCircular.out_offs = 0 => SeekRight]_vars

\* aesd_ioctl.h:27 and :31 say the seek is to "the zero referenced write
\* command" and the "offset within the write", whatever was evicted before.
SeekLandsOnWrite == [][last'.call = "ioctl" => SeekRight]_vars

\* While memory lasts the driver is a LineDevice: the stream is the last ten
\* operations in order, partial writes of all files join one operation, reads
\* deliver its bytes without a gap and report the end only at the end.
Device == INSTANCE LineDevice
            WITH Capacity <- MAX_WRITE_OPERATIONS,
                 lines <- IF loaded THEN Contents(bufferCircular) ELSE <<>>,
                 partial <- IF bufferTemperary.buffptr = NULL THEN <<>> ELSE bufferTemperary.buffptr,
                 pos <- f_pos

ImplementsLineDevice == Device!Spec
=============================================================================
