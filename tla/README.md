# Verification of aesdsocket and the aesdchar driver

TLA+ models of the server (`server/src/aesdsocket.c`), of the character driver
behind it (`aesd-char-driver/`) and of the process exercises
(`examples/systemcalls`), TLC configurations that check them on
small instances, and TLAPS proofs of all their safety properties for
every size of the instance. Every definition that models code is listed with its lines in `PROJECT.json`
under `map`.

## 1. The system

| component | source | state | operations |
|---|---|---|---|
| circular buffer | `aesd_circular_buffer.c/.h` | ten slots (pointer, size), `in_offs`, `out_offs`, `full`, total `size` | init, add_entry, find by position, find for ioctl, cleanup |
| temporary buffer | `aesd_temperaty_buffer.c/.h` (driver and server copies) | one growing block | init, add, is_empty, delete, clean |
| memory wrappers | `common.c` | allocated blocks | my_malloc, my_free |
| character driver | `aesd-char-driver/main.c` | `aesd_device` (one ring, one temporary buffer), `f_pos` per open file, chrdev region | load, unload, open, release, read, write, llseek, ioctl AESDCHAR_IOCSEEKTO |
| server threads | `server/src/aesdsocket.c` | `stop`, `clientThreads`, `threadCount`, `pipeClientHandler`, `fileMutex`, a socket and a buffer per handler | start-up, accept loop, signal handlers, `clientHandler`, `cleanupMain`, `logAndExit`, `cleanupClientHandler` |
| line framing and replies | same file, lines 198-278 and 419-569 | `bufferString` per connection | newline scan, command scan, write of a line, reply |
| timestamp thread | same file, compiled out by `USE_AESD_CHAR_DEVICE 1` | timer | append a time every ten seconds |
| service script | `server/aesdsocket-start-stop` | pid file | start, stop |
| systemcalls | `examples/systemcalls` | parent, child, exit status per call | do_system, do_exec, do_exec_redirect |
| other exercises | `examples/threading`, `finder-app` | none, or one mutex | a thread that waits and locks, sequential tools |

How they interact. A client's bytes are received by its handler into a
temporary buffer. Once a newline is seen the handler locks `fileMutex`, opens
`/dev/aesdchar`, writes the line (or issues the ioctl when the line is a seek
command), reads the device to the end, sends what it read to the client, and
unlocks. The driver gathers partial writes in its own temporary buffer and
moves complete lines to the ring, which evicts the oldest of ten. A signal sets
`stop`; main then leaves its accept loop, writes one byte per thread ever
created to the pipe all handlers poll, and joins the threads. An error in a
handler does the same from the handler's own thread (`logAndExit`).

What is hard. The ring tells full from empty only by a flag, and an allocation
can fail between eviction and store. Positions are relative to an oldest entry
that moves. All handlers share one wakeup pipe, several may see the same byte,
and several threads may be in `cleanupMain` at once. A signal may fall anywhere,
in any thread. A descriptor is closed twice while main accepts new
connections. TCP cuts lines anywhere, the newline is looked for in the wrong
bytes, and the C library cuts a long line again. The driver has no lock of its
own. `PROJECT.json` lists these under `hazards`, each at its line and
with the properties that would notice it going wrong, or a note where none does.

What makes the parts correct:

* ring: it is the queue of the last ten writes; `size` is the stored total; no
  block leaks; the search returns exactly the bytes of the concatenation;
* driver: partial writes join, reads deliver the stream without a gap, seeks land
  where they say, no call loses memory;
* server: every handler is woken and finishes, the mutex is not left behind,
  the process ends once it has begun to, a handler touches only its own socket,
  no client is dropped without a reason;
* replies: each is one state of the device, each message is one operation, two
  clients' bytes are not mixed;
* systemcalls: success is reported only for the call's own command.

## 2. The modules

| module | what it is |
|---|---|
| `Memory` | a pointer is the bytes of its block, or `NULL` |
| `CircularBuffer` | the ring as a record and its operations as operators |
| `CircularBufferMachine` | the ring alone, with a caller that keeps adding; its properties |
| `LastWrites` | abstract: the sequence of the last `Capacity` writes |
| `CircularBufferLemmas` | what the ring's operators do, for every capacity |
| `CircularBufferProofs` | the theorems about the ring |
| `TemporaryBuffer` | operators for the temporary buffer |
| `AesdChar` | the driver: `CircularBuffer` and `TemporaryBuffer` composed under the file operations, load and unload |
| `LineDevice` | abstract: what `/dev/aesdchar` promises |
| `AesdCharSteps` | the driver's read and store of a line, step by step, with the caller's lock; implements `CircularBufferMachine` |
| `AesdSocket` | the threads of the server, from start-up to exit |
| `LineServer` | what a client's bytes become: framing, commands, replies, composed with `LineDevice` |
| `SystemCalls` | parent and child processes of do_exec and do_exec_redirect |
| `AesdCharProofs`, `AesdCharStepsProofs`, `AesdSocketProofs`, `LineServerProofs`, `SystemCallsProofs` | the theorems about the module of that name |
| `NaturalLemmas` | numbers, induction, running sums and concatenations, for the proofs |
| `MC...` | values for TLC |

The layers fit together by refinement and composition: `AesdCharSteps`
implements the atomic ring of `CircularBufferMachine`, which implements
`LastWrites`; `AesdChar` uses the same ring operators and implements
`LineDevice`; `LineServer` runs its handlers on `LineDevice`. `AesdSocket`
models the same handlers with their contents abstracted and everything else
(signals, descriptors, failures, shutdown) in detail.

`CircularBuffer`. The fields of the record are those of the C structure.
`add_entry` is `Evict` when the ring is full, then `Store` or `StoreFailed`
according to my_malloc's outcome, which is an argument. The two walks of the
code stop at the first slot without a block; `Reaches` says how far they get,
`CurrentOffset` is the running offset as a recursive function. The tests for
NULL arguments are left out: no caller passes one. `size` is a natural number:
its type invariant is the statement that the unsigned subtraction does not wrap.

`AesdChar`. One action per outcome of a call: `aesd_write`, for example, is
`WriteNoKbuf`, `WriteFaults`, `WriteNoTemperary`, `WriteLine`, `WriteRest` and
`WritePartial`, in the order of its returns. A call is one step. The driver does
not lock, so this is the driver as the server uses it, under `fileMutex`. `heap`
and `regions` count what the driver has taken from the kernel; kbuf is freed on
every way out and does not show. `last` is the call as user space sees it. The
rejection of reads and writes at a negative position is the virtual file
system's (`rw_verify_area`, external).

`AesdCharSteps`. A pointer is an address here and `memory` says what the block
holds, so that a freed block can be used. `aesd_circular_buffer_add_entry` is cut
between the test, the free, the clearing of the slot, malloc, the copy and the
publication of the entry, `aesd_read` between the search and the copy. The
assignments of `ClearOldest` and of `Publish`, and the walk of `Find`, stay one
step each: no locked task can see between them. `Locking` names the tasks
that hold `fileMutex`. `Malloc` takes any block that is free, as no caller can
know which one the allocator chooses. `misused` becomes true when a call touches a block that is
not allocated. `before`, a history variable, keeps the ring as it was when a
store began: until its last assignment the store maps to that.

`AesdSocket`. Main first makes the calls of `StartCalls` (a daemon from fork on,
a foreground server from the signal handlers on); a checked one may fail. A
signal before its handler is installed kills the process, and clients can
connect once listen is done. After that `pc` gives each thread its place between blocking calls; each
action is the code from one such place to the next, so a signal, another
handler or a client can come in between. `stop` is tested in `LoopTest` and
`accept` is entered in a separate step, as in the code. What recv delivers is a
chunk with or without a newline. If earlier bytes are held over, the code looks
for the newline in the wrong bytes, so `Recv` leaves the answer open. The work
under the mutex is one step, `Serve`, with its failures `IoctlFails`,
`ReadFails` and `FileCrash`. The descriptor table and lowest-first allocation
are the kernel's; `pthread_join`'s errors are those of glibc (a join of oneself,
of one's joiner, of a thread joined by another). A failed `pthread_create` or
`malloc` is not noticed by main, exactly as in the code: the array keeps an unset
entry, or the process crashes. `threadCount` only grows; past `MAX_THREADS` the
array is overrun, and the process crashes or the entry happens to be readable;
what else an overrun could overwrite is not modelled.

`LineServer`. A message is a few symbols ended by a newline, a seek command is
prefix, arguments and newline. `Recv` takes any number of the bytes on the wire,
adds them to `bufferString` and searches as many bytes from its front, as the
code does. Under the mutex the buffer is a command (`SeekTo`, `SeekRefused`) or
is written: `Fwrite` passes whole blocks of `STDIO_SIZE` to the device, `Fclose`
the rest (external: this is how the C library's stream does it), and a refusal
of either goes unnoticed. The reply is any number of reads, and `reply` is what was
given to `send`: the code ignores send's result, and what a short or interrupted
send loses is not modelled. The separate tests of `checkForCommandInString` are one
comparison of symbols, without its reading of a buffer that has no terminating
zero. A refused seek ends the process in one step, where the code lets the other
handlers go on until they see their wakeup byte (that is `AesdSocket`'s subject). The device itself is
`LineDevice`, whose actions the handler's steps conjoin. Clients in `Patient`
send a message only when the last one was answered. `appended`, `stored`,
`refused` and `cut` are history variables.

`SystemCalls`. Each child shares only its exit status with its parent. Every system
call may fail, waitpid may be interrupted, and standard output may be closed. The
repository makes its calls one after the other; they overlap all the same, since an
interrupted waitpid leaves a child that goes on during the next call. The model
lets any calls overlap.

Operators introduced by "A mistake:" are not part of the model. Each is a
plausible slip in the definition below it, and shows that some property would
notice it.

## 3. The runs

| run | checks | shows |
|---|---|---|
| `ring_memory_ok` | TypeOK, LiveIsWindow, FindIsConcatenation, KeepsLastWrites | with the real capacity and working allocations the ring implements `LastWrites`; the search agrees with the concatenation at every position and at the end |
| `ring_malloc_fails` | SizeIsSum, NoLeakOnAdd | total and ownership survive any pattern of failed allocations |
| `driver_lines` | TypeOK, ImplementsLineDevice, SeekExactWhenAligned | two files on one device: the driver implements `LineDevice`; the ioctl is exact while the oldest write is in slot 0 |
| `driver_memory` | NoBlockLost | whichever kmalloc fails, no call on the loaded module loses or doubly frees a block |
| `driver_steps` | NoMisuse, BlocksOwned, ReadIsAtomic, ImplementsAtomicRing | tasks that lock never use a freed block, every block has one owner between stores, and separate accesses look like single steps, whatever my_malloc does |
| `server_shutdown` | ShutdownEnds, StopTakesEffect, ErrorExitEnds | once main leaves its loop the process ends; a stop request during start-up is obeyed at the first test, one that missed accept at the next connection; a refused ioctl in one or two handlers ends the process unless a connection is accepted meanwhile |
| `server_faults` | WakesAll, NoHandlerCutOff, MutexNotOrphaned, KeepsConnections | whatever call fails, start-up included, and whoever takes the signal: main finds a byte for every handler and cuts none off, no finished handler keeps the mutex, and a client that has not hung up keeps its connection until the server is told to stop or some thread takes it down |
| `lines` | OperationsNotMixed, ReplyIsSnapshot, OneOperationPerMessage, BytesInOrder, AnsweredUnlessSplit | what clients can rely on however their bytes are cut, and exactly when they cannot |
| `systemcalls` | TrueMeansSuccess, ReturnsOnce, CallsReturn | true is told only for the call's own command, one process returns, and if commands end so does the call, its child reaped unless the wait was interrupted |

Three runs end in a violation, because a comment, a declaration or a message in
the repository says something that the code does not do:

| run | property | what happens |
|---|---|---|
| `driver_seek` | SeekLandsOnWrite | `aesd_ioctl` checks the offset against the array slot, the search counts from the oldest: after the first eviction it refuses good seeks or takes bad ones to position 0 |
| `server_signal_lost` | SignalStopsServer | a signal between `while (!stop)` and `accept` waits for the next client |
| `server_double_close` | ClosesOnlyOwnSocket | the second close hits the connection that was accepted in between |

`ShutdownEnds`, `StopTakesEffect` and `ErrorExitEnds` except the
behaviours in which that double close has happened (`~ OwnSocket`): a handler
whose descriptor was taken over may then wait for another client's data.
`ErrorExitEnds` also excepts what really blocks: a connection accepted after the
wakeup bytes were written (it gets none), and three handlers in `logAndExit` at
once, which can wait for each other in a circle.

What the exceptions in `lines` say of the code. A line whose last piece was added
to earlier ones (`appended`) may stay unanswered, since the search covers only as
many bytes as the last recv delivered. Two clients' bytes are kept apart except
after a write longer than the stream's buffer that had a newline in its first
piece (a client that sends ahead) or whose second piece was refused (`cut`): then
the device keeps the rest and puts it in front of the next client's line. A
client that sends ahead may lose what lands behind a command, so
`OneOperationPerMessage` is about clients that wait and `BytesInOrder` about
clients that send no command. A client that hangs up during its reply ends the
server by SIGPIPE; the device is then left without an unfinished line.

Seen while modelling, and not the subject of a run:

* a failed allocation in a full ring leaves `full` set with a slot empty. After
  as many failures as slots a stored byte lies behind an empty slot, and the
  search, which stops there, does not find it (`aesd_circular_buffer.c:160`);
* `clientThreads` has `MAX_THREADS` entries and `threadCount` is never reduced
  (`aesdsocket.c:701`);
* the pid that `start-stop-daemon --make-pidfile` records is that of the process
  that exits after the daemon's fork (`aesdsocket-start-stop:9`);
* `do_system` returns true whatever the command returned, while its comment
  promises false for "a non-zero return value" (`systemcalls.c:13`);
* `do_exec_redirect` with standard output closed opens the file as descriptor 1
  and closes it again: the output is lost and success is reported
  (`systemcalls.c:144`).

### Bounds

* Ring: capacity 10 (the real one) with two writes of different lengths, so
  every alignment of entries with the end of the array occurs. With failures,
  capacity 3 and three writes: the failure patterns need only a ring that can go
  all the way round.
* Driver: capacity 2 (wraps, and has a slot that is neither oldest nor newest
  after an eviction), two files, lines with and without a beginning, an empty
  write; `MaxPartial` 1 bounds the unfinished line, `MaxPos` 2 the absolute
  seeks, `MaxLost` 3 what failed loads leave behind. `Cmds` reaches past the ring.
  `driver_memory` has one file, because the blocks do not depend on which file
  wrote. `driver_steps` has capacity 3, two tasks and four blocks: one more than
  the slots, so that a freed block can be reused while another is in use.
* Server: two connections over the life of the server, two descriptors, each
  client sends any number of chunks, at most one unread at a time. Two handlers
  are what the shared pipe, mutual joins and the reuse of a descriptor need. The
  third handler in a circle of joins is excepted by name. `server_faults` uses
  the symmetry of the connections (no liveness there) and `MAX_THREADS` 1, so
  that the second connection overruns the array.
* Lines: two clients, one that waits and sends a command between two lines, one
  that sends ahead; messages of two and three symbols, at most three bytes per
  recv (so that a line can come in one to three pieces), a device of two
  operations (so that replies lose their beginning) and a stream buffer of two
  bytes (so that a line of three is written in two pieces).
* Systemcalls: two calls, each of any of the three functions.

`CHECK_DEADLOCK FALSE` in the configurations of the server, the lines and the
system calls: a process that has ended, a server waiting for clients that never
come, and calls that have returned take no further step.

### Fairness

Weak fairness for main and for each handler: a thread that can run is
eventually run by the scheduler. It also makes a client read what it is sent,
since `Serve` stands for a loop of blocking sends. Signals and clients have no
fairness: nobody owes the server a connection, data or a hangup. Weak fairness
suffices for the mutex here: `Lock` can be disabled again only by another
handler's request, and the properties are about shutdown, where each handler
takes its byte from the pipe before it looks at the socket. `LineServer` has the
same fairness, one condition per handler, and the same assumption that clients
read their replies; there a handler can wait for the mutex only as long as the
other has requests, and scripts are finite. The failures of a call are inside these
conditions, but the runs that check liveness have none that could stand in for a
call that blocks (`Faults` has only the ioctl).

`SystemCalls` has weak fairness for each child, which includes that a command comes
to an end, and for a `Waitpid` whose child has ended. It has none for the
interruption of a wait, nor for the making of a call: `do_exec` blocks in waitpid
without a timeout, and without the child's fairness TLC finds `CallsReturn`
violated.

## 4. The proofs

Every invariant and action property of the passing runs is proved for every
value of the constants, and so are the three refinements: any capacity, any
number of tasks, files, connections, clients and calls, any bytes.

| theorem | states | under |
|---|---|---|
| `CircularBufferProofs!TypeCorrect`, `SizeCorrect`, `NoLeak` | TypeOK, SizeIsSum, NoLeakOnAdd | any behaviour of my_malloc |
| `CircularBufferProofs!RefinesLastWrites`, `WindowIsLive`, `FindsConcatenation` | KeepsLastWrites, LiveIsWindow, FindIsConcatenation | allocations succeed |
| `AesdCharProofs!TypesOfDriver`, `BlocksBalance` | TypeOK, NoBlockLost | any kmalloc may fail |
| `AesdCharProofs!SeekIsExactWhenAligned`, `RefinesLineDevice` | SeekExactWhenAligned, ImplementsLineDevice | allocations succeed |
| `AesdCharStepsProofs!MemorySafe`, `NothingLeaks`, `ReadsAreAtomic`, `RefinesAtomicRing` | NoMisuse, BlocksOwned, ReadIsAtomic, ImplementsAtomicRing | every task locks; any behaviour of my_malloc |
| `AesdSocketProofs!EnoughBytes`, `NoOrphanedMutex`, `ExitAfterHandlers`, `ConnectionsKept` | WakesAll, MutexNotOrphaned, NoHandlerCutOff, KeepsConnections | any call may fail, any thread may get the signal |
| `LineServerProofs!NothingLeftInDevice`, `RepliesAreSnapshots` | OperationsNotMixed, ReplyIsSnapshot | writes may fail, clients may hang up |
| `LineServerProofs!BytesKeepTheirOrder`, `MessagesBecomeOperations` | BytesInOrder, OneOperationPerMessage | the same, for clients without a refused write while nothing was cut; any pieces |
| `SystemCallsProofs!SuccessIsReal`, `OneReturn` | TrueMeansSuccess (of do_exec and do_exec_redirect), ReturnsOnce | any system call may fail |

"Allocations succeed" is the hypothesis `FALSE \notin MallocOutcomes` (or
`KmallocOutcomes`). The theorems that have it are false without it: a failed
allocation leaves an empty slot in the window. "Every task locks" is
`Locking = Task`: the driver has no lock of its own, and the server, its only
user here, takes `fileMutex` around each use. With one task that does not lock,
TLC finds a copy through a pointer that the other task has cleared after seven
steps.

The remaining assumptions are those of the modules: the capacity is at least one
(`MaxAssumption`); a null pointer is neither a block nor a result of the search
(`NullAssumption`, `FoundAssumption`, `BlockAssumption`); free and unwritten
blocks differ from each other and from bytes (`ContentAssumption`); a write to
the ring is not empty (`WriteAssumption`: the driver adds only what contains a
newline); a message ends with its
only newline (`ScriptAssumption`, which is what a message is). The bounds of the
driver's model (`MaxPartial`, `MaxPos`, `MaxLost`) are any numbers.

### The arguments

Ring. None of the invariants is inductive alone. That `size` is the sum does not
say that the slot about to be overwritten is empty, and without that the sum is
lost at the next store. The inductive invariant `Ring` has the type, the
agreement of each slot's size with its block, a running total from zero to
`size`, and the emptiness of the slots outside the window. `TotalAfterChange`
gives the new running total when one slot changes, `RoomIsFree` says that after
the optional eviction the slot of `in_offs` is free, `RingAdd` that add_entry
preserves `Ring`, with and without memory. `Queue` adds that the live slots are
exactly the window; `WalkAfterAdd` says how the n-th slot from the oldest moves
through an add, `QueueAdd` that `Contents` is appended to, after losing its head
if it was full. For the search, the entries cut the stream into intervals
(`PartsBegin`, `FlattenParts`), and the walk stops in the only interval that
contains the position.

Induction. The library's induction theorems cannot be instantiated by the
provers at hand, but a least counterexample can: `LeastNat` gives a non-empty set
of numbers its least element, and `SetInduction`, `PrefixSums` and
`FlattenExists` follow. What the recursive `CurrentOffset` and `FlattenSeq`
compute is proved that way, and so is that `FlattenSeq` of two lists one after
the other is the concatenation of what each gives (`FlattenConcat`).

Driver. The heap is not exactly what the device leads to, because a failed load
leaves its blocks behind (`MaxLost`). The invariant has `heap >= Reachable`, and
`NoBlockLost` is that a call on the loaded module leaves the difference alone.
That needs the number of live slots through an add: one more, unless one was
evicted, or the allocation failed. The refinement of `LineDevice` maps the ring to its
`Contents` and takes the search's result from `FindsConcatenation`'s lemma.

Driver, step by step. A store takes the ring through states that satisfy no ring
invariant: a slot leads to a freed block, a block holds no bytes yet, the size is
not the sum. So the invariant compares the ring with the one the store began with
(`before`): `Stage` says, for each place in add_entry, in which slots the two agree
(`Matches`) and what the remaining slot holds. `Owned` makes the correspondence of
slots and allocated blocks one to one: a freed or filled block shows in one slot
only. `Exclusive` leaves one task to reason about. At the last assignment the
comparison becomes add_entry as one step (`PublishIsAdd`), which is the refinement.

Server. `WakesAll` is not inductive: before main writes its bytes nothing relates
them to the handlers. `CountInv` does: every handler in its loop was counted in
`threadCount` before its thread was created, and while main writes, the bytes in
the pipe and those to come are enough; a handler takes at most one byte and then
leaves its loop. For `NoHandlerCutOff` the trouble is that main skips a thread
that another handler joins. `JoinInv` says that a thread that is joined has
finished or its joiner waits for it, and that main leaves only such threads behind.
When main is through, every handler that is left is joined by a handler in
`logAndExit`. These are finitely many and each joins one other, so by counting
they are joined only among themselves, and no handler is left in its loop
(`ExitLeavesNobody`). `KeepsConnections` needs to know who wrote a byte in the pipe:
`ByteInv` says that while there is one some thread is in `cleanupMain`, from which
no thread comes back (`ExitStays`); `WaysOut` lists the ways out of a handler's
loop.

Lines. Handlers in the locked section are exclusive, so the device changes only
by the one that holds the mutex. `HoldsLine` follows the line from recv through
the two writes of the stream: before fclose the device holds the first blocks of
this client's line and nothing else, or the write was cut. `Replying` says that
what was delivered so far ends at the file position: a reply is a piece of one
stream, which does not change while it is read.

A client's bytes. Every action is first reduced to what it does to one client's
text, its place, held bytes, wire, unsent messages and stored operations
(`TextStep`: nothing, or send, receive, end, move on, seek, store, finish), and it
leaves the other clients' texts alone (`TextSame`). That an action is such a step
needs the invariant above: the store of the last piece appends exactly the line
that is held, because the device had the first piece of this line and nothing
else. `BytesInOrder` is then inductive client by client (`StepInOrder`): a step
moves bytes from one part of the concatenation to the next. A seek drops its
bytes, but they begin with the prefix, which the client does not send.
`OneOperationPerMessage` is not inductive: a prefix of the messages says nothing
about the bytes to come. `Progress` divides the script of a waiting client into
the messages that are done, whose operations are what is stored, at most one that
is being handled, whose bytes are those held and those on the wire, and the
unsent ones (`StepProgress`). When a handler leaves its loop it holds a newline,
a message has only its last byte for that (`MessageEnds`), so the whole message
is there, even though recv searches the wrong bytes and may find it late.

Systemcalls. What a call reports rests on four steps of two processes. The
invariant keeps for each call that a zero status comes only from a command, and
a command of do_exec_redirect only from a redirected child.

### Model-checked only

Liveness (`ShutdownEnds`, `StopTakesEffect`, `ErrorExitEnds`,
`AnsweredUnlessSplit`, `CallsReturn`) is outside the prover's reach: it needs
`ENABLED` and fairness. Three runs show a property violated, with TLC's
counterexample; there is nothing to prove about these.

## 5. Not modelled, and what could follow

Not modelled: `finder-app`, the load scripts, build, CI and QEMU scripts and the
username example are sequential tools and constants without state of the system.
The timestamp thread is compiled out (`USE_AESD_CHAR_DEVICE 1`). The service
script is two calls of start-stop-daemon, whose behaviour is not in this
repository. In the threading example each thread sleeps, locks, sleeps and
unlocks a mutex that guards no data. `bufferPacketCreate` and its companions in
the server are never called, and `checkForNullCharInString` only prints. Log
messages and their wording are left out throughout.

No invariant or action property of a passing run is left unproved; what could be
added is more of the environment: a service script whose pid file names a process
that is gone, if start-stop-daemon were modelled, and a device with users that do
not take the server's mutex, which the driver's own code does not protect.
