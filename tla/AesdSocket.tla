----------------------------- MODULE AesdSocket -----------------------------
(***************************************************************************)
(* The threads of the server, server/src/aesdsocket.c, as it is built      *)
(* (USE_AESD_CHAR_DEVICE = 1): start-up and the accept loop of main, one   *)
(* clientHandler thread per connection, the pipe that wakes the            *)
(* handlers, fileMutex, the signal handlers, and the two ways out:         *)
(* cleanupMain after a signal, and logAndExit, which runs cleanupMain in   *)
(* whichever thread met the error.                                         *)
(*                                                                         *)
(* pc gives each thread the place it is at.  What a chunk of received data *)
(* contains is abstracted to whether it has a newline; the device behind   *)
(* fileMutex is AesdChar.  Descriptors are modelled as the kernel hands    *)
(* them out, lowest first, because handlers close them twice.              *)
(***************************************************************************)
EXTENDS Integers, Sequences, FiniteSets, FiniteSetsExt

CONSTANTS
  Conn,         \* connections over the life of the server
  Main,         \* the main thread
  Nobody,       \* no thread, no connection, an unset pthread_t
  Fd,           \* descriptors accept may return
  Recipients,   \* the threads a signal may be delivered to
  Chunk,        \* what one recv may deliver, of {"part", "line"}
  Faults,       \* the calls that may fail
  MAX_THREADS   \* entries of clientThreads

Thread == Conn \cup {Main}

ASSUME ThreadAssumption == Main \notin Conn /\ Nobody \notin Thread
ASSUME FdAssumption == Fd \subseteq Nat \ {0} /\ IsFiniteSet(Fd)
ASSUME RecipientAssumption == Recipients \subseteq Thread
ASSUME ChunkAssumption == Chunk \subseteq {"part", "line"}
ASSUME FaultAssumption ==
  Faults \subseteq {"accept", "create", "recv", "memory", "open", "ioctl", "read",
             "sigpipe", "start"}
ASSUME MaxThreadsAssumption == MAX_THREADS \in Nat

VARIABLES
  process,        \* "running", or how it ended
  stop,           \* the flag the signal handlers set
  pc, index,      \* per thread: its place, and how far it is in start-up or cleanupMain
  clientThreads,  \* the array, as long as threadCount; Nobody before pthread_create
  joinid,         \* per handler: the thread that joins it
  pipe,           \* bytes in pipeClientHandler
  fileMutex,      \* the thread that holds it
  newSockFd,      \* per handler: clientData->newSockFd, 0 before accept
  table,          \* per descriptor: the connection it is open on
  held,           \* per handler: bufferString keeps an unfinished chunk
  client,         \* per connection: "away", "pending", "connected", "closed"
  inbox           \* per connection: a chunk not yet received, or "none"

threads == <<pc, index, clientThreads, joinid>>
sockets == <<newSockFd, table, client, inbox>>
vars == <<process, stop, pc, index, clientThreads, joinid, pipe, fileMutex,
          newSockFd, table, held, client, inbox>>

\* The calls of main before its loop.
StartCalls == <<"fork", "setsid", "SIGINT", "SIGTERM", "socket", "setsockopt", "bind",
                "listen", "pipe">>

\* Only a daemon (-d) starts with fork and setsid.
Init ==
  /\ process = "running"
  /\ stop = FALSE
  /\ pc = [t \in Thread |-> IF t = Main THEN "start" ELSE "none"]
  /\ \E done \in {0, 2} : index = [t \in Thread |-> IF t = Main THEN done ELSE 0]
  /\ clientThreads = <<>>
  /\ joinid = [c \in Conn |-> Nobody]
  /\ pipe = 0
  /\ fileMutex = Nobody
  /\ newSockFd = [c \in Conn |-> 0]
  /\ table = [d \in Fd |-> Nobody]
  /\ held = [c \in Conn |-> FALSE]
  /\ client = [c \in Conn |-> "away"]
  /\ inbox = [c \in Conn |-> "none"]

At(t, place) == process = "running" /\ pc[t] = place

Goto(t, place) == pc' = [pc EXCEPT ![t] = place]

\* logAndExit, and the end of main's loop: enter cleanupMain.
Leave(t) == Goto(t, "wake")

Crash ==
  /\ process' = "crashed"
  /\ UNCHANGED <<stop, threads, pipe, fileMutex, sockets, held>>

-----------------------------------------------------------------------------
(* main before its loop.  The parent of the daemon's fork exits and the    *)
(* child goes on here; sigaction and listen are not checked.               *)

Done(call) ==
  At(Main, "start") => \E i \in 1 .. index[Main] : StartCalls[i] = call

StartUp ==
  /\ At(Main, "start")
  /\ IF index[Main] < Len(StartCalls)
     THEN index' = [index EXCEPT ![Main] = @ + 1] /\ UNCHANGED pc
     ELSE index' = [index EXCEPT ![Main] = 0] /\ Goto(Main, "loop")
  /\ UNCHANGED <<process, stop, clientThreads, joinid, pipe, fileMutex, sockets, held>>

StartFails ==
  /\ At(Main, "start")
  /\ "start" \in Faults
  /\ index[Main] < Len(StartCalls)
  /\ StartCalls[index[Main] + 1] \notin {"SIGINT", "SIGTERM", "listen"}
  /\ index' = [index EXCEPT ![Main] = 0]
  /\ Leave(Main)
  /\ UNCHANGED <<process, stop, clientThreads, joinid, pipe, fileMutex, sockets, held>>

-----------------------------------------------------------------------------
(* main: while (!stop) { accept; pthread_create }                          *)

\* A mistake: the loop does not look at stop.
LoopForever ==
  /\ At(Main, "loop")
  /\ Goto(Main, "enter")
  /\ UNCHANGED <<process, stop, index, clientThreads, joinid, pipe, fileMutex, sockets, held>>

LoopTest ==
  /\ At(Main, "loop")
  /\ IF stop THEN Leave(Main) ELSE Goto(Main, "enter")
  /\ UNCHANGED <<process, stop, index, clientThreads, joinid, pipe, fileMutex, sockets, held>>

\* From the test to the blocking accept: a signal in between is not noticed.
EnterAccept ==
  /\ At(Main, "enter")
  /\ Goto(Main, "accept")
  /\ UNCHANGED <<process, stop, index, clientThreads, joinid, pipe, fileMutex, sockets, held>>

FreeFds == {d \in Fd : table[d] = Nobody}

\* accept returns; threadCount++ is done before pthread_create is called.
Accept(c) ==
  /\ At(Main, "accept")
  /\ client[c] = "pending"
  /\ FreeFds # {}
  /\ client' = [client EXCEPT ![c] = "connected"]
  /\ newSockFd' = [newSockFd EXCEPT ![c] = Min(FreeFds)]
  /\ table' = [table EXCEPT ![Min(FreeFds)] = c]
  /\ clientThreads' = Append(clientThreads, Nobody)
  /\ Goto(Main, "create")
  /\ UNCHANGED <<process, stop, index, joinid, pipe, fileMutex, held, inbox>>

AcceptFails ==
  /\ At(Main, "accept")
  /\ "accept" \in Faults
  /\ Leave(Main)
  /\ UNCHANGED <<process, stop, index, clientThreads, joinid, pipe, fileMutex, sockets, held>>

Accepted(c) == newSockFd[c] # 0 /\ pc[c] = "none"

Create(c) ==
  /\ At(Main, "create")
  /\ Accepted(c)
  /\ clientThreads' = [clientThreads EXCEPT ![Len(clientThreads)] = c]
  /\ pc' = [pc EXCEPT ![Main] = "loop", ![c] = "poll"]
  /\ UNCHANGED <<process, stop, index, joinid, pipe, fileMutex, sockets, held>>

\* The result of pthread_create is not looked at: the array keeps an unset
\* entry and the connection stays open with nobody to serve it.
CreateFails(c) ==
  /\ At(Main, "create")
  /\ Accepted(c)
  /\ "create" \in Faults
  /\ pc' = [pc EXCEPT ![Main] = "loop", ![c] = "unborn"]
  /\ UNCHANGED <<process, stop, index, clientThreads, joinid, pipe, fileMutex, sockets, held>>

\* Behind the array pthread_create may overwrite anything.  Modelled are the two
\* ends of it: the process dies, or (Create) the entry can be read back and no
\* neighbour was hit.
CreateOverruns ==
  /\ At(Main, "create")
  /\ Len(clientThreads) > MAX_THREADS
  /\ Crash

\* malloc of clientData is not checked either: memset writes through NULL.
NoClientData ==
  /\ At(Main, "create")
  /\ "memory" \in Faults
  /\ Crash

-----------------------------------------------------------------------------
(* SIGINTHandler and SIGTERMHandler.  Without SA_RESTART a blocked accept, *)
(* poll or read returns EINTR: main leaves its loop because stop is set, a *)
(* handler breaks out of its own.  pthread_join and the mutex resume.      *)

Interrupted(t) ==
  CASE t = Main /\ pc[t] = "accept" -> "wake"
    [] t # Main /\ pc[t] \in {"poll", "read_pipe"} -> "cleanup"
    [] OTHER -> pc[t]

Signal(t) ==
  /\ process = "running"
  /\ t \in Recipients
  /\ pc[t] \notin {"none", "unborn", "done"}
  /\ \E signal \in {"SIGINT", "SIGTERM"} : Done(signal)
  /\ stop' = TRUE
  /\ Goto(t, Interrupted(t))
  /\ UNCHANGED <<process, index, clientThreads, joinid, pipe, fileMutex, sockets, held>>

\* Before its handler is installed a signal ends the process.
SignalKills ==
  /\ process = "running"
  /\ Main \in Recipients
  /\ \E signal \in {"SIGINT", "SIGTERM"} : ~ Done(signal)
  /\ process' = "killed"
  /\ UNCHANGED <<stop, threads, pipe, fileMutex, sockets, held>>

-----------------------------------------------------------------------------
(* cleanupMain, in main or in the handler that called logAndExit: one byte *)
(* per thread ever created, then a join of each.                           *)

threadCount == Len(clientThreads)

\* A mistake: one byte for all.
WakeOne(t) ==
  /\ At(t, "wake")
  /\ pipe' = pipe + 1
  /\ Goto(t, "join")
  /\ UNCHANGED <<process, stop, index, clientThreads, joinid, fileMutex, sockets, held>>

Wake(t) ==
  /\ At(t, "wake")
  /\ IF index[t] < threadCount
     THEN /\ pipe' = pipe + 1
          /\ index' = [index EXCEPT ![t] = @ + 1]
          /\ UNCHANGED pc
     ELSE /\ index' = [index EXCEPT ![t] = 0]
          /\ Goto(t, "join")
          /\ UNCHANGED pipe
  /\ UNCHANGED <<process, stop, clientThreads, joinid, fileMutex, sockets, held>>

Target(t) == clientThreads[index[t] + 1]

\* pthread_join fails at once on the caller itself, on the thread that is
\* joining the caller, and on a thread somebody else joins or has joined.
JoinRefused(t) ==
  \/ Target(t) = t
  \/ t # Main /\ joinid[t] = Target(t)
  \/ joinid[Target(t)] # Nobody

Join(t) ==
  /\ At(t, "join")
  /\ index[t] < threadCount
  /\ Target(t) # Nobody
  /\ IF JoinRefused(t)
     THEN index' = [index EXCEPT ![t] = @ + 1] /\ UNCHANGED <<pc, joinid>>
     ELSE /\ joinid' = [joinid EXCEPT ![Target(t)] = t]
          /\ Goto(t, "joining")
          /\ UNCHANGED index
  /\ UNCHANGED <<process, stop, clientThreads, pipe, fileMutex, sockets, held>>

\* pthread_join on an entry that pthread_create has not set.
JoinUnset(t) ==
  /\ At(t, "join")
  /\ index[t] < threadCount
  /\ Target(t) = Nobody
  /\ Crash

\* A mistake: a join that does not wait.
JoinedEarly(t) ==
  /\ At(t, "joining")
  /\ Goto(t, "join")
  /\ index' = [index EXCEPT ![t] = @ + 1]
  /\ UNCHANGED <<process, stop, clientThreads, joinid, pipe, fileMutex, sockets, held>>

Joined(t) ==
  /\ At(t, "joining")
  /\ pc[Target(t)] = "done"
  /\ Goto(t, "join")
  /\ index' = [index EXCEPT ![t] = @ + 1]
  /\ UNCHANGED <<process, stop, clientThreads, joinid, pipe, fileMutex, sockets, held>>

\* exit(): all threads end, "stopped" by main itself or "failed" by a handler.
Exit(t) ==
  /\ At(t, "join")
  /\ index[t] >= threadCount
  /\ process' = IF t = Main THEN "stopped" ELSE "failed"
  /\ UNCHANGED <<stop, threads, pipe, fileMutex, sockets, held>>

-----------------------------------------------------------------------------
(* clientHandler.                                                          *)

\* The connection behind a handler's descriptor: usually its own.
Peer(c) == table[newSockFd[c]]

Readable(c) == Peer(c) # Nobody /\ (inbox[Peer(c)] # "none" \/ client[Peer(c)] = "closed")

\* poll, then the test of the pipe, then of the socket.  A descriptor that is
\* closed only makes poll return POLLNVAL, and the loop turns.
Poll(c) ==
  /\ At(c, "poll")
  /\ \/ pipe > 0 /\ Goto(c, "read_pipe")
     \/ pipe = 0 /\ Readable(c) /\ Goto(c, "recv")
  /\ UNCHANGED <<process, stop, index, clientThreads, joinid, pipe, fileMutex, sockets, held>>

PollNoMemory(c) ==
  /\ At(c, "poll")
  /\ "memory" \in Faults
  /\ Leave(c)
  /\ UNCHANGED <<process, stop, index, clientThreads, joinid, pipe, fileMutex, sockets, held>>

\* A mistake: the handler empties the pipe.
ReadPipeDrains(c) ==
  /\ At(c, "read_pipe")
  /\ pipe > 0
  /\ pipe' = 0
  /\ Goto(c, "cleanup")
  /\ UNCHANGED <<process, stop, index, clientThreads, joinid, fileMutex, sockets, held>>

\* The byte poll saw may be gone: then the read blocks.
ReadPipe(c) ==
  /\ At(c, "read_pipe")
  /\ pipe > 0
  /\ pipe' = pipe - 1
  /\ Goto(c, "cleanup")
  /\ UNCHANGED <<process, stop, index, clientThreads, joinid, fileMutex, sockets, held>>

\* recv of data.  The newline is looked for in as many bytes of the collected
\* buffer as this recv delivered, so with bytes held over any answer is
\* possible.
Recv(c) ==
  /\ At(c, "recv")
  /\ Peer(c) # Nobody
  /\ inbox[Peer(c)] # "none"
  /\ inbox' = [inbox EXCEPT ![Peer(c)] = "none"]
  /\ \E newline \in IF held[c] THEN BOOLEAN ELSE {inbox[Peer(c)] = "line"} :
       /\ Goto(c, IF newline THEN "lock" ELSE "poll")
       /\ held' = [held EXCEPT ![c] = TRUE]
  /\ UNCHANGED <<process, stop, index, clientThreads, joinid, pipe, fileMutex, newSockFd, table, client>>

\* recv returns 0: the socket is closed here and once more in cleanup.
RecvEof(c) ==
  /\ At(c, "recv")
  /\ Peer(c) # Nobody
  /\ inbox[Peer(c)] = "none" /\ client[Peer(c)] = "closed"
  /\ table' = [table EXCEPT ![newSockFd[c]] = Nobody]
  /\ held' = [held EXCEPT ![c] = FALSE]
  /\ Goto(c, "cleanup")
  /\ UNCHANGED <<process, stop, index, clientThreads, joinid, pipe, fileMutex, newSockFd, client, inbox>>

\* recv returns -1, and aesd_temperary_buffer_add is called with that size: its
\* malloc fails and the server exits, or, with bytes held over, the size wraps
\* and memcpy runs off the buffer.
RecvFails(c) ==
  /\ At(c, "recv")
  /\ Peer(c) = Nobody \/ "recv" \in Faults
  /\ IF held[c]
     THEN Crash
     ELSE /\ Leave(c)
          /\ UNCHANGED <<process, stop, index, clientThreads, joinid, pipe, fileMutex, sockets, held>>

RecvNoMemory(c) ==
  /\ At(c, "recv")
  /\ "memory" \in Faults
  /\ Peer(c) # Nobody
  /\ inbox[Peer(c)] # "none"
  /\ inbox' = [inbox EXCEPT ![Peer(c)] = "none"]
  /\ Leave(c)
  /\ UNCHANGED <<process, stop, index, clientThreads, joinid, pipe, fileMutex,
                 newSockFd, table, client, held>>

Lock(c) ==
  /\ At(c, "lock")
  /\ fileMutex = Nobody
  /\ fileMutex' = c
  /\ Goto(c, "file")
  /\ UNCHANGED <<process, stop, index, clientThreads, joinid, pipe, sockets, held>>

\* A mistake: the mutex stays locked.
ServeLocked(c) ==
  /\ At(c, "file")
  /\ held' = [held EXCEPT ![c] = FALSE]
  /\ Goto(c, "poll")
  /\ UNCHANGED <<process, stop, index, clientThreads, joinid, pipe, fileMutex, sockets>>

\* A mistake: one request per connection.
ServeOnce(c) ==
  /\ At(c, "file")
  /\ fileMutex' = Nobody
  /\ held' = [held EXCEPT ![c] = FALSE]
  /\ Goto(c, "cleanup")
  /\ UNCHANGED <<process, stop, index, clientThreads, joinid, pipe, sockets>>

\* A command or a line is carried out and the device is sent to the client.
Serve(c) ==
  /\ At(c, "file")
  /\ fileMutex' = Nobody
  /\ held' = [held EXCEPT ![c] = FALSE]
  /\ Goto(c, "poll")
  /\ UNCHANGED <<process, stop, index, clientThreads, joinid, pipe, sockets>>

\* A mistake: logAndExit with the mutex locked.
IoctlFailsLocked(c) ==
  /\ At(c, "file")
  /\ "ioctl" \in Faults
  /\ held' = [held EXCEPT ![c] = FALSE]
  /\ Leave(c)
  /\ UNCHANGED <<process, stop, index, clientThreads, joinid, pipe, fileMutex, sockets>>

\* A refused ioctl unlocks before logAndExit.
IoctlFails(c) ==
  /\ At(c, "file")
  /\ "ioctl" \in Faults
  /\ fileMutex' = Nobody
  /\ held' = [held EXCEPT ![c] = FALSE]
  /\ Leave(c)
  /\ UNCHANGED <<process, stop, index, clientThreads, joinid, pipe, sockets>>

\* A failed fread does not.
ReadFails(c) ==
  /\ At(c, "file")
  /\ "read" \in Faults
  /\ Leave(c)
  /\ UNCHANGED <<process, stop, index, clientThreads, joinid, pipe, fileMutex, sockets, held>>

\* fopen's result is used unchecked; send to a client that is gone raises
\* SIGPIPE, which is not handled.
FileCrash(c) ==
  /\ At(c, "file")
  /\ \/ "open" \in Faults
     \/ "sigpipe" \in Faults /\ Peer(c) # Nobody /\ client[Peer(c)] = "closed"
  /\ Crash

\* cleanupClientHandler: whatever the descriptor now refers to is closed.
Cleanup(c) ==
  /\ At(c, "cleanup")
  /\ table' = [table EXCEPT ![newSockFd[c]] = Nobody]
  /\ held' = [held EXCEPT ![c] = FALSE]
  /\ Goto(c, "done")
  /\ UNCHANGED <<process, stop, index, clientThreads, joinid, pipe, fileMutex, newSockFd, client, inbox>>

-----------------------------------------------------------------------------
(* The clients.                                                            *)

Connect(c) ==
  /\ process = "running"
  /\ Done("listen")
  /\ client[c] = "away"
  /\ client' = [client EXCEPT ![c] = "pending"]
  /\ UNCHANGED <<process, stop, threads, pipe, fileMutex, newSockFd, table, held, inbox>>

Send(c, chunk) ==
  /\ process = "running"
  /\ client[c] = "connected"
  /\ inbox[c] = "none"
  /\ inbox' = [inbox EXCEPT ![c] = chunk]
  /\ UNCHANGED <<process, stop, threads, pipe, fileMutex, newSockFd, table, held, client>>

Hangup(c) ==
  /\ process = "running"
  /\ client[c] = "connected"
  /\ client' = [client EXCEPT ![c] = "closed"]
  /\ UNCHANGED <<process, stop, threads, pipe, fileMutex, newSockFd, table, held, inbox>>

-----------------------------------------------------------------------------

CleanupStep(t) == Wake(t) \/ Join(t) \/ JoinUnset(t) \/ Joined(t) \/ Exit(t)

MainStep ==
  \/ StartUp
  \/ StartFails
  \/ LoopTest
  \/ EnterAccept
  \/ AcceptFails
  \/ NoClientData
  \/ CreateOverruns
  \/ \E c \in Conn : Accept(c) \/ Create(c) \/ CreateFails(c)
  \/ CleanupStep(Main)

HandlerStep(c) ==
  \/ Poll(c) \/ PollNoMemory(c) \/ ReadPipe(c)
  \/ Recv(c) \/ RecvEof(c) \/ RecvFails(c) \/ RecvNoMemory(c)
  \/ Lock(c) \/ Serve(c) \/ IoctlFails(c) \/ ReadFails(c) \/ FileCrash(c)
  \/ Cleanup(c)
  \/ CleanupStep(c)

Environment ==
  \/ \E t \in Recipients : Signal(t)
  \/ SignalKills
  \/ \E c \in Conn : Connect(c) \/ Hangup(c) \/ \E chunk \in Chunk : Send(c, chunk)

Next == MainStep \/ (\E c \in Conn : HandlerStep(c)) \/ Environment

\* The scheduler runs every thread that can run; signals and clients owe
\* nothing, except that a client reads what it is sent: Serve ends.  A failure is
\* never the only thing a thread can do as long as Faults has no "accept",
\* "memory" or "recv": liveness is checked with the ioctl alone.
Fairness == WF_vars(MainStep) /\ \A c \in Conn : WF_vars(HandlerStep(c))

Spec == Init /\ [][Next]_vars /\ Fairness

-----------------------------------------------------------------------------
(* Properties.                                                             *)

\* A handler that is in its loop, somewhere before cleanupClientHandler.
InLoop(c) == pc[c] \in {"poll", "read_pipe", "recv", "lock", "file"}

\* Once main has finished writing its wakeup bytes there is one left for every
\* handler still in its loop, though the handlers share one pipe, may see the
\* same byte, and some of the bytes were meant for threads long gone.
WakesAll ==
  pc[Main] \in {"join", "joining"} => pipe >= Cardinality({c \in Conn : InLoop(c)})

\* When main exits no handler is cut off in its work: each has finished or is
\* itself on its way out through logAndExit, which never returns to its loop.
NoHandlerCutOff ==
  process = "stopped" => \A c \in Conn : ~ InLoop(c) /\ pc[c] # "cleanup"

\* The mutex around the device is held only by a handler at work on it, or by
\* one that failed there and takes the process down: never by a finished one.
MutexNotOrphaned ==
  fileMutex # Nobody => pc[fileMutex] \in {"file", "wake", "join", "joining"}

\* A client that has not hung up keeps its connection until the server is asked
\* to stop or some thread is taking it down: no handler leaves its loop for a
\* byte left in the shared pipe, an interrupted call or a failure of another
\* handler's client.
KeepsConnections ==
  [][\A c \in Conn : InLoop(c) /\ Peer(c) = c /\ pc'[c] = "cleanup" =>
       \/ client[c] = "closed"
       \/ stop'
       \/ \E t \in Thread : pc[t] \in {"wake", "join", "joining"}]_vars

\* A handler works on its own connection.
OwnSocket == \A c \in Conn : pc[c] \in {"poll", "recv", "lock", "file"} => Peer(c) = c

\* Once main has left its loop the process ends, wherever the handlers are in
\* theirs, as long as the clients read their replies and no descriptor was closed
\* under a handler.
ShutdownEnds == At(Main, "wake") ~> (process # "running" \/ ~ OwnSocket)

\* A stop request during start-up takes effect when main comes to its loop, one
\* that did not interrupt accept with the next connection at the latest.
StopTakesEffect ==
  (stop /\ (pc[Main] = "start" \/ \E c \in Conn : client[c] = "pending"))
    ~> (process # "running" \/ ~ OwnSocket)

\* logAndExit in a handler ends the process unless a new connection is
\* accepted while it is about it (the newcomer's byte was not written) or three
\* handlers are in it at once (pthread_join sees no cycle of three).
ErrorExitEnds ==
  \A n \in 1 .. Cardinality(Conn) :
    ((\E c \in Conn : At(c, "wake")) /\ threadCount = n)
      ~> \/ process # "running" \/ threadCount > n \/ ~ OwnSocket
         \/ Cardinality({c \in Conn : pc[c] \in {"wake", "join", "joining"}}) > 2

-----------------------------------------------------------------------------
(* What the source says of itself and the threads do not keep.             *)

\* aesdsocket.c:705 logs "Caught signal, exiting", and the init script's stop
\* waits for it: a signal ends the server.
SignalStopsServer == stop ~> process # "running"

\* aesdsocket.c:444, "Closed connection from" the client of this handler: a
\* socket is closed by its own handler.
ClosesOnlyOwnSocket ==
  [][\A d \in Fd : table[d] # Nobody /\ table'[d] = Nobody =>
       pc'[table[d]] \in {"cleanup", "done"}]_vars
=============================================================================
