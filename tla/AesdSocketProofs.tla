-------------------------- MODULE AesdSocketProofs --------------------------
(***************************************************************************)
(* Proofs about the threads of the server, for any number of connections,  *)
(* any set of failing calls and any thread a signal may be delivered to.   *)
(*                                                                         *)
(* The invariant has four parts: types and places, the mutex, the count of *)
(* wakeup bytes against the handlers still in their loops, and who joins   *)
(* whom.  For the last two the actions are first sorted by what they do to *)
(* the threads (StepKinds).  That connections are kept needs a fifth fact, *)
(* ByteInv: who wrote the bytes in the pipe.                               *)
(***************************************************************************)
EXTENDS AesdSocket, FiniteSetTheorems, SequenceTheorems, TLAPS

Places == {"none", "unborn", "start", "loop", "enter", "accept", "create", "wake", "join",
           "joining", "poll", "read_pipe", "recv", "lock", "file", "cleanup", "done"}
MainPlaces == {"start", "loop", "enter", "accept", "create", "wake", "join", "joining"}
LoopPlaces == {"poll", "read_pipe", "recv", "lock", "file"}
ExitPlaces == {"wake", "join", "joining"}
HandlerPlaces == {"none", "unborn", "cleanup", "done"} \cup LoopPlaces \cup ExitPlaces

ThreadTypes ==
  /\ process \in {"running", "stopped", "failed", "crashed", "killed"}
  /\ stop \in BOOLEAN
  /\ pc \in [Thread -> Places]
  /\ index \in [Thread -> Nat]
  /\ clientThreads \in Seq(Conn \cup {Nobody})
  /\ joinid \in [Conn -> Thread \cup {Nobody}]
  /\ pipe \in Nat
  /\ fileMutex \in Conn \cup {Nobody}

\* main and the handlers are at places of their own code.
PlacesInv == pc[Main] \in MainPlaces /\ \A c \in Conn : pc[c] \in HandlerPlaces

\* A handler at work on the device holds the mutex.
MutexInv == (\A c \in Conn : pc[c] = "file" => fileMutex = c) /\ MutexNotOrphaned

Looping == {c \in Conn : pc[c] \in LoopPlaces}
Creating == IF pc[Main] = "create" THEN 1 ELSE 0

\* Every handler in its loop was counted in threadCount before it was created,
\* and while main writes its bytes those to come and those in the pipe are
\* enough.
CountInv ==
  /\ IsFiniteSet(Looping)
  /\ Cardinality(Looping) + Creating <= threadCount
  /\ pc[Main] \in {"loop", "enter", "accept", "create"} => index[Main] = 0
  /\ pc[Main] = "wake" =>
       /\ index[Main] <= threadCount
       /\ Cardinality(Looping) <= pipe + (threadCount - index[Main])
  /\ pc[Main] \in {"join", "joining"} => Cardinality(Looping) <= pipe

\* c, once joined, has finished, or its joiner waits for it.
JoinerWaits(c) ==
  joinid[c] # Nobody =>
    \/ pc[c] = "done"
    \/ /\ joinid[c] \in Thread
       /\ pc[joinid[c]] = "joining"
       /\ index[joinid[c]] < threadCount
       /\ Target(joinid[c]) = c

Settled(x) == x \in Conn /\ (pc[x] = "done" \/ joinid[x] # Nobody)

JoinInv ==
  /\ pc[Main] = "create" => threadCount >= 1 /\ clientThreads[threadCount] = Nobody
  /\ \A c \in Conn : JoinerWaits(c)
  /\ pc[Main] = "joining" => Target(Main) \in Conn
  /\ pc[Main] \in {"join", "joining"} =>
       \A j \in 1 .. threadCount : j <= index[Main] => Settled(clientThreads[j])
  /\ \A c \in Conn :
       pc[c] \notin {"none", "unborn"} => \E j \in 1 .. threadCount : clientThreads[j] = c

Inv == ThreadTypes /\ PlacesInv /\ MutexInv /\ CountInv /\ JoinInv

-----------------------------------------------------------------------------
(* What a step does to the threads.                                        *)

Rest == UNCHANGED <<pc, index, clientThreads, joinid, pipe>>

\* A handler goes on in its loop, leaves it, or finishes; a byte of the pipe is
\* taken only on the way out.
HandlerMoves(c) ==
  /\ pc[c] \in LoopPlaces \cup {"cleanup"}
  /\ \E q \in LoopPlaces \cup {"cleanup", "done", "wake"} :
       /\ pc' = [pc EXCEPT ![c] = q]
       /\ q \in LoopPlaces => pc[c] \in LoopPlaces
       /\ pipe' # pipe =>
            pipe > 0 /\ pipe' = pipe - 1 /\ pc[c] \in LoopPlaces /\ q \notin LoopPlaces
  /\ UNCHANGED <<index, clientThreads, joinid>>

\* main goes on, from start-up to its loop and from there to cleanupMain.
MainMoves ==
  /\ pc[Main] \in {"start", "loop", "enter", "accept"}
  /\ \E q \in {"start", "loop", "enter", "accept", "wake"}, i \in Nat :
       /\ pc' = [pc EXCEPT ![Main] = q]
       /\ index' = [index EXCEPT ![Main] = i]
       /\ q # "start" => i = 0 \/ (i = index[Main] /\ pc[Main] # "start")
  /\ UNCHANGED <<clientThreads, joinid, pipe>>

Kind ==
  \/ Rest
  \/ MainMoves
  \/ \E c \in Conn : HandlerMoves(c) \/ Accept(c) \/ Create(c) \/ CreateFails(c)
  \/ \E t \in Thread : Wake(t) \/ Join(t) \/ Joined(t)

\* Setting an entry to what it is.
LEMMA SameEntry ==
  ASSUME NEW S, NEW T, NEW f \in [S -> T], NEW x \in S
  PROVE  [f EXCEPT ![x] = f[x]] = f
OBVIOUS

\* A signal moves main out of accept, a handler out of poll or its read.
LEMMA SignalKind ==
  ASSUME ThreadTypes, PlacesInv, NEW t \in Thread, Signal(t)
  PROVE  Kind
<1>1. pc' = [pc EXCEPT ![t] = Interrupted(t)] /\ UNCHANGED <<index, clientThreads, joinid, pipe>>
  BY DEF Signal, Goto
<1>2. CASE t = Main /\ pc[t] = "accept"
  <2>1. Interrupted(t) = "wake"
    BY <1>2 DEF Interrupted
  <2>2. index' = [index EXCEPT ![Main] = index[Main]] /\ index[Main] \in Nat
    BY <1>1, <1>2, SameEntry DEF ThreadTypes
  <2>3. MainMoves
    BY <1>1, <1>2, <2>1, <2>2 DEF MainMoves
  <2> QED BY <2>3 DEF Kind
<1>3. CASE t # Main /\ pc[t] \in {"poll", "read_pipe"}
  <2>1. Interrupted(t) = "cleanup"
    BY <1>3 DEF Interrupted
  <2>2. HandlerMoves(t)
    BY <1>1, <1>3, <2>1 DEF HandlerMoves, LoopPlaces
  <2> QED BY <1>3, <2>2 DEF Kind, Thread
<1>4. CASE ~ (t = Main /\ pc[t] = "accept") /\ ~ (t # Main /\ pc[t] \in {"poll", "read_pipe"})
  <2>1. Interrupted(t) = pc[t]
    BY <1>4 DEF Interrupted
  <2>2. pc' = pc
    BY <1>1, <2>1, SameEntry DEF ThreadTypes
  <2> QED BY <1>1, <2>2 DEF Kind, Rest
<1> QED BY <1>2, <1>3, <1>4

\* The steps of clientHandler.
LEMMA HandlerKind ==
  ASSUME ThreadTypes, PlacesInv, NEW c \in Conn, HandlerStep(c)
  PROVE  Kind
<1>0. c \in Thread
  BY DEF Thread
<1>1. CASE CleanupStep(c)
  <2>1. CASE JoinUnset(c) \/ Exit(c)
    <3>1. Rest
      BY <2>1 DEF JoinUnset, Exit, Crash, Rest, threads
    <3> QED BY <3>1 DEF Kind
  <2> QED BY <1>0, <1>1, <2>1 DEF CleanupStep, Kind
<1>2. ASSUME Crash PROVE Kind
  BY <1>2 DEF Crash, Kind, Rest, threads
<1>3. ASSUME UNCHANGED <<index, clientThreads, joinid>>, HandlerMoves(c) PROVE Kind
  BY <1>3 DEF Kind
<1>4. CASE Poll(c) \/ PollNoMemory(c)
  <2>1. HandlerMoves(c)
    BY <1>4 DEF Poll, PollNoMemory, At, Goto, Leave, HandlerMoves, LoopPlaces
  <2> QED BY <2>1 DEF Kind
<1>5. CASE ReadPipe(c)
  <2>1. HandlerMoves(c)
    BY <1>5 DEF ReadPipe, At, Goto, HandlerMoves, LoopPlaces
  <2> QED BY <2>1 DEF Kind
<1>6. CASE Recv(c)
  <2>1. PICK newline \in BOOLEAN : Goto(c, IF newline THEN "lock" ELSE "poll")
    BY <1>6 DEF Recv
  <2>2. PICK q \in {"lock", "poll"} : pc' = [pc EXCEPT ![c] = q]
    BY <2>1 DEF Goto
  <2>3. HandlerMoves(c)
    BY <1>6, <2>2 DEF Recv, At, HandlerMoves, LoopPlaces
  <2> QED BY <2>3 DEF Kind
<1>7. CASE RecvEof(c) \/ RecvNoMemory(c)
  <2>1. HandlerMoves(c)
    BY <1>7 DEF RecvEof, RecvNoMemory, At, Goto, Leave, HandlerMoves, LoopPlaces
  <2> QED BY <2>1 DEF Kind
<1>8. CASE RecvFails(c)
  <2>1. Crash \/ HandlerMoves(c)
    BY <1>8 DEF RecvFails, At, Goto, Leave, HandlerMoves, LoopPlaces
  <2> QED BY <2>1, <1>2 DEF Kind
<1>9. CASE Lock(c) \/ Serve(c)
  <2>1. HandlerMoves(c)
    BY <1>9 DEF Lock, Serve, At, Goto, HandlerMoves, LoopPlaces
  <2> QED BY <2>1 DEF Kind
<1>10. CASE IoctlFails(c) \/ ReadFails(c)
  <2>1. HandlerMoves(c)
    BY <1>10 DEF IoctlFails, ReadFails, At, Goto, Leave, HandlerMoves, LoopPlaces
  <2> QED BY <2>1 DEF Kind
<1>11. CASE FileCrash(c)
  BY <1>11, <1>2 DEF FileCrash
<1>12. CASE Cleanup(c)
  <2>1. HandlerMoves(c)
    BY <1>12 DEF Cleanup, At, Goto, HandlerMoves, LoopPlaces
  <2> QED BY <2>1 DEF Kind
<1> QED BY <1>1, <1>4, <1>5, <1>6, <1>7, <1>8, <1>9, <1>10, <1>11, <1>12 DEF HandlerStep

\* The steps of main.
LEMMA MainKind ==
  ASSUME ThreadTypes, PlacesInv, MainStep
  PROVE  Kind
<1>0. Main \in Thread /\ index[Main] \in Nat
  BY DEF Thread, ThreadTypes
<1>1. CASE CleanupStep(Main)
  <2>1. CASE JoinUnset(Main) \/ Exit(Main)
    <3>1. Rest
      BY <2>1 DEF JoinUnset, Exit, Crash, Rest, threads
    <3> QED BY <3>1 DEF Kind
  <2> QED BY <1>0, <1>1, <2>1 DEF CleanupStep, Kind
<1>2. CASE NoClientData \/ CreateOverruns
  BY <1>2 DEF NoClientData, CreateOverruns, Crash, Kind, Rest, threads
<1>3. CASE StartUp
  <2>1. CASE index[Main] < Len(StartCalls)
    <3>1. pc' = [pc EXCEPT ![Main] = "start"]
      <4>1. pc' = pc /\ pc[Main] = "start"
        BY <1>3, <2>1 DEF StartUp, At
      <4> QED BY <4>1, <1>0, SameEntry DEF ThreadTypes
    <3>2. index' = [index EXCEPT ![Main] = index[Main] + 1] /\ index[Main] + 1 \in Nat
      BY <1>0, <1>3, <2>1 DEF StartUp
    <3>3. MainMoves
      BY <1>3, <3>1, <3>2 DEF StartUp, At, MainMoves
    <3> QED BY <3>3 DEF Kind
  <2>2. CASE ~ (index[Main] < Len(StartCalls))
    <3>1. MainMoves
      BY <1>3, <2>2 DEF StartUp, At, Goto, MainMoves
    <3> QED BY <3>1 DEF Kind
  <2> QED BY <2>1, <2>2
<1>4. CASE StartFails
  <2>1. MainMoves
    BY <1>4 DEF StartFails, At, Goto, Leave, MainMoves
  <2> QED BY <2>1 DEF Kind
<1>5. CASE LoopTest \/ EnterAccept \/ AcceptFails
  <2>1. index' = [index EXCEPT ![Main] = index[Main]]
    <3>1. index' = index
      BY <1>5 DEF LoopTest, EnterAccept, AcceptFails
    <3> QED BY <3>1, <1>0, SameEntry DEF ThreadTypes
  <2>2. pc[Main] \in {"loop", "enter", "accept"} /\ UNCHANGED <<clientThreads, joinid, pipe>>
    BY <1>5 DEF LoopTest, EnterAccept, AcceptFails, At
  <2>3. PICK q \in {"enter", "accept", "wake"} : pc' = [pc EXCEPT ![Main] = q]
    BY <1>5 DEF LoopTest, EnterAccept, AcceptFails, Goto, Leave
  <2>4. MainMoves
    BY <1>0, <2>1, <2>2, <2>3 DEF MainMoves
  <2> QED BY <2>4 DEF Kind
<1>6. ASSUME NEW c \in Conn, Accept(c) \/ Create(c) \/ CreateFails(c) PROVE Kind
  BY <1>6 DEF Kind
<1> QED BY <1>1, <1>2, <1>3, <1>4, <1>5, <1>6 DEF MainStep

\* Every step is of one of the kinds.
LEMMA StepKinds ==
  ASSUME ThreadTypes, PlacesInv, [Next]_vars
  PROVE  Kind
<1>1. CASE UNCHANGED vars
  BY <1>1 DEF vars, Kind, Rest
<1>2. CASE Environment
  <2>1. ASSUME NEW t \in Recipients, Signal(t) PROVE Kind
    BY <2>1, RecipientAssumption, SignalKind
  <2>2. CASE SignalKills
    BY <2>2 DEF SignalKills, Kind, Rest, threads
  <2>3. ASSUME NEW c \in Conn, Connect(c) \/ Hangup(c) PROVE Kind
    BY <2>3 DEF Connect, Hangup, Kind, Rest, threads
  <2>4. ASSUME NEW c \in Conn, NEW chunk \in Chunk, Send(c, chunk) PROVE Kind
    BY <2>4 DEF Send, Kind, Rest, threads
  <2> QED BY <1>2, <2>1, <2>2, <2>3, <2>4 DEF Environment
<1> QED BY <1>1, <1>2, MainKind, HandlerKind DEF Next

\* A step that is not about the mutex moves no handler to the device, and none
\* that may hold the mutex away from where it may.
Keeps ==
  /\ fileMutex' = fileMutex
  /\ \A c \in Conn :
       /\ pc'[c] = "file" => pc[c] = "file"
       /\ pc[c] \in {"file"} \cup ExitPlaces => pc'[c] \in {"file"} \cup ExitPlaces

\* Only Lock, Serve and IoctlFails touch fileMutex or what its owner is doing.
LEMMA MutexKinds ==
  ASSUME ThreadTypes, PlacesInv, [Next]_vars
  PROVE  Keeps \/ \E c \in Conn : Lock(c) \/ Serve(c) \/ IoctlFails(c)
<1> USE DEF ThreadTypes, Keeps
<1>0. Main \in Thread /\ Main \notin Conn /\ Conn \subseteq Thread
  BY ThreadAssumption DEF Thread
<1>1. ASSUME pc' = pc, fileMutex' = fileMutex PROVE Keeps
  BY <1>1
<1>2. ASSUME NEW q, pc' = [pc EXCEPT ![Main] = q], fileMutex' = fileMutex PROVE Keeps
  BY <1>0, <1>2
<1>3. ASSUME NEW c \in Conn, NEW q, pc' = [pc EXCEPT ![c] = q], fileMutex' = fileMutex,
             q # "file", pc[c] \in {"file"} \cup ExitPlaces => q \in {"file"} \cup ExitPlaces
      PROVE  Keeps
  BY <1>0, <1>3
<1>4. ASSUME Crash PROVE Keeps
  BY <1>1, <1>4 DEF Crash, threads
<1>5. ASSUME NEW t \in Thread, CleanupStep(t) PROVE Keeps
  <2>1. CASE JoinUnset(t) \/ Exit(t)
    BY <1>1, <1>4, <2>1 DEF JoinUnset, Exit, threads
  <2>2. CASE Wake(t) \/ Join(t) \/ Joined(t)
    <3>1. pc[t] \in ExitPlaces /\ fileMutex' = fileMutex
      BY <2>2 DEF Wake, Join, Joined, At, ExitPlaces
    <3>2. pc' = pc \/ \E q \in ExitPlaces : pc' = [pc EXCEPT ![t] = q]
      BY <2>2 DEF Wake, Join, Joined, Goto, ExitPlaces
    <3>3. \A q \in ExitPlaces : q # "file"
      BY DEF ExitPlaces
    <3> QED BY <3>1, <3>2, <3>3, <1>1, <1>2, <1>3 DEF Thread
  <2> QED BY <1>5, <2>1, <2>2 DEF CleanupStep
<1>6. CASE MainStep
  <2>1. CASE StartUp \/ StartFails \/ LoopTest \/ EnterAccept \/ AcceptFails
    <3>1. (pc' = pc \/ \E q : pc' = [pc EXCEPT ![Main] = q]) /\ fileMutex' = fileMutex
      BY <2>1 DEF StartUp, StartFails, LoopTest, EnterAccept, AcceptFails, Goto, Leave
    <3> QED BY <3>1, <1>1, <1>2
  <2>2. CASE NoClientData \/ CreateOverruns
    BY <2>2, <1>4 DEF NoClientData, CreateOverruns
  <2>3. ASSUME NEW c \in Conn, Accept(c) PROVE Keeps
    BY <2>3, <1>2 DEF Accept, Goto
  <2>4. ASSUME NEW c \in Conn, Create(c) \/ CreateFails(c) PROVE Keeps
    <3>1. PICK q \in {"poll", "unborn"} : pc' = [pc EXCEPT ![Main] = "loop", ![c] = q]
      BY <2>4 DEF Create, CreateFails
    <3>2. pc[c] = "none" /\ fileMutex' = fileMutex
      BY <2>4 DEF Create, CreateFails, Accepted
    <3> QED BY <1>0, <3>1, <3>2 DEF ExitPlaces
  <2> QED BY <1>0, <1>5, <1>6, <2>1, <2>2, <2>3, <2>4 DEF MainStep
<1>7. ASSUME NEW c \in Conn, HandlerStep(c)
      PROVE  Keeps \/ Lock(c) \/ Serve(c) \/ IoctlFails(c)
  <2>1. CASE Poll(c) \/ PollNoMemory(c) \/ ReadPipe(c) \/ RecvEof(c) \/ RecvNoMemory(c)
             \/ ReadFails(c) \/ Cleanup(c)
    <3>1. PICK q \in {"read_pipe", "recv", "wake", "cleanup", "done"} :
            pc' = [pc EXCEPT ![c] = q]
      BY <2>1 DEF Poll, PollNoMemory, ReadPipe, RecvEof, RecvNoMemory, ReadFails, Cleanup,
                  Goto, Leave
    <3>2. /\ fileMutex' = fileMutex /\ pc[c] \notin ExitPlaces
          /\ pc[c] = "file" => pc' = [pc EXCEPT ![c] = "wake"]
      BY <2>1 DEF Poll, PollNoMemory, ReadPipe, RecvEof, RecvNoMemory, ReadFails, Cleanup,
                  Goto, Leave, At, ExitPlaces
    <3>3. CASE pc[c] = "file"
      BY <1>3, <3>2, <3>3 DEF ExitPlaces
    <3>4. CASE pc[c] # "file"
      BY <1>3, <3>1, <3>2, <3>4
    <3> QED BY <3>3, <3>4
  <2>2. CASE Recv(c)
    <3>1. PICK q \in {"lock", "poll"} : pc' = [pc EXCEPT ![c] = q]
      BY <2>2 DEF Recv, Goto
    <3>2. fileMutex' = fileMutex /\ pc[c] = "recv"
      BY <2>2 DEF Recv, At
    <3> QED BY <1>3, <3>1, <3>2 DEF ExitPlaces
  <2>3. CASE RecvFails(c)
    <3>1. CASE Crash
      BY <3>1, <1>4
    <3>2. CASE ~ Crash
      <4>1. pc[c] = "recv" /\ pc' = [pc EXCEPT ![c] = "wake"] /\ fileMutex' = fileMutex
        BY <2>3, <3>2 DEF RecvFails, At, Goto, Leave
      <4> QED BY <1>3, <4>1 DEF ExitPlaces
    <3> QED BY <3>1, <3>2
  <2>4. CASE FileCrash(c)
    BY <2>4, <1>4 DEF FileCrash
  <2> QED BY <1>0, <1>5, <1>7, <2>1, <2>2, <2>3, <2>4 DEF HandlerStep
<1>8. CASE Environment
  <2>1. ASSUME NEW t \in Recipients, Signal(t) PROVE Keeps
    <3>1. t \in Thread /\ pc' = [pc EXCEPT ![t] = Interrupted(t)] /\ fileMutex' = fileMutex
      BY <2>1, RecipientAssumption DEF Signal, Goto
    <3>2. CASE t = Main
      BY <3>1, <3>2, <1>2
    <3>3. CASE t # Main
      <4>1. pc[t] \in {"file"} \cup ExitPlaces => Interrupted(t) = pc[t]
        BY <3>3 DEF Interrupted, ExitPlaces
      <4>2. Interrupted(t) \in {"cleanup", pc[t]}
        BY <3>3 DEF Interrupted
      <4>3. CASE pc[t] \in {"file"} \cup ExitPlaces
        <5>1. pc' = pc
          BY <3>1, <4>1, <4>3, SameEntry
        <5> QED BY <5>1, <3>1, <1>1
      <4>4. CASE pc[t] \notin {"file"} \cup ExitPlaces
        BY <3>1, <3>3, <4>2, <4>4, <1>3 DEF Thread
      <4> QED BY <4>3, <4>4
    <3> QED BY <3>2, <3>3
  <2>2. CASE SignalKills
    BY <2>2, <1>1 DEF SignalKills, threads
  <2>3. ASSUME NEW c \in Conn, Connect(c) \/ Hangup(c) PROVE Keeps
    BY <2>3, <1>1 DEF Connect, Hangup, threads
  <2>4. ASSUME NEW c \in Conn, NEW chunk \in Chunk, Send(c, chunk) PROVE Keeps
    BY <2>4, <1>1 DEF Send, threads
  <2> QED BY <1>8, <2>1, <2>2, <2>3, <2>4 DEF Environment
<1>9. CASE UNCHANGED vars
  BY <1>9, <1>1 DEF vars
<1> QED BY <1>6, <1>7, <1>8, <1>9 DEF Next

\* One step keeps the mutex with a handler that may hold it.
LEMMA MutexNext ==
  ASSUME ThreadTypes, PlacesInv, MutexInv, [Next]_vars
  PROVE  MutexInv' /\ fileMutex' \in Conn \cup {Nobody}
<1>0. Nobody \notin Conn /\ Conn \subseteq Thread
  BY ThreadAssumption DEF Thread
<1>1. CASE Keeps
  BY <1>1, <1>0 DEF Keeps, MutexInv, MutexNotOrphaned, ThreadTypes, ExitPlaces
<1>2. ASSUME NEW c \in Conn, Lock(c) \/ Serve(c) \/ IoctlFails(c)
      PROVE  MutexInv' /\ fileMutex' \in Conn \cup {Nobody}
  <2>1. CASE Lock(c)
    <3>1. fileMutex = Nobody /\ fileMutex' = c /\ pc' = [pc EXCEPT ![c] = "file"]
      BY <2>1 DEF Lock, Goto
    <3> QED BY <3>1, <1>0 DEF MutexInv, MutexNotOrphaned, ThreadTypes
  <2>2. CASE Serve(c) \/ IoctlFails(c)
    <3>1. pc[c] = "file" /\ fileMutex' = Nobody
      BY <2>2 DEF Serve, IoctlFails, At
    <3>2. PICK q \in {"poll", "wake"} : pc' = [pc EXCEPT ![c] = q]
      BY <2>2 DEF Serve, IoctlFails, Goto, Leave
    <3> QED BY <3>1, <3>2, <1>0 DEF MutexInv, MutexNotOrphaned, ThreadTypes
  <2> QED BY <1>2, <2>1, <2>2
<1> QED BY <1>1, <1>2, MutexKinds

\* The process and the flag.
LEMMA FlagsNext ==
  ASSUME ThreadTypes, [Next]_vars
  PROVE  /\ process' \in {"running", "stopped", "failed", "crashed", "killed"}
         /\ stop' \in BOOLEAN
         /\ process' = "stopped" =>
              Exit(Main) \/ (process = "stopped" /\ UNCHANGED vars)
<1> DEFINE Fine == /\ process' \in {"running", "stopped", "failed", "crashed", "killed"}
                   /\ stop' \in BOOLEAN
                   /\ process' = "stopped" => Exit(Main)
<1>0. Main \notin Conn
  BY ThreadAssumption DEF Thread
<1>1. CASE UNCHANGED vars
  BY <1>1 DEF vars, ThreadTypes
<1>2. ASSUME process = "running", UNCHANGED <<process, stop>> PROVE Fine
  BY <1>2 DEF ThreadTypes
<1>3. ASSUME Crash PROVE Fine
  BY <1>3 DEF Crash, ThreadTypes
<1>4. ASSUME NEW t \in Thread, CleanupStep(t) PROVE Fine
  <2>1. CASE Wake(t) \/ Join(t) \/ Joined(t)
    BY <2>1, <1>2 DEF Wake, Join, Joined, At
  <2>2. CASE JoinUnset(t)
    BY <2>2, <1>3 DEF JoinUnset
  <2>3. CASE Exit(t)
    BY <2>3 DEF Exit, ThreadTypes
  <2> QED BY <1>4, <2>1, <2>2, <2>3 DEF CleanupStep
<1>5. CASE MainStep
  <2>1. CASE StartUp \/ StartFails \/ LoopTest \/ EnterAccept \/ AcceptFails
    BY <2>1, <1>2 DEF StartUp, StartFails, LoopTest, EnterAccept, AcceptFails, At
  <2>2. CASE NoClientData \/ CreateOverruns
    BY <2>2, <1>3 DEF NoClientData, CreateOverruns
  <2>3. ASSUME NEW c \in Conn, Accept(c) \/ Create(c) \/ CreateFails(c) PROVE Fine
    BY <2>3, <1>2 DEF Accept, Create, CreateFails, At
  <2> QED BY <1>4, <1>5, <2>1, <2>2, <2>3 DEF MainStep, Thread
<1>6. ASSUME NEW c \in Conn, HandlerStep(c) PROVE Fine
  <2>1. CASE \/ Poll(c) \/ PollNoMemory(c) \/ ReadPipe(c) \/ Recv(c) \/ RecvEof(c)
             \/ RecvNoMemory(c)
    BY <2>1, <1>2 DEF Poll, PollNoMemory, ReadPipe, Recv, RecvEof, RecvNoMemory, At
  <2>2. CASE Lock(c) \/ Serve(c) \/ IoctlFails(c) \/ ReadFails(c) \/ Cleanup(c)
    BY <2>2, <1>2 DEF Lock, Serve, IoctlFails, ReadFails, Cleanup, At
  <2>3. CASE RecvFails(c) \/ FileCrash(c)
    BY <2>3, <1>2, <1>3 DEF RecvFails, FileCrash, At
  <2> QED BY <1>4, <1>6, <2>1, <2>2, <2>3 DEF HandlerStep, Thread
<1>7. CASE Environment
  <2>1. ASSUME NEW t \in Recipients, Signal(t) PROVE Fine
    BY <2>1 DEF Signal
  <2>2. CASE SignalKills
    BY <2>2 DEF SignalKills, ThreadTypes
  <2>3. ASSUME NEW c \in Conn, Connect(c) \/ Hangup(c) PROVE Fine
    BY <2>3, <1>2 DEF Connect, Hangup
  <2>4. ASSUME NEW c \in Conn, NEW chunk \in Chunk, Send(c, chunk) PROVE Fine
    BY <2>4, <1>2 DEF Send
  <2> QED BY <1>7, <2>1, <2>2, <2>3, <2>4 DEF Environment
<1> QED BY <1>1, <1>5, <1>6, <1>7 DEF Next

-----------------------------------------------------------------------------
(* Types and places, from the kinds of steps.                              *)

\* threadCount++ leaves an unset entry at the end of the array.
LEMMA ArrayGrows ==
  ASSUME ThreadTypes, NEW c \in Conn, Accept(c)
  PROVE  /\ clientThreads' \in Seq(Conn \cup {Nobody})
         /\ threadCount \in Nat /\ threadCount' = threadCount + 1
         /\ \A j \in 1 .. threadCount : clientThreads'[j] = clientThreads[j]
         /\ clientThreads'[threadCount'] = Nobody
<1>1. clientThreads' = Append(clientThreads, Nobody)
  BY DEF Accept
<1> QED BY <1>1, AppendProperties, LenProperties DEF ThreadTypes, threadCount

\* pthread_create fills in the last entry.
LEMMA ArraySet ==
  ASSUME ThreadTypes, JoinInv, NEW c \in Conn, Create(c)
  PROVE  /\ clientThreads' \in Seq(Conn \cup {Nobody})
         /\ threadCount \in Nat /\ threadCount >= 1 /\ threadCount' = threadCount
         /\ clientThreads[threadCount] = Nobody /\ clientThreads'[threadCount] = c
         /\ \A j \in 1 .. threadCount : j # threadCount => clientThreads'[j] = clientThreads[j]
<1>1. clientThreads' = [clientThreads EXCEPT ![threadCount] = c] /\ pc[Main] = "create"
  BY DEF Create, At, threadCount
<1>2. threadCount \in Nat /\ threadCount >= 1 /\ clientThreads[threadCount] = Nobody
  BY <1>1, LenProperties DEF JoinInv, threadCount, ThreadTypes
<1>3. threadCount \in 1 .. Len(clientThreads) /\ c \in Conn \cup {Nobody}
  BY <1>2 DEF threadCount
<1>4. /\ clientThreads' \in Seq(Conn \cup {Nobody})
      /\ Len(clientThreads') = Len(clientThreads)
      /\ \A j \in 1 .. Len(clientThreads) :
           clientThreads'[j] = IF j = threadCount THEN c ELSE clientThreads[j]
  BY <1>1, <1>3, ExceptSeq DEF ThreadTypes
<1> QED BY <1>2, <1>3, <1>4 DEF threadCount

\* One step keeps the types of the threads' variables and their places.
LEMMA ThreadsNext ==
  ASSUME Inv, [Next]_vars
  PROVE  ThreadTypes' /\ PlacesInv'
<1> USE DEF Inv
<1>0. Main \in Thread /\ Main \notin Conn /\ Conn \subseteq Thread
  BY ThreadAssumption DEF Thread
<1>1. /\ process' \in {"running", "stopped", "failed", "crashed", "killed"}
      /\ stop' \in BOOLEAN /\ fileMutex' \in Conn \cup {Nobody}
  BY FlagsNext, MutexNext
<1> DEFINE Kept == /\ pc' \in [Thread -> Places] /\ PlacesInv'
                    /\ index' \in [Thread -> Nat]
                    /\ clientThreads' \in Seq(Conn \cup {Nobody})
                    /\ joinid' \in [Conn -> Thread \cup {Nobody}]
                    /\ pipe' \in Nat
<1>2. MainPlaces \subseteq Places /\ HandlerPlaces \subseteq Places
  BY DEF MainPlaces, HandlerPlaces, LoopPlaces, ExitPlaces, Places
<1>3. ASSUME NEW q \in MainPlaces, pc' = [pc EXCEPT ![Main] = q]
      PROVE  pc' \in [Thread -> Places] /\ PlacesInv'
  BY <1>0, <1>2, <1>3 DEF PlacesInv, ThreadTypes
<1>4. ASSUME NEW c \in Conn, NEW q \in HandlerPlaces, pc' = [pc EXCEPT ![c] = q]
      PROVE  pc' \in [Thread -> Places] /\ PlacesInv'
  BY <1>0, <1>2, <1>4 DEF PlacesInv, ThreadTypes
<1>5. ASSUME NEW t \in Thread, NEW q \in ExitPlaces, pc' = [pc EXCEPT ![t] = q]
      PROVE  pc' \in [Thread -> Places] /\ PlacesInv'
  BY <1>3, <1>4, <1>5 DEF Thread, MainPlaces, HandlerPlaces, ExitPlaces
<1>6. ASSUME pc' = pc PROVE pc' \in [Thread -> Places] /\ PlacesInv'
  BY <1>6 DEF PlacesInv, ThreadTypes
<1>7. ASSUME Rest PROVE Kept
  BY <1>6, <1>7 DEF Rest, ThreadTypes
<1>8. ASSUME MainMoves PROVE Kept
  <2>1. PICK q \in {"start", "loop", "enter", "accept", "wake"}, i \in Nat :
          pc' = [pc EXCEPT ![Main] = q] /\ index' = [index EXCEPT ![Main] = i]
    BY <1>8 DEF MainMoves
  <2>2. pc' \in [Thread -> Places] /\ PlacesInv'
    BY <1>3, <2>1 DEF MainPlaces
  <2>3. index' \in [Thread -> Nat]
    BY <2>1 DEF ThreadTypes
  <2> QED BY <1>8, <2>2, <2>3 DEF MainMoves, ThreadTypes
<1>9. ASSUME NEW c \in Conn, HandlerMoves(c) PROVE Kept
  <2>1. pipe' \in Nat
    BY <1>9 DEF HandlerMoves, ThreadTypes
  <2>2. pc' \in [Thread -> Places] /\ PlacesInv'
    BY <1>4, <1>9 DEF HandlerMoves, HandlerPlaces, ExitPlaces
  <2> QED BY <1>9, <2>1, <2>2 DEF HandlerMoves, ThreadTypes
<1>10. ASSUME NEW c \in Conn, Accept(c) PROVE Kept
  BY <1>3, <1>10, ArrayGrows DEF Accept, Goto, ThreadTypes, MainPlaces
<1>11. ASSUME NEW c \in Conn, Create(c) \/ CreateFails(c) PROVE Kept
  <2>1. PICK q \in {"poll", "unborn"} : pc' = [pc EXCEPT ![Main] = "loop", ![c] = q]
    BY <1>11 DEF Create, CreateFails
  <2>2. q \in HandlerPlaces /\ q \in Places /\ "loop" \in MainPlaces /\ "loop" \in Places
    BY DEF HandlerPlaces, LoopPlaces, MainPlaces, Places
  <2>3. pc' \in [Thread -> Places] /\ PlacesInv'
    BY <1>0, <2>1, <2>2 DEF PlacesInv, ThreadTypes
  <2>4. clientThreads' \in Seq(Conn \cup {Nobody})
    BY <1>11, ArraySet DEF CreateFails, ThreadTypes
  <2> QED BY <1>11, <2>3, <2>4 DEF Create, CreateFails, ThreadTypes
<1>12. ASSUME NEW t \in Thread, Wake(t) \/ Join(t) \/ Joined(t) PROVE Kept
  <2>1. pc' = pc \/ \E q \in ExitPlaces : pc' = [pc EXCEPT ![t] = q]
    BY <1>12 DEF Wake, Join, Joined, Goto, ExitPlaces
  <2>2. index' = index \/ \E i \in Nat : index' = [index EXCEPT ![t] = i]
    <3>1. index[t] + 1 \in Nat /\ 0 \in Nat
      BY DEF ThreadTypes
    <3> QED BY <1>12, <3>1 DEF Wake, Join, Joined
  <2>3. pipe' \in Nat /\ clientThreads' = clientThreads
    BY <1>12 DEF Wake, Join, Joined, ThreadTypes
  <2>4. joinid' = joinid \/ joinid' = [joinid EXCEPT ![Target(t)] = t]
    BY <1>12 DEF Wake, Join, Joined
  <2> QED BY <1>5, <1>6, <2>1, <2>2, <2>3, <2>4, SMTT(30) DEF ThreadTypes
<1>13. Kept
  BY <1>7, <1>8, <1>9, <1>10, <1>11, <1>12, StepKinds DEF Kind
<1> QED BY <1>1, <1>13 DEF ThreadTypes

-----------------------------------------------------------------------------
(* The wakeup bytes.                                                       *)

\* Steps that take no handler into or out of its loop.
LEMMA SameLooping ==
  ASSUME \A c \in Conn : pc'[c] \in LoopPlaces <=> pc[c] \in LoopPlaces
  PROVE  Looping' = Looping
BY DEF Looping

\* One step keeps enough bytes.
LEMMA CountNext ==
  ASSUME Inv, ThreadTypes', [Next]_vars
  PROVE  CountInv'
<1> USE DEF Inv
<1>0. Main \in Thread /\ Main \notin Conn /\ Conn \subseteq Thread
  BY ThreadAssumption DEF Thread
<1> DEFINE n == Cardinality(Looping)
<1>1. n \in Nat /\ IsFiniteSet(Looping) /\ threadCount \in Nat /\ pipe \in Nat
      /\ index[Main] \in Nat
  BY <1>0, FS_CardinalityType, LenProperties DEF CountInv, threadCount, ThreadTypes
<1>2. n + Creating <= threadCount /\ Creating \in {0, 1}
  BY DEF CountInv, Creating
<1>3. n <= threadCount
  BY <1>1, <1>2
<1>4. CASE Rest
  <2>1. Looping' = Looping
    BY <1>4 DEF Looping, Rest
  <2>2. threadCount' = threadCount /\ Creating' = Creating
    BY <1>4 DEF Rest, threadCount, Creating
  <2> QED BY <1>4, <2>1, <2>2 DEF CountInv, Rest
<1>5. CASE MainMoves
  <2>1. PICK q \in {"start", "loop", "enter", "accept", "wake"}, i \in Nat :
          /\ pc' = [pc EXCEPT ![Main] = q]
          /\ index' = [index EXCEPT ![Main] = i]
          /\ q # "start" => i = 0 \/ (i = index[Main] /\ pc[Main] # "start")
    BY <1>5 DEF MainMoves
  <2>2. pc'[Main] = q /\ index'[Main] = i /\ \A c \in Conn : pc'[c] = pc[c]
    BY <1>0, <2>1 DEF ThreadTypes
  <2>3. Looping' = Looping /\ threadCount' = threadCount /\ pipe' = pipe
    BY <1>5, <2>2, SameLooping DEF MainMoves, threadCount
  <2>4. q # "start" => i = 0
    BY <1>5, <2>1 DEF MainMoves, CountInv
  <2>5. Creating' = 0
    BY <2>2 DEF Creating
  <2>6. n + 0 <= threadCount /\ 0 <= threadCount /\ n <= pipe + (threadCount - 0)
    BY <1>1, <1>3
  <2> QED BY <1>1, <2>2, <2>3, <2>4, <2>5, <2>6 DEF CountInv
<1>6. ASSUME NEW c \in Conn, HandlerMoves(c) PROVE CountInv'
  <2>1. PICK q \in LoopPlaces \cup {"cleanup", "done", "wake"} :
          /\ pc' = [pc EXCEPT ![c] = q]
          /\ q \in LoopPlaces => pc[c] \in LoopPlaces
          /\ pipe' # pipe =>
               pipe > 0 /\ pipe' = pipe - 1 /\ pc[c] \in LoopPlaces /\ q \notin LoopPlaces
    BY <1>6 DEF HandlerMoves
  <2>2. pc'[c] = q /\ \A t \in Thread : t # c => pc'[t] = pc[t]
    BY <1>0, <2>1 DEF ThreadTypes
  <2>3. pc'[Main] = pc[Main] /\ index' = index /\ threadCount' = threadCount
    BY <1>0, <1>6, <2>2 DEF HandlerMoves, threadCount
  <2>4. Creating' = Creating
    BY <2>3 DEF Creating
  <2>5. CASE pc[c] \in LoopPlaces /\ q \notin LoopPlaces
    <3>1. Looping' = Looping \ {c} /\ c \in Looping
      BY <1>0, <2>2, <2>5 DEF Looping
    <3>2. IsFiniteSet(Looping') /\ Cardinality(Looping') = n - 1
      BY <1>1, <3>1, FS_RemoveElement
    <3>3. pipe' = pipe \/ pipe' = pipe - 1
      BY <2>1
    <3>4. (n - 1) + Creating <= threadCount
      BY <1>1, <1>2
    <3>5. \A m \in Int : n <= pipe + m => n - 1 <= pipe' + m
      BY <1>1, <3>3
    <3>6. n <= pipe => n - 1 <= pipe'
      BY <1>1, <3>3
    <3>7. threadCount - index[Main] \in Int
      BY <1>1
    <3> QED BY <2>3, <2>4, <3>2, <3>4, <3>5, <3>6, <3>7 DEF CountInv
  <2>6. CASE ~ (pc[c] \in LoopPlaces /\ q \notin LoopPlaces)
    <3>1. pipe' = pipe
      BY <2>1, <2>6
    <3>2. Looping' = Looping
      BY <1>0, <2>1, <2>2, <2>6, SameLooping
    <3> QED BY <2>3, <2>4, <3>1, <3>2 DEF CountInv
  <2> QED BY <2>5, <2>6
<1>7. ASSUME NEW c \in Conn, Accept(c) PROVE CountInv'
  <2>1. pc[Main] = "accept" /\ pc' = [pc EXCEPT ![Main] = "create"] /\ index' = index
        /\ pipe' = pipe
    BY <1>7 DEF Accept, At, Goto
  <2>2. pc'[Main] = "create" /\ \A d \in Conn : pc'[d] = pc[d]
    BY <1>0, <2>1 DEF ThreadTypes
  <2>3. Looping' = Looping /\ threadCount' = threadCount + 1 /\ Creating' = 1
    BY <1>7, <2>2, SameLooping, ArrayGrows DEF Creating
  <2>4. n + 1 <= threadCount + 1
    BY <1>1, <1>3
  <2> QED BY <1>1, <2>1, <2>2, <2>3, <2>4 DEF CountInv
<1>8. ASSUME NEW c \in Conn, Create(c) \/ CreateFails(c) PROVE CountInv'
  <2>1. PICK q \in {"poll", "unborn"} : pc' = [pc EXCEPT ![Main] = "loop", ![c] = q]
    BY <1>8 DEF Create, CreateFails
  <2>2. pc'[Main] = "loop" /\ pc'[c] = q /\ \A d \in Conn : d # c => pc'[d] = pc[d]
    BY <1>0, <2>1 DEF ThreadTypes
  <2>3. pc[Main] = "create" /\ pc[c] = "none" /\ index' = index
    BY <1>8 DEF Create, CreateFails, At, Accepted
  <2>4. threadCount' = threadCount
    BY <1>8, ArraySet DEF CreateFails, threadCount
  <2>5. Creating = 1 /\ Creating' = 0
    BY <2>2, <2>3 DEF Creating
  <2>6. c \notin Looping
    BY <2>3 DEF Looping, LoopPlaces
  <2>7. Looping' = Looping \/ Looping' = Looping \cup {c}
    BY <2>2, <2>3 DEF Looping, LoopPlaces
  <2>8. IsFiniteSet(Looping') /\ Cardinality(Looping') \in {n, n + 1}
    BY <1>1, <2>6, <2>7, FS_AddElement
  <2>9. n <= threadCount /\ n + 1 <= threadCount
    BY <1>1, <1>2, <2>5
  <2>10. Cardinality(Looping') + 0 <= threadCount
    BY <1>1, <2>8, <2>9
  <2> QED BY <2>2, <2>3, <2>4, <2>5, <2>8, <2>10 DEF CountInv
<1>9. ASSUME NEW t \in Thread, Wake(t) \/ Join(t) \/ Joined(t) PROVE CountInv'
  <2>1. /\ pc[t] \in ExitPlaces /\ clientThreads' = clientThreads
        /\ pc' = pc \/ \E q \in ExitPlaces : pc' = [pc EXCEPT ![t] = q]
    BY <1>9 DEF Wake, Join, Joined, At, Goto, ExitPlaces
  <2>2. (\A u \in Thread : u # t => pc'[u] = pc[u]) /\ pc'[t] \in ExitPlaces
    BY <2>1 DEF ThreadTypes
  <2>3. Looping' = Looping /\ threadCount' = threadCount
    BY <1>0, <2>1, <2>2, SameLooping DEF LoopPlaces, ExitPlaces, threadCount
  <2>4. Creating' = Creating
    BY <1>0, <2>1, <2>2 DEF Creating, ExitPlaces
  <2>5. pipe' = pipe \/ pipe' = pipe + 1
    BY <1>9 DEF Wake, Join, Joined
  <2>6. CASE t # Main
    <3>1. pc'[Main] = pc[Main] /\ index'[Main] = index[Main]
      BY <1>0, <1>9, <2>2, <2>6 DEF Wake, Join, Joined, ThreadTypes
    <3>2. \A m \in Int : n <= pipe + m => n <= pipe' + m
      BY <1>1, <2>5
    <3>3. n <= pipe => n <= pipe'
      BY <1>1, <2>5
    <3>4. threadCount - index[Main] \in Int
      BY <1>1
    <3> QED BY <2>3, <2>4, <3>1, <3>2, <3>3, <3>4 DEF CountInv
  <2>7. CASE t = Main /\ Wake(t)
    <3>1. pc[Main] = "wake"
      BY <2>7 DEF Wake, At
    <3>2. index[Main] <= threadCount /\ n <= pipe + (threadCount - index[Main])
      BY <3>1 DEF CountInv
    <3>3. CASE index[Main] < threadCount
      <4>1. pipe' = pipe + 1 /\ index' = [index EXCEPT ![Main] = index[Main] + 1] /\ pc' = pc
        BY <2>7, <3>3 DEF Wake
      <4>2. index'[Main] = index[Main] + 1
        BY <1>0, <4>1 DEF ThreadTypes
      <4>3. /\ index[Main] + 1 <= threadCount
            /\ n <= (pipe + 1) + (threadCount - (index[Main] + 1))
        BY <1>1, <3>2, <3>3
      <4> QED BY <1>1, <1>2, <2>3, <2>4, <3>1, <4>1, <4>2, <4>3 DEF CountInv
    <3>4. CASE ~ (index[Main] < threadCount)
      <4>1. pipe' = pipe /\ pc' = [pc EXCEPT ![Main] = "join"]
        BY <2>7, <3>4 DEF Wake, Goto
      <4>2. pc'[Main] = "join"
        BY <1>0, <4>1 DEF ThreadTypes
      <4>3. n <= pipe
        BY <1>1, <3>2, <3>4
      <4> QED BY <1>1, <1>2, <2>3, <2>4, <4>1, <4>2, <4>3 DEF CountInv
    <3> QED BY <3>3, <3>4
  <2>8. CASE t = Main /\ (Join(t) \/ Joined(t))
    <3>1. pc[Main] \in {"join", "joining"} /\ pipe' = pipe
      BY <2>8 DEF Join, Joined, At
    <3>2. pc'[Main] \in {"join", "joining"}
      BY <1>0, <2>8 DEF Join, Joined, At, Goto, ThreadTypes
    <3>3. n <= pipe
      BY <3>1 DEF CountInv
    <3> QED BY <1>1, <1>2, <2>3, <2>4, <3>1, <3>2, <3>3 DEF CountInv
  <2> QED BY <1>9, <2>6, <2>7, <2>8
<1> QED BY <1>4, <1>5, <1>6, <1>7, <1>8, <1>9, StepKinds DEF Kind

-----------------------------------------------------------------------------
(* Who joins whom.                                                         *)

\* A step that changes no place a join depends on.
LEMMA JoinFrame ==
  ASSUME Inv,
         clientThreads' = clientThreads, joinid' = joinid,
         \A c \in Conn : pc[c] = "done" => pc'[c] = "done",
         \A t \in Thread : pc[t] = "joining" => pc'[t] = "joining" /\ index'[t] = index[t],
         pc'[Main] = "create" => pc[Main] = "create",
         pc'[Main] \in {"join", "joining"} =>
           pc[Main] \in {"join", "joining"} /\ index'[Main] = index[Main],
         pc'[Main] = "joining" => pc[Main] = "joining",
         \A c \in Conn : pc'[c] \notin {"none", "unborn"} => pc[c] \notin {"none", "unborn"}
  PROVE  JoinInv'
<1> USE DEF Inv
<1>1. threadCount' = threadCount
  BY DEF threadCount
<1>2. ASSUME NEW c \in Conn PROVE JoinerWaits(c)'
  <2>1. JoinerWaits(c)
    BY DEF JoinInv
  <2> QED BY <1>1, <2>1 DEF JoinerWaits, Target
<1>3. \A x : Settled(x) => Settled(x)'
  BY DEF Settled
<1>4. pc'[Main] = "joining" => Target(Main)' \in Conn
  BY DEF JoinInv, Target
<1> QED BY <1>1, <1>2, <1>3, <1>4 DEF JoinInv

\* One step keeps them.
LEMMA JoinNext ==
  ASSUME Inv, ThreadTypes', [Next]_vars
  PROVE  JoinInv'
<1> USE DEF Inv
<1>0. Main \in Thread /\ Main \notin Conn /\ Conn \subseteq Thread /\ Nobody \notin Thread
  BY ThreadAssumption DEF Thread
<1>1. threadCount \in Nat /\ \A t \in Thread : index[t] \in Nat
  BY LenProperties DEF threadCount, ThreadTypes
<1>2. CASE Rest
  BY <1>2, JoinFrame DEF Rest
<1>3. CASE MainMoves
  <2>1. PICK q \in {"start", "loop", "enter", "accept", "wake"}, i \in Nat :
          pc' = [pc EXCEPT ![Main] = q] /\ index' = [index EXCEPT ![Main] = i]
    BY <1>3 DEF MainMoves
  <2>2. /\ pc'[Main] = q /\ pc[Main] \notin ExitPlaces
        /\ \A t \in Thread : t # Main => pc'[t] = pc[t] /\ index'[t] = index[t]
    BY <1>0, <1>3, <2>1 DEF MainMoves, ThreadTypes, ExitPlaces
  <2>3. clientThreads' = clientThreads /\ joinid' = joinid
    BY <1>3 DEF MainMoves
  <2> QED BY <1>0, <2>2, <2>3, JoinFrame DEF ExitPlaces
<1>4. ASSUME NEW c \in Conn, HandlerMoves(c) PROVE JoinInv'
  <2>1. PICK q \in LoopPlaces \cup {"cleanup", "done", "wake"} : pc' = [pc EXCEPT ![c] = q]
    BY <1>4 DEF HandlerMoves
  <2>2. /\ pc'[c] = q /\ pc[c] \notin {"done", "joining", "none", "unborn"}
        /\ \A t \in Thread : t # c => pc'[t] = pc[t]
    BY <1>0, <1>4, <2>1 DEF HandlerMoves, ThreadTypes, LoopPlaces
  <2>3. clientThreads' = clientThreads /\ joinid' = joinid /\ index' = index
    BY <1>4 DEF HandlerMoves
  <2> QED BY <1>0, <2>2, <2>3, JoinFrame
<1>5. ASSUME NEW t \in Thread, Wake(t) PROVE JoinInv'
  <2>1. pc[t] = "wake" /\ clientThreads' = clientThreads /\ joinid' = joinid
    BY <1>5 DEF Wake, At
  <2>2. \A u \in Thread : u # t => pc'[u] = pc[u] /\ index'[u] = index[u]
    BY <1>5 DEF Wake, Goto, ThreadTypes
  <2>3. (pc'[t] = "wake") \/ (pc'[t] = "join" /\ index'[t] = 0)
    BY <1>5, <2>1 DEF Wake, Goto, ThreadTypes
  <2>4. CASE t # Main
    BY <1>0, <2>1, <2>2, <2>3, <2>4, JoinFrame
  <2>5. CASE t = Main /\ pc'[t] = "wake"
    BY <1>0, <2>1, <2>2, <2>3, <2>5, JoinFrame
  <2>6. CASE t = Main /\ pc'[t] = "join" /\ index'[t] = 0
    <3>1. threadCount' = threadCount
      BY <2>1 DEF threadCount
    <3>2. \A c \in Conn : pc'[c] = pc[c] /\ index'[c] = index[c] /\ c # t
      BY <1>0, <2>2, <2>6
    <3>3. ASSUME NEW c \in Conn PROVE JoinerWaits(c)'
      <4>1. JoinerWaits(c)
        BY DEF JoinInv
      <4> QED BY <1>0, <2>1, <2>2, <3>1, <3>2, <4>1 DEF JoinerWaits, Target
    <3>4. \A j \in 1 .. threadCount : ~ (j <= index'[Main])
      BY <1>1, <2>6
    <3> QED BY <2>1, <2>6, <3>1, <3>2, <3>3, <3>4 DEF JoinInv
  <2> QED BY <2>3, <2>4, <2>5, <2>6
<1>6. ASSUME NEW c \in Conn, Accept(c) PROVE JoinInv'
  <2>1. /\ \A j \in 1 .. threadCount : clientThreads'[j] = clientThreads[j]
        /\ threadCount' = threadCount + 1 /\ clientThreads'[threadCount'] = Nobody
    BY <1>6, ArrayGrows
  <2>2. pc' = [pc EXCEPT ![Main] = "create"] /\ index' = index /\ joinid' = joinid
        /\ pc[Main] = "accept"
    BY <1>6 DEF Accept, At, Goto
  <2>3. pc'[Main] = "create" /\ \A t \in Thread : t # Main => pc'[t] = pc[t]
    BY <1>0, <2>2 DEF ThreadTypes
  <2>4. /\ \A i \in Nat : i < threadCount => i < threadCount' /\ i + 1 \in 1 .. threadCount
        /\ 1 .. threadCount \subseteq 1 .. threadCount' /\ threadCount' >= 1
    BY <1>1, <2>1
  <2>5. ASSUME NEW d \in Conn PROVE JoinerWaits(d)'
    <3>1. JoinerWaits(d)
      BY DEF JoinInv
    <3>2. CASE joinid[d] = Nobody \/ pc[d] = "done"
      BY <1>0, <2>2, <2>3, <3>2 DEF JoinerWaits
    <3>3. CASE joinid[d] # Nobody /\ pc[d] # "done"
      <4> DEFINE h == joinid[d]
      <4>1. h \in Thread /\ pc[h] = "joining" /\ index[h] < threadCount
            /\ clientThreads[index[h] + 1] = d
        BY <3>1, <3>3 DEF JoinerWaits, Target
      <4>2. h # Main /\ pc'[h] = "joining" /\ index'[h] = index[h] /\ joinid'[d] = h
        BY <2>2, <2>3, <4>1
      <4>3. index[h] < threadCount' /\ clientThreads'[index[h] + 1] = d
        BY <1>1, <2>1, <2>4, <4>1
      <4> HIDE DEF h
      <4> QED BY <4>1, <4>2, <4>3 DEF JoinerWaits, Target
    <3> QED BY <3>2, <3>3
  <2>6. ASSUME NEW d \in Conn, pc'[d] \notin {"none", "unborn"}
        PROVE  \E j \in 1 .. threadCount' : clientThreads'[j] = d
    <3>1. PICK j \in 1 .. threadCount : clientThreads[j] = d
      BY <1>0, <2>3, <2>6 DEF JoinInv
    <3>2. j \in 1 .. threadCount' /\ clientThreads'[j] = d
      BY <2>1, <2>4, <3>1
    <3> QED BY <3>2
  <2> QED BY <2>1, <2>3, <2>4, <2>5, <2>6 DEF JoinInv
<1>7. ASSUME NEW c \in Conn, Create(c) \/ CreateFails(c) PROVE JoinInv'
  <2>1. PICK q \in {"poll", "unborn"} :
          /\ pc' = [pc EXCEPT ![Main] = "loop", ![c] = q]
          /\ q = "poll" => Create(c)
    BY <1>7 DEF Create, CreateFails
  <2>2. pc'[Main] = "loop" /\ pc'[c] = q /\ \A t \in Conn : t # c => pc'[t] = pc[t]
    BY <1>0, <2>1 DEF ThreadTypes
  <2>3. pc[Main] = "create" /\ pc[c] = "none" /\ index' = index /\ joinid' = joinid
    BY <1>7 DEF Create, CreateFails, At, Accepted
  <2>4. /\ threadCount' = threadCount /\ threadCount >= 1
        /\ clientThreads[threadCount] = Nobody
        /\ \A j \in 1 .. threadCount : j # threadCount => clientThreads'[j] = clientThreads[j]
    BY <1>7, <2>3, ArraySet DEF CreateFails, threadCount, JoinInv
  <2>5. \A j \in 1 .. threadCount : clientThreads[j] \in Conn =>
          clientThreads'[j] = clientThreads[j]
    BY <1>0, <2>4
  <2>6. ASSUME NEW d \in Conn PROVE JoinerWaits(d)'
    <3>1. JoinerWaits(d)
      BY DEF JoinInv
    <3>2. CASE joinid[d] = Nobody \/ pc[d] = "done"
      <4>1. pc[d] = "done" => pc'[d] = "done"
        BY <2>2, <2>3
      <4> QED BY <2>3, <3>2, <4>1 DEF JoinerWaits
    <3>3. CASE joinid[d] # Nobody /\ pc[d] # "done"
      <4> DEFINE h == joinid[d]
      <4>1. h \in Thread /\ pc[h] = "joining" /\ index[h] < threadCount
            /\ clientThreads[index[h] + 1] = d
        BY <3>1, <3>3 DEF JoinerWaits, Target
      <4>2. h # Main /\ h # c
        BY <2>3, <4>1
      <4>3. pc'[h] = "joining" /\ index'[h] = index[h] /\ joinid'[d] = h
        BY <2>2, <2>3, <4>1, <4>2 DEF Thread
      <4>4. index[h] + 1 \in 1 .. threadCount
        BY <1>1, <4>1
      <4>5. clientThreads'[index[h] + 1] = d
        BY <2>5, <4>1, <4>4
      <4> HIDE DEF h
      <4> QED BY <2>4, <4>1, <4>3, <4>5 DEF JoinerWaits, Target
    <3> QED BY <3>2, <3>3
  <2>7. ASSUME NEW d \in Conn, pc'[d] \notin {"none", "unborn"}
        PROVE  \E j \in 1 .. threadCount' : clientThreads'[j] = d
    <3>1. CASE d = c
      <4>1. Create(c)
        BY <2>1, <2>2, <2>7, <3>1
      <4>2. clientThreads'[threadCount] = c /\ threadCount \in 1 .. threadCount
        BY <4>1, <1>1, <2>4, ArraySet
      <4> QED BY <2>4, <3>1, <4>2
    <3>2. CASE d # c
      <4>1. PICK j \in 1 .. threadCount : clientThreads[j] = d
        BY <2>2, <2>7, <3>2 DEF JoinInv
      <4> QED BY <2>4, <2>5, <4>1
    <3> QED BY <3>1, <3>2
  <2> QED BY <2>2, <2>6, <2>7 DEF JoinInv
<1>8. ASSUME NEW t \in Thread, Join(t) PROVE JoinInv'
  <2>1. /\ pc[t] = "join" /\ index[t] < threadCount /\ Target(t) # Nobody
        /\ clientThreads' = clientThreads
    BY <1>8 DEF Join, At
  <2>2. Target(t) \in Conn
    <3>1. index[t] + 1 \in 1 .. Len(clientThreads)
      BY <1>1, <2>1 DEF threadCount
    <3>2. clientThreads[index[t] + 1] \in Conn \cup {Nobody}
      BY <3>1, ElementOfSeq DEF ThreadTypes
    <3> QED BY <2>1, <3>2 DEF Target
  <2>3. threadCount' = threadCount
    BY <2>1 DEF threadCount
  <2>4. CASE JoinRefused(t)
    <3>1. index' = [index EXCEPT ![t] = index[t] + 1] /\ pc' = pc /\ joinid' = joinid
      BY <1>8, <2>4 DEF Join
    <3>2. index'[t] = index[t] + 1 /\ \A u \in Thread : u # t => index'[u] = index[u]
      BY <3>1 DEF ThreadTypes
    <3>3. CASE t # Main
      BY <1>0, <2>1, <3>1, <3>2, <3>3, JoinFrame
    <3>4. CASE t = Main
      <4>1. joinid[Target(t)] # Nobody
        BY <1>0, <2>2, <2>4, <3>4 DEF JoinRefused
      <4>2. Settled(clientThreads[index[Main] + 1])
        BY <2>2, <3>4, <4>1 DEF Settled, Target
      <4>3. ASSUME NEW j \in 1 .. threadCount, j <= index[Main] + 1
            PROVE  Settled(clientThreads[j])
        <5>1. j <= index[Main] \/ j = index[Main] + 1
          BY <1>0, <1>1, <4>3
        <5> QED BY <5>1, <4>2, <2>1, <3>4 DEF JoinInv
      <4>4. ASSUME NEW d \in Conn PROVE JoinerWaits(d)'
        <5>1. JoinerWaits(d)
          BY DEF JoinInv
        <5> QED BY <2>1, <2>3, <3>1, <3>2, <5>1 DEF JoinerWaits, Target
      <4>5. \A x : Settled(x)' <=> Settled(x)
        BY <3>1 DEF Settled
      <4> QED BY <2>1, <2>3, <3>1, <3>2, <3>4, <4>3, <4>4, <4>5 DEF JoinInv
    <3> QED BY <3>3, <3>4
  <2>5. CASE ~ JoinRefused(t)
    <3>1. joinid' = [joinid EXCEPT ![Target(t)] = t] /\ index' = index
          /\ pc' = [pc EXCEPT ![t] = "joining"]
      BY <1>8, <2>5 DEF Join, Goto
    <3>2. /\ joinid[Target(t)] = Nobody /\ joinid'[Target(t)] = t
          /\ \A d \in Conn : d # Target(t) => joinid'[d] = joinid[d]
      BY <2>2, <2>5, <3>1 DEF JoinRefused, ThreadTypes
    <3>3. pc'[t] = "joining" /\ \A u \in Thread : u # t => pc'[u] = pc[u]
      BY <3>1 DEF ThreadTypes
    <3>4. ASSUME NEW d \in Conn PROVE JoinerWaits(d)'
      <4>1. JoinerWaits(d)
        BY DEF JoinInv
      <4>2. CASE d = Target(t)
        <5>1. joinid'[d] = t /\ t \in Thread /\ pc'[t] = "joining" /\ index'[t] = index[t]
          BY <3>1, <3>2, <3>3, <4>2
        <5>2. clientThreads'[index'[t] + 1] = d
          BY <2>1, <4>2, <5>1 DEF Target
        <5> QED BY <2>1, <2>3, <5>1, <5>2 DEF JoinerWaits, Target
      <4>3. CASE d # Target(t)
        BY <1>0, <2>1, <2>3, <3>1, <3>2, <3>3, <4>1, <4>3 DEF JoinerWaits, Target
      <4> QED BY <4>2, <4>3
    <3>5. \A x : Settled(x) => Settled(x)'
      BY <1>0, <2>1, <3>2, <3>3 DEF Settled
    <3>6. pc'[Main] \in {"join", "joining"} => pc[Main] \in {"join", "joining"}
      BY <1>0, <2>1, <3>3
    <3>7. pc'[Main] = "create" => pc[Main] = "create"
      BY <1>0, <3>3
    <3>8. \A c \in Conn : pc'[c] \notin {"none", "unborn"} => pc[c] \notin {"none", "unborn"}
      BY <1>0, <2>1, <3>3
    <3>9. pc'[Main] = "joining" => Target(Main)' \in Conn
      BY <1>0, <2>1, <2>2, <3>1, <3>3 DEF JoinInv, Target
    <3> QED BY <2>1, <2>3, <3>1, <3>4, <3>5, <3>6, <3>7, <3>8, <3>9 DEF JoinInv
  <2> QED BY <2>4, <2>5
<1>9. ASSUME NEW t \in Thread, Joined(t) PROVE JoinInv'
  <2>1. /\ pc[t] = "joining" /\ pc[Target(t)] = "done"
        /\ pc' = [pc EXCEPT ![t] = "join"] /\ index' = [index EXCEPT ![t] = index[t] + 1]
        /\ clientThreads' = clientThreads /\ joinid' = joinid
    BY <1>9 DEF Joined, At, Goto
  <2>2. /\ pc'[t] = "join" /\ index'[t] = index[t] + 1
        /\ \A u \in Thread : u # t => pc'[u] = pc[u] /\ index'[u] = index[u]
    BY <2>1 DEF ThreadTypes
  <2>3. threadCount' = threadCount
    BY <2>1 DEF threadCount
  <2>4. ASSUME NEW d \in Conn PROVE JoinerWaits(d)'
    <3>1. JoinerWaits(d)
      BY DEF JoinInv
    <3>2. pc[d] = "done" => pc'[d] = "done"
      BY <1>0, <2>1, <2>2
    <3>3. CASE joinid[d] = t
      BY <2>1, <3>1, <3>2, <3>3 DEF JoinerWaits
    <3>4. CASE joinid[d] # t
      BY <2>1, <2>2, <2>3, <3>1, <3>2, <3>4 DEF JoinerWaits, Target
    <3> QED BY <3>3, <3>4
  <2>5. \A x : Settled(x) => Settled(x)'
    BY <1>0, <2>1, <2>2 DEF Settled
  <2>6. ASSUME t = Main, NEW j \in 1 .. threadCount, j <= index[Main] + 1
        PROVE  Settled(clientThreads[j])
    <3>1. CASE j <= index[Main]
      BY <2>1, <2>6, <3>1 DEF JoinInv
    <3>2. CASE j = index[Main] + 1
      <4>1. clientThreads[j] = Target(t)
        BY <2>6, <3>2 DEF Target
      <4>2. clientThreads[j] \in Conn \cup {Nobody}
        BY ElementOfSeq DEF ThreadTypes, threadCount
      <4>3. clientThreads[j] \in Conn
        BY <2>1, <2>6, <4>1 DEF JoinInv
      <4> QED BY <2>1, <4>1, <4>3 DEF Settled
    <3> QED BY <1>0, <1>1, <2>6, <3>1, <3>2
  <2>7. \A c \in Conn : pc'[c] \notin {"none", "unborn"} => pc[c] \notin {"none", "unborn"}
    BY <1>0, <2>1, <2>2
  <2>8. pc'[Main] = "create" => pc[Main] = "create"
    BY <1>0, <2>2
  <2>9. ASSUME pc'[Main] \in {"join", "joining"}, NEW j \in 1 .. threadCount, j <= index'[Main]
        PROVE  Settled(clientThreads[j])
    <3>1. CASE t = Main
      BY <2>2, <2>6, <2>9, <3>1
    <3>2. CASE t # Main
      BY <1>0, <2>2, <2>9, <3>2 DEF JoinInv
    <3> QED BY <3>1, <3>2
  <2>10. pc'[Main] = "joining" => Target(Main)' \in Conn
    BY <1>0, <2>1, <2>2 DEF JoinInv, Target
  <2> QED BY <2>1, <2>3, <2>4, <2>5, <2>7, <2>8, <2>9, <2>10 DEF JoinInv
<1> QED BY <1>2, <1>3, <1>4, <1>5, <1>6, <1>7, <1>8, <1>9, StepKinds DEF Kind

-----------------------------------------------------------------------------
(* The theorems.                                                           *)

\* The invariant holds at the start.
LEMMA InvInit == Init => Inv
<1> SUFFICES ASSUME Init PROVE Inv
  OBVIOUS
<1>0. Main \in Thread /\ Main \notin Conn /\ Conn \subseteq Thread /\ Nobody \notin Thread
  BY ThreadAssumption DEF Thread
<1>1. ThreadTypes
  <2>1. PICK done \in {0, 2} : index = [t \in Thread |-> IF t = Main THEN done ELSE 0]
    BY DEF Init
  <2>2. index \in [Thread -> Nat]
    BY <2>1
  <2>3. clientThreads \in Seq(Conn \cup {Nobody})
    BY DEF Init
  <2> QED BY <2>2, <2>3 DEF Init, ThreadTypes, Places
<1>3. pc[Main] = "start" /\ \A c \in Conn : pc[c] = "none"
  BY <1>0 DEF Init
<1>4. PlacesInv /\ MutexInv
  BY <1>3 DEF PlacesInv, MainPlaces, HandlerPlaces, MutexInv, MutexNotOrphaned, Init
<1>5. CountInv
  <2>1. Looping = {} /\ threadCount = 0 /\ Creating = 0
    BY <1>3 DEF Looping, LoopPlaces, threadCount, Creating, Init
  <2> QED BY <1>3, <2>1, FS_EmptySet DEF CountInv
<1>6. JoinInv
  BY <1>3 DEF JoinInv, JoinerWaits, Init
<1> QED BY <1>1, <1>4, <1>5, <1>6 DEF Inv

\* Every step keeps it.
LEMMA InvNext == Inv /\ [Next]_vars => Inv'
<1> SUFFICES ASSUME Inv, [Next]_vars PROVE Inv'
  OBVIOUS
<1>1. ThreadTypes' /\ PlacesInv'
  BY ThreadsNext
<1>2. MutexInv'
  BY MutexNext DEF Inv
<1>3. CountInv' /\ JoinInv'
  BY <1>1, CountNext, JoinNext
<1> QED BY <1>1, <1>2, <1>3 DEF Inv

\* The invariant holds in every reachable state, whatever fails.
LEMMA Invariance == Spec => []Inv
<1> HIDE DEF Fairness
<1> QED BY InvInit, InvNext, PTL DEF Spec

\* When main has been through the array, a handler that is not finished is
\* joined by one that waits for it.  The handlers in logAndExit are finitely
\* many and each joins at most one, so they wait for each other and nobody
\* else: no handler is in its loop.
LEMMA ExitLeavesNobody ==
  ASSUME Inv, Exit(Main), NEW c0 \in Conn
  PROVE  pc[c0] \notin LoopPlaces \cup {"cleanup"}
<1> USE DEF Inv
<1> SUFFICES ASSUME pc[c0] \in LoopPlaces \cup {"cleanup"} PROVE FALSE
  OBVIOUS
<1>0. Main \in Thread /\ Main \notin Conn /\ Nobody \notin Thread
  BY ThreadAssumption DEF Thread
<1>1. pc[Main] = "join" /\ index[Main] >= threadCount
  BY DEF Exit, At
<1>2. threadCount \in Nat /\ index[Main] \in Nat
  BY <1>0, LenProperties DEF threadCount, ThreadTypes
<1>3. \A j \in 1 .. threadCount : Settled(clientThreads[j])
  <2>1. \A j \in 1 .. threadCount : j <= index[Main]
    BY <1>1, <1>2
  <2> QED BY <1>1, <2>1 DEF JoinInv
<1> DEFINE X == {x \in Conn : pc[x] \in ExitPlaces}
           Waits(h, x) == h \in X /\ pc[h] = "joining" /\ Target(h) = x
<1>4. ASSUME NEW x \in Conn, pc[x] \notin {"none", "unborn", "done"}
      PROVE  Waits(joinid[x], x)
  <2>1. PICK j \in 1 .. threadCount : clientThreads[j] = x
    BY <1>4 DEF JoinInv
  <2>2. joinid[x] # Nobody /\ JoinerWaits(x)
    BY <1>3, <1>4, <2>1 DEF Settled, JoinInv
  <2>3. joinid[x] \in Thread /\ pc[joinid[x]] = "joining" /\ Target(joinid[x]) = x
    BY <1>4, <2>2 DEF JoinerWaits
  <2>4. joinid[x] \in Conn
    BY <1>1, <2>3 DEF Thread
  <2> QED BY <2>3, <2>4 DEF ExitPlaces
<1>5. IsFiniteSet(X)
  <2> DEFINE Used == {clientThreads[j] : j \in 1 .. threadCount}
             f == [j \in 1 .. threadCount |-> clientThreads[j]]
  <2>1. f \in Surjection(1 .. threadCount, Used)
    BY DEF Surjection
  <2>2. IsFiniteSet(1 .. threadCount)
    BY <1>2, FS_Interval
  <2>3. IsFiniteSet(Used)
    BY <2>1, <2>2, FS_Surjection
  <2>4. X \in SUBSET Used
    BY DEF JoinInv, ExitPlaces
  <2> QED BY <2>3, <2>4, FS_Subset
<1> DEFINE J == [x \in X |-> joinid[x]]
<1>6. \A x \in X : Waits(joinid[x], x)
  BY <1>4 DEF ExitPlaces
<1>7. J \in Injection(X, X)
  BY <1>6 DEF Injection, IsInjective
<1>8. J \in Surjection(X, X)
  BY <1>5, <1>7, FS_Injection
<1>9. Waits(joinid[c0], c0)
  BY <1>4 DEF LoopPlaces
<1>10. PICK x \in X : J[x] = joinid[c0]
  BY <1>8, <1>9 DEF Surjection
<1>11. Target(joinid[c0]) = x /\ Target(joinid[c0]) = c0
  BY <1>6, <1>9, <1>10
<1>12. c0 \notin X
  BY DEF LoopPlaces, ExitPlaces
<1> QED BY <1>11, <1>12

\* cleanupMain writes one byte per thread ever created, most of them to threads
\* long gone, and the handlers share the pipe: still, once main has written its
\* bytes, there is one for every handler in its loop, whatever failed, whoever
\* got the signal and however many handlers are in logAndExit.
THEOREM EnoughBytes == Spec => []WakesAll
<1>1. Inv => WakesAll
  <2> SUFFICES ASSUME Inv, pc[Main] \in {"join", "joining"}
               PROVE  pipe >= Cardinality({c \in Conn : InLoop(c)})
    BY DEF WakesAll
  <2>1. {c \in Conn : InLoop(c)} = Looping
    BY DEF InLoop, Looping, LoopPlaces
  <2>2. Cardinality(Looping) <= pipe /\ Cardinality(Looping) \in Nat /\ pipe \in Nat
    BY FS_CardinalityType DEF Inv, CountInv, ThreadTypes
  <2>3. pipe >= Cardinality(Looping)
    BY <2>2
  <2> QED BY <2>1, <2>3
<1> QED BY <1>1, Invariance, PTL

\* fileMutex is never left locked by a handler that has finished or gone back
\* to its loop: the paths out of the locked section of clientHandler unlock it
\* or end in logAndExit.
THEOREM NoOrphanedMutex == Spec => []MutexNotOrphaned
<1>1. Inv => MutexNotOrphaned
  BY DEF Inv, MutexInv
<1> QED BY <1>1, Invariance, PTL

\* exit() in main cuts off no handler at work, though pthread_join's result is
\* not looked at and main skips a thread that another one joins.
THEOREM ExitAfterHandlers == Spec => []NoHandlerCutOff
<1>1. Init => NoHandlerCutOff
  BY DEF Init, NoHandlerCutOff
<1>2. Inv /\ NoHandlerCutOff /\ [Next]_vars => NoHandlerCutOff'
  <2> SUFFICES ASSUME Inv, NoHandlerCutOff, [Next]_vars, process' = "stopped",
                      NEW c \in Conn
               PROVE  (~ InLoop(c) /\ pc[c] # "cleanup")'
    BY DEF NoHandlerCutOff
  <2>1. CASE Exit(Main)
    <3>1. pc' = pc
      BY <2>1 DEF Exit, threads
    <3> QED BY <2>1, <3>1, ExitLeavesNobody DEF InLoop, LoopPlaces
  <2>2. CASE process = "stopped" /\ UNCHANGED vars
    BY <2>2 DEF NoHandlerCutOff, InLoop, vars
  <2> QED BY <2>1, <2>2, FlagsNext DEF Inv
<1> HIDE DEF Fairness
<1> QED BY <1>1, <1>2, Invariance, PTL DEF Spec

-----------------------------------------------------------------------------
(* The connections.                                                        *)

\* Only a thread on its way out writes to the pipe, and it never comes back.
ByteInv == pipe > 0 => \E t \in Thread : pc[t] \in ExitPlaces

\* A thread in cleanupMain stays there until the process ends, and a byte more
\* in the pipe is the work of one that is there.
LEMMA ExitStays ==
  ASSUME ThreadTypes, PlacesInv, [Next]_vars
  PROVE  /\ \A t \in Thread : pc[t] \in ExitPlaces => pc'[t] \in ExitPlaces
         /\ pipe' > pipe => \E t \in Thread : pc[t] \in ExitPlaces
<1> DEFINE Fine == /\ \A t \in Thread : pc[t] \in ExitPlaces => pc'[t] \in ExitPlaces
                   /\ pipe' > pipe => \E t \in Thread : pc[t] \in ExitPlaces
<1>0. Main \in Thread /\ Main \notin Conn /\ Conn \subseteq Thread /\ pipe \in Nat
  BY ThreadAssumption DEF Thread, ThreadTypes
<1>1. ASSUME Rest PROVE Fine
  BY <1>0, <1>1 DEF Rest
<1>2. ASSUME MainMoves PROVE Fine
  BY <1>0, <1>2 DEF MainMoves, ExitPlaces, ThreadTypes
<1>3. ASSUME NEW c \in Conn, HandlerMoves(c) PROVE Fine
  <2>1. pc[c] \notin ExitPlaces /\ \A t \in Thread : t # c => pc'[t] = pc[t]
    BY <1>0, <1>3 DEF HandlerMoves, LoopPlaces, ExitPlaces, ThreadTypes
  <2>2. ~ (pipe' > pipe)
    BY <1>0, <1>3 DEF HandlerMoves
  <2> QED BY <2>1, <2>2
<1>4. ASSUME NEW c \in Conn, Accept(c) PROVE Fine
  BY <1>0, <1>4 DEF Accept, At, Goto, ExitPlaces, ThreadTypes
<1>5. ASSUME NEW c \in Conn, Create(c) \/ CreateFails(c) PROVE Fine
  <2>1. pc[Main] = "create" /\ pc[c] = "none" /\ pipe' = pipe
    BY <1>5 DEF Create, CreateFails, Accepted, At
  <2>2. \A t \in Thread : t # Main /\ t # c => pc'[t] = pc[t]
    BY <1>5 DEF Create, CreateFails, ThreadTypes
  <2>3. ~ (pipe' > pipe)
    BY <1>0, <2>1
  <2> QED BY <2>1, <2>2, <2>3 DEF ExitPlaces
<1>6. ASSUME NEW t \in Thread, Wake(t) \/ Join(t) \/ Joined(t) PROVE Fine
  <2>1. pc[t] \in ExitPlaces
    BY <1>6 DEF Wake, Join, Joined, At, ExitPlaces
  <2>2. pc' = pc \/ \E q \in ExitPlaces : pc' = [pc EXCEPT ![t] = q]
    BY <1>6 DEF Wake, Join, Joined, Goto, ExitPlaces
  <2> QED BY <2>1, <2>2 DEF ThreadTypes
<1> QED BY <1>1, <1>2, <1>3, <1>4, <1>5, <1>6, StepKinds DEF Kind

\* A byte in the pipe means that some thread is taking the server down.
LEMMA BytesHaveAuthor == Spec => []ByteInv
<1>1. Init => ByteInv
  BY DEF Init, ByteInv
<1>2. Inv /\ ByteInv /\ [Next]_vars => ByteInv'
  <2> SUFFICES ASSUME Inv, ByteInv, [Next]_vars, pipe' > 0
               PROVE  \E t \in Thread : pc'[t] \in ExitPlaces
    BY DEF ByteInv
  <2>1. pipe \in Nat /\ pipe' \in Nat
    BY ThreadsNext DEF Inv, ThreadTypes
  <2>2. \E t \in Thread : pc[t] \in ExitPlaces
    BY <2>1, ExitStays DEF Inv, ByteInv
  <2> QED BY <2>2, ExitStays DEF Inv
<1> HIDE DEF Fairness
<1> QED BY <1>1, <1>2, Invariance, PTL DEF Spec

\* The ways out of a handler's loop into cleanupClientHandler.
LEMMA WaysOut ==
  ASSUME ThreadTypes, PlacesInv, [Next]_vars, NEW c \in Conn, InLoop(c), pc'[c] = "cleanup"
  PROVE  ReadPipe(c) \/ RecvEof(c) \/ stop'
<1>0. c \in Thread /\ Main \in Thread /\ c # Main /\ pc[c] # "cleanup"
  BY ThreadAssumption DEF Thread, InLoop
<1>1. ASSUME pc' = pc PROVE FALSE
  BY <1>0, <1>1
<1>2. ASSUME NEW t \in Thread, NEW q \in Places, pc' = [pc EXCEPT ![t] = q], t # c \/ q # "cleanup"
      PROVE  FALSE
  BY <1>0, <1>2 DEF ThreadTypes
<1>3. ASSUME NEW t \in Thread, CleanupStep(t) PROVE FALSE
  <2>1. pc' = pc \/ \E q \in ExitPlaces : pc' = [pc EXCEPT ![t] = q]
    BY <1>3 DEF CleanupStep, Wake, Join, JoinUnset, Joined, Exit, Crash, threads, Goto, ExitPlaces
  <2> QED BY <2>1, <1>1, <1>2 DEF ExitPlaces, Places
<1>4. CASE MainStep
  <2>1. CASE StartUp \/ StartFails \/ LoopTest \/ EnterAccept \/ AcceptFails
    <3>1. pc' = pc \/ \E q \in MainPlaces : pc' = [pc EXCEPT ![Main] = q]
      BY <2>1 DEF StartUp, StartFails, LoopTest, EnterAccept, AcceptFails, Goto, Leave, MainPlaces
    <3> QED BY <3>1, <1>0, <1>1, <1>2 DEF MainPlaces, Places
  <2>2. CASE NoClientData \/ CreateOverruns
    BY <2>2, <1>1 DEF NoClientData, CreateOverruns, Crash, threads
  <2>3. ASSUME NEW d \in Conn, Accept(d) PROVE FALSE
    BY <2>3, <1>0, <1>2 DEF Accept, Goto, Places
  <2>4. ASSUME NEW d \in Conn, Create(d) \/ CreateFails(d) PROVE FALSE
    BY <2>4, <1>0 DEF Create, CreateFails, ThreadTypes
  <2> QED BY <1>0, <1>3, <1>4, <2>1, <2>2, <2>3, <2>4 DEF MainStep
<1>5. ASSUME NEW d \in Conn, HandlerStep(d) PROVE ReadPipe(c) \/ RecvEof(c)
  <2>0. d \in Thread
    BY DEF Thread
  <2>1. CASE FileCrash(d)
    BY <2>1, <1>1 DEF FileCrash, Crash, threads
  <2>2. CASE RecvFails(d)
    <3>1. pc' = pc \/ pc' = [pc EXCEPT ![d] = "wake"]
      BY <2>2 DEF RecvFails, Crash, threads, Leave, Goto
    <3> QED BY <3>1, <2>0, <1>1, <1>2 DEF Places
  <2>3. CASE Poll(d) \/ PollNoMemory(d) \/ RecvNoMemory(d) \/ Lock(d) \/ Serve(d)
             \/ IoctlFails(d) \/ ReadFails(d) \/ Recv(d)
    <3>1. \E q \in {"read_pipe", "recv", "wake", "lock", "poll", "file"} : pc' = [pc EXCEPT ![d] = q]
      BY <2>3 DEF Poll, PollNoMemory, RecvNoMemory, Lock, Serve, IoctlFails, ReadFails, Recv,
                  Leave, Goto
    <3> QED BY <3>1, <2>0, <1>2 DEF Places
  <2>4. CASE Cleanup(d)
    BY <2>4, <2>0, <1>2 DEF Cleanup, Goto, Places
  <2>5. CASE ReadPipe(d) \/ RecvEof(d)
    <3>1. pc' = [pc EXCEPT ![d] = "cleanup"]
      BY <2>5 DEF ReadPipe, RecvEof, Goto
    <3>2. d = c
      BY <3>1, <2>0, <1>2 DEF Places
    <3> QED BY <2>5, <3>2
  <2> QED BY <1>5, <2>0, <1>3, <2>1, <2>2, <2>3, <2>4, <2>5 DEF HandlerStep
<1>6. CASE Environment
  <2>1. ASSUME NEW t \in Recipients, Signal(t) PROVE stop'
    BY <2>1 DEF Signal
  <2>2. CASE SignalKills
    BY <2>2, <1>1 DEF SignalKills, threads
  <2>3. ASSUME NEW d \in Conn, Connect(d) \/ Hangup(d) \/ \E chunk \in Chunk : Send(d, chunk)
        PROVE  FALSE
    BY <2>3, <1>1 DEF Connect, Hangup, Send, threads
  <2> QED BY <1>6, <2>1, <2>2, <2>3 DEF Environment
<1>7. CASE UNCHANGED vars
  BY <1>7, <1>1 DEF vars
<1> QED BY <1>4, <1>5, <1>6, <1>7 DEF Next

\* clientHandler breaks out of its loop (aesdsocket.c:408, :416, :449) only when
\* its own client has hung up, the server was asked to stop, or a thread is in
\* cleanupMain: no client loses its connection to another's bytes or errors,
\* as long as its descriptor is still its own.
THEOREM ConnectionsKept == Spec => KeepsConnections
<1> DEFINE Reason(c) == \/ client[c] = "closed"
                        \/ stop'
                        \/ \E t \in Thread : pc[t] \in {"wake", "join", "joining"}
<1>1. Inv /\ ByteInv /\ [Next]_vars =>
        [\A c \in Conn : InLoop(c) /\ Peer(c) = c /\ pc'[c] = "cleanup" => Reason(c)]_vars
  <2> SUFFICES ASSUME Inv, ByteInv, [Next]_vars, NEW c \in Conn,
                      InLoop(c), Peer(c) = c, pc'[c] = "cleanup"
               PROVE  Reason(c)
    OBVIOUS
  <2>1. CASE ReadPipe(c)
    BY <2>1 DEF ReadPipe, ByteInv, ExitPlaces
  <2>2. CASE RecvEof(c)
    BY <2>2 DEF RecvEof
  <2> QED BY <2>1, <2>2, WaysOut DEF Inv
<1> HIDE DEF Fairness
<1> QED BY <1>1, Invariance, BytesHaveAuthor, PTL DEF Spec, KeepsConnections
=============================================================================
