----------------------------- MODULE LineServer -----------------------------
(***************************************************************************)
(* What a client's bytes become: clientHandler of server/src/aesdsocket.c  *)
(* from recv to the end of the reply, composed with the device it writes   *)
(* to and reads from (LineDevice, which AesdChar implements).              *)
(*                                                                         *)
(* A client sends messages, each ended by a newline, and TCP may deliver   *)
(* the bytes in any pieces.  A seek command is a message of three symbols: *)
(* its prefix, its arguments and the newline.  Threads, shutdown and       *)
(* failing calls are AesdSocket's; here the handlers run until a command   *)
(* is refused (logAndExit) or a reply meets a closed socket (SIGPIPE).     *)
(***************************************************************************)
EXTENDS TemporaryBuffer, SequencesExt

CONSTANTS
  Client,
  Script,        \* per client: the messages it will send
  Patient,       \* the clients that send a message only after the last was answered
  Newline,
  Prefix, Args,  \* SEEK_CMD_PREFIX, and its two numbers
  Capacity,      \* of the device
  BUFFER_SIZE,   \* one recv delivers less than this
  STDIO_SIZE,    \* of the C library's buffer for a stream
  WriteErrors,   \* BOOLEAN: the device may refuse a write
  Nobody

ASSUME BytesAssumption == {Newline, Prefix, Args} \subseteq Byte
ASSUME PatientAssumption == Patient \subseteq Client /\ Nobody \notin Client
ASSUME ScriptAssumption ==
  /\ Script \in [Client -> Seq(Seq(Byte))]
  /\ \A c \in Client : \A i \in 1 .. Len(Script[c]) :
       LET m == Script[c][i]
       IN  m # <<>> /\ m[Len(m)] = Newline /\ \A j \in 1 .. Len(m) - 1 : m[j] # Newline
ASSUME SizeAssumption == Capacity \in Nat \ {0} /\ BUFFER_SIZE \in Nat \ {0, 1} /\ STDIO_SIZE \in Nat \ {0}
ASSUME WriteErrorsAssumption == WriteErrors \in BOOLEAN

VARIABLES
  lines, partial, pos, last,  \* the device
  process,       \* "running", "failed" by logAndExit, "crashed" by SIGPIPE
  pc,            \* per handler
  bufferString,  \* per handler: the temporary buffer
  fileMutex,
  reply,         \* per handler: what was given to send for the current request
  client,        \* per client: "open" or "closed"
  todo,          \* per client: messages not yet sent
  wire,          \* per client: bytes sent and not yet received
  appended,      \* history: the last recv found bytes of an earlier one
  stored,        \* history: the operations the device made of the client's writes
  refused,       \* history: the clients that had a write refused
  cut            \* history: a write in two pieces may have left one in the device

device == <<lines, partial, pos, last>>
vars == <<device, process, pc, bufferString, fileMutex, reply, client, todo, wire,
          appended, stored, refused, cut>>

Device == INSTANCE LineDevice WITH File <- Client, Data <- {}, Counts <- {}, Offsets <- {}

Call(call, c, err, val, data) ==
  last' = [call |-> call, file |-> c, err |-> err, val |-> val, data |-> data]

Init ==
  /\ last = [call |-> "none", file |-> Nobody, err |-> "OK", val |-> 0, data |-> <<>>]
  /\ Device!Init
  /\ process = "running"
  /\ pc = [c \in Client |-> "poll"]
  /\ bufferString = [c \in Client |-> aesd_temperary_buffer_init]
  /\ fileMutex = Nobody
  /\ reply = [c \in Client |-> <<>>]
  /\ client = [c \in Client |-> "open"]
  /\ todo = Script
  /\ wire = [c \in Client |-> <<>>]
  /\ appended = [c \in Client |-> FALSE]
  /\ stored = [c \in Client |-> <<>>]
  /\ refused = {}
  /\ cut = FALSE

At(c, place) == process = "running" /\ pc[c] = place

Goto(c, place) == pc' = [pc EXCEPT ![c] = place]

Held(c) ==
  IF bufferString[c].buffptr = NULL THEN <<>>
  ELSE SubSeq(bufferString[c].buffptr, 1, bufferString[c].size)

\* The server's copies of the temporary buffer's functions.
AddToBuffer(buffer, data) == aesd_temperary_buffer_add(buffer, data)

\* A mistake: the buffer keeps what was handled.
KeepBuffer(buffer) == buffer

CleanBuffer(buffer) == aesd_temperary_buffer_delete(buffer)

-----------------------------------------------------------------------------
(* The clients.                                                            *)

Answered(c) == wire[c] = <<>> /\ At(c, "poll") /\ Held(c) = <<>>

Send(c) ==
  /\ process = "running"
  /\ client[c] = "open"
  /\ todo[c] # <<>>
  /\ c \in Patient => Answered(c)
  /\ wire' = [wire EXCEPT ![c] = @ \o Head(todo[c])]
  /\ todo' = [todo EXCEPT ![c] = Tail(@)]
  /\ UNCHANGED <<device, process, pc, bufferString, fileMutex, reply, client, appended, stored, refused, cut>>

Hangup(c) ==
  /\ process = "running"
  /\ client[c] = "open"
  /\ client' = [client EXCEPT ![c] = "closed"]
  /\ UNCHANGED <<device, process, pc, bufferString, fileMutex, reply, todo, wire, appended, stored, refused, cut>>

-----------------------------------------------------------------------------
(* From recv to the mutex.                                                 *)

\* A mistake: every recv counts as a line.
NewlineAlways(str, len) == TRUE

\* The first len bytes of str are searched.
checkForNewlineCharInString(str, len) == len <= 0 \/ \E i \in 1 .. len : str[i] = Newline

\* A mistake: what was held is overwritten.
RecvOverwrites(c) ==
  /\ At(c, "poll")
  /\ wire[c] # <<>>
  /\ \E recvLen \in 1 .. Len(wire[c]) :
       LET added == AddToBuffer(aesd_temperary_buffer_init, SubSeq(wire[c], 1, recvLen))
       IN  /\ recvLen < BUFFER_SIZE
           /\ wire' = [wire EXCEPT ![c] = SubSeq(@, recvLen + 1, Len(@))]
           /\ bufferString' = [bufferString EXCEPT ![c] = added]
           /\ Goto(c, IF checkForNewlineCharInString(added.buffptr, recvLen) THEN "lock" ELSE "poll")
           /\ appended' = [appended EXCEPT ![c] = Held(c) # <<>>]
  /\ UNCHANGED <<device, process, fileMutex, reply, client, todo, stored, refused, cut>>

\* recvLen bytes are added, and as many are searched: from the front of the
\* collected bytes, not from where the new ones begin.
Recv(c) ==
  /\ At(c, "poll")
  /\ wire[c] # <<>>
  /\ \E recvLen \in 1 .. Len(wire[c]) :
       LET added == AddToBuffer(bufferString[c], SubSeq(wire[c], 1, recvLen))
       IN  /\ recvLen < BUFFER_SIZE
           /\ wire' = [wire EXCEPT ![c] = SubSeq(@, recvLen + 1, Len(@))]
           /\ bufferString' = [bufferString EXCEPT ![c] = added]
           /\ Goto(c, IF checkForNewlineCharInString(added.buffptr, recvLen) THEN "lock" ELSE "poll")
           /\ appended' = [appended EXCEPT ![c] = Held(c) # <<>>]
  /\ UNCHANGED <<device, process, fileMutex, reply, client, todo, stored, refused, cut>>

\* End of the connection: an unfinished line is dropped.
RecvEof(c) ==
  /\ At(c, "poll")
  /\ wire[c] = <<>> /\ client[c] = "closed"
  /\ bufferString' = [bufferString EXCEPT ![c] = CleanBuffer(@)]
  /\ Goto(c, "done")
  /\ UNCHANGED <<device, process, fileMutex, reply, client, todo, wire, appended, stored, refused, cut>>

\* A mistake: the mutex is not waited for.
LockAnyway(c) ==
  /\ At(c, "lock")
  /\ fileMutex' = c
  /\ Goto(c, "file")
  /\ UNCHANGED <<device, process, bufferString, reply, client, todo, wire, appended, stored, refused, cut>>

Lock(c) ==
  /\ At(c, "lock")
  /\ fileMutex = Nobody
  /\ fileMutex' = c
  /\ Goto(c, "file")
  /\ UNCHANGED <<device, process, bufferString, reply, client, todo, wire, appended, stored, refused, cut>>

-----------------------------------------------------------------------------
(* Under the mutex.                                                        *)

\* Only at the front of the buffer.  The tests of the code, and its reading past
\* a buffer without a terminating zero, are one comparison here.
checkForCommandInString(buffer) ==
  Len(buffer) >= 2 /\ buffer[1] = Prefix /\ buffer[2] = Args

\* The ioctl moves to some stored byte; the reply is read from there.
SeekTo(c) ==
  /\ At(c, "file")
  /\ checkForCommandInString(Held(c))
  /\ Call("ioctl", c, "OK", 0, <<>>)
  /\ \E p \in 0 .. Len(Device!Stream) - 1 : pos' = [pos EXCEPT ![c] = p]
  /\ Device!Seek(c)
  /\ Goto(c, "read")
  /\ UNCHANGED <<process, bufferString, fileMutex, reply, client, todo, wire, appended, stored, refused, cut>>

\* Or it is refused: unlock, clean, logAndExit.  The process ends in this step; in
\* the code the other handlers go on until they see their wakeup byte, which is
\* AesdSocket's subject.
SeekRefused(c) ==
  /\ At(c, "file")
  /\ checkForCommandInString(Held(c))
  /\ Call("ioctl", c, "EINVAL", 0, <<>>)
  /\ Device!Refuse
  /\ fileMutex' = Nobody
  /\ bufferString' = [bufferString EXCEPT ![c] = CleanBuffer(@)]
  /\ process' = "failed"
  /\ UNCHANGED <<pc, reply, client, todo, wire, appended, stored, refused, cut>>

\* fwrite passes whole blocks on at once and fclose the rest: a long line
\* reaches the device in two writes.
WholeBlocks(data) == Len(data) - (Len(data) % STDIO_SIZE)

AtFwrite(c) == At(c, "file") /\ ~ checkForCommandInString(Held(c)) /\ WholeBlocks(Held(c)) > 0

AtFclose(c) ==
  \/ At(c, "fclose")
  \/ At(c, "file") /\ ~ checkForCommandInString(Held(c)) /\ WholeBlocks(Held(c)) = 0

\* One write to the device.
StorePiece(c, piece, place) ==
  /\ Call("write", c, "OK", Len(piece), <<>>)
  /\ Device!Write(c, piece)
  /\ stored' = IF Contains(piece, Newline)
               THEN [stored EXCEPT ![c] = Append(@, partial \o piece)] ELSE stored
  /\ Goto(c, place)
  /\ UNCHANGED <<process, bufferString, fileMutex, reply, client, todo, wire, appended, refused>>

Fwrite(c) ==
  LET more == WholeBlocks(Held(c)) < Len(Held(c))
      piece == SubSeq(Held(c), 1, WholeBlocks(Held(c)))
  IN  /\ AtFwrite(c)
      /\ StorePiece(c, piece, IF more THEN "fclose" ELSE "read")
      /\ cut' = (cut \/ (more /\ Contains(piece, Newline)))

Fclose(c) ==
  /\ AtFclose(c)
  /\ StorePiece(c, SubSeq(Held(c), WholeBlocks(Held(c)) + 1, Len(Held(c))), "read")
  /\ UNCHANGED cut

\* The results of fwrite and fclose are not looked at.
StoreRefused(c) ==
  /\ AtFwrite(c) \/ AtFclose(c)
  /\ WriteErrors
  /\ Call("write", c, "ENOMEM", 0, <<>>)
  /\ Device!Refuse
  /\ refused' = refused \cup {c}
  /\ cut' = (cut \/ pc[c] = "fclose")
  /\ Goto(c, "read")
  /\ UNCHANGED <<process, bufferString, fileMutex, reply, client, todo, wire, appended, stored>>

\* One read of the device, in pieces as it likes, handed to send.  What a send
\* that is cut short loses is not modelled: its result is ignored.
ReadAndSend(c) ==
  /\ At(c, "read")
  /\ \E n \in 1 .. Len(Device!Stream) - pos[c] :
       LET data == SubSeq(Device!Stream, pos[c] + 1, pos[c] + n)
       IN  /\ Call("read", c, "OK", n, data)
           /\ Device!Read(c, n)
           /\ reply' = [reply EXCEPT ![c] = @ \o data]
  /\ UNCHANGED <<process, pc, bufferString, fileMutex, client, todo, wire, appended, stored, refused, cut>>

\* send to a client that is gone.
SendRaisesSigpipe(c) ==
  /\ At(c, "read")
  /\ client[c] = "closed"
  /\ pos[c] < Len(Device!Stream)
  /\ process' = "crashed"
  /\ UNCHANGED <<device, pc, bufferString, fileMutex, reply, client, todo, wire, appended, stored, refused, cut>>

ReadEnds(c) ==
  /\ At(c, "read")
  /\ Call("read", c, "OK", 0, <<>>)
  /\ Device!Read(c, 1)
  /\ Goto(c, "close")
  /\ UNCHANGED <<process, bufferString, fileMutex, reply, client, todo, wire, appended, stored, refused, cut>>

\* A mistake: the mutex stays locked.
FinishLocked(c) ==
  /\ At(c, "close")
  /\ Call("release", c, "OK", 0, <<>>)
  /\ Device!OpenOrClose(c)
  /\ bufferString' = [bufferString EXCEPT ![c] = CleanBuffer(@)]
  /\ reply' = [reply EXCEPT ![c] = <<>>]
  /\ Goto(c, "poll")
  /\ UNCHANGED <<process, fileMutex, client, todo, wire, appended, stored, refused, cut>>

Finish(c) ==
  /\ At(c, "close")
  /\ Call("release", c, "OK", 0, <<>>)
  /\ Device!OpenOrClose(c)
  /\ fileMutex' = Nobody
  /\ bufferString' = [bufferString EXCEPT ![c] = CleanBuffer(@)]
  /\ reply' = [reply EXCEPT ![c] = <<>>]
  /\ Goto(c, "poll")
  /\ UNCHANGED <<process, client, todo, wire, appended, stored, refused, cut>>

-----------------------------------------------------------------------------

HandlerStep(c) ==
  \/ Recv(c) \/ RecvEof(c) \/ Lock(c)
  \/ SeekTo(c) \/ SeekRefused(c)
  \/ Fwrite(c) \/ Fclose(c) \/ StoreRefused(c)
  \/ ReadAndSend(c) \/ SendRaisesSigpipe(c) \/ ReadEnds(c) \/ Finish(c)

Next == \E c \in Client : HandlerStep(c) \/ Send(c) \/ Hangup(c)

\* The scheduler runs each handler that can run.  Clients need not send, but they
\* read their replies: a send does not block for ever.
Fairness == \A c \in Client : WF_vars(HandlerStep(c))

Spec == Init /\ [][Next]_vars /\ Fairness

-----------------------------------------------------------------------------
(* Properties.                                                             *)

IsCommand(m) == checkForCommandInString(m)

\* The device has one temporary buffer for everybody.  The server leaves
\* nothing in it when it unlocks, so two clients' bytes are not joined into one
\* operation, whoever hangs up, except after a long write that had its newline
\* in the first piece or its second piece refused.
OperationsNotMixed == partial # <<>> => cut \/ \E c \in Client : pc[c] = "fclose"

\* A reply is one state of the device, read in pieces though it is: the end of
\* the stream from where the command pointed, or all of it, the client's own
\* operation last, though other clients write and evict.
ReplyIsSnapshot ==
  \A c \in Client : pc[c] = "close" =>
    /\ IsSuffix(reply[c], Device!Stream)
    /\ IF IsCommand(Held(c)) THEN reply[c] # <<>>
       ELSE /\ reply[c] = Device!Stream
            /\ cut \/ c \in refused \/ lines[Len(lines)] = Held(c)

\* The messages that are not commands, in order.
Operations(messages) ==
  FlattenSeq([i \in 1 .. Len(messages) |-> IF IsCommand(messages[i]) THEN <<>> ELSE <<messages[i]>>])

\* For a client that waits for each answer every message that is not a command
\* is exactly one operation of the device, in order, in whatever pieces it
\* arrives and is written: the numbers that seek commands use count its
\* messages.
OneOperationPerMessage ==
  ~ cut => \A c \in Patient \ refused : IsPrefix(stored[c], Operations(Script[c]))

\* The bytes of a client that sends no command are written once each and in
\* order, even if it does not wait and the operations are cut elsewhere.
BytesInOrder ==
  ~ cut => \A c \in Client \ refused :
    LET written == FlattenSeq(stored[c])
        waiting == IF pc[c] \in {"read", "close"} THEN <<>> ELSE Held(c)
        all == FlattenSeq(Script[c])
    IN  ~ Contains(all, Prefix) =>
          IF pc[c] = "done" THEN IsPrefix(written, all)
          ELSE written \o waiting \o wire[c] \o FlattenSeq(todo[c]) = all

\* Every handler comes to rest with its client's bytes dealt with.  A complete
\* line is left in the buffer only when its last piece was added to earlier
\* ones: then the search may have missed its newline.
AnsweredUnlessSplit ==
  \A c \in Client :
    <>[](process = "running" =>
           /\ pc[c] \in {"poll", "done"}
           /\ wire[c] = <<>>
           /\ Contains(Held(c), Newline) => appended[c])
=============================================================================
