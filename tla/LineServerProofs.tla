-------------------------- MODULE LineServerProofs --------------------------
(***************************************************************************)
(* Proofs about what becomes of the clients' bytes, for any number of      *)
(* clients with any messages, any sizes of the receive and stdio buffers   *)
(* and any capacity of the device.                                         *)
(***************************************************************************)
EXTENDS LineServer, NaturalLemmas

Place == {"poll", "lock", "file", "fclose", "read", "close", "done"}

\* The places where a handler holds fileMutex.
Critical == {"file", "fclose", "read", "close"}

\* The temporary buffer knows the length of what it holds.
Temporary(t) ==
  t \in aesd_temperary_buffer /\ (t.buffptr # NULL => t.size = Len(t.buffptr))

Stream == FlattenSeq(lines)

Types ==
  /\ lines \in Seq(Seq(Byte)) /\ partial \in Seq(Byte)
  /\ pos \in [Client -> Nat]
  /\ pc \in [Client -> Place]
  /\ \A c \in Client : Temporary(bufferString[c])
  /\ bufferString \in [Client -> aesd_temperary_buffer]
  /\ reply \in [Client -> Seq(Byte)]
  /\ todo \in [Client -> Seq(Seq(Byte))]
  /\ wire \in [Client -> Seq(Byte)]

\* Only one handler uses the device.
Exclusive == process = "running" => \A c \in Client : pc[c] \in Critical => fileMutex = c

FirstPiece(c) == SubSeq(Held(c), 1, WholeBlocks(Held(c)))

\* A handler that asked for the mutex holds a newline; one between its two
\* writes has it in the second piece, unless the line is recorded as cut.
HoldsLine(c) ==
  /\ process = "running" /\ pc[c] \in {"lock", "file", "fclose"} => Contains(Held(c), Newline)
  /\ pc[c] = "fclose" =>
       /\ ~ IsCommand(Held(c))
       /\ cut \/ (partial = FirstPiece(c) /\ ~ Contains(FirstPiece(c), Newline))

\* What was sent of the stream so far.
Sent(c) ==
  /\ Len(reply[c]) <= pos[c] /\ pos[c] <= Len(Stream)
  /\ reply[c] = SubSeq(Stream, pos[c] - Len(reply[c]) + 1, pos[c])
  /\ IF IsCommand(Held(c)) THEN reply[c] # <<>> \/ pos[c] < Len(Stream)
     ELSE /\ Len(reply[c]) = pos[c]
          /\ cut \/ c \in refused \/ (lines # <<>> /\ lines[Len(lines)] = Held(c))

Replying(c) ==
  /\ pc[c] \notin {"read", "close"} => pos[c] = 0 /\ reply[c] = <<>>
  /\ pc[c] \in {"read", "close"} => Sent(c)
  /\ pc[c] = "close" => pos[c] = Len(Stream)

Inv ==
  /\ Types
  /\ Exclusive
  /\ \A c \in Client : HoldsLine(c) /\ Replying(c)
  /\ OperationsNotMixed

-----------------------------------------------------------------------------
(* Sequences.                                                              *)

\* The elements of a part of a sequence.
LEMMA SubSeqAt ==
  ASSUME NEW t \in Seq(Byte), NEW a \in 1 .. Len(t) + 1, NEW b \in a - 1 .. Len(t)
  PROVE  /\ SubSeq(t, a, b) \in Seq(Byte)
         /\ Len(SubSeq(t, a, b)) = b - a + 1
         /\ \A i \in 1 .. b - a + 1 : SubSeq(t, a, b)[i] = t[a + i - 1]
<1>1. a \in Int /\ b \in Int /\ \A i \in a .. b : i \in 1 .. Len(t)
  OBVIOUS
<1>2. \A i \in a .. b : t[i] \in Byte
  BY <1>1
<1>3. (IF a <= b THEN b - a + 1 ELSE 0) = b - a + 1
  OBVIOUS
<1> QED BY <1>1, <1>2, <1>3, SubSeqProperties

\* The whole blocks are some of the bytes.
LEMMA BlocksFit ==
  ASSUME NEW s \in Seq(Byte)
  PROVE  WholeBlocks(s) \in 0 .. Len(s)
<1>1. \A a \in Nat, n \in Nat \ {0} : a % n \in 0 .. a
  OBVIOUS
<1>2. Len(s) \in Nat /\ STDIO_SIZE \in Nat \ {0}
  BY SizeAssumption
<1>3. Len(s) % STDIO_SIZE \in 0 .. Len(s)
  BY <1>1, <1>2
<1> QED BY <1>2, <1>3 DEF WholeBlocks

\* a and b are the pieces of s before and after its k-th element.
Pieces(s, k, a, b) == k \in 0 .. Len(s) /\ a = SubSeq(s, 1, k) /\ b = SubSeq(s, k + 1, Len(s))

\* A sequence cut in two: the pieces give it back, and an element is in one.
LEMMA TwoPieces ==
  ASSUME NEW s \in Seq(Byte), NEW k, NEW a, NEW b, Pieces(s, k, a, b)
  PROVE  /\ a \in Seq(Byte) /\ b \in Seq(Byte)
         /\ a \o b = s
         /\ \A e : Contains(s, e) => Contains(a, e) \/ Contains(b, e)
         /\ k = Len(s) => a = s
         /\ k = 0 => a = <<>> /\ b = s
<1> USE DEF Pieces
<1>1. k \in Nat /\ Len(s) \in Nat /\ k <= Len(s)
  OBVIOUS
<1>2. a \in Seq(Byte) /\ Len(a) = k /\ \A i \in 1 .. k : a[i] = s[i]
  BY <1>1
<1>3. b \in Seq(Byte) /\ Len(b) = Len(s) - k /\ \A i \in 1 .. Len(s) - k : b[i] = s[k + i]
  BY <1>1
<1>4. a \o b = s
  <2>1. 1 \in 1 .. Len(s) + 1 /\ k \in 1 - 1 .. Len(s) /\ Len(s) \in k .. Len(s)
    BY <1>1
  <2>2. a \o b = SubSeq(s, 1, Len(s))
    BY <2>1, ConcatAdjacentSubSeq
  <2> QED BY <2>2, SubSeqFull
<1>5. ASSUME NEW e, Contains(s, e) PROVE Contains(a, e) \/ Contains(b, e)
  <2>1. PICK i \in 1 .. Len(s) : s[i] = e
    BY <1>5 DEF Contains
  <2>2. CASE i <= k
    <3>1. i \in 1 .. k
      BY <1>1, <2>2
    <3> QED BY <1>2, <2>1, <3>1 DEF Contains
  <2>3. CASE ~ (i <= k)
    <3>1. i - k \in 1 .. Len(s) - k /\ k + (i - k) = i
      BY <1>1, <2>3
    <3> QED BY <1>3, <2>1, <3>1 DEF Contains
  <2> QED BY <2>2, <2>3
<1>6. k = Len(s) => a = s
  OBVIOUS
<1>7. k = 0 => a = <<>> /\ b = s
  BY <1>1, <1>2, <1>3
<1> QED BY <1>2, <1>3, <1>4, <1>5, <1>6, <1>7

\* The end of a sequence is a suffix of it.
LEMMA EndIsSuffix ==
  ASSUME NEW t \in Seq(Byte), NEW n \in 0 .. Len(t), NEW s, s = SubSeq(t, Len(t) - n + 1, Len(t))
  PROVE  IsSuffix(s, t)
<1> DEFINE l == Len(t)
           rs == Reverse(s)
           rt == Reverse(t)
<1>1. l \in Nat /\ n \in Nat /\ n <= l
  OBVIOUS
<1>2. Len(s) = n /\ \A i \in 1 .. n : s[i] = t[l - n + i]
  <2>1. l - n + 1 \in 1 .. l + 1 /\ l \in (l - n + 1) - 1 .. l
    BY <1>1
  <2>2. Len(s) = l - (l - n + 1) + 1
        /\ \A i \in 1 .. l - (l - n + 1) + 1 : s[i] = t[(l - n + 1) + i - 1]
    BY <2>1, SubSeqAt
  <2>3. l - (l - n + 1) + 1 = n /\ \A i \in 1 .. n : (l - n + 1) + i - 1 = l - n + i
    BY <1>1
  <2> QED BY <2>2, <2>3
<1>3. Len(rs) = n /\ \A i \in 1 .. n : rs[i] = s[(n - i) + 1]
  BY <1>1, <1>2 DEF Reverse
<1>4. Len(rt) = l /\ \A i \in 1 .. l : rt[i] = t[(l - i) + 1]
  BY <1>1 DEF Reverse
<1>5. rs \in Seq(Byte) /\ rt \in Seq(Byte)
  <2>1. s \in Seq(Byte)
    BY <1>1
  <2> QED BY <2>1 DEF Reverse
<1>6. ASSUME NEW i \in 1 .. n PROVE rs[i] = rt[i]
  <2>1. (n - i) + 1 \in 1 .. n /\ i \in 1 .. l /\ l - n + ((n - i) + 1) = (l - i) + 1
    BY <1>1
  <2> QED BY <1>2, <1>3, <1>4, <2>1
<1> HIDE DEF rs, rt
<1>7. SubSeq(rs, 1, n) = SubSeq(rt, 1, n)
  <2>1. /\ SubSeq(rs, 1, n) \in Seq(Byte) /\ Len(SubSeq(rs, 1, n)) = n
        /\ \A i \in 1 .. n : SubSeq(rs, 1, n)[i] = rs[i]
    BY <1>1, <1>3, <1>5
  <2>2. /\ SubSeq(rt, 1, n) \in Seq(Byte) /\ Len(SubSeq(rt, 1, n)) = n
        /\ \A i \in 1 .. n : SubSeq(rt, 1, n)[i] = rt[i]
    BY <1>1, <1>4, <1>5
  <2> QED BY <1>6, <2>1, <2>2, SeqEqual
<1>8. IsPrefix(rs, rt)
  BY <1>1, <1>3, <1>4, <1>7 DEF IsPrefix
<1> QED BY <1>8 DEF IsSuffix, rs, rt

-----------------------------------------------------------------------------
(* One step of a handler or a client.                                      *)

\* The handler's buffer is the bytes it holds.
LEMMA HeldBytes ==
  ASSUME NEW c, Temporary(bufferString[c])
  PROVE  /\ Held(c) \in Seq(Byte)
         /\ Held(c) = IF bufferString[c].buffptr = NULL THEN <<>> ELSE bufferString[c].buffptr
<1>1. CASE bufferString[c].buffptr = NULL
  BY <1>1 DEF Held
<1>2. CASE bufferString[c].buffptr # NULL
  <2>1. /\ bufferString[c].buffptr \in Seq(Byte)
        /\ bufferString[c].size = Len(bufferString[c].buffptr)
    BY <1>2 DEF Temporary, aesd_temperary_buffer
  <2>2. SubSeq(bufferString[c].buffptr, 1, bufferString[c].size) = bufferString[c].buffptr
    BY <2>1, SubSeqFull
  <2> QED BY <1>2, <2>1, <2>2 DEF Held
<1> QED BY <1>1, <1>2

\* What a step at c leaves to the other handlers.
OthersSame(c) ==
  \A d \in Client \ {c} : /\ pc'[d] = pc[d] /\ bufferString'[d] = bufferString[d]
                          /\ reply'[d] = reply[d] /\ pos'[d] = pos[d]

\* The histories only grow.
Grows == (cut => cut') /\ refused \subseteq refused'

\* The device is changed only by the handler that holds the mutex.
DeviceMine(c) == (lines' = lines /\ partial' = partial) \/ pc[c] \in Critical

\* So a step at c does not disturb another handler.
LEMMA OthersKeep ==
  ASSUME Inv, NEW c \in Client, process = "running", OthersSame(c), Grows, DeviceMine(c),
         NEW d \in Client, d # c
  PROVE  HoldsLine(d)' /\ Replying(d)'
<1>1. /\ pc'[d] = pc[d] /\ bufferString'[d] = bufferString[d]
      /\ reply'[d] = reply[d] /\ pos'[d] = pos[d]
      /\ (cut => cut') /\ (d \in refused => d \in refused')
  BY DEF OthersSame, Grows
<1>2. Held(d)' = Held(d)
  BY <1>1 DEF Held
<1>3. HoldsLine(d) /\ Replying(d)
  BY DEF Inv
<1>4. CASE pc[d] \in Critical
  <2>1. lines' = lines /\ partial' = partial
    <3>1. pc[c] \in Critical => FALSE
      BY <1>4 DEF Inv, Exclusive
    <3> QED BY <3>1 DEF DeviceMine
  <2>2. Stream' = Stream
    BY <2>1 DEF Stream
  <2>3. FirstPiece(d)' = FirstPiece(d)
    BY <1>2 DEF FirstPiece, WholeBlocks
  <2>4. HoldsLine(d)'
    BY <1>1, <1>2, <1>3, <2>1, <2>3 DEF HoldsLine, Contains, IsCommand,
       checkForCommandInString
  <2>5. Sent(d) => Sent(d)'
    BY <1>1, <1>2, <2>1, <2>2 DEF Sent, IsCommand, checkForCommandInString
  <2>6. Replying(d)'
    BY <1>1, <1>3, <2>2, <2>5 DEF Replying
  <2> QED BY <2>4, <2>6
<1>5. CASE pc[d] \notin Critical
  <2>1. pc'[d] # "fclose" /\ pc'[d] # "file" /\ pc'[d] \notin {"read", "close"}
    BY <1>1, <1>5 DEF Critical
  <2>2. HoldsLine(d)'
    BY <1>1, <1>2, <1>3, <2>1 DEF HoldsLine, Contains
  <2>3. Replying(d)'
    BY <1>1, <1>3, <2>1 DEF Replying
  <2> QED BY <2>2, <2>3
<1> QED BY <1>4, <1>5

\* How the mutex may change hands.
MutexStep(c) ==
  \/ fileMutex' = fileMutex /\ (pc'[c] \in Critical => pc[c] \in Critical)
  \/ fileMutex = Nobody /\ fileMutex' = c
  \/ pc[c] \in Critical /\ pc'[c] \notin Critical
  \/ process' # "running"

\* The mutex keeps the handlers apart.
LEMMA StaysExclusive ==
  ASSUME Inv, NEW c \in Client, process = "running", OthersSame(c), MutexStep(c)
  PROVE  Exclusive'
<1>1. \A d \in Client : pc[d] \in Critical => fileMutex = d
  BY DEF Inv, Exclusive
<1>2. \A d \in Client \ {c} : pc'[d] = pc[d]
  BY DEF OthersSame
<1>3. Nobody \notin Client
  BY PatientAssumption
<1> SUFFICES ASSUME process' = "running", NEW d \in Client, pc'[d] \in Critical
             PROVE  fileMutex' = d
  BY DEF Exclusive, Critical
<1>4. CASE fileMutex' = fileMutex /\ (pc'[c] \in Critical => pc[c] \in Critical)
  BY <1>1, <1>2, <1>4
<1>5. CASE fileMutex = Nobody /\ fileMutex' = c
  BY <1>1, <1>2, <1>3, <1>5
<1>6. CASE pc[c] \in Critical /\ pc'[c] \notin Critical
  BY <1>1, <1>2, <1>6
<1> QED BY <1>4, <1>5, <1>6 DEF MutexStep

\* How the device's unfinished line may change.
PartialStep(c) ==
  \/ partial' = partial /\ (pc[c] = "fclose" => pc'[c] = "fclose" \/ cut')
  \/ partial' = <<>>
  \/ cut'
  \/ pc'[c] = "fclose"

\* No handler leaves bytes behind in the device.
LEMMA StaysUnmixed ==
  ASSUME Inv, NEW c \in Client, OthersSame(c), Grows, PartialStep(c)
  PROVE  OperationsNotMixed'
<1> SUFFICES ASSUME partial' # <<>>, ~ cut'
             PROVE  \E d \in Client : pc'[d] = "fclose"
  BY DEF OperationsNotMixed
<1>1. CASE pc'[c] = "fclose"
  BY <1>1
<1>2. CASE partial' = partial /\ (pc[c] = "fclose" => pc'[c] = "fclose" \/ cut')
  <2>1. PICK d \in Client : pc[d] = "fclose"
    BY <1>2 DEF Inv, OperationsNotMixed, Grows
  <2> QED BY <1>2, <2>1 DEF OthersSame
<1> QED BY <1>1, <1>2 DEF PartialStep

\* What is left to show of a step at c.
LEMMA StepKeeps ==
  ASSUME Inv, NEW c \in Client, process = "running",
         Types', OthersSame(c), Grows, DeviceMine(c), MutexStep(c), PartialStep(c),
         HoldsLine(c)', Replying(c)'
  PROVE  Inv'
<1>1. \A d \in Client : HoldsLine(d)' /\ Replying(d)'
  BY OthersKeep
<1>2. Exclusive' /\ OperationsNotMixed'
  BY StaysExclusive, StaysUnmixed
<1> QED BY <1>1, <1>2 DEF Inv

-----------------------------------------------------------------------------
(* The clients, recv and the mutex.                                        *)

\* Sending and hanging up are the client's own affair.
LEMMA ClientKeeps ==
  ASSUME Inv, NEW c \in Client, Send(c) \/ Hangup(c)
  PROVE  Inv'
<1>1. /\ process = "running" /\ process' = process
      /\ UNCHANGED <<lines, partial, pos, pc, bufferString, fileMutex, reply, refused, cut>>
  BY DEF Send, Hangup, device
<1>2. todo' \in [Client -> Seq(Seq(Byte))] /\ wire' \in [Client -> Seq(Byte)]
  <2>1. todo \in [Client -> Seq(Seq(Byte))] /\ wire \in [Client -> Seq(Byte)]
    BY DEF Inv, Types
  <2>2. CASE Hangup(c)
    BY <2>1, <2>2 DEF Hangup
  <2>3. CASE Send(c)
    <3>1. /\ todo[c] # <<>> /\ wire' = [wire EXCEPT ![c] = @ \o Head(todo[c])]
          /\ todo' = [todo EXCEPT ![c] = Tail(@)]
      BY <2>3 DEF Send
    <3>2. todo[c] \in Seq(Seq(Byte)) /\ wire[c] \in Seq(Byte)
      BY <2>1
    <3>3. Head(todo[c]) \in Seq(Byte) /\ Tail(todo[c]) \in Seq(Seq(Byte))
      BY <3>1, <3>2, HeadTailProperties
    <3>4. wire[c] \o Head(todo[c]) \in Seq(Byte)
      BY <3>2, <3>3, ConcatProperties
    <3> QED BY <2>1, <3>1, <3>3, <3>4
  <2> QED BY <2>2, <2>3
<1>3. Types'
  BY <1>1, <1>2 DEF Inv, Types
<1>4. OthersSame(c) /\ Grows /\ DeviceMine(c) /\ MutexStep(c) /\ PartialStep(c)
  BY <1>1 DEF OthersSame, Grows, DeviceMine, MutexStep, PartialStep
<1>5. Held(c)' = Held(c) /\ Stream' = Stream /\ FirstPiece(c)' = FirstPiece(c)
  BY <1>1 DEF Held, Stream, FirstPiece, WholeBlocks
<1>6. HoldsLine(c)' /\ Replying(c)'
  <2>1. HoldsLine(c) /\ Replying(c)
    BY DEF Inv
  <2>2. Sent(c)' <=> Sent(c)
    BY <1>1, <1>5 DEF Sent, IsCommand, checkForCommandInString
  <2> QED BY <1>1, <1>5, <2>1, <2>2 DEF HoldsLine, Replying, Contains,
       IsCommand, checkForCommandInString
<1> QED BY <1>1, <1>3, <1>4, <1>6, StepKeeps

\* recv adds bytes to the buffer, and asks for the mutex only with a newline.
LEMMA RecvKeeps ==
  ASSUME Inv, NEW c \in Client, Recv(c)
  PROVE  Inv'
<1>1. PICK recvLen \in 1 .. Len(wire[c]) :
        LET added == AddToBuffer(bufferString[c], SubSeq(wire[c], 1, recvLen))
        IN  /\ wire' = [wire EXCEPT ![c] = SubSeq(@, recvLen + 1, Len(@))]
            /\ bufferString' = [bufferString EXCEPT ![c] = added]
            /\ Goto(c, IF checkForNewlineCharInString(added.buffptr, recvLen) THEN "lock" ELSE "poll")
  BY DEF Recv
<1> DEFINE data == SubSeq(wire[c], 1, recvLen)
           t == bufferString[c]
           added == AddToBuffer(t, data)
           place == IF checkForNewlineCharInString(added.buffptr, recvLen) THEN "lock" ELSE "poll"
<1>2. /\ process = "running" /\ process' = process /\ pc[c] = "poll"
      /\ UNCHANGED <<lines, partial, pos, fileMutex, reply, todo, refused, cut>>
  BY DEF Recv, At, device
<1>3. /\ wire \in [Client -> Seq(Byte)] /\ pc \in [Client -> Place] /\ Temporary(t)
      /\ bufferString \in [Client -> aesd_temperary_buffer] /\ wire[c] \in Seq(Byte)
      /\ \A d \in Client : Temporary(bufferString[d])
  BY DEF Inv, Types
<1>4. data \in Seq(Byte) /\ Len(data) = recvLen /\ recvLen \in Nat /\ recvLen > 0
      /\ SubSeq(wire[c], recvLen + 1, Len(wire[c])) \in Seq(Byte)
  <2>1. /\ recvLen \in 0 .. Len(wire[c]) /\ recvLen \in Nat /\ recvLen > 0
        /\ 1 \in 1 .. Len(wire[c]) + 1 /\ recvLen \in 1 - 1 .. Len(wire[c])
    BY <1>3
  <2>2. data \in Seq(Byte) /\ SubSeq(wire[c], recvLen + 1, Len(wire[c])) \in Seq(Byte)
    <3>1. Pieces(wire[c], recvLen, data, SubSeq(wire[c], recvLen + 1, Len(wire[c])))
      BY <2>1 DEF Pieces
    <3> QED BY <1>3, <3>1, TwoPieces
  <2>3. Len(data) = recvLen - 1 + 1
    BY <1>3, <2>1, SubSeqAt
  <2> HIDE DEF data
  <2> QED BY <2>1, <2>2, <2>3
<1>5. bufferString' = [bufferString EXCEPT ![c] = added] /\ pc' = [pc EXCEPT ![c] = place]
      /\ wire' = [wire EXCEPT ![c] = SubSeq(wire[c], recvLen + 1, Len(wire[c]))]
  BY <1>1 DEF Goto
<1> HIDE DEF data
<1>6. added.buffptr \in Seq(Byte) /\ added \in aesd_temperary_buffer /\ Temporary(added)
      /\ Len(added.buffptr) \in Nat /\ Len(added.buffptr) >= recvLen
  <2>1. CASE t.buffptr = NULL
    <3>1. added = [buffptr |-> data, size |-> Len(data)]
      BY <2>1 DEF AddToBuffer, aesd_temperary_buffer_add
    <3> QED BY <1>4, <3>1 DEF Temporary, aesd_temperary_buffer
  <2>2. CASE t.buffptr # NULL
    <3> DEFINE j == t.buffptr \o data
    <3>1. added = [buffptr |-> j, size |-> t.size + Len(data)]
      BY <2>2 DEF AddToBuffer, aesd_temperary_buffer_add
    <3>2. t.buffptr \in Seq(Byte) /\ t.size = Len(t.buffptr) /\ Len(t.buffptr) \in Nat
      BY <1>3, <2>2 DEF Temporary, aesd_temperary_buffer
    <3>3. j \in Seq(Byte) /\ Len(j) = Len(t.buffptr) + Len(data)
      BY <1>4, <3>2, ConcatProperties
    <3> HIDE DEF j
    <3>4. Len(j) \in Nat /\ Len(j) >= recvLen /\ t.size + Len(data) = Len(j)
      BY <1>4, <3>2, <3>3
    <3> QED BY <3>1, <3>3, <3>4 DEF Temporary, aesd_temperary_buffer
  <2> QED BY <2>1, <2>2
<1> HIDE DEF added
<1>7. place \in {"lock", "poll"}
  OBVIOUS
<1>8. bufferString'[c] = added /\ pc'[c] = place
      /\ \A d \in Client \ {c} : pc'[d] = pc[d] /\ bufferString'[d] = bufferString[d]
  BY <1>3, <1>5
<1>9. Types'
  <2>1. \A d \in Client : Temporary(bufferString'[d])
    BY <1>3, <1>6, <1>8
  <2>2. bufferString' \in [Client -> aesd_temperary_buffer] /\ wire' \in [Client -> Seq(Byte)]
        /\ pc' \in [Client -> Place]
    BY <1>3, <1>4, <1>5, <1>6, <1>7 DEF Place
  <2> QED BY <1>2, <2>1, <2>2 DEF Inv, Types
<1>10. OthersSame(c) /\ Grows /\ DeviceMine(c) /\ MutexStep(c) /\ PartialStep(c)
  BY <1>2, <1>7, <1>8 DEF OthersSame, Grows, DeviceMine, MutexStep, PartialStep, Critical
<1>11. HoldsLine(c)'
  <2>1. ASSUME place = "lock" PROVE Contains(Held(c)', Newline)
    <3>1. checkForNewlineCharInString(added.buffptr, recvLen)
      BY <2>1
    <3>2. PICK i \in 1 .. recvLen : added.buffptr[i] = Newline
      BY <1>4, <3>1 DEF checkForNewlineCharInString
    <3>3. Held(c)' = added.buffptr
      <4>1. added.buffptr # NULL /\ added.size = Len(added.buffptr)
        BY <1>6, NullAssumption DEF Temporary
      <4>2. SubSeq(added.buffptr, 1, added.size) = added.buffptr
        BY <1>6, <4>1, SubSeqFull
      <4> QED BY <1>8, <4>1, <4>2 DEF Held
    <3>4. i \in 1 .. Len(added.buffptr)
      BY <1>4, <1>6
    <3> QED BY <3>2, <3>3, <3>4 DEF Contains
  <2> QED BY <1>7, <1>8, <2>1 DEF HoldsLine, Contains
<1>12. Replying(c)'
  <2>1. pos[c] = 0 /\ reply[c] = <<>>
    BY <1>2 DEF Inv, Replying
  <2> QED BY <1>2, <1>7, <1>8, <2>1 DEF Replying
<1> QED BY <1>2, <1>9, <1>10, <1>11, <1>12, StepKeeps

\* aesd_temperary_buffer_clean leaves a temporary buffer.
LEMMA CleanKeeps ==
  ASSUME NEW t, Temporary(t)
  PROVE  Temporary(CleanBuffer(t)) /\ CleanBuffer(t) \in aesd_temperary_buffer
BY DEF Temporary, CleanBuffer, aesd_temperary_buffer_delete, aesd_temperary_buffer_init,
   aesd_temperary_buffer

\* A step that only moves the handler, and perhaps cleans its buffer.
MoveStep(c, place) ==
  /\ process = "running"
  /\ pc' = [pc EXCEPT ![c] = place]
  /\ \/ bufferString' = bufferString
     \/ bufferString' = [bufferString EXCEPT ![c] = CleanBuffer(@)]
  /\ UNCHANGED <<lines, partial, todo, wire>>

\* What such a step does to the types and to the other handlers.
LEMMA MoveTypes ==
  ASSUME Inv, NEW c \in Client, NEW place \in Place, MoveStep(c, place),
         NEW p \in Nat, pos' = [pos EXCEPT ![c] = p],
         NEW r \in Seq(Byte), reply' = [reply EXCEPT ![c] = r]
  PROVE  /\ Types' /\ OthersSame(c) /\ DeviceMine(c)
         /\ pc'[c] = place /\ pos'[c] = p /\ reply'[c] = r
         /\ bufferString' = bufferString => Held(c)' = Held(c)
         /\ Stream' = Stream
<1>1. /\ pos \in [Client -> Nat] /\ reply \in [Client -> Seq(Byte)] /\ pc \in [Client -> Place]
      /\ bufferString \in [Client -> aesd_temperary_buffer]
      /\ \A d \in Client : Temporary(bufferString[d])
  BY DEF Inv, Types
<1>2. /\ pos' \in [Client -> Nat] /\ reply' \in [Client -> Seq(Byte)] /\ pc' \in [Client -> Place]
      /\ pc'[c] = place /\ pos'[c] = p /\ reply'[c] = r
      /\ \A d \in Client \ {c} : pc'[d] = pc[d] /\ reply'[d] = reply[d] /\ pos'[d] = pos[d]
  BY <1>1 DEF MoveStep
<1>3. /\ bufferString' \in [Client -> aesd_temperary_buffer]
      /\ \A d \in Client : Temporary(bufferString'[d])
      /\ \A d \in Client \ {c} : bufferString'[d] = bufferString[d]
  <2>1. CASE bufferString' = bufferString
    BY <1>1, <2>1
  <2>2. CASE bufferString' = [bufferString EXCEPT ![c] = CleanBuffer(@)]
    <3>1. Temporary(CleanBuffer(bufferString[c])) /\ CleanBuffer(bufferString[c]) \in aesd_temperary_buffer
      BY <1>1, CleanKeeps
    <3> QED BY <1>1, <2>2, <3>1
  <2> QED BY <2>1, <2>2 DEF MoveStep
<1>4. Types'
  BY <1>2, <1>3 DEF MoveStep, Inv, Types
<1>5. OthersSame(c) /\ DeviceMine(c)
  BY <1>2, <1>3 DEF OthersSame, DeviceMine, MoveStep
<1>6. Stream' = Stream
  BY DEF MoveStep, Stream
<1>7. bufferString' = bufferString => Held(c)' = Held(c)
  BY DEF Held
<1> QED BY <1>2, <1>4, <1>5, <1>6, <1>7

\* What a step keeps of a variable is an EXCEPT that changes nothing.
LEMMA Unmoved ==
  ASSUME Inv, NEW c \in Client
  PROVE  /\ pos = [pos EXCEPT ![c] = pos[c]] /\ pos[c] \in Nat
         /\ reply = [reply EXCEPT ![c] = reply[c]] /\ reply[c] \in Seq(Byte)
         /\ pc = [pc EXCEPT ![c] = pc[c]] /\ pc[c] \in Place
BY DEF Inv, Types

\* The end of the connection, and the wait for the mutex.
LEMMA EofAndLockKeep ==
  ASSUME Inv, NEW c \in Client, RecvEof(c) \/ Lock(c)
  PROVE  Inv'
<1>1. /\ pos = [pos EXCEPT ![c] = pos[c]] /\ pos[c] \in Nat
      /\ reply = [reply EXCEPT ![c] = reply[c]] /\ reply[c] \in Seq(Byte)
  BY Unmoved
<1>2. HoldsLine(c) /\ Replying(c)
  BY DEF Inv
<1>3. CASE RecvEof(c)
  <2>1. /\ MoveStep(c, "done") /\ pc[c] = "poll" /\ process = "running"
        /\ UNCHANGED <<pos, reply, partial, fileMutex, cut, refused>>
    BY <1>3 DEF RecvEof, At, Goto, MoveStep, device
  <2>2. pos' = [pos EXCEPT ![c] = pos[c]] /\ reply' = [reply EXCEPT ![c] = reply[c]]
    BY <1>1, <2>1
  <2>3. /\ Types' /\ OthersSame(c) /\ DeviceMine(c)
        /\ pc'[c] = "done" /\ pos'[c] = pos[c] /\ reply'[c] = reply[c]
    BY <1>1, <2>1, <2>2, MoveTypes DEF Place
  <2>4. Grows /\ MutexStep(c) /\ PartialStep(c)
    BY <2>1, <2>3 DEF Grows, MutexStep, PartialStep, Critical
  <2>5. HoldsLine(c)' /\ Replying(c)'
    BY <1>2, <2>1, <2>3 DEF HoldsLine, Replying
  <2> QED BY <2>1, <2>3, <2>4, <2>5, StepKeeps
<1>4. CASE Lock(c)
  <2>1. /\ MoveStep(c, "file") /\ pc[c] = "lock" /\ process = "running" /\ fileMutex = Nobody
        /\ fileMutex' = c
        /\ UNCHANGED <<pos, reply, partial, cut, refused, bufferString>>
    BY <1>4 DEF Lock, At, Goto, MoveStep, device
  <2>2. pos' = [pos EXCEPT ![c] = pos[c]] /\ reply' = [reply EXCEPT ![c] = reply[c]]
    BY <1>1, <2>1
  <2>3. /\ Types' /\ OthersSame(c) /\ DeviceMine(c)
        /\ pc'[c] = "file" /\ pos'[c] = pos[c] /\ reply'[c] = reply[c] /\ Held(c)' = Held(c)
    BY <1>1, <2>1, <2>2, MoveTypes DEF Place
  <2>4. Grows /\ MutexStep(c) /\ PartialStep(c)
    BY <2>1, <2>3 DEF Grows, MutexStep, PartialStep, Critical
  <2>5. HoldsLine(c)' /\ Replying(c)'
    BY <1>2, <2>1, <2>3 DEF HoldsLine, Replying, Contains
  <2> QED BY <2>1, <2>3, <2>4, <2>5, StepKeeps
<1> QED BY <1>3, <1>4

-----------------------------------------------------------------------------
(* Under the mutex.                                                        *)

\* The device's stream is a sequence of bytes.
LEMMA StreamBytes ==
  ASSUME Inv
  PROVE  Device!Stream = Stream /\ Stream \in Seq(Byte) /\ Len(Stream) \in Nat
<1>1. Stream \in Seq(Byte)
  BY FlattenInSeq DEF Stream, Inv, Types
<1>2. Device!Stream = Stream
  BY DEF Device!Stream, Device!FlattenSeq, Stream, FlattenSeq
<1> QED BY <1>1, <1>2

\* A seek command moves to a stored byte, or ends the program.
LEMMA SeekKeeps ==
  ASSUME Inv, NEW c \in Client, SeekTo(c) \/ SeekRefused(c)
  PROVE  Inv'
<1>1. /\ pos = [pos EXCEPT ![c] = pos[c]] /\ pos[c] \in Nat
      /\ reply = [reply EXCEPT ![c] = reply[c]] /\ reply[c] \in Seq(Byte)
      /\ pc = [pc EXCEPT ![c] = pc[c]]
  BY Unmoved
<1>2. HoldsLine(c) /\ Replying(c)
  BY DEF Inv
<1>3. Device!Stream = Stream /\ Stream \in Seq(Byte) /\ Len(Stream) \in Nat
  BY StreamBytes
<1>4. CASE SeekTo(c)
  <2>1. PICK p \in 0 .. Len(Stream) - 1 : pos' = [pos EXCEPT ![c] = p]
    BY <1>3, <1>4 DEF SeekTo
  <2>2. /\ MoveStep(c, "read") /\ pc[c] = "file" /\ process = "running"
        /\ checkForCommandInString(Held(c))
        /\ UNCHANGED <<reply, partial, lines, fileMutex, cut, refused, bufferString>>
    BY <1>4 DEF SeekTo, At, Goto, MoveStep, Device!Seek
  <2>3. p \in Nat /\ p < Len(Stream) /\ reply' = [reply EXCEPT ![c] = reply[c]]
    BY <1>1, <1>3, <2>2
  <2>4. /\ Types' /\ OthersSame(c) /\ DeviceMine(c)
        /\ pc'[c] = "read" /\ pos'[c] = p /\ reply'[c] = reply[c]
        /\ Held(c)' = Held(c) /\ Stream' = Stream
    BY <1>1, <2>1, <2>2, <2>3, MoveTypes DEF Place
  <2>5. Grows /\ MutexStep(c) /\ PartialStep(c)
    BY <2>2, <2>4 DEF Grows, MutexStep, PartialStep, Critical
  <2>6. reply[c] = <<>>
    BY <1>2, <2>2 DEF Replying
  <2>7. Sent(c)'
    <3>1. Len(reply'[c]) = 0 /\ p - 0 + 1 = p + 1 /\ p < p + 1 /\ p \in Int /\ p + 1 \in Int
      BY <2>3, <2>4, <2>6
    <3>2. SubSeq(Stream, p + 1, p) = <<>>
      BY <3>1, SubSeqEmpty
    <3>3. IsCommand(Held(c)')
      BY <2>2, <2>4 DEF IsCommand
    <3>4. Len(reply'[c]) <= p /\ p <= Len(Stream)
      BY <1>3, <2>3, <3>1
    <3>5. reply'[c] = SubSeq(Stream, p - Len(reply'[c]) + 1, p)
      BY <2>4, <2>6, <3>1, <3>2
    <3> QED BY <2>3, <2>4, <3>3, <3>4, <3>5 DEF Sent
  <2>8. HoldsLine(c)' /\ Replying(c)'
    BY <2>4, <2>7 DEF HoldsLine, Replying
  <2> QED BY <2>2, <2>4, <2>5, <2>8, StepKeeps
<1>5. CASE SeekRefused(c)
  <2>1. /\ pc[c] = "file" /\ process = "running" /\ process' = "failed"
        /\ bufferString' = [bufferString EXCEPT ![c] = CleanBuffer(@)]
        /\ UNCHANGED <<pos, reply, partial, lines, todo, wire, cut, refused, pc>>
    BY <1>5 DEF SeekRefused, At, Device!Refuse
  <2>2. /\ MoveStep(c, "file")
        /\ pos' = [pos EXCEPT ![c] = pos[c]] /\ reply' = [reply EXCEPT ![c] = reply[c]]
    BY <1>1, <2>1 DEF MoveStep
  <2>3. /\ Types' /\ OthersSame(c) /\ DeviceMine(c)
        /\ pc'[c] = "file" /\ pos'[c] = pos[c] /\ reply'[c] = reply[c]
    BY <1>1, <2>2, MoveTypes DEF Place
  <2>4. Grows /\ MutexStep(c) /\ PartialStep(c)
    BY <2>1, <2>3 DEF Grows, MutexStep, PartialStep
  <2>5. HoldsLine(c)' /\ Replying(c)'
    BY <1>2, <2>1, <2>3 DEF HoldsLine, Replying
  <2> QED BY <2>1, <2>3, <2>4, <2>5, StepKeeps
<1> QED BY <1>4, <1>5

\* One write to the device: the newline publishes what was collected.
LEMMA WriteFacts ==
  ASSUME Inv, NEW c \in Client, NEW piece \in Seq(Byte), Device!Write(c, piece)
  PROVE  /\ lines' \in Seq(Seq(Byte)) /\ partial' \in Seq(Byte) /\ pos' = pos
         /\ Contains(piece, Newline) =>
              partial' = <<>> /\ lines' # <<>> /\ lines'[Len(lines')] = partial \o piece
         /\ ~ Contains(piece, Newline) => partial' = partial \o piece /\ lines' = lines
<1> DEFINE op == partial \o piece
           kept == IF Len(lines) = Capacity THEN Tail(lines) ELSE lines
<1>1. lines \in Seq(Seq(Byte)) /\ partial \in Seq(Byte)
  BY DEF Inv, Types
<1>2. op \in Seq(Byte)
  BY <1>1, ConcatProperties
<1>3. kept \in Seq(Seq(Byte))
  <2>1. Len(lines) = Capacity => lines # <<>>
    BY <1>1, SizeAssumption
  <2>2. lines # <<>> => Tail(lines) \in Seq(Seq(Byte))
    BY <1>1, HeadTailProperties
  <2> QED BY <1>1, <2>1, <2>2
<1>4. /\ pos' = pos
      /\ Contains(piece, Newline) => lines' = Append(kept, op) /\ partial' = <<>>
      /\ ~ Contains(piece, Newline) => partial' = op /\ lines' = lines
  BY DEF Device!Write, Device!Contains, Contains
<1> HIDE DEF kept, op
<1>5. /\ Append(kept, op) \in Seq(Seq(Byte))
      /\ Append(kept, op) # <<>>
      /\ Append(kept, op)[Len(Append(kept, op))] = op
  BY <1>2, <1>3, AppendProperties, SMTT(30)
<1>6. CASE Contains(piece, Newline)
  <2>1. lines' = Append(kept, op) /\ partial' = <<>> /\ <<>> \in Seq(Byte)
    BY <1>4, <1>6
  <2>2. lines' \in Seq(Seq(Byte)) /\ lines' # <<>> /\ lines'[Len(lines')] = op
    BY <1>5, <2>1, Zenon
  <2> QED BY <1>4, <1>6, <2>1, <2>2 DEF op
<1>7. CASE ~ Contains(piece, Newline)
  BY <1>1, <1>2, <1>4, <1>7 DEF op
<1> QED BY <1>4, <1>6, <1>7

\* Whoever is about to write finds nothing of another client in the device.
LEMMA AloneInDevice ==
  ASSUME Inv, NEW c \in Client, process = "running", pc[c] = "file"
  PROVE  cut \/ partial = <<>>
<1> SUFFICES ASSUME ~ cut, partial # <<>>
             PROVE  FALSE
  OBVIOUS
<1>1. PICK d \in Client : pc[d] = "fclose"
  BY DEF Inv, OperationsNotMixed
<1>2. fileMutex = c /\ fileMutex = d
  BY <1>1 DEF Inv, Exclusive, Critical
<1> QED BY <1>1, <1>2

\* A write of the handler at c, to go on at place.
StoreStep(c, piece, place) ==
  /\ process = "running" /\ pc[c] \in {"file", "fclose"} /\ ~ IsCommand(Held(c))
  /\ Device!Write(c, piece)
  /\ pc' = [pc EXCEPT ![c] = place]
  /\ Grows
  /\ UNCHANGED <<process, bufferString, fileMutex, reply, todo, wire>>

\* The second write, or the only one, publishes the line and leaves nothing.
LEMMA LastPiece ==
  ASSUME Inv, NEW c \in Client, NEW piece \in Seq(Byte), StoreStep(c, piece, "read"),
         cut \/ (Contains(piece, Newline) /\ partial \o piece = Held(c))
  PROVE  Inv'
<1>1. /\ pos[c] \in Nat /\ reply[c] \in Seq(Byte) /\ pc \in [Client -> Place]
      /\ pos[c] = 0 /\ reply[c] = <<>>
  BY Unmoved DEF StoreStep, Inv, Replying, Types
<1>2. /\ lines' \in Seq(Seq(Byte)) /\ partial' \in Seq(Byte) /\ pos' = pos
      /\ Contains(piece, Newline) =>
           partial' = <<>> /\ lines' # <<>> /\ lines'[Len(lines')] = partial \o piece
  BY WriteFacts DEF StoreStep
<1>3. /\ pc' \in [Client -> Place] /\ pc'[c] = "read" /\ \A d \in Client \ {c} : pc'[d] = pc[d]
  BY <1>1 DEF StoreStep, Place
<1>4. Types'
  BY <1>2, <1>3 DEF StoreStep, Inv, Types
<1>5. OthersSame(c) /\ DeviceMine(c) /\ MutexStep(c) /\ Grows
  BY <1>2, <1>3 DEF StoreStep, OthersSame, DeviceMine, MutexStep, Critical
<1>6. PartialStep(c)
  BY <1>2 DEF PartialStep, StoreStep, Grows
<1>7. Held(c)' = Held(c) /\ ~ IsCommand(Held(c)')
  BY DEF Held, StoreStep
<1>8. Stream' \in Seq(Byte) /\ Len(Stream') \in Nat
  <2>1. FlattenSeq(lines') \in Seq(Byte)
    BY <1>2, FlattenInSeq
  <2> QED BY <2>1 DEF Stream
<1>9. Sent(c)'
  <2>1. pos'[c] = 0 /\ reply'[c] = <<>> /\ Len(<<>>) = 0 /\ 0 - 0 + 1 = 1
    BY <1>1, <1>2 DEF StoreStep
  <2>2. SubSeq(Stream', 1, 0) = <<>>
    BY SubSeqEmpty
  <2>3. cut' \/ (lines' # <<>> /\ lines'[Len(lines')] = Held(c)')
    BY <1>2, <1>5, <1>7 DEF Grows
  <2>4. /\ Len(reply'[c]) <= pos'[c] /\ pos'[c] <= Len(Stream') /\ Len(reply'[c]) = pos'[c]
        /\ reply'[c] = SubSeq(Stream', pos'[c] - Len(reply'[c]) + 1, pos'[c])
    BY <1>8, <2>1, <2>2
  <2> QED BY <1>7, <2>3, <2>4 DEF Sent
<1>10. HoldsLine(c)' /\ Replying(c)'
  BY <1>3, <1>9 DEF HoldsLine, Replying
<1> QED BY <1>4, <1>5, <1>6, <1>10, StepKeeps DEF StoreStep

\* fwrite: whole blocks at once.
LEMMA FwriteKeeps ==
  ASSUME Inv, NEW c \in Client, Fwrite(c)
  PROVE  Inv'
<1> DEFINE held == Held(c)
           blocks == WholeBlocks(held)
           piece == FirstPiece(c)
           more == blocks < Len(held)
<1>1. Temporary(bufferString[c]) /\ held \in Seq(Byte)
  BY HeldBytes DEF Inv, Types
<1>2. blocks \in 0 .. Len(held)
  BY <1>1, BlocksFit
<1>3. piece = SubSeq(held, 1, blocks)
  BY DEF FirstPiece
<1>4. /\ process = "running" /\ pc[c] = "file" /\ ~ IsCommand(held)
      /\ Device!Write(c, piece)
      /\ pc' = [pc EXCEPT ![c] = IF more THEN "fclose" ELSE "read"]
      /\ UNCHANGED <<process, bufferString, fileMutex, reply, todo, wire, refused>>
      /\ cut' = (cut \/ (more /\ Contains(piece, Newline)))
  BY <1>3 DEF Fwrite, AtFwrite, At, StorePiece, Goto, IsCommand
<1> HIDE DEF held, blocks, piece
<1>5. piece \in Seq(Byte) /\ (blocks = Len(held) => piece = held)
  <2>1. Pieces(held, blocks, piece, SubSeq(held, blocks + 1, Len(held)))
    BY <1>2, <1>3 DEF Pieces
  <2> QED BY <1>1, <2>1, TwoPieces
<1>6. Grows
  BY <1>4 DEF Grows
<1>7. Contains(held, Newline)
  BY <1>4 DEF Inv, HoldsLine, held
<1>8. cut \/ partial = <<>>
  BY <1>4, AloneInDevice
<1>9. partial = <<>> => partial \o piece = piece
  BY <1>5, ConcatEmptySeq
<1>10. CASE ~ more
  <2>1. blocks = Len(held)
    BY <1>1, <1>2, <1>10
  <2>2. StoreStep(c, piece, "read")
    BY <1>4, <1>6, <1>10 DEF StoreStep, held
  <2> QED BY <1>5, <1>7, <1>8, <1>9, <2>1, <2>2, LastPiece DEF held
<1>11. CASE more
  <2>1. /\ lines' \in Seq(Seq(Byte)) /\ partial' \in Seq(Byte) /\ pos' = pos
        /\ ~ Contains(piece, Newline) => partial' = partial \o piece
    BY <1>4, <1>5, WriteFacts
  <2>2. pc \in [Client -> Place] /\ pos[c] = 0 /\ reply[c] = <<>>
    BY <1>4 DEF Inv, Types, Replying
  <2>3. pc' \in [Client -> Place] /\ pc'[c] = "fclose" /\ \A d \in Client \ {c} : pc'[d] = pc[d]
    BY <1>4, <1>11, <2>2 DEF Place
  <2>4. Types'
    BY <1>4, <2>1, <2>3 DEF Inv, Types
  <2>5. OthersSame(c) /\ DeviceMine(c) /\ MutexStep(c) /\ PartialStep(c)
    BY <1>4, <2>1, <2>3 DEF OthersSame, DeviceMine, MutexStep, PartialStep, Critical
  <2>6. Held(c)' = held /\ FirstPiece(c)' = piece
    BY <1>4 DEF Held, held, piece, FirstPiece, WholeBlocks
  <2>7. cut' \/ (partial' = piece /\ ~ Contains(piece, Newline))
    BY <1>4, <1>8, <1>9, <1>11, <2>1
  <2>8. HoldsLine(c)'
    BY <1>4, <1>7, <2>3, <2>6, <2>7 DEF HoldsLine, Contains, IsCommand, checkForCommandInString
  <2>9. Replying(c)'
    BY <1>4, <2>1, <2>2, <2>3 DEF Replying
  <2> QED BY <1>4, <1>6, <2>4, <2>5, <2>8, <2>9, StepKeeps
<1> QED BY <1>10, <1>11

\* What is left for fclose.
SecondPiece(c) == SubSeq(Held(c), WholeBlocks(Held(c)) + 1, Len(Held(c)))

\* It has the newline, and completes the line that the device has so far.
LEMMA FcloseWrites ==
  ASSUME Inv, NEW c \in Client, Fclose(c)
  PROVE  /\ SecondPiece(c) \in Seq(Byte)
         /\ StoreStep(c, SecondPiece(c), "read")
         /\ cut \/ (Contains(SecondPiece(c), Newline) /\ partial \o SecondPiece(c) = Held(c))
<1> DEFINE held == Held(c)
           blocks == WholeBlocks(held)
           first == FirstPiece(c)
           piece == SecondPiece(c)
<1>1. Temporary(bufferString[c]) /\ held \in Seq(Byte)
  BY HeldBytes DEF Inv, Types
<1>2. blocks \in 0 .. Len(held)
  BY <1>1, BlocksFit
<1>3. first = SubSeq(held, 1, blocks) /\ piece = SubSeq(held, blocks + 1, Len(held))
  BY DEF FirstPiece, SecondPiece
<1>4. /\ process = "running"
      /\ pc[c] = "fclose" \/ (pc[c] = "file" /\ ~ IsCommand(held) /\ blocks = 0)
      /\ Device!Write(c, piece)
      /\ pc' = [pc EXCEPT ![c] = "read"]
      /\ UNCHANGED <<process, bufferString, fileMutex, reply, todo, wire, refused, cut>>
  BY DEF Fclose, AtFclose, At, StorePiece, Goto, IsCommand, SecondPiece
<1>5. HoldsLine(c) /\ Contains(held, Newline)
  BY <1>4 DEF Inv, HoldsLine
<1>6. ~ IsCommand(held)
  BY <1>4, <1>5 DEF HoldsLine
<1> HIDE DEF held, blocks, first, piece
<1>7. /\ piece \in Seq(Byte) /\ first \o piece = held
      /\ Contains(first, Newline) \/ Contains(piece, Newline)
      /\ blocks = 0 => piece = held
  <2>1. Pieces(held, blocks, first, piece)
    BY <1>2, <1>3 DEF Pieces
  <2> QED BY <1>1, <1>5, <2>1, TwoPieces
<1>8. StoreStep(c, piece, "read")
  BY <1>4, <1>6 DEF StoreStep, Grows, held
<1>9. cut \/ (Contains(piece, Newline) /\ partial \o piece = held)
  <2>1. CASE pc[c] = "fclose"
    BY <1>5, <1>7, <2>1 DEF HoldsLine, first
  <2>2. CASE pc[c] = "file"
    <3>1. cut \/ partial = <<>>
      BY <1>4, <2>2, AloneInDevice
    <3>2. piece = held
      BY <1>4, <1>7, <2>2
    <3> QED BY <1>1, <1>5, <3>1, <3>2, ConcatEmptySeq
  <2> QED BY <1>4, <2>1, <2>2
<1> QED BY <1>7, <1>8, <1>9 DEF held, piece

\* fclose: the rest.
LEMMA FcloseKeeps ==
  ASSUME Inv, NEW c \in Client, Fclose(c)
  PROVE  Inv'
BY FcloseWrites, LastPiece

\* A refused write changes nothing but the histories; the reply follows.
LEMMA RefusedKeeps ==
  ASSUME Inv, NEW c \in Client, StoreRefused(c)
  PROVE  Inv'
<1>1. /\ pos = [pos EXCEPT ![c] = pos[c]] /\ pos[c] \in Nat
      /\ reply = [reply EXCEPT ![c] = reply[c]] /\ reply[c] \in Seq(Byte)
  BY Unmoved
<1>2. /\ process = "running" /\ process' = process
      /\ pc[c] = "fclose" \/ (pc[c] = "file" /\ ~ IsCommand(Held(c)))
      /\ pc' = [pc EXCEPT ![c] = "read"]
      /\ refused' = refused \cup {c}
      /\ cut' = (cut \/ pc[c] = "fclose")
      /\ UNCHANGED <<lines, partial, pos, bufferString, fileMutex, reply, todo, wire>>
  BY DEF StoreRefused, AtFwrite, AtFclose, At, Goto, IsCommand, Device!Refuse
<1>3. MoveStep(c, "read") /\ pos' = [pos EXCEPT ![c] = pos[c]] /\ reply' = [reply EXCEPT ![c] = reply[c]]
  BY <1>1, <1>2 DEF MoveStep
<1>4. /\ Types' /\ OthersSame(c) /\ DeviceMine(c)
      /\ pc'[c] = "read" /\ pos'[c] = pos[c] /\ reply'[c] = reply[c]
      /\ Held(c)' = Held(c) /\ Stream' = Stream
  BY <1>1, <1>2, <1>3, MoveTypes DEF Place
<1>5. Grows /\ MutexStep(c) /\ PartialStep(c)
  BY <1>2, <1>4 DEF Grows, MutexStep, PartialStep, Critical
<1>6. /\ pos[c] = 0 /\ reply[c] = <<>> /\ ~ IsCommand(Held(c))
  BY <1>2 DEF Inv, HoldsLine, Replying
<1>7. Stream \in Seq(Byte) /\ Len(Stream) \in Nat
  BY StreamBytes
<1>8. Sent(c)'
  <2>1. pos'[c] = 0 /\ reply'[c] = <<>> /\ Len(<<>>) = 0 /\ 0 - 0 + 1 = 1
    BY <1>4, <1>6
  <2>2. SubSeq(Stream, 1, 0) = <<>>
    BY SubSeqEmpty
  <2>3. c \in refused' /\ ~ IsCommand(Held(c)')
    BY <1>2, <1>4, <1>6
  <2>4. /\ Len(reply'[c]) <= pos'[c] /\ pos'[c] <= Len(Stream') /\ Len(reply'[c]) = pos'[c]
        /\ reply'[c] = SubSeq(Stream', pos'[c] - Len(reply'[c]) + 1, pos'[c])
    BY <1>4, <1>7, <2>1, <2>2
  <2> QED BY <2>3, <2>4 DEF Sent
<1>9. HoldsLine(c)' /\ Replying(c)'
  BY <1>4, <1>8 DEF HoldsLine, Replying
<1> QED BY <1>2, <1>4, <1>5, <1>9, StepKeeps

\* The reply grows by the bytes at the position, which moves past them.
LEMMA ReadKeeps ==
  ASSUME Inv, NEW c \in Client, ReadAndSend(c)
  PROVE  Inv'
<1>1. Device!Stream = Stream /\ Stream \in Seq(Byte) /\ Len(Stream) \in Nat
  BY StreamBytes
<1>2. /\ process = "running" /\ process' = process /\ pc[c] = "read"
      /\ UNCHANGED <<pc, bufferString, fileMutex, todo, wire, refused, cut>>
  BY DEF ReadAndSend, At
<1>3. PICK n \in 1 .. Len(Stream) - pos[c] :
        /\ Call("read", c, "OK", n, SubSeq(Stream, pos[c] + 1, pos[c] + n))
        /\ Device!Read(c, n)
        /\ reply' = [reply EXCEPT ![c] = @ \o SubSeq(Stream, pos[c] + 1, pos[c] + n)]
  BY <1>1 DEF ReadAndSend
<1> DEFINE data == SubSeq(Stream, pos[c] + 1, pos[c] + n)
           r == reply[c]
           p == pos[c]
<1>4. /\ pos' = [pos EXCEPT ![c] = p + n] /\ lines' = lines /\ partial' = partial
  BY <1>3 DEF Call, Device!Read, Device!Done
<1>5. /\ p \in Nat /\ r \in Seq(Byte) /\ Len(r) \in Nat /\ pc = [pc EXCEPT ![c] = "read"]
  BY <1>2, Unmoved
<1>6. Sent(c)
  BY <1>2 DEF Inv, Replying
<1>7. Len(r) <= p /\ p <= Len(Stream) /\ r = SubSeq(Stream, p - Len(r) + 1, p)
  BY <1>6 DEF Sent
<1>8. n \in Nat /\ n > 0 /\ p + n <= Len(Stream) /\ Len(r) \in 0 .. p /\ p + n \in Nat
  BY <1>1, <1>5, <1>7
<1>9. data = SubSeq(Stream, p + 1, p + n)
  OBVIOUS
<1> HIDE DEF data, r, p
<1>10. /\ r \o data = SubSeq(Stream, (p + n) - (Len(r) + n) + 1, p + n)
       /\ Len(data) = n /\ data \in Seq(Byte)
  <2>1. PICK t : t = Stream
    OBVIOUS
  <2>2. PICK m : m = Len(r)
    OBVIOUS
  <2>3. /\ t \in Seq(Byte) /\ Len(t) \in Nat /\ m \in Nat /\ m <= p /\ p + n <= Len(t)
        /\ r = SubSeq(t, p - m + 1, p) /\ data = SubSeq(t, p + 1, p + n)
    BY <1>1, <1>5, <1>7, <1>8, <1>9, <2>1, <2>2
  <2>4. /\ p - m + 1 \in 1 .. Len(t) + 1 /\ p \in (p - m + 1) - 1 .. Len(t)
        /\ p + n \in p .. Len(t)
        /\ p + 1 \in 1 .. Len(t) + 1 /\ p + n \in (p + 1) - 1 .. Len(t)
    BY <1>5, <1>8, <2>3
  <2>5. (p + n) - (m + n) + 1 = p - m + 1 /\ (p + n) - (p + 1) + 1 = n
    BY <1>5, <1>8, <2>3
  <2>6. r \o data = SubSeq(t, p - m + 1, p + n)
    BY <2>3, <2>4, ConcatAdjacentSubSeq
  <2>7. Len(data) = (p + n) - (p + 1) + 1 /\ data \in Seq(Byte)
    BY <2>3, <2>4, SubSeqAt
  <2> QED BY <2>1, <2>2, <2>5, <2>6, <2>7
<1>11. /\ r \o data \in Seq(Byte) /\ Len(r \o data) = Len(r) + n
  BY <1>5, <1>10, ConcatProperties
<1>12. reply' = [reply EXCEPT ![c] = r \o data] /\ MoveStep(c, "read")
  BY <1>2, <1>3, <1>4, <1>5 DEF MoveStep, r, data
<1>13. /\ Types' /\ OthersSame(c) /\ DeviceMine(c)
       /\ pc'[c] = "read" /\ pos'[c] = p + n /\ reply'[c] = r \o data
       /\ Held(c)' = Held(c) /\ Stream' = Stream
  BY <1>2, <1>4, <1>8, <1>11, <1>12, MoveTypes DEF Place
<1>14. Grows /\ MutexStep(c) /\ PartialStep(c)
  BY <1>2, <1>4, <1>13 DEF Grows, MutexStep, PartialStep, Critical
<1>15. Sent(c)'
  <2>1. Len(r \o data) <= p + n /\ p + n <= Len(Stream)
    BY <1>1, <1>5, <1>7, <1>8, <1>11
  <2>2. r \o data # <<>>
    BY <1>5, <1>8, <1>11
  <2>3. ~ IsCommand(Held(c)) =>
          /\ Len(r) = p
          /\ cut \/ c \in refused \/ (lines # <<>> /\ lines[Len(lines)] = Held(c))
    BY <1>6 DEF Sent, r, p
  <2>4. r \o data = SubSeq(Stream, (p + n) - Len(r \o data) + 1, p + n)
    BY <1>10, <1>11
  <2>5. Len(r) = p => Len(r \o data) = p + n
    BY <1>11
  <2>6. IsCommand(Held(c))' = IsCommand(Held(c))
    BY <1>13 DEF IsCommand, checkForCommandInString
  <2> QED BY <1>2, <1>4, <1>13, <2>1, <2>2, <2>3, <2>4, <2>5, <2>6 DEF Sent
<1>16. HoldsLine(c)' /\ Replying(c)'
  BY <1>13, <1>15 DEF HoldsLine, Replying
<1> QED BY <1>2, <1>13, <1>14, <1>16, StepKeeps

\* The end of the reply, the end of the program, and the end of the request.
LEMMA EndKeeps ==
  ASSUME Inv, NEW c \in Client, ReadEnds(c) \/ SendRaisesSigpipe(c) \/ Finish(c)
  PROVE  Inv'
<1>1. /\ pos = [pos EXCEPT ![c] = pos[c]] /\ pos[c] \in Nat
      /\ reply = [reply EXCEPT ![c] = reply[c]] /\ reply[c] \in Seq(Byte)
      /\ pc = [pc EXCEPT ![c] = pc[c]]
  BY Unmoved
<1>2. Device!Stream = Stream /\ Stream \in Seq(Byte) /\ Len(Stream) \in Nat
  BY StreamBytes
<1>3. HoldsLine(c) /\ Replying(c)
  BY DEF Inv
<1>4. CASE ReadEnds(c)
  <2>1. /\ process = "running" /\ process' = process /\ pc[c] = "read"
        /\ pc' = [pc EXCEPT ![c] = "close"]
        /\ UNCHANGED <<bufferString, fileMutex, reply, todo, wire, refused, cut>>
    BY <1>4 DEF ReadEnds, At, Goto
  <2>2. /\ pos' = [pos EXCEPT ![c] = @ + 0] /\ lines' = lines /\ partial' = partial
        /\ pos[c] >= Len(Stream)
    <3>1. Device!Read(c, 1) /\ last'.val = 0
      BY <1>4 DEF ReadEnds, Call
    <3>2. PICK n \in 0 .. 1 :
            /\ last'.val = n
            /\ n = 0 <=> (1 = 0 \/ pos[c] >= Len(Stream))
            /\ pos' = [pos EXCEPT ![c] = @ + n]
            /\ lines' = lines /\ partial' = partial
      BY <1>2, <3>1 DEF Device!Read, Device!Done
    <3>3. n = 0 /\ 1 # 0
      BY <3>1, <3>2
    <3> QED BY <3>2, <3>3, Zenon
  <2>3. Sent(c) /\ pos[c] = Len(Stream)
    <3>1. Sent(c)
      BY <1>3, <2>1 DEF Replying
    <3>2. pos[c] <= Len(Stream)
      BY <3>1 DEF Sent
    <3> QED BY <1>1, <1>2, <2>2, <3>1, <3>2
  <2>4. /\ MoveStep(c, "close") /\ pos' = [pos EXCEPT ![c] = pos[c]]
        /\ reply' = [reply EXCEPT ![c] = reply[c]]
    <3>1. pos[c] + 0 = pos[c]
      BY <1>1
    <3> QED BY <1>1, <2>1, <2>2, <3>1 DEF MoveStep
  <2>5. /\ Types' /\ OthersSame(c) /\ DeviceMine(c)
        /\ pc'[c] = "close" /\ pos'[c] = pos[c] /\ reply'[c] = reply[c]
        /\ Held(c)' = Held(c) /\ Stream' = Stream
    BY <1>1, <2>1, <2>4, MoveTypes DEF Place
  <2>6. Grows /\ MutexStep(c) /\ PartialStep(c)
    BY <2>1, <2>2, <2>5 DEF Grows, MutexStep, PartialStep, Critical
  <2>7. Sent(c)'
    BY <2>1, <2>2, <2>3, <2>5 DEF Sent, IsCommand, checkForCommandInString
  <2>8. HoldsLine(c)' /\ Replying(c)'
    BY <2>3, <2>5, <2>7 DEF HoldsLine, Replying
  <2> QED BY <2>1, <2>5, <2>6, <2>8, StepKeeps
<1>5. CASE SendRaisesSigpipe(c)
  <2>1. /\ process = "running" /\ process' = "crashed" /\ pc[c] = "read"
        /\ UNCHANGED <<lines, partial, pos, pc, bufferString, fileMutex, reply, todo, wire, refused, cut>>
    BY <1>5 DEF SendRaisesSigpipe, At, device
  <2>2. /\ MoveStep(c, "read") /\ pos' = [pos EXCEPT ![c] = pos[c]]
        /\ reply' = [reply EXCEPT ![c] = reply[c]]
    BY <1>1, <2>1 DEF MoveStep
  <2>3. /\ Types' /\ OthersSame(c) /\ DeviceMine(c)
        /\ pc'[c] = "read" /\ pos'[c] = pos[c] /\ reply'[c] = reply[c]
        /\ Held(c)' = Held(c) /\ Stream' = Stream
    BY <1>1, <2>1, <2>2, MoveTypes DEF Place
  <2>4. Grows /\ MutexStep(c) /\ PartialStep(c)
    BY <2>1, <2>3 DEF Grows, MutexStep, PartialStep, Critical
  <2>5. Sent(c)'
    BY <1>3, <2>1, <2>3 DEF Replying, Sent, IsCommand, checkForCommandInString
  <2>6. HoldsLine(c)' /\ Replying(c)'
    BY <2>3, <2>5 DEF HoldsLine, Replying
  <2> QED BY <2>1, <2>3, <2>4, <2>6, StepKeeps
<1>6. CASE Finish(c)
  <2>1. /\ process = "running" /\ process' = process /\ pc[c] = "close"
        /\ pc' = [pc EXCEPT ![c] = "poll"] /\ pos' = [pos EXCEPT ![c] = 0]
        /\ reply' = [reply EXCEPT ![c] = <<>>] /\ fileMutex' = Nobody
        /\ bufferString' = [bufferString EXCEPT ![c] = CleanBuffer(@)]
        /\ UNCHANGED <<lines, partial, todo, wire, refused, cut>>
    BY <1>6 DEF Finish, At, Goto, Device!OpenOrClose
  <2>2. MoveStep(c, "poll") /\ <<>> \in Seq(Byte)
    BY <2>1 DEF MoveStep
  <2>3. /\ Types' /\ OthersSame(c) /\ DeviceMine(c)
        /\ pc'[c] = "poll" /\ pos'[c] = 0 /\ reply'[c] = <<>>
    BY <2>1, <2>2, MoveTypes DEF Place
  <2>4. Grows /\ MutexStep(c) /\ PartialStep(c)
    BY <2>1, <2>3 DEF Grows, MutexStep, PartialStep, Critical
  <2>5. HoldsLine(c)' /\ Replying(c)'
    BY <2>3 DEF HoldsLine, Replying
  <2> QED BY <2>1, <2>3, <2>4, <2>5, StepKeeps
<1> QED BY <1>4, <1>5, <1>6

-----------------------------------------------------------------------------

\* The clients have sent nothing and nobody has asked for the mutex.
LEMMA ServerInit == Init => Inv
<1> SUFFICES ASSUME Init
             PROVE  Inv
  OBVIOUS
<1>1. /\ lines = <<>> /\ partial = <<>> /\ pos = [c \in Client |-> 0]
      /\ pc = [c \in Client |-> "poll"] /\ reply = [c \in Client |-> <<>>]
      /\ bufferString = [c \in Client |-> aesd_temperary_buffer_init]
      /\ todo = Script /\ wire = [c \in Client |-> <<>>]
  BY DEF Init, Device!Init
<1>2. Temporary(aesd_temperary_buffer_init) /\ aesd_temperary_buffer_init \in aesd_temperary_buffer
  BY DEF Temporary, aesd_temperary_buffer_init, aesd_temperary_buffer
<1>3. Types
  BY <1>1, <1>2, ScriptAssumption DEF Types, Place
<1>4. Exclusive /\ OperationsNotMixed
  BY <1>1 DEF Exclusive, Critical, OperationsNotMixed
<1>5. \A c \in Client : HoldsLine(c) /\ Replying(c)
  BY <1>1 DEF HoldsLine, Replying
<1> QED BY <1>3, <1>4, <1>5 DEF Inv

\* Every step keeps the invariant.
LEMMA ServerNext ==
  ASSUME Inv, [Next]_vars
  PROVE  Inv'
<1>1. CASE UNCHANGED vars
  <2>1. UNCHANGED <<lines, partial, pos, process, pc, bufferString, fileMutex, reply, todo, wire,
                    refused, cut>>
    BY <1>1 DEF vars, device
  <2>2. Types' /\ Exclusive' /\ OperationsNotMixed'
    BY <2>1 DEF Inv, Types, Exclusive, OperationsNotMixed
  <2>3. ASSUME NEW c \in Client PROVE HoldsLine(c)' /\ Replying(c)'
    <3>1. Held(c)' = Held(c) /\ Stream' = Stream /\ FirstPiece(c)' = FirstPiece(c)
      BY <2>1 DEF Held, Stream, FirstPiece, WholeBlocks
    <3>2. HoldsLine(c) /\ Replying(c)
      BY DEF Inv
    <3>3. Sent(c)' <=> Sent(c)
      BY <2>1, <3>1 DEF Sent, IsCommand, checkForCommandInString
    <3> QED BY <2>1, <3>1, <3>2, <3>3 DEF HoldsLine, Replying, Contains, IsCommand,
              checkForCommandInString
  <2> QED BY <2>2, <2>3 DEF Inv
<1>2. ASSUME NEW c \in Client, HandlerStep(c) \/ Send(c) \/ Hangup(c)
      PROVE  Inv'
  BY <1>2, ClientKeeps, RecvKeeps, EofAndLockKeep, SeekKeeps, FwriteKeeps, FcloseKeeps,
     RefusedKeeps, ReadKeeps, EndKeeps DEF HandlerStep
<1> QED BY <1>1, <1>2 DEF Next

\* The invariant holds in every state of every run of the server.
LEMMA ServerInvariant == Spec => []Inv
<1>1. Inv /\ [Next]_vars => Inv'
  BY ServerNext
<1> QED BY <1>1, ServerInit, PTL DEF Spec

\* For any number of clients and any messages, in whatever pieces they arrive
\* and are written and whoever hangs up: outside a request that is between its
\* two writes the server leaves nothing in the device's one temporary buffer,
\* unless a long write was cut, so two clients' bytes are not joined.
THEOREM NothingLeftInDevice == Spec => []OperationsNotMixed
<1>1. Inv => OperationsNotMixed
  BY DEF Inv
<1> QED BY <1>1, ServerInvariant, PTL

\* For any number of clients: a finished reply is one state of the device, the
\* end of its stream, and for a client that did not seek all of it, with the
\* client's own operation last.
THEOREM RepliesAreSnapshots == Spec => []ReplyIsSnapshot
<1>1. Inv => ReplyIsSnapshot
  <2> SUFFICES ASSUME Inv, NEW c \in Client, pc[c] = "close"
               PROVE  /\ IsSuffix(reply[c], Device!Stream)
                      /\ IF IsCommand(Held(c)) THEN reply[c] # <<>>
                         ELSE /\ reply[c] = Device!Stream
                              /\ cut \/ c \in refused \/ lines[Len(lines)] = Held(c)
    BY DEF ReplyIsSnapshot
  <2>1. Device!Stream = Stream /\ Stream \in Seq(Byte) /\ Len(Stream) \in Nat
    BY StreamBytes
  <2>2. Sent(c) /\ pos[c] = Len(Stream)
    BY DEF Inv, Replying
  <2> DEFINE n == Len(reply[c])
  <2>3. n <= Len(Stream) /\ reply[c] = SubSeq(Stream, Len(Stream) - n + 1, Len(Stream))
    BY <2>2 DEF Sent
  <2>4. reply[c] \in Seq(Byte)
    BY DEF Inv, Types
  <2>5. n \in 0 .. Len(Stream)
    BY <2>1, <2>3, <2>4
  <2>6. IsSuffix(reply[c], Stream)
    <3> HIDE DEF n
    <3> QED BY <2>1, <2>3, <2>5, EndIsSuffix
  <2>7. CASE IsCommand(Held(c))
    BY <2>1, <2>2, <2>6, <2>7 DEF Sent
  <2>8. CASE ~ IsCommand(Held(c))
    <3>1. n = Len(Stream)
      BY <2>2, <2>8 DEF Sent
    <3>2. Len(Stream) - n + 1 = 1
      BY <2>1, <3>1
    <3>3. reply[c] = Stream
      BY <2>1, <2>3, <3>2, SubSeqFull
    <3> QED BY <2>1, <2>2, <2>6, <2>8, <3>3 DEF Sent
  <2> QED BY <2>7, <2>8
<1> QED BY <1>1, ServerInvariant, PTL

-----------------------------------------------------------------------------
(* What became of a client's bytes: sequences of messages.                 *)

\* A sequence begins with what something was added to.
LEMMA PrefixOfConcat ==
  ASSUME NEW S, NEW s \in Seq(S), NEW t \in Seq(S)
  PROVE  IsPrefix(s, s \o t)
<1>1. s \o t \in Seq(S) /\ Len(s \o t) = Len(s) + Len(t) /\ Len(s) \in Nat /\ Len(t) \in Nat
  BY ConcatProperties
<1>2. CASE Len(s) = 0
  BY <1>1, <1>2, SubSeqEmpty DEF IsPrefix
<1>3. CASE Len(s) # 0
  <2>1. 1 \in 1 .. Len(s) /\ Len(s) \in 1 .. Len(s)
    BY <1>1, <1>3
  <2>2. SubSeq(s \o t, 1, Len(s)) = SubSeq(s, 1, Len(s))
    BY <2>1, SubSeqOfConcat1
  <2> QED BY <1>1, <2>2 DEF IsPrefix
<1> QED BY <1>2, <1>3

\* Three in a row begin with the first.
LEMMA PrefixOfThree ==
  ASSUME NEW S, NEW p \in Seq(S), NEW q \in Seq(S), NEW r \in Seq(S)
  PROVE  IsPrefix(p, (p \o q) \o r)
<1>1. \A a, b, d \in Seq(S) : (a \o b) \o d = a \o (b \o d)
  BY Associative, SMTT(30)
<1>2. (p \o q) \o r = p \o (q \o r)
  BY <1>1
<1>3. q \o r \in Seq(S)
  BY ConcatProperties
<1>4. IsPrefix(p, p \o (q \o r))
  BY <1>3, PrefixOfConcat
<1> QED BY <1>2, <1>4

\* A sequence is its first element and the rest.
LEMMA NextMessage ==
  ASSUME NEW S, NEW t \in Seq(S), t # <<>>
  PROVE  Head(t) \in S /\ Tail(t) \in Seq(S) /\ t = <<Head(t)>> \o Tail(t)
<1>1. /\ Head(t) \in S /\ Tail(t) \in Seq(S) /\ Len(Tail(t)) = Len(t) - 1 /\ Len(t) \in Nat
      /\ \A i \in 1 .. Len(Tail(t)) : Tail(t)[i] = t[i + 1]
  BY HeadTailProperties
<1>2. <<Head(t)>> \in Seq(S) /\ Len(<<Head(t)>>) = 1 /\ <<Head(t)>>[1] = t[1]
  BY <1>1
<1> DEFINE h == <<Head(t)>>
           r == Tail(t)
<1> HIDE DEF h, r
<1>3. /\ h \o r \in Seq(S) /\ Len(h \o r) = Len(h) + Len(r)
      /\ \A i \in 1 .. Len(h) + Len(r) : (h \o r)[i] = IF i <= Len(h) THEN h[i] ELSE r[i - Len(h)]
  BY <1>1, <1>2, ConcatProperties DEF h, r
<1>4. Len(h) = 1 /\ Len(r) = Len(t) - 1 /\ h[1] = t[1]
      /\ \A i \in 1 .. Len(t) - 1 : r[i] = t[i + 1]
  BY <1>1, <1>2 DEF h, r
<1>5. ASSUME NEW i \in 1 .. Len(t) PROVE (h \o r)[i] = t[i]
  <2>1. CASE i = 1
    BY <1>1, <1>3, <1>4, <2>1
  <2>2. CASE i # 1
    <3>1. i - 1 \in 1 .. Len(t) - 1 /\ ~ (i <= 1) /\ (i - 1) + 1 = i
      BY <1>1, <2>2
    <3>2. i \in 1 .. Len(h) + Len(r)
      BY <1>1, <1>4
    <3>3. (h \o r)[i] = r[i - 1]
      BY <1>3, <1>4, <3>1, <3>2
    <3> QED BY <1>4, <3>1, <3>3
  <2> QED BY <2>1, <2>2
<1>6. Len(h \o r) = Len(t)
  BY <1>1, <1>3, <1>4
<1>7. h \o r = t
  BY <1>3, <1>5, <1>6, SeqEqual
<1> QED BY <1>1, <1>7 DEF h, r

\* The messages one by one, without the commands.
Singles(messages) ==
  [i \in 1 .. Len(messages) |-> IF IsCommand(messages[i]) THEN <<>> ELSE <<messages[i]>>]

\* Each is an operation or none.
LEMMA SinglesType ==
  ASSUME NEW a \in Seq(Seq(Byte))
  PROVE  /\ Singles(a) \in Seq(Seq(Seq(Byte))) /\ Len(Singles(a)) = Len(a)
         /\ Operations(a) = FlattenSeq(Singles(a)) /\ Operations(a) \in Seq(Seq(Byte))
<1> DEFINE B == Seq(Byte)
<1>1. Len(a) \in Nat /\ \A i \in 1 .. Len(a) : a[i] \in B
  BY ElementOfSeq
<1>2. \A i \in 1 .. Len(a) : (IF IsCommand(a[i]) THEN <<>> ELSE <<a[i]>>) \in Seq(B)
  BY <1>1
<1>3. Singles(a) \in Seq(Seq(B)) /\ Len(Singles(a)) = Len(a)
  BY <1>1, <1>2 DEF Singles
<1>4. Operations(a) = FlattenSeq(Singles(a))
  BY DEF Operations, Singles
<1>5. FlattenSeq(Singles(a)) \in Seq(B)
  <2> HIDE DEF B
  <2> QED BY <1>3, FlattenInSeq
<1> QED BY <1>3, <1>4, <1>5

\* The operations of messages sent one after the other.
LEMMA OperationsConcat ==
  ASSUME NEW a \in Seq(Seq(Byte)), NEW b \in Seq(Seq(Byte))
  PROVE  Operations(a \o b) = Operations(a) \o Operations(b)
<1> DEFINE B == Seq(Byte)
           n == Len(a)
           k == Len(b)
<1>1. /\ a \o b \in Seq(B) /\ Len(a \o b) = n + k /\ n \in Nat /\ k \in Nat
      /\ \A i \in 1 .. n + k : (a \o b)[i] = IF i <= n THEN a[i] ELSE b[i - n]
  BY ConcatProperties
<1>2. /\ Singles(a) \in Seq(Seq(B)) /\ Len(Singles(a)) = n
      /\ Singles(b) \in Seq(Seq(B)) /\ Len(Singles(b)) = k
      /\ Singles(a \o b) \in Seq(Seq(B)) /\ Len(Singles(a \o b)) = n + k
  BY <1>1, SinglesType
<1>3. /\ \A i \in 1 .. n : Singles(a)[i] = IF IsCommand(a[i]) THEN <<>> ELSE <<a[i]>>
      /\ \A i \in 1 .. k : Singles(b)[i] = IF IsCommand(b[i]) THEN <<>> ELSE <<b[i]>>
      /\ \A i \in 1 .. n + k :
           Singles(a \o b)[i] = IF IsCommand((a \o b)[i]) THEN <<>> ELSE <<(a \o b)[i]>>
  BY <1>1 DEF Singles
<1> DEFINE j == Singles(a) \o Singles(b)
<1>4. /\ j \in Seq(Seq(B)) /\ Len(j) = n + k
      /\ \A i \in 1 .. n + k : j[i] = IF i <= n THEN Singles(a)[i] ELSE Singles(b)[i - n]
  <2> HIDE DEF B, n, k
  <2> QED BY <1>2, ConcatProperties
<1> HIDE DEF j, n, k, B
<1>5. ASSUME NEW i \in 1 .. n + k PROVE Singles(a \o b)[i] = j[i]
  <2>1. CASE i <= n
    <3>1. i \in 1 .. n
      BY <1>1, <2>1
    <3> QED BY <1>1, <1>3, <1>4, <2>1, <3>1
  <2>2. CASE ~ (i <= n)
    <3>1. i - n \in 1 .. k
      BY <1>1, <2>2
    <3> QED BY <1>1, <1>3, <1>4, <2>2, <3>1
  <2> QED BY <2>1, <2>2
<1>6. Singles(a \o b) = j
  BY <1>2, <1>4, <1>5, SeqEqual
<1>7. FlattenSeq(j) = FlattenSeq(Singles(a)) \o FlattenSeq(Singles(b))
  BY <1>2, FlattenConcat DEF j
<1> QED BY <1>1, <1>6, <1>7, SinglesType DEF B

\* One message is one operation, a command none.
LEMMA OperationsOne ==
  ASSUME NEW m \in Seq(Byte)
  PROVE  Operations(<<m>>) = IF IsCommand(m) THEN <<>> ELSE <<m>>
<1> DEFINE x == IF IsCommand(m) THEN <<>> ELSE <<m>>
<1>1. <<m>> \in Seq(Seq(Byte)) /\ Len(<<m>>) = 1 /\ <<m>>[1] = m /\ x \in Seq(Seq(Byte))
  OBVIOUS
<1>2. Singles(<<m>>) = <<x>>
  <2>1. /\ Singles(<<m>>) \in Seq(Seq(Seq(Byte))) /\ Len(Singles(<<m>>)) = 1
    BY <1>1, SinglesType
  <2>2. Singles(<<m>>)[1] = x
    BY <1>1 DEF Singles
  <2>3. <<x>> \in Seq(Seq(Seq(Byte))) /\ Len(<<x>>) = 1 /\ <<x>>[1] = x
    BY <1>1
  <2>4. \A i \in 1 .. 1 : i = 1
    OBVIOUS
  <2> HIDE DEF x
  <2> QED BY <2>1, <2>2, <2>3, <2>4, SeqEqual
<1>3. FlattenSeq(<<x>>) = x
  <2> HIDE DEF x
  <2> QED BY <1>1, FlattenFew
<1>4. Operations(<<m>>) = FlattenSeq(Singles(<<m>>))
  BY <1>1, SinglesType
<1> QED BY <1>2, <1>3, <1>4

-----------------------------------------------------------------------------
(* What became of a client's bytes: the steps, as the client's text sees   *)
(* them.                                                                   *)

\* The client's text: where its bytes are.
TextSame(c) ==
  /\ pc'[c] = pc[c] /\ Held(c)' = Held(c)
  /\ wire'[c] = wire[c] /\ todo'[c] = todo[c] /\ stored'[c] = stored[c]

Sends(c) ==
  /\ c \in Patient => Answered(c)
  /\ todo[c] # <<>> /\ todo'[c] = Tail(todo[c]) /\ wire'[c] = wire[c] \o Head(todo[c])
  /\ pc'[c] = pc[c] /\ Held(c)' = Held(c) /\ stored'[c] = stored[c]

Receives(c) ==
  /\ pc[c] = "poll" /\ pc'[c] \in {"poll", "lock"}
  /\ wire[c] # <<>>
  /\ \E data \in Seq(Byte) : wire[c] = data \o wire'[c] /\ Held(c)' = Held(c) \o data
  /\ pc'[c] = "lock" => Contains(Held(c)', Newline)
  /\ todo'[c] = todo[c] /\ stored'[c] = stored[c]

Ends(c) ==
  pc[c] = "poll" /\ pc'[c] = "done" /\ todo'[c] = todo[c] /\ stored'[c] = stored[c]

Moves(c) ==
  /\ <<pc[c], pc'[c]>> \in {<<"lock", "file">>, <<"file", "fclose">>, <<"read", "close">>}
  /\ Held(c)' = Held(c)
  /\ wire'[c] = wire[c] /\ todo'[c] = todo[c] /\ stored'[c] = stored[c]

Seeks(c) ==
  /\ pc[c] = "file" /\ IsCommand(Held(c))
  /\ pc'[c] = "read" \/ process' # "running"
  /\ wire'[c] = wire[c] /\ todo'[c] = todo[c] /\ stored'[c] = stored[c]

Stores(c) ==
  /\ pc[c] \in {"file", "fclose"} /\ ~ IsCommand(Held(c)) /\ pc'[c] = "read"
  /\ wire'[c] = wire[c] /\ todo'[c] = todo[c] /\ stored'[c] = Append(stored[c], Held(c))

Finishes(c) ==
  /\ pc[c] = "close" /\ pc'[c] = "poll" /\ Held(c)' = <<>>
  /\ wire'[c] = wire[c] /\ todo'[c] = todo[c] /\ stored'[c] = stored[c]

TextStep(c) ==
  \/ cut' \/ c \in refused'
  \/ TextSame(c) \/ Sends(c) \/ Receives(c) \/ Ends(c) \/ Moves(c)
  \/ Seeks(c) \/ Stores(c) \/ Finishes(c)

TextTypes(c) ==
  /\ Held(c) \in Seq(Byte) /\ wire[c] \in Seq(Byte)
  /\ todo[c] \in Seq(Seq(Byte)) /\ stored[c] \in Seq(Seq(Byte))

\* BytesInOrder for one client.
InOrder(c) ==
  LET written == FlattenSeq(stored[c])
      waiting == IF pc[c] \in {"read", "close"} THEN <<>> ELSE Held(c)
      all == FlattenSeq(Script[c])
  IN  ~ Contains(all, Prefix) =>
        IF pc[c] = "done" THEN IsPrefix(written, all)
        ELSE written \o waiting \o wire[c] \o FlattenSeq(todo[c]) = all

\* An element of the second of three sequences is in their concatenation.
LEMMA ContainsMiddle ==
  ASSUME NEW S, NEW a \in Seq(S), NEW b \in Seq(S), NEW d \in Seq(S), NEW e, Contains(b, e)
  PROVE  Contains((a \o b) \o d, e)
<1>1. PICK i \in 1 .. Len(b) : b[i] = e
  BY DEF Contains
<1> DEFINE ab == a \o b
<1>2. /\ ab \in Seq(S) /\ Len(ab) = Len(a) + Len(b) /\ Len(a) \in Nat /\ Len(b) \in Nat
      /\ \A j \in 1 .. Len(a) + Len(b) : ab[j] = IF j <= Len(a) THEN a[j] ELSE b[j - Len(a)]
  BY ConcatProperties
<1> HIDE DEF ab
<1>3. Len(a) + i \in 1 .. Len(a) + Len(b) /\ ~ (Len(a) + i <= Len(a)) /\ (Len(a) + i) - Len(a) = i
  BY <1>2
<1>4. ab[Len(a) + i] = e
  BY <1>1, <1>2, <1>3
<1>5. PICK g \in Seq(S) : g = ab
  BY <1>2
<1>6. /\ Len(g \o d) = Len(g) + Len(d) /\ Len(d) \in Nat
      /\ \A j \in 1 .. Len(g) + Len(d) : (g \o d)[j] = IF j <= Len(g) THEN g[j] ELSE d[j - Len(g)]
  BY ConcatProperties
<1>7. Len(a) + i \in 1 .. Len(g) + Len(d) /\ Len(a) + i <= Len(g)
  BY <1>2, <1>3, <1>5, <1>6
<1>8. (g \o d)[Len(a) + i] = e /\ Len(a) + i \in 1 .. Len(g \o d)
  BY <1>4, <1>5, <1>6, <1>7
<1> QED BY <1>5, <1>8 DEF Contains, ab

\* The bytes of the messages to come are those of the next one and the others.
LEMMA FlattenNext ==
  ASSUME NEW u \in Seq(Seq(Byte)), u # <<>>
  PROVE  /\ Head(u) \in Seq(Byte) /\ Tail(u) \in Seq(Seq(Byte))
         /\ FlattenSeq(u) = Head(u) \o FlattenSeq(Tail(u))
<1>1. Head(u) \in Seq(Byte) /\ Tail(u) \in Seq(Seq(Byte)) /\ u = <<Head(u)>> \o Tail(u)
  BY NextMessage
<1> DEFINE h == Head(u)
           r == Tail(u)
<1> HIDE DEF h, r
<1>2. h \in Seq(Byte) /\ r \in Seq(Seq(Byte)) /\ u = <<h>> \o r
  BY <1>1 DEF h, r
<1>3. <<h>> \in Seq(Seq(Byte))
  BY <1>2
<1>4. FlattenSeq(<<h>> \o r) = FlattenSeq(<<h>>) \o FlattenSeq(r)
  BY <1>2, <1>3, FlattenConcat
<1>5. FlattenSeq(<<h>>) = h
  BY <1>2, FlattenFew
<1> QED BY <1>1, <1>2, <1>4, <1>5 DEF h, r

\* A step of a handler or its client keeps the client's bytes in order.
LEMMA StepInOrder ==
  ASSUME NEW c \in Client, TextTypes(c), InOrder(c), TextStep(c), ~ cut', c \notin refused',
         wire'[c] \in Seq(Byte), Held(c)' \in Seq(Byte)
  PROVE  InOrder(c)'
<1> DEFINE all == FlattenSeq(Script[c])
           w == FlattenSeq(stored[c])
           x == Held(c)
           y == wire[c]
           z == FlattenSeq(todo[c])
<1>1. /\ w \in Seq(Byte) /\ x \in Seq(Byte) /\ y \in Seq(Byte) /\ z \in Seq(Byte)
      /\ stored[c] \in Seq(Seq(Byte)) /\ todo[c] \in Seq(Seq(Byte)) /\ <<>> \in Seq(Byte)
  BY FlattenInSeq DEF TextTypes
<1>2. /\ \A a, b \in Seq(Byte) : a \o b \in Seq(Byte)
      /\ \A a \in Seq(Byte) : a \o <<>> = a
  <2>1. \A a, b \in Seq(Byte) : a \o b \in Seq(Byte)
    BY ConcatProperties
  <2>2. \A a \in Seq(Byte) : a \o <<>> = a
    BY ConcatEmptySeq
  <2> QED BY <2>1, <2>2
<1> SUFFICES ASSUME ~ Contains(all, Prefix)
             PROVE  IF pc'[c] = "done" THEN IsPrefix(FlattenSeq(stored'[c]), all)
                    ELSE FlattenSeq(stored'[c])
                           \o (IF pc'[c] \in {"read", "close"} THEN <<>> ELSE Held(c)')
                           \o wire'[c] \o FlattenSeq(todo'[c]) = all
  BY DEF InOrder, Contains
<1>3. IF pc[c] = "done" THEN IsPrefix(w, all)
      ELSE w \o (IF pc[c] \in {"read", "close"} THEN <<>> ELSE x) \o y \o z = all
  BY DEF InOrder
<1> HIDE DEF all, w, x, y, z
<1>4. CASE TextSame(c)
  BY <1>3, <1>4 DEF TextSame, w, x, y, z
<1>5. CASE Sends(c)
  <2> DEFINE h == Head(todo[c])
             v == FlattenSeq(Tail(todo[c]))
             q == IF pc[c] \in {"read", "close"} THEN <<>> ELSE x
  <2>1. h \in Seq(Byte) /\ Tail(todo[c]) \in Seq(Seq(Byte)) /\ z = h \o v
    BY <1>1, <1>5, FlattenNext DEF Sends, z
  <2>2. v \in Seq(Byte) /\ q \in Seq(Byte)
    BY <1>1, <2>1, FlattenInSeq
  <2>3. /\ pc'[c] = pc[c] /\ Held(c)' = x /\ FlattenSeq(stored'[c]) = w
        /\ wire'[c] = y \o h /\ FlattenSeq(todo'[c]) = v
    BY <1>5 DEF Sends, w, x, y
  <2> HIDE DEF h, v
  <2>4. ((w \o q) \o (y \o h)) \o v = ((w \o q) \o y) \o (h \o v)
    <3> HIDE DEF q
    <3>1. PICK g \in Seq(Byte) : g = w \o q
      BY <1>1, <1>2, <2>2
    <3>2. Regrouped(g, y, h, v)
      BY <1>1, <2>1, <2>2, Regroup
    <3> QED BY <3>1, <3>2 DEF Regrouped
  <2> QED BY <1>3, <2>1, <2>3, <2>4
<1>6. CASE Receives(c)
  <2>1. PICK data \in Seq(Byte) : y = data \o wire'[c] /\ Held(c)' = x \o data
    BY <1>6 DEF Receives, x, y
  <2>2. /\ pc[c] = "poll" /\ pc'[c] \in {"poll", "lock"}
        /\ FlattenSeq(stored'[c]) = w /\ FlattenSeq(todo'[c]) = z
    BY <1>6 DEF Receives, w, z
  <2>3. Regrouped(w, x, data, wire'[c])
    BY <1>1, Regroup
  <2> QED BY <1>3, <2>1, <2>2, <2>3 DEF Regrouped
<1>7. CASE Ends(c)
  <2>1. pc[c] = "poll" /\ pc'[c] = "done" /\ FlattenSeq(stored'[c]) = w
    BY <1>7 DEF Ends, w
  <2>2. Regrouped(w, x, y, z)
    BY <1>1, Regroup
  <2>3. x \o (y \o z) \in Seq(Byte)
    BY <1>1, <1>2
  <2>4. IsPrefix(w, w \o (x \o (y \o z)))
    BY <1>1, <2>3, PrefixOfConcat
  <2> QED BY <1>3, <2>1, <2>2, <2>4 DEF Regrouped
<1>8. CASE Moves(c)
  BY <1>3, <1>8 DEF Moves, w, x, y, z
<1>9. CASE Seeks(c)
  <2>1. pc[c] = "file" /\ Len(x) >= 2 /\ x[1] = Prefix
    BY <1>9 DEF Seeks, IsCommand, checkForCommandInString, x
  <2>2. Contains(x, Prefix)
    BY <1>1, <2>1 DEF Contains
  <2>3. Regrouped(w, x, y, z)
    BY <1>1, Regroup
  <2>4. y \o z \in Seq(Byte)
    BY <1>1, <1>2
  <2>5. Contains((w \o x) \o (y \o z), Prefix)
    BY <1>1, <2>2, <2>4, ContainsMiddle
  <2> QED BY <1>3, <2>1, <2>3, <2>5 DEF Regrouped
<1>10. CASE Stores(c)
  <2>1. /\ pc[c] \in {"file", "fclose"} /\ pc'[c] = "read"
        /\ wire'[c] = y /\ FlattenSeq(todo'[c]) = z /\ stored'[c] = Append(stored[c], x)
    BY <1>10 DEF Stores, x, y, z
  <2>2. FlattenSeq(stored'[c]) = w \o x
    BY <1>1, <2>1, FlattenAppend DEF w
  <2>3. (w \o x) \o <<>> = w \o x
    BY <1>1, <1>2
  <2> QED BY <1>3, <2>1, <2>2, <2>3
<1>11. CASE Finishes(c)
  BY <1>3, <1>11 DEF Finishes, w, y, z
<1> QED BY <1>4, <1>5, <1>6, <1>7, <1>8, <1>9, <1>10, <1>11 DEF TextStep

\* A patient client's messages are done, being handled, or still to be sent;
\* at most one is being handled, and its bytes are held or on the wire.
Split(c, done, now) ==
  /\ Script[c] = (done \o now) \o todo[c]
  /\ stored[c] = Operations(done)
  /\ process = "running" /\ pc[c] # "done" =>
       \/ /\ now = <<>> /\ wire[c] = <<>>
          /\ pc[c] = "poll" => Held(c) = <<>>
          /\ pc[c] \in {"poll", "read", "close"}
       \/ \E m \in Seq(Byte) :
            /\ now = <<m>> /\ Held(c) \o wire[c] = m
            /\ pc[c] \in {"poll", "lock", "file", "fclose"}
            /\ pc[c] # "poll" => wire[c] = <<>>

Progress(c) == \E done, now \in Seq(Seq(Byte)) : Split(c, done, now)

\* A message is not empty and has its newline at the end only: once bytes with
\* a newline have arrived, nothing of it is left.
LEMMA MessageEnds ==
  ASSUME NEW c \in Client, NEW done \in Seq(Seq(Byte)), NEW m \in Seq(Byte),
         NEW rest \in Seq(Seq(Byte)), Script[c] = (done \o <<m>>) \o rest
  PROVE  /\ m # <<>>
         /\ \A a, b \in Seq(Byte) : a \o b = m /\ Contains(a, Newline) => b = <<>>
<1>1. PICK S : S = Seq(Byte)
  OBVIOUS
<1>2. done \in Seq(S) /\ <<m>> \in Seq(S) /\ rest \in Seq(S) /\ Contains(<<m>>, m)
  BY <1>1 DEF Contains
<1>3. Contains((done \o <<m>>) \o rest, m)
  BY <1>2, ContainsMiddle
<1>4. PICK i \in 1 .. Len(Script[c]) : Script[c][i] = m
  BY <1>3 DEF Contains
<1>5. m # <<>> /\ \A j \in 1 .. Len(m) - 1 : m[j] # Newline
  BY <1>4, ScriptAssumption
<1>6. ASSUME NEW a \in Seq(Byte), NEW b \in Seq(Byte), a \o b = m, Contains(a, Newline)
      PROVE  b = <<>>
  <2>1. PICK j \in 1 .. Len(a) : a[j] = Newline
    BY <1>6 DEF Contains
  <2>2. /\ Len(m) = Len(a) + Len(b) /\ Len(a) \in Nat /\ Len(b) \in Nat
        /\ \A k \in 1 .. Len(a) + Len(b) : m[k] = IF k <= Len(a) THEN a[k] ELSE b[k - Len(a)]
    BY <1>6, ConcatProperties
  <2>3. m[j] = Newline
    BY <2>1, <2>2
  <2>4. j \notin 1 .. Len(m) - 1
    BY <1>5, <2>3
  <2>5. Len(b) = 0
    BY <2>1, <2>2, <2>4
  <2> QED BY <2>5, EmptySeq
<1> QED BY <1>5, <1>6

\* A message that was handled has become the operation it stands for.
LEMMA MessageDone ==
  ASSUME NEW done \in Seq(Seq(Byte)), NEW m \in Seq(Byte)
  PROVE  /\ done \o <<m>> \in Seq(Seq(Byte))
         /\ (done \o <<m>>) \o <<>> = done \o <<m>>
         /\ IsCommand(m) => Operations(done \o <<m>>) = Operations(done)
         /\ ~ IsCommand(m) => Operations(done \o <<m>>) = Append(Operations(done), m)
<1>1. PICK S : S = Seq(Byte)
  OBVIOUS
<1>2. done \in Seq(S) /\ <<m>> \in Seq(S) /\ m \in S
  BY <1>1
<1>3. done \o <<m>> \in Seq(S)
  BY <1>2, ConcatProperties
<1>4. (done \o <<m>>) \o <<>> = done \o <<m>>
  BY <1>3, ConcatEmptySeq
<1>5. /\ Operations(done) \in Seq(S)
      /\ Operations(done \o <<m>>) = Operations(done) \o Operations(<<m>>)
      /\ Operations(<<m>>) = IF IsCommand(m) THEN <<>> ELSE <<m>>
  BY <1>1, <1>2, SinglesType, OperationsConcat, OperationsOne
<1>6. Operations(done) \o <<>> = Operations(done)
  BY <1>5, ConcatEmptySeq
<1>7. Append(Operations(done), m) = Operations(done) \o <<m>>
  BY <1>2, <1>5, AppendIsConcat
<1> QED BY <1>1, <1>3, <1>4, <1>5, <1>6, <1>7

\* A step of a handler or its client takes a patient client's message one
\* stage further, or leaves it where it is.
LEMMA StepProgress ==
  ASSUME NEW c \in Client, c \in Patient, process = "running", TextTypes(c), Progress(c),
         TextStep(c), ~ cut', c \notin refused', wire'[c] \in Seq(Byte), Held(c)' \in Seq(Byte)
  PROVE  Progress(c)'
<1> DEFINE B == Seq(Byte)
<1>1. PICK done \in Seq(B), now \in Seq(B) : Split(c, done, now)
  BY DEF Progress
<1>2. /\ Script[c] = (done \o now) \o todo[c] /\ stored[c] = Operations(done)
      /\ Held(c) \in B /\ wire[c] \in B /\ todo[c] \in Seq(B)
  BY <1>1 DEF Split, TextTypes
<1> DEFINE Idle == /\ now = <<>> /\ wire[c] = <<>>
                   /\ pc[c] = "poll" => Held(c) = <<>>
                   /\ pc[c] \in {"poll", "read", "close"}
           Busy(m) == /\ now = <<m>> /\ Held(c) \o wire[c] = m
                      /\ pc[c] \in {"poll", "lock", "file", "fclose"}
                      /\ pc[c] # "poll" => wire[c] = <<>>
<1>3. pc[c] # "done" => Idle \/ \E m \in B : Busy(m)
  BY <1>1 DEF Split
<1>4. SUFFICES \E d, n \in Seq(B) : Split(c, d, n)'
  BY DEF Progress
<1>5. ASSUME NEW m \in B, Busy(m)
      PROVE  /\ m # <<>>
             /\ \A a, b \in B : a \o b = m /\ Contains(a, Newline) => b = <<>>
  <2>1. Script[c] = (done \o <<m>>) \o todo[c]
    BY <1>2, <1>5
  <2> QED BY <1>2, <2>1, MessageEnds
<1> HIDE DEF B
<1>6. CASE TextSame(c)
  <2>1. Split(c, done, now)'
    BY <1>1, <1>6 DEF TextSame, Split
  <2> QED BY <2>1
<1>7. CASE Sends(c)
  <2>1. wire[c] = <<>> /\ pc[c] = "poll" /\ Held(c) = <<>>
    BY <1>7 DEF Sends, Answered, At
  <2>2. Idle
    <3>1. <<>> \o <<>> = <<>>
      OBVIOUS
    <3> QED BY <1>3, <1>5, <2>1, <3>1
  <2>3. PICK h \in B, r \in Seq(B) : h = Head(todo[c]) /\ r = Tail(todo[c]) /\ todo[c] = <<h>> \o r
    BY <1>2, <1>7, NextMessage DEF Sends
  <2>4. /\ todo'[c] = r /\ wire'[c] = <<>> \o h /\ pc'[c] = "poll" /\ Held(c)' = <<>>
        /\ stored'[c] = stored[c]
    BY <1>7, <2>1, <2>3 DEF Sends
  <2>5. <<>> \o h = h /\ h \in Seq(Byte)
    BY <2>3, ConcatEmptySeq DEF B
  <2>6. (done \o <<>>) \o todo[c] = (done \o <<h>>) \o r
    <3>1. done \o <<>> = done /\ <<h>> \in Seq(B) /\ <<>> \in Seq(B)
      BY <2>3, ConcatEmptySeq
    <3>2. Regrouped(done, <<>>, <<h>>, r)
      BY <2>3, <3>1, Regroup
    <3> QED BY <2>3, <3>1, <3>2 DEF Regrouped
  <2>7. Split(c, done, <<h>>)'
    BY <1>2, <2>2, <2>4, <2>5, <2>6 DEF Split
  <2>8. <<h>> \in Seq(B)
    BY <2>3
  <2> QED BY <2>7, <2>8
<1>8. CASE Receives(c)
  <2>1. /\ pc[c] = "poll" /\ pc'[c] \in {"poll", "lock"} /\ wire[c] # <<>>
        /\ pc'[c] = "lock" => Contains(Held(c)', Newline)
        /\ todo'[c] = todo[c] /\ stored'[c] = stored[c]
    BY <1>8 DEF Receives
  <2>2. PICK data \in B : wire[c] = data \o wire'[c] /\ Held(c)' = Held(c) \o data
    BY <1>8 DEF Receives, B
  <2>3. PICK m \in B : Busy(m)
    BY <1>3, <2>1
  <2>4. (Held(c) \o data) \o wire'[c] = Held(c) \o (data \o wire'[c])
    <3>1. PICK x \in B, r \in B : x = Held(c) /\ r = wire'[c]
      BY <1>2 DEF B
    <3>2. \A a, b, d \in Seq(Byte) : (a \o b) \o d = a \o (b \o d)
      BY Associative, SMTT(30)
    <3>3. (x \o data) \o r = x \o (data \o r)
      BY <3>2, SMTT(30) DEF B
    <3> QED BY <3>1, <3>3
  <2>5. Held(c)' \o wire'[c] = m
    BY <2>2, <2>3, <2>4
  <2>6. pc'[c] = "lock" => wire'[c] = <<>>
    BY <1>5, <2>1, <2>3, <2>5 DEF B
  <2>7. Split(c, done, now)'
    BY <1>2, <2>1, <2>3, <2>5, <2>6 DEF Split, B
  <2> QED BY <2>7
<1>9. CASE Ends(c)
  <2>1. Split(c, done, now)'
    BY <1>2, <1>9 DEF Split, Ends
  <2> QED BY <2>1
<1>10. CASE Moves(c)
  <2>1. Split(c, done, now)'
    BY <1>1, <1>10 DEF Split, Moves
  <2> QED BY <2>1
<1>11. CASE Seeks(c) \/ Stores(c)
  <2>1. PICK m \in B : Busy(m)
    BY <1>3, <1>11 DEF Seeks, Stores
  <2>2. wire[c] = <<>> /\ Held(c) = m
    <3>1. wire[c] = <<>>
      BY <1>11, <2>1 DEF Seeks, Stores
    <3>2. Held(c) \o <<>> = Held(c)
      BY <1>2, ConcatEmptySeq DEF B
    <3> QED BY <2>1, <3>1, <3>2
  <2>3. /\ done \o <<m>> \in Seq(B) /\ (done \o <<m>>) \o <<>> = done \o <<m>>
        /\ IsCommand(m) => Operations(done \o <<m>>) = Operations(done)
        /\ ~ IsCommand(m) => Operations(done \o <<m>>) = Append(Operations(done), m)
    BY MessageDone DEF B
  <2>4. todo'[c] = todo[c] /\ wire'[c] = <<>>
    BY <1>11, <2>2 DEF Seeks, Stores
  <2>5. Script[c] = ((done \o <<m>>) \o <<>>) \o todo'[c]
    BY <1>2, <2>1, <2>3, <2>4
  <2>6. CASE pc'[c] = "read"
    <3>1. stored'[c] = Operations(done \o <<m>>)
      BY <1>2, <1>11, <2>2, <2>3 DEF Seeks, Stores
    <3>2. Split(c, done \o <<m>>, <<>>)'
      BY <2>4, <2>5, <2>6, <3>1 DEF Split
    <3>3. <<>> \in Seq(B)
      OBVIOUS
    <3> QED BY <2>3, <3>2, <3>3
  <2>7. CASE pc'[c] # "read"
    <3>1. process' # "running" /\ stored'[c] = stored[c]
      BY <1>11, <2>7 DEF Seeks, Stores
    <3>2. Split(c, done, now)'
      BY <1>2, <2>4, <3>1 DEF Split
    <3> QED BY <3>2
  <2> QED BY <2>6, <2>7
<1>12. CASE Finishes(c)
  <2>1. Idle
    BY <1>3, <1>12 DEF Finishes
  <2>2. Split(c, done, now)'
    BY <1>2, <1>12, <2>1 DEF Split, Finishes
  <2> QED BY <2>2
<1> QED BY <1>6, <1>7, <1>8, <1>9, <1>10, <1>11, <1>12 DEF TextStep

-----------------------------------------------------------------------------
(* What became of a client's bytes: the actions.                           *)

\* What every action of c does to the clients' texts.
TextAction(c) ==
  /\ process = "running" /\ Grows /\ TextStep(c)
  /\ \A d \in Client \ {c} : TextSame(d)
  /\ stored' \in [Client -> Seq(Seq(Byte))]

\* The bytes in a temporary buffer.
BytesIn(t) == IF t.buffptr = NULL THEN <<>> ELSE SubSeq(t.buffptr, 1, t.size)

\* AddToBuffer adds at the end, CleanBuffer leaves nothing.
LEMMA BufferText ==
  ASSUME NEW t, Temporary(t), NEW data \in Seq(Byte)
  PROVE  /\ BytesIn(AddToBuffer(t, data)) = BytesIn(t) \o data
         /\ BytesIn(CleanBuffer(t)) = <<>>
<1>1. BytesIn(CleanBuffer(t)) = <<>>
  BY DEF BytesIn, CleanBuffer, aesd_temperary_buffer_delete, aesd_temperary_buffer_init
<1>2. data # NULL /\ SubSeq(data, 1, Len(data)) = data /\ <<>> \o data = data
  BY NullAssumption, SubSeqFull, ConcatEmptySeq
<1>3. CASE t.buffptr = NULL
  <2>1. AddToBuffer(t, data) = [buffptr |-> data, size |-> Len(data)]
    BY <1>3 DEF AddToBuffer, aesd_temperary_buffer_add
  <2> QED BY <1>1, <1>2, <1>3, <2>1 DEF BytesIn
<1>4. CASE t.buffptr # NULL
  <2> DEFINE j == t.buffptr \o data
  <2>1. AddToBuffer(t, data) = [buffptr |-> j, size |-> t.size + Len(data)]
    BY <1>4 DEF AddToBuffer, aesd_temperary_buffer_add
  <2>2. t.buffptr \in Seq(Byte) /\ t.size = Len(t.buffptr)
    BY <1>4 DEF Temporary, aesd_temperary_buffer
  <2>3. j \in Seq(Byte) /\ Len(j) = t.size + Len(data)
    BY <2>2, ConcatProperties
  <2>4. BytesIn(t) = t.buffptr
    BY <1>4, <2>2, SubSeqFull DEF BytesIn
  <2> HIDE DEF j
  <2>5. j # NULL /\ SubSeq(j, 1, Len(j)) = j
    BY <2>3, NullAssumption, SubSeqFull
  <2>6. BytesIn(AddToBuffer(t, data)) = j
    BY <2>1, <2>3, <2>5 DEF BytesIn
  <2> QED BY <1>1, <2>4, <2>6 DEF j
<1> QED BY <1>3, <1>4

\* Sending moves a message to the wire, recv bytes from the wire to the buffer.
LEMMA WireText ==
  ASSUME Inv, Inv', stored \in [Client -> Seq(Seq(Byte))], NEW c \in Client,
         Send(c) \/ Hangup(c) \/ Recv(c)
  PROVE  TextAction(c)
<1>1. /\ process = "running" /\ process' = process /\ stored' = stored /\ Grows
  <2>1. process = "running" /\ UNCHANGED <<process, stored, refused, cut>>
    BY DEF Send, Hangup, Recv, At
  <2> QED BY <2>1 DEF Grows
<1>2. /\ wire \in [Client -> Seq(Byte)] /\ todo \in [Client -> Seq(Seq(Byte))]
      /\ pc \in [Client -> Place] /\ bufferString \in [Client -> aesd_temperary_buffer]
      /\ Temporary(bufferString[c])
  BY DEF Inv, Types
<1>3. CASE Send(c)
  <2>1. /\ c \in Patient => Answered(c)
        /\ todo[c] # <<>> /\ wire' = [wire EXCEPT ![c] = @ \o Head(todo[c])]
        /\ todo' = [todo EXCEPT ![c] = Tail(@)] /\ UNCHANGED <<pc, bufferString>>
    BY <1>3 DEF Send
  <2>2. \A d \in Client : Held(d)' = Held(d)
    BY <2>1 DEF Held
  <2>3. Sends(c)
    BY <1>1, <1>2, <2>1, <2>2 DEF Sends
  <2>4. \A d \in Client \ {c} : TextSame(d)
    BY <1>1, <1>2, <2>1, <2>2 DEF TextSame
  <2> QED BY <1>1, <2>3, <2>4 DEF TextAction, TextStep
<1>4. CASE Hangup(c)
  <2>1. UNCHANGED <<pc, bufferString, todo, wire>>
    BY <1>4 DEF Hangup
  <2>2. \A d \in Client : TextSame(d)
    BY <1>1, <2>1 DEF TextSame, Held
  <2> QED BY <1>1, <2>2 DEF TextAction, TextStep
<1>5. CASE Recv(c)
  <2>1. PICK recvLen \in 1 .. Len(wire[c]) :
          LET added == AddToBuffer(bufferString[c], SubSeq(wire[c], 1, recvLen))
          IN  /\ wire' = [wire EXCEPT ![c] = SubSeq(@, recvLen + 1, Len(@))]
              /\ bufferString' = [bufferString EXCEPT ![c] = added]
              /\ Goto(c, IF checkForNewlineCharInString(added.buffptr, recvLen) THEN "lock" ELSE "poll")
    BY <1>5 DEF Recv
  <2>2. pc[c] = "poll" /\ wire[c] # <<>> /\ todo' = todo /\ wire[c] \in Seq(Byte)
    BY <1>2, <1>5 DEF Recv, At
  <2> DEFINE data == SubSeq(wire[c], 1, recvLen)
             rest == SubSeq(wire[c], recvLen + 1, Len(wire[c]))
  <2>3. data \in Seq(Byte) /\ wire[c] = data \o rest
    <3>1. Pieces(wire[c], recvLen, data, rest)
      BY <2>2 DEF Pieces
    <3> QED BY <2>2, <3>1, TwoPieces
  <2>4. /\ wire' = [wire EXCEPT ![c] = rest]
        /\ bufferString' = [bufferString EXCEPT ![c] = AddToBuffer(bufferString[c], data)]
        /\ \E place \in {"poll", "lock"} : pc' = [pc EXCEPT ![c] = place]
    BY <2>1 DEF Goto
  <2> HIDE DEF data, rest
  <2>5. Held(c)' = Held(c) \o data
    <3>1. bufferString'[c] = AddToBuffer(bufferString[c], data)
      BY <1>2, <2>4
    <3>2. BytesIn(AddToBuffer(bufferString[c], data)) = BytesIn(bufferString[c]) \o data
      BY <1>2, <2>3, BufferText
    <3>3. Held(c) = BytesIn(bufferString[c]) /\ Held(c)' = BytesIn(bufferString'[c])
      BY DEF Held, BytesIn
    <3> QED BY <3>1, <3>2, <3>3
  <2>6. wire'[c] = rest /\ pc'[c] \in {"poll", "lock"}
    BY <1>2, <2>4
  <2>7. pc'[c] = "lock" => Contains(Held(c)', Newline)
    BY <1>1 DEF Inv, HoldsLine, Contains
  <2>8. Receives(c)
    BY <1>1, <2>2, <2>3, <2>5, <2>6, <2>7 DEF Receives
  <2>9. \A d \in Client \ {c} : TextSame(d)
    BY <1>1, <1>2, <2>2, <2>4 DEF TextSame, Held
  <2> QED BY <1>1, <2>8, <2>9 DEF TextAction, TextStep
<1> QED BY <1>3, <1>4, <1>5

\* The steps that store nothing.
LEMMA QuietText ==
  ASSUME Inv, stored \in [Client -> Seq(Seq(Byte))], NEW c \in Client,
         \/ RecvEof(c) \/ Lock(c) \/ SeekTo(c) \/ SeekRefused(c) \/ StoreRefused(c)
         \/ ReadAndSend(c) \/ SendRaisesSigpipe(c) \/ ReadEnds(c) \/ Finish(c)
  PROVE  TextAction(c)
<1>1. /\ process = "running" /\ UNCHANGED <<stored, todo, wire>>
  BY DEF RecvEof, Lock, SeekTo, SeekRefused, StoreRefused, AtFwrite, AtFclose, ReadAndSend,
     SendRaisesSigpipe, ReadEnds, Finish, At
<1>2. Grows
  <2>1. CASE StoreRefused(c)
    BY <2>1 DEF StoreRefused, Grows
  <2>2. CASE ~ StoreRefused(c)
    <3>1. UNCHANGED <<refused, cut>>
      BY <2>2 DEF RecvEof, Lock, SeekTo, SeekRefused, ReadAndSend, SendRaisesSigpipe, ReadEnds, Finish
    <3> QED BY <3>1 DEF Grows
  <2> QED BY <2>1, <2>2
<1>3. /\ pc \in [Client -> Place] /\ bufferString \in [Client -> aesd_temperary_buffer]
      /\ Temporary(bufferString[c])
  BY DEF Inv, Types
<1>4. /\ pc' = pc \/ \E place \in Place : pc' = [pc EXCEPT ![c] = place]
      /\ \/ bufferString' = bufferString
         \/ bufferString' = [bufferString EXCEPT ![c] = CleanBuffer(bufferString[c])]
  BY DEF RecvEof, Lock, SeekTo, SeekRefused, StoreRefused, ReadAndSend, SendRaisesSigpipe,
     ReadEnds, Finish, Goto, Place
<1>5. \A d \in Client \ {c} : TextSame(d)
  BY <1>1, <1>3, <1>4 DEF TextSame, Held
<1>6. bufferString' = bufferString => Held(c)' = Held(c)
  BY DEF Held
<1>7. TextStep(c)
  <2>1. CASE RecvEof(c)
    <3>1. pc[c] = "poll" /\ pc' = [pc EXCEPT ![c] = "done"]
      BY <2>1 DEF RecvEof, At, Goto
    <3> QED BY <1>1, <1>3, <3>1 DEF TextStep, Ends
  <2>2. CASE Lock(c)
    <3>1. pc[c] = "lock" /\ pc' = [pc EXCEPT ![c] = "file"] /\ bufferString' = bufferString
      BY <2>2 DEF Lock, At, Goto
    <3> QED BY <1>1, <1>3, <1>6, <3>1 DEF TextStep, Moves
  <2>3. CASE SeekTo(c)
    <3>1. pc[c] = "file" /\ pc' = [pc EXCEPT ![c] = "read"] /\ IsCommand(Held(c))
      BY <2>3 DEF SeekTo, At, Goto, IsCommand
    <3> QED BY <1>1, <1>3, <3>1 DEF TextStep, Seeks
  <2>4. CASE SeekRefused(c)
    <3>1. pc[c] = "file" /\ process' # "running" /\ IsCommand(Held(c))
      BY <2>4 DEF SeekRefused, At, IsCommand
    <3> QED BY <1>1, <3>1 DEF TextStep, Seeks
  <2>5. CASE StoreRefused(c)
    BY <2>5 DEF StoreRefused, TextStep
  <2>6. CASE ReadAndSend(c) \/ SendRaisesSigpipe(c)
    <3>1. UNCHANGED <<pc, bufferString>>
      BY <2>6 DEF ReadAndSend, SendRaisesSigpipe
    <3> QED BY <1>1, <1>6, <3>1 DEF TextStep, TextSame
  <2>7. CASE ReadEnds(c)
    <3>1. pc[c] = "read" /\ pc' = [pc EXCEPT ![c] = "close"] /\ bufferString' = bufferString
      BY <2>7 DEF ReadEnds, At, Goto
    <3> QED BY <1>1, <1>3, <1>6, <3>1 DEF TextStep, Moves
  <2>8. CASE Finish(c)
    <3>1. /\ pc[c] = "close" /\ pc' = [pc EXCEPT ![c] = "poll"]
          /\ bufferString' = [bufferString EXCEPT ![c] = CleanBuffer(@)]
      BY <2>8 DEF Finish, At, Goto
    <3>2. bufferString'[c] = CleanBuffer(bufferString[c]) /\ Held(c)' = BytesIn(bufferString'[c])
      BY <1>3, <3>1 DEF Held, BytesIn
    <3>3. BytesIn(CleanBuffer(bufferString[c])) = <<>> /\ <<>> \in Seq(Byte)
      BY <1>3, BufferText
    <3> QED BY <1>1, <1>3, <3>1, <3>2, <3>3 DEF TextStep, Finishes
  <2> QED BY <2>1, <2>2, <2>3, <2>4, <2>5, <2>6, <2>7, <2>8
<1> QED BY <1>1, <1>2, <1>5, <1>7 DEF TextAction

\* A write stores a line when it brings the newline: the whole line the handler
\* holds, unless the line is recorded as cut.
LEMMA WriteText ==
  ASSUME Inv, stored \in [Client -> Seq(Seq(Byte))], NEW c \in Client, Fwrite(c) \/ Fclose(c)
  PROVE  TextAction(c)
<1>1. /\ pc \in [Client -> Place] /\ partial \in Seq(Byte) /\ Held(c) \in Seq(Byte)
      /\ stored[c] \in Seq(Seq(Byte))
  BY HeldBytes DEF Inv, Types
<1>2. ASSUME NEW piece \in Seq(Byte), NEW place, pc' = [pc EXCEPT ![c] = place],
             process = "running", Grows, UNCHANGED <<bufferString, todo, wire>>,
             stored' = IF Contains(piece, Newline)
                       THEN [stored EXCEPT ![c] = Append(@, partial \o piece)] ELSE stored,
             TextStep(c)
      PROVE  TextAction(c)
  <2>1. partial \o piece \in Seq(Byte)
    BY <1>1, <1>2, ConcatProperties
  <2>2. Append(stored[c], partial \o piece) \in Seq(Seq(Byte))
    BY <1>1, <2>1, AppendProperties
  <2>3. /\ stored' \in [Client -> Seq(Seq(Byte))] /\ \A d \in Client \ {c} : stored'[d] = stored[d]
    BY <1>2, <2>2
  <2>4. \A d \in Client \ {c} : TextSame(d)
    BY <1>1, <1>2, <2>3 DEF TextSame, Held
  <2> QED BY <1>2, <2>3, <2>4 DEF TextAction
<1>3. CASE Fclose(c)
  <2> DEFINE piece == SecondPiece(c)
  <2>1. /\ piece \in Seq(Byte) /\ StoreStep(c, piece, "read")
        /\ cut \/ (Contains(piece, Newline) /\ partial \o piece = Held(c))
    BY <1>3, FcloseWrites
  <2>2. stored' = IF Contains(piece, Newline)
                  THEN [stored EXCEPT ![c] = Append(@, partial \o piece)] ELSE stored
    BY <1>3 DEF Fclose, StorePiece, SecondPiece
  <2> HIDE DEF piece
  <2>3. TextStep(c)
    <3>1. /\ pc[c] \in {"file", "fclose"} /\ ~ IsCommand(Held(c)) /\ pc'[c] = "read" /\ Grows
          /\ UNCHANGED <<todo, wire>>
      BY <1>1, <2>1 DEF StoreStep
    <3>2. CASE cut
      BY <3>1, <3>2 DEF Grows, TextStep
    <3>3. CASE Contains(piece, Newline) /\ partial \o piece = Held(c)
      <4>1. stored'[c] = Append(stored[c], Held(c))
        BY <2>2, <3>3
      <4> QED BY <3>1, <4>1 DEF TextStep, Stores
    <3> QED BY <2>1, <3>2, <3>3
  <2> QED BY <1>2, <2>1, <2>2, <2>3 DEF StoreStep
<1>4. CASE Fwrite(c)
  <2> DEFINE held == Held(c)
             blocks == WholeBlocks(held)
             piece == FirstPiece(c)
             more == blocks < Len(held)
             place == IF more THEN "fclose" ELSE "read"
  <2>1. blocks \in 0 .. Len(held)
    BY <1>1, BlocksFit
  <2>2. piece = SubSeq(held, 1, blocks)
    BY DEF FirstPiece
  <2>3. /\ process = "running" /\ pc[c] = "file" /\ ~ IsCommand(held)
        /\ pc' = [pc EXCEPT ![c] = place]
        /\ UNCHANGED <<bufferString, todo, wire, refused>>
        /\ cut' = (cut \/ (more /\ Contains(piece, Newline)))
        /\ stored' = IF Contains(piece, Newline)
                     THEN [stored EXCEPT ![c] = Append(@, partial \o piece)] ELSE stored
    BY <1>4, <2>2 DEF Fwrite, AtFwrite, At, StorePiece, Goto, IsCommand
  <2>4. Held(c)' = held
    BY <2>3 DEF Held
  <2>5. Contains(held, Newline)
    BY <2>3 DEF Inv, HoldsLine
  <2>6. cut \/ partial = <<>>
    BY <2>3, AloneInDevice
  <2>7. pc'[c] = place /\ Grows
    BY <1>1, <2>3 DEF Grows
  <2> HIDE DEF held, blocks, piece
  <2>8. piece \in Seq(Byte) /\ (blocks = Len(held) => piece = held)
    <3>1. Pieces(held, blocks, piece, SubSeq(held, blocks + 1, Len(held)))
      BY <2>1, <2>2 DEF Pieces
    <3> QED BY <1>1, <3>1, TwoPieces DEF held
  <2>9. TextStep(c)
    <3>1. CASE cut'
      BY <3>1 DEF TextStep
    <3>2. CASE ~ cut' /\ more
      <4>1. stored' = stored /\ pc'[c] = "fclose"
        BY <2>3, <2>7, <3>2
      <4> QED BY <2>3, <2>4, <4>1 DEF TextStep, Moves, held
    <3>3. CASE ~ cut' /\ ~ more
      <4>1. blocks = Len(held) /\ pc'[c] = "read"
        BY <1>1, <2>1, <2>7, <3>3 DEF held
      <4>2. partial = <<>> /\ partial \o piece = held
        BY <2>6, <2>7, <2>8, <3>3, <4>1, ConcatEmptySeq DEF Grows
      <4>3. stored'[c] = Append(stored[c], held)
        BY <2>3, <2>5, <2>8, <4>1, <4>2
      <4> QED BY <2>3, <4>1, <4>3 DEF TextStep, Stores, held
    <3> QED BY <3>1, <3>2, <3>3
  <2> HIDE DEF place
  <2> QED BY <1>2, <2>3, <2>7, <2>8, <2>9
<1> QED BY <1>3, <1>4

-----------------------------------------------------------------------------
(* What became of a client's bytes: the theorems.                          *)

History ==
  /\ stored \in [Client -> Seq(Seq(Byte))]
  /\ ~ cut => \A c \in Client \ refused : InOrder(c) /\ (c \in Patient => Progress(c))

\* Everything is still to be sent.
LEMMA HistoryInit == Init => History
<1> SUFFICES ASSUME Init
             PROVE  History
  OBVIOUS
<1>1. /\ pc = [c \in Client |-> "poll"] /\ wire = [c \in Client |-> <<>>]
      /\ stored = [c \in Client |-> <<>>] /\ todo = Script
      /\ bufferString = [c \in Client |-> aesd_temperary_buffer_init]
  BY DEF Init
<1>2. stored \in [Client -> Seq(Seq(Byte))]
  BY <1>1
<1>3. ASSUME NEW c \in Client PROVE InOrder(c) /\ Progress(c)
  <2>1. /\ pc[c] = "poll" /\ wire[c] = <<>> /\ stored[c] = <<>> /\ todo[c] = Script[c]
        /\ Held(c) = <<>> /\ Script[c] \in Seq(Seq(Byte))
    BY <1>1, ScriptAssumption DEF Held, aesd_temperary_buffer_init
  <2>2. FlattenSeq(<<>>) = <<>> /\ Operations(<<>>) = <<>>
    <3>1. FlattenSeq(<<>>) = <<>>
      BY FlattenFew
    <3>2. <<>> \in Seq(Seq(Byte)) /\ Len(<<>>) = 0
      OBVIOUS
    <3>3. /\ Operations(<<>>) = FlattenSeq(Singles(<<>>)) /\ Len(Singles(<<>>)) = 0
          /\ Singles(<<>>) \in Seq(Seq(Seq(Byte)))
      BY <3>2, SinglesType
    <3>4. Singles(<<>>) = <<>>
      BY <3>3, EmptySeq
    <3> QED BY <3>1, <3>3, <3>4
  <2>3. <<>> \o <<>> = <<>>
    OBVIOUS
  <2>4. FlattenSeq(Script[c]) \in Seq(Byte)
    BY <2>1, FlattenInSeq
  <2>5. <<>> \o FlattenSeq(Script[c]) = FlattenSeq(Script[c]) /\ <<>> \o Script[c] = Script[c]
    BY <2>1, <2>4, ConcatEmptySeq
  <2>6. InOrder(c)
    BY <2>1, <2>2, <2>3, <2>5 DEF InOrder
  <2>7. Split(c, <<>>, <<>>)
    BY <2>1, <2>2, <2>3, <2>5 DEF Split
  <2>8. <<>> \in Seq(Seq(Byte))
    OBVIOUS
  <2> QED BY <2>6, <2>7, <2>8 DEF Progress
<1> QED BY <1>2, <1>3 DEF History

\* What a client has in one place stays true of it when its text is the same.
LEMMA SameText ==
  ASSUME NEW c, TextSame(c), process' = "running" => process = "running"
  PROVE  (InOrder(c) => InOrder(c)') /\ (Progress(c) => Progress(c)')
<1>1. InOrder(c) => InOrder(c)'
  BY DEF TextSame, InOrder, Contains
<1>2. ASSUME NEW done, NEW now, Split(c, done, now) PROVE Split(c, done, now)'
  BY <1>2 DEF TextSame, Split
<1> QED BY <1>1, <1>2 DEF Progress

\* Every step keeps every client's text in order and its messages whole.
LEMMA HistoryNext ==
  ASSUME Inv, Inv', History, [Next]_vars
  PROVE  History'
<1>1. CASE UNCHANGED vars
  <2>1. UNCHANGED <<process, pc, bufferString, todo, wire, stored, refused, cut>>
    BY <1>1 DEF vars
  <2>2. \A c \in Client : TextSame(c)
    BY <2>1 DEF TextSame, Held
  <2>3. \A c \in Client : (InOrder(c) => InOrder(c)') /\ (Progress(c) => Progress(c)')
    BY <2>1, <2>2, SameText
  <2> QED BY <2>1, <2>3 DEF History
<1>2. ASSUME NEW c \in Client, HandlerStep(c) \/ Send(c) \/ Hangup(c)
      PROVE  History'
  <2>1. TextAction(c)
    BY <1>2, WireText, QuietText, WriteText DEF HandlerStep, History
  <2>2. stored' \in [Client -> Seq(Seq(Byte))] /\ process = "running" /\ Grows
    BY <2>1 DEF TextAction
  <2>3. ASSUME ~ cut', NEW d \in Client \ refused' PROVE InOrder(d)' /\ (d \in Patient => Progress(d)')
    <3>1. InOrder(d) /\ (d \in Patient => Progress(d))
      BY <2>2, <2>3 DEF Grows, History
    <3>2. CASE d = c
      <4>1. TextTypes(c)
        BY HeldBytes DEF Inv, Types, History, TextTypes
      <4>2. wire'[c] \in Seq(Byte) /\ Temporary(bufferString'[c])
        BY DEF Inv, Types
      <4>3. Held(c)' \in Seq(Byte)
        <5>1. CASE bufferString'[c].buffptr = NULL
          BY <5>1 DEF Held
        <5>2. CASE bufferString'[c].buffptr # NULL
          <6>1. /\ bufferString'[c].buffptr \in Seq(Byte)
                /\ bufferString'[c].size = Len(bufferString'[c].buffptr)
            BY <4>2, <5>2 DEF Temporary, aesd_temperary_buffer
          <6> QED BY <5>2, <6>1, SubSeqFull DEF Held
        <5> QED BY <5>1, <5>2
      <4>4. TextStep(c) /\ c \notin refused'
        BY <2>1, <2>3, <3>2 DEF TextAction
      <4> QED BY <2>2, <2>3, <3>1, <3>2, <4>1, <4>2, <4>3, <4>4, StepInOrder, StepProgress
    <3>3. CASE d # c
      <4>1. TextSame(d)
        BY <2>1, <3>3 DEF TextAction
      <4> QED BY <2>2, <3>1, <4>1, SameText
    <3> QED BY <3>2, <3>3
  <2> QED BY <2>2, <2>3 DEF History
<1> QED BY <1>1, <1>2 DEF Next

\* The histories are accounted for in every state of every run.
LEMMA HistoryInvariant == Spec => []History
<1>1. Inv /\ Inv' /\ History /\ [Next]_vars => History'
  BY HistoryNext
<1> QED BY <1>1, HistoryInit, ServerInvariant, PTL DEF Spec

\* For any number of clients, any messages without a command and any pieces in
\* which recv delivers and stdio writes them: each byte a client sends is in
\* exactly one place, written, held, on the wire or unsent, and in its order,
\* until the connection ends, when a prefix has been written.
THEOREM BytesKeepTheirOrder == Spec => []BytesInOrder
<1>1. History => BytesInOrder
  BY DEF History, BytesInOrder, InOrder
<1> QED BY <1>1, HistoryInvariant, PTL

\* For any number of clients that wait for each answer: the device has one
\* operation for each message that is not a command, in order, whatever the
\* pieces in which recv delivers it and fwrite and fclose write it.
THEOREM MessagesBecomeOperations == Spec => []OneOperationPerMessage
<1>1. Inv /\ History => OneOperationPerMessage
  <2> SUFFICES ASSUME Inv, History, ~ cut, NEW c \in Patient \ refused
               PROVE  IsPrefix(stored[c], Operations(Script[c]))
    BY DEF OneOperationPerMessage
  <2>1. c \in Client
    BY PatientAssumption
  <2>2. PICK done \in Seq(Seq(Byte)), now \in Seq(Seq(Byte)) : Split(c, done, now)
    BY <2>1 DEF History, Progress
  <2>3. /\ todo[c] \in Seq(Seq(Byte))
        /\ Script[c] = (done \o now) \o todo[c] /\ stored[c] = Operations(done)
    BY <2>1, <2>2 DEF Inv, Types, Split
  <2>4. PICK sent \in Seq(Seq(Byte)) : sent = done \o now
    BY ConcatProperties
  <2>5. /\ Operations(sent) = Operations(done) \o Operations(now)
        /\ Operations(sent \o todo[c]) = Operations(sent) \o Operations(todo[c])
    BY <2>3, <2>4, OperationsConcat
  <2>6. PICK p \in Seq(Seq(Byte)), q \in Seq(Seq(Byte)), r \in Seq(Seq(Byte)) :
          p = Operations(done) /\ q = Operations(now) /\ r = Operations(todo[c])
    BY <2>3, SinglesType
  <2>7. IsPrefix(p, (p \o q) \o r)
    BY PrefixOfThree
  <2> QED BY <2>3, <2>4, <2>5, <2>6, <2>7
<1> QED BY <1>1, HistoryInvariant, ServerInvariant, PTL
=============================================================================
