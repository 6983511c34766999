----------------------------- MODULE LineDevice -----------------------------
(***************************************************************************)
(* What /dev/aesdchar promises its users: a window on the last Capacity    *)
(* write operations, read as one stream, and an unfinished write operation *)
(* that nobody sees until its newline arrives.  Positions count from the   *)
(* oldest operation still in the window.  A refused call has no effect.    *)
(***************************************************************************)
EXTENDS Integers, SequencesExt

CONSTANTS Capacity, Newline, File, Data, Counts, Offsets

VARIABLES lines, partial, pos, last

vars == <<lines, partial, pos, last>>

Stream == FlattenSeq(lines)

Init ==
  /\ lines = <<>>
  /\ partial = <<>>
  /\ pos = [f \in File |-> 0]
  /\ last.call = "none"

Done(call, f, val) == last'.call = call /\ last'.file = f /\ last'.err = "OK" /\ last'.val = val

\* Every byte is accepted; a newline publishes the operation.
Write(f, buf) ==
  LET operation == partial \o buf
      kept == IF Len(lines) = Capacity THEN Tail(lines) ELSE lines
  IN  /\ Done("write", f, Len(buf))
      /\ IF Contains(buf, Newline)
         THEN lines' = Append(kept, operation) /\ partial' = <<>>
         ELSE partial' = operation /\ UNCHANGED lines
      /\ UNCHANGED pos

\* A read delivers the bytes of the stream at the position.  It may deliver
\* fewer than asked, but none only at the end of the stream.
Read(f, count) ==
  \E n \in 0 .. count :
    /\ Done("read", f, n)
    /\ last'.data = SubSeq(Stream, pos[f] + 1, pos[f] + n)
    /\ Len(last'.data) = n
    /\ n = 0 <=> (count = 0 \/ pos[f] >= Len(Stream))
    /\ pos' = [pos EXCEPT ![f] = @ + n]
    /\ UNCHANGED <<lines, partial>>

\* llseek answers with the new position; only SEEK_END, and a seek that
\* moves nothing, may leave it negative.  The ioctl lands on a stored byte.
Seek(f) ==
  /\ \/ Done("llseek", f, pos'[f]) /\ (pos'[f] >= 0 \/ pos' = pos)
     \/ Done("llseek_end", f, pos'[f]) /\ \E offset \in Offsets : pos'[f] = Len(Stream) + offset
     \/ Done("ioctl", f, 0) /\ pos'[f] \in 0 .. Len(Stream) - 1
  /\ pos' = [pos EXCEPT ![f] = pos'[f]]
  /\ UNCHANGED <<lines, partial>>

OpenOrClose(f) ==
  /\ Done("open", f, 0) \/ Done("release", f, 0)
  /\ pos' = [pos EXCEPT ![f] = 0]
  /\ UNCHANGED <<lines, partial>>

Refuse == last'.err # "OK" /\ UNCHANGED <<lines, partial, pos>>

LoadOrUnload ==
  /\ last'.call \in {"init", "cleanup"}
  /\ lines' = <<>>
  /\ partial' = <<>>
  /\ UNCHANGED pos

Next ==
  \/ \E f \in File :
       \/ \E buf \in Data : Write(f, buf)
       \/ \E count \in Counts : Read(f, count)
       \/ Seek(f)
       \/ OpenOrClose(f)
  \/ Refuse
  \/ LoadOrUnload

Spec == Init /\ [][Next]_vars
=============================================================================
