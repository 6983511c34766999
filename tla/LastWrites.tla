----------------------------- MODULE LastWrites -----------------------------
(***************************************************************************)
(* What the ring promises its users: it is the sequence of the most recent *)
(* writes, oldest first, never more than Capacity of them.                 *)
(***************************************************************************)
EXTENDS Naturals, Sequences

CONSTANTS Capacity, Write

VARIABLE log

Init == log = <<>>

Add(write) ==
  log' = Append(IF Len(log) = Capacity THEN Tail(log) ELSE log, write)

Next == \E write \in Write : Add(write)

Spec == Init /\ [][Next]_log
=============================================================================
