--------------------------- MODULE TemporaryBuffer ---------------------------
(***************************************************************************)
(* The growing buffer that collects the pieces of an unfinished line,      *)
(* aesd_temperaty_buffer.c.  The driver keeps one for all its files, the   *)
(* server one per connection.                                              *)
(***************************************************************************)
EXTENDS Memory

aesd_temperary_buffer == [buffptr : Seq(Byte) \cup {NULL}, size : Nat]

aesd_temperary_buffer_init == [buffptr |-> NULL, size |-> 0]

aesd_temperary_buffer_is_empty(buffer) == buffer.buffptr = NULL \/ buffer.size = 0

\* A mistake: the length of the kept bytes is forgotten.
AddForgetsSize(buffer, data) ==
  IF buffer.buffptr = NULL
  THEN [buffptr |-> data, size |-> Len(data)]
  ELSE [buffptr |-> buffer.buffptr \o data, size |-> Len(data)]

\* What a call that returns true leaves; one that returns false leaves the
\* buffer as it was.
aesd_temperary_buffer_add(buffer, data) ==
  IF buffer.buffptr = NULL
  THEN [buffptr |-> data, size |-> Len(data)]
  ELSE [buffptr |-> buffer.buffptr \o data, size |-> buffer.size + Len(data)]

\* aesd_temperary_buffer_clean is the same function with a message.
aesd_temperary_buffer_delete(buffer) ==
  IF buffer.buffptr # NULL THEN aesd_temperary_buffer_init ELSE buffer
=============================================================================
