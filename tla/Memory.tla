------------------------------- MODULE Memory -------------------------------
(***************************************************************************)
(* Blocks of memory as common.c hands them out.  A block is represented by *)
(* the bytes stored in it and a null pointer by NULL: what the properties  *)
(* need of an address is only whether it owns a block.                     *)
(***************************************************************************)
EXTENDS Integers, Sequences

CONSTANTS
  Byte,   \* the characters a write can consist of
  NULL    \* the null pointer

ASSUME NullAssumption == NULL \notin Seq(Byte)

\* The blocks a pointer owns: what my_malloc took for it and my_free gives back.
Blocks(pointer) == IF pointer = NULL THEN 0 ELSE 1
=============================================================================
