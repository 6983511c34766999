---------------------------- MODULE MCLineServer ----------------------------
(* Two clients: one waits for its answers and seeks, one sends ahead.      *)
EXTENDS LineServer

CONSTANTS c1, c2, x, y, nl, K, A

MCByte == {x, y, nl, K, A}
MCScript ==
  c1 :> <<<<x, nl>>, <<K, A, nl>>, <<x, x, nl>>>> @@ c2 :> <<<<y, nl>>, <<y, y, nl>>>>
=============================================================================
