-------------------------- MODULE MCCircularBuffer --------------------------
(* Writes of different lengths and contents for TLC.                       *)
EXTENDS CircularBufferMachine

CONSTANTS a, b

MCByte == {a, b}
TwoWrites == {<<a>>, <<b, a>>}
ThreeWrites == {<<a>>, <<b>>, <<b, a>>}
=============================================================================
