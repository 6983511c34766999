---------------------------- MODULE MCAesdSocket ----------------------------
(* Names for the connections.                                              *)
EXTENDS AesdSocket, TLC

CONSTANTS c1, c2, c3

\* Connections are interchangeable; used by the runs without liveness.
AnyConnection == Permutations(Conn)
=============================================================================
