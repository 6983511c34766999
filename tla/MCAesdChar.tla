----------------------------- MODULE MCAesdChar -----------------------------
(* Writes without, with and around a newline for TLC.                      *)
EXTENDS AesdChar

CONSTANTS x, nl, f1, f2

MCByte == {x, nl}
ShortData == {<<>>, <<x>>, <<nl>>, <<x, nl>>}
LineData == {<<nl>>, <<x, nl>>}
MCOffsets == {-1, 1}
=============================================================================
