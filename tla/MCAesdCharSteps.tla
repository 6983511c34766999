-------------------------- MODULE MCAesdCharSteps --------------------------
(* Two tasks and lines of two lengths.                                     *)
EXTENDS AesdCharSteps

CONSTANTS a, nl, t1, t2

MCByte == {a, nl}
TwoLines == {<<nl>>, <<a, nl>>}
=============================================================================
