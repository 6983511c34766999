--------------------------- MODULE MCSystemCalls ---------------------------
(* Names for the calls.                                                    *)
EXTENDS SystemCalls

CONSTANTS k1, k2
=============================================================================
