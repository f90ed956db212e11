---------------------------- MODULE MCDvbFrontend ---------------------------
(* The life of a frontend for TLC: two writers, a reader, and as many      *)
(* threads as can be there at a time.                                      *)
EXTENDS DvbFrontend

CONSTANTS w1, w2, r1, t1, t2
=============================================================================
