-------------------------- MODULE MCDvbRingBuffer --------------------------
(* The ring buffer for TLC.                                                *)
EXTENDS DvbRingBuffer

MCSizes == {3, 4}
===========================================================================
