------------------------------ MODULE MCCaSlot ------------------------------
(* A CI slot for TLC, reported and polled: three events of any kind.       *)
EXTENDS CaSlot
===========================================================================
