---------------------------- MODULE MCCaRxBuffer ----------------------------
(* The receive buffer for TLC: a ring that three packets fill to its last  *)
(* byte, fragments as long as the link buffer, two connections and enough  *)
(* packets to go around it.                                                *)
EXTENDS CaRxBuffer
===========================================================================
