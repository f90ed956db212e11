------------------------------ MODULE MCDmxDev ------------------------------
(* The demux device for TLC: two filters, which may want more feeds than   *)
(* there are, and a PID that sections cannot have.                         *)
EXTENDS DmxDev

EitherFlag == {<<TRUE, FALSE>>, <<FALSE, TRUE>>}
===========================================================================
