---------------------------- MODULE MCDmxdevExit ----------------------------
(* The release of a demux for TLC.                                         *)
EXTENDS DmxdevExit
=============================================================================
