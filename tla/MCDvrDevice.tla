---------------------------- MODULE MCDvrDevice ----------------------------
(* The dvr ring for TLC.                                                   *)
EXTENDS DvrDevice
=============================================================================
