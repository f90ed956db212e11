--------------------------- MODULE MCSectionFeed ---------------------------
(* Instances of SectionFeed for TLC.                                       *)
EXTENDS SectionFeed
===========================================================================
