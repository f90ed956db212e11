----------------------------- MODULE MCFeEvents -----------------------------
(* The event queue for TLC, with a ring of three slots.                    *)
EXTENDS FeEvents
=============================================================================
