----------------------------- MODULE MCSwzigzag -----------------------------
(* The zigzag for TLC: a frontend whose search has five frequencies, and   *)
(* one that is left alone when it loses the signal.                        *)
EXTENDS Swzigzag

Kinds == {[step_size |-> 2, max_drift |-> 4, inversion_auto |-> FALSE, recover |-> FALSE],
          [step_size |-> 1, max_drift |-> 0, inversion_auto |-> TRUE, recover |-> TRUE]}
=============================================================================
