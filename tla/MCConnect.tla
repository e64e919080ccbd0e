----------------------------- MODULE MCConnect -----------------------------
(* Values of the constants of Connect for TLC: one flow with two failures, and two
   flows one after the other with one. *)
EXTENDS Connect
MCScenes == {[targets |-> 2, flows |-> 1, faults |-> 2], [targets |-> 1, flows |-> 2, faults |-> 1],
             [targets |-> 1, flows |-> 1, faults |-> 2],
             [targets |-> 2, flows |-> 2, faults |-> 0]}
=============================================================================
