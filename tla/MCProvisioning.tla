--------------------------- MODULE MCProvisioning ---------------------------
(* Constants of Provisioning for TLC: one user through two rotations, two
   users with one credential while accounts change, one whose account is recycled
   after a death of the daemon, and the Controller. *)
EXTENDS Provisioning
Account == [uid |-> 1, name |-> "ada"]
Scene(c, n, b) == [clients |-> c, credentials |-> n, budget |-> b]
Bounds == {Scene({1}, 3, 0), Scene({1}, 2, 1), Scene({1, 2}, 1, 2), Scene({1}, 1, 3),
           Scene({Controller}, 2, 1)}
=============================================================================
