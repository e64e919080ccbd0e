----------------------------- MODULE MCProcessLock -----------------------------
(* Four processes of one host that find the lock of a dead one, for TLC. *)
EXTENDS ProcessLock, TLC

CONSTANTS a, b, c, d

P4 == {a, b, c, d}
OneHost == [p \in Procs \cup {Before} |-> "h1"]
Perms == Permutations(Procs)
================================================================================
