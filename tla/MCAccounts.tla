----------------------------- MODULE MCAccounts -----------------------------
(* Who may use an Agent, for TLC: all methods, without and with a command of the owner,
   a recovery by handoff before or beside a registration (which leaves two issues of codes
   in force), and a recovery that is executed again while the window,
   which has dropped it, forgets that it goes on. *)
EXTENDS Access, TLC

CONSTANTS s1, s2, n1, n2, k1, k2

AccountScenes ==
    {[methods |-> AllMethods, runs |-> 2, commands |-> 0, refusals |-> FALSE],
     [methods |-> AllMethods, runs |-> 1, commands |-> 1, refusals |-> FALSE],
     [methods |-> {"addPasskey", "recover"}, runs |-> 2, commands |-> 1, refusals |-> FALSE],
     [methods |-> {"recover"}, runs |-> 3, commands |-> 0, refusals |-> TRUE]}

(* Connections and keys are interchangeable. *)
Symmetry == Permutations({s1, s2}) \cup Permutations({n1, n2}) \cup Permutations({k1, k2})
=============================================================================
