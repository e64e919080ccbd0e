-------------------------- MODULE DurableOperation --------------------------
(***************************************************************************)
(* What durable mutations promise: the requests of one operation key are   *)
(* executed once until the result is forgotten, a request that was         *)
(* answered is not executed any more, and a definite answer is the result  *)
(* of that execution.  There are no receipts here, no crashes and no       *)
(* concurrency: MutationReceipts implements this with them.                *)
(***************************************************************************)
CONSTANTS Requests, KeyOf, None

VARIABLES by,       \* the execution of a key that is not forgotten
          result,   \* its result: none (yet, or for ever), success, error
          told      \* the answer of each request

vars == <<by, result, told>>

UsedKeys == {KeyOf[r] : r \in Requests}

Init == /\ by = [k \in UsedKeys |-> None]
        /\ result = [k \in UsedKeys |-> "none"]
        /\ told = [r \in Requests |-> "none"]

(* The handler is called for r. *)
Execute(r) ==
    /\ by[KeyOf[r]] = None /\ told[r] = "none"
    /\ by' = [by EXCEPT ![KeyOf[r]] = r]
    /\ UNCHANGED <<result, told>>

(* The handler returns. *)
Finish(k) ==
    /\ by[k] # None /\ result[k] = "none"
    /\ \E kind \in {"success", "error"} : result' = [result EXCEPT ![k] = kind]
    /\ UNCHANGED <<by, told>>

(* What r may be answered: the result, or that there is none to tell; a request
   that was executed itself is not told that it was refused. *)
Answers(r) ==
    {"unknown"} \cup {result[KeyOf[r]]}
                \cup (IF by[KeyOf[r]] = r THEN {} ELSE {"refused"})

(* Results expire, and requests that wait are answered. *)
Settle ==
    /\ \E F \in SUBSET {k \in UsedKeys : result[k] # "none"} :
         /\ by' = [k \in UsedKeys |-> IF k \in F THEN None ELSE by[k]]
         /\ result' = [k \in UsedKeys |-> IF k \in F THEN "none" ELSE result[k]]
    /\ \E R \in SUBSET {r \in Requests : told[r] = "none"} :
         \E answer \in [R -> {"success", "error", "unknown", "refused"}] :
            /\ \A r \in R : answer[r] \in Answers(r)
            /\ told' = [r \in Requests |-> IF r \in R THEN answer[r] ELSE told[r]]

Next == \/ \E r \in Requests : Execute(r)
        \/ \E k \in UsedKeys : Finish(k)
        \/ Settle

Spec == Init /\ [][Next]_vars
=============================================================================
