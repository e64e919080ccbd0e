--------------------------- MODULE MutationClient ---------------------------
(***************************************************************************)
(* A Web client and its durable mutations: the composer actor and          *)
(* durableMutation(), over a ReconnectingGatewayPort whose transports are  *)
(* replaced when they fail, in front of the agent's connections and the    *)
(* mutation middleware (MutationReceipts).                                 *)
(*                                                                         *)
(* Every operation draws its own operation key and sends its envelope      *)
(* once; afterwards only mutation/status is asked.                         *)
(***************************************************************************)
EXTENDS MutationReceipts, Sequences

CONSTANTS Composers,    \* the operations the composer submits
          MaxLinks      \* bound on the transports the port goes through

ASSUME ClientAssumption ==
    /\ Composers \subseteq Requests
    /\ MaxLinks \in Nat \ {0}
    /\ \A r, q \in Requests : r # q => KeyOf[r] # KeyOf[q]

VARIABLES
    client,     \* the state of each operation in the Web page
    link,       \* the number of the current transport (0: none yet)
    linked,     \* the port has a transport
    session,    \* the agent still has the session of a transport
    queue       \* #mutationQueue of each transport, frames in transit included

clientVars == <<client, link, linked, session, queue>>
vars == <<mutationVars, clientVars>>

Links == 1 .. MaxLinks

ClientStates == {"idle", "waiting", "unknown", "resolved", "failed", "manual"}

Waiting == {r \in Requests : client[r] = "waiting"}

Init ==
    /\ MutationInit
    /\ client = [r \in Requests |-> "idle"]
    /\ link = 0 /\ linked = FALSE
    /\ session = [e \in Links |-> FALSE]
    /\ queue = [e \in Links |-> <<>>]

-----------------------------------------------------------------------------
(***************************************************************************)
(* The page                                                                *)
(***************************************************************************)
ClientGoto(r, s) == client' = [client EXCEPT ![r] = s]

(* SUBMIT/SEND, durableMutation: without a transport the port rejects the
   request before anything is sent. *)
Submit(r) ==
    /\ client[r] = "idle"
    /\ IF linked
       THEN /\ ClientGoto(r, "waiting")
            /\ queue' = [queue EXCEPT ![link] = Append(@, r)]
       ELSE ClientGoto(r, "failed") /\ UNCHANGED queue
    /\ UNCHANGED <<mutationVars, link, linked, session>>

(* REQUEST_TIMEOUT_MS: exchange gives up, the client cannot know. *)
Timeout(r) ==
    /\ client[r] = "waiting"
    /\ ClientGoto(r, "unknown")
    /\ UNCHANGED <<mutationVars, link, linked, session, queue>>

(* The transport is lost: #invalidate rejects everything that waits.  A
   status query that is under way is rejected too: the composer then asks for
   a manual check, durableMutation tries again. *)
LoseLink ==
    /\ linked /\ linked' = FALSE
    /\ \E gaveUp \in SUBSET {r \in Composers : client[r] = "unknown"} :
          client' = [r \in Requests |-> CASE r \in Waiting -> "unknown"
                                          [] r \in gaveUp -> "manual"
                                          [] OTHER -> client[r]]
    /\ UNCHANGED <<mutationVars, link, session, queue>>

(* Mutant: the query is repeated until a transport exists. *)
PollForEver(r) == FALSE

(* A status query without a transport: the composer asks for a manual check,
   durableMutation does so after 120 tries. *)
PollInVain(r) ==
    /\ client[r] = "unknown" /\ ~linked
    /\ ClientGoto(r, "manual")
    /\ UNCHANGED <<mutationVars, link, linked, session, queue>>

(* The first connection; #attemptReconnect, then RECONCILE for the composer's operation key. *)
Reconnect ==
    /\ ~linked /\ up /\ link < MaxLinks
    /\ link' = link + 1 /\ linked' = TRUE
    /\ session' = [session EXCEPT ![link'] = TRUE]
    /\ client' = [r \in Requests |-> IF r \in Composers /\ client[r] = "manual"
                                     THEN "unknown" ELSE client[r]]
    /\ UNCHANGED <<mutationVars, queue>>

(* Mutants: the status is taken for the operation's state; a receipt that is
   still open counts as a success. *)
VerdictUntyped(r, row) == IF row.status = "pending" THEN "pending" ELSE "manual"

VerdictOptimistic(r, row) ==
    CASE row.status = "absent"        -> "manual"
      [] row.status = "indeterminate" -> "manual"
      [] row.status = "pending"       -> "resolved"
      [] row.status = "completed"     ->
             IF row.kind = "success" THEN "resolved" ELSE "failed"

(* What the page makes of the answer to mutation/status. *)
Verdict(r, row) ==
    CASE row.status = "absent"        -> "manual"
      [] row.status = "indeterminate" -> "manual"
      [] row.status = "pending"       -> "unknown"
      [] row.status = "completed"     ->
             IF row.kind = "success" THEN "resolved" ELSE "failed"

(* What it makes of an error response to mutation/status: durableMutation
   rethrows it as if it were the mutation's own. *)
QueryFailure(r) == IF r \in Composers THEN "manual" ELSE "failed"

(* A query is received after the frames sent before it; it does not wait in the
   mutation queue, but the mutation at its head is claimed first. *)
Overtakes(r) == ~(/\ queue[link] # <<>> /\ Head(queue[link]) = r
                  /\ pc[r] \in {"idle", "claim"})

(* mutation/status *)
Poll(r, o) ==
    /\ client[r] = "unknown" /\ linked /\ up /\ session[link]
    /\ Overtakes(r)
    /\ LET row == pruneExpired[KeyOf[r]]
       IN  ClientGoto(r, IF o = "ok" THEN Verdict(r, row) ELSE QueryFailure(r))
    /\ Transaction(pruneExpired, o)
    /\ pruned' = IF o = "aborted" THEN pruned ELSE pruned \cup ExpiredRuns
    /\ UNCHANGED <<middlewareVars, ran, now, crashes, link, linked, session,
                   queue>>

-----------------------------------------------------------------------------
(***************************************************************************)
(* The agent's connections                                                 *)
(***************************************************************************)
(* #mutationQueue: one mutation of a connection at a time; assertCurrent
   rejects the rest of a closed session. *)
Dispatch(e) ==
    /\ session[e] /\ queue[e] # <<>>
    /\ Arrive(Head(queue[e]))
    /\ UNCHANGED clientVars

(* Mutant: every error code is definite. *)
ReactionPessimistic(a) == IF a = "success" THEN "resolved" ELSE "failed"

(* What the page makes of the router's answer. *)
Reaction(a) ==
    CASE a = "success"                            -> "resolved"
      [] a \in {"error", "reused", "internal"}    -> "failed"
      [] a \in {"pending", "unknown"}             -> "unknown"

(* The response is sent, and reaches the page if it still waits for it. *)
Respond(e) ==
    /\ queue[e] # <<>> /\ pc[Head(queue[e])] = "done"
    /\ LET r == Head(queue[e])
       IN  client' = IF /\ session[e] /\ linked /\ e = link
                        /\ client[r] = "waiting"
                     THEN [client EXCEPT ![r] = Reaction(answer[r])]
                     ELSE client
    /\ queue' = [queue EXCEPT ![e] = Tail(@)]
    /\ UNCHANGED <<mutationVars, link, linked, session>>

(* The agent notices that a socket is closed: the mutation that was started is
   carried on, those behind it are rejected before they start. *)
CloseSession(e) ==
    /\ session[e] /\ ~(linked /\ e = link)
    /\ session' = [session EXCEPT ![e] = FALSE]
    /\ queue' = [queue EXCEPT ![e] = IF @ # <<>> /\ pc[Head(@)] # "idle"
                                     THEN <<Head(@)>> ELSE <<>>]
    /\ UNCHANGED <<mutationVars, client, link, linked>>

(* The agent dies, and its sockets with it. *)
AgentCrash ==
    /\ Crash
    /\ linked' = FALSE
    /\ client' = [r \in Requests |-> IF r \in Waiting THEN "unknown"
                                                      ELSE client[r]]
    /\ session' = [e \in Links |-> FALSE]
    /\ queue' = [e \in Links |-> <<>>]
    /\ UNCHANGED link

-----------------------------------------------------------------------------
AgentStep == /\ \/ \E o \in TxOutcome : Recover(o)
                \/ Tick \/ FileStep
                \/ \E r \in Requests : RequestStep(r)
             /\ UNCHANGED clientVars

ClientStep(r) == \/ Submit(r) \/ Timeout(r) \/ PollInVain(r)
                 \/ \E o \in TxOutcome : Poll(r, o)

Next == \/ AgentStep \/ AgentCrash \/ LoseLink \/ Reconnect
        \/ \E r \in Requests : ClientStep(r)
        \/ \E e \in Links : Dispatch(e) \/ Respond(e) \/ CloseSession(e)

Spec == Init /\ [][Next]_vars

(***************************************************************************)
(* Fairness: the agent is restarted and works, its timers and sockets      *)
(* fire, the page's one-second poll repeats, and the port reconnects as    *)
(* long as it may.                                                         *)
(***************************************************************************)
Fairness ==
    /\ WF_vars(Recover("ok") /\ UNCHANGED clientVars)
    /\ \A r \in Requests : /\ WF_vars(RequestStep(r) /\ UNCHANGED clientVars)
                           /\ WF_vars(Timeout(r))
                           /\ WF_vars(Poll(r, "ok"))
                           /\ WF_vars(PollInVain(r))
    /\ \A e \in Links : WF_vars(Dispatch(e)) /\ WF_vars(Respond(e))
    /\ WF_vars(Reconnect)

FairSpec == Spec /\ Fairness

-----------------------------------------------------------------------------
(***************************************************************************)
(* Properties                                                              *)
(***************************************************************************)
(* The page, its transports and their queues have their types. *)
ClientTypeOK ==
    /\ MutationTypeOK
    /\ client \in [Requests -> ClientStates]
    /\ link \in 0 .. MaxLinks /\ linked \in BOOLEAN
    /\ session \in [Links -> BOOLEAN]
    /\ queue \in [Links -> Seq(Requests)]

(* The page reports an operation as done only if its handler ran and succeeded,
   over any sequence of timeouts, lost transports, polls and crashes. *)
ResolvedMeansDone ==
    \A r \in Requests : client[r] = "resolved" =>
                            r \in ran /\ outcome[r] = "success"

(* The composer reports a definite failure, and hands the draft back for another
   attempt, only if the message was not accepted and never will be. *)
ComposerFailureIsFinal ==
    \A r \in Composers : client[r] = "failed" =>
        /\ r \in ran => outcome[r] = "error"
        /\ \A e \in Links : session[e] /\ pc[r] = "idle" =>
                                \A j \in 1 .. Len(queue[e]) : queue[e][j] # r

(* What the page tells its user about an operation is so. *)
ReportsTruthful == ResolvedMeansDone /\ ComposerFailureIsFinal

(* The same of durableMutation: an error other than MutationNeedsReviewError is
   the definite outcome of the mutation (durable-mutation.test.ts: "fails
   closed when the Agent cannot prove the outcome"). *)
FailureIsFinal ==
    \A r \in ran : client[r] = "failed" => outcome[r] # "success"

(***************************************************************************)
(* The inductive invariant behind ReportsTruthful, beside MutationInv.     *)
(***************************************************************************)
Queued(r) == \E e \in Links : \E j \in 1 .. Len(queue[e]) : queue[e][j] = r

(* An operation that was not submitted, or was rejected for want of a transport,
   is not on its way to the handler. *)
Unsent(r) == pc[r] = "idle" /\ ~Queued(r)

(* What is reported is over, so that it stays true. *)
ReportsFinal ==
    /\ \A r \in Requests : client[r] = "idle" => Unsent(r)
    /\ \A r \in Requests : client[r] = "resolved" =>
           r \in ran /\ outcome[r] = "success" /\ pc[r] \in Concluded
    /\ \A r \in Composers : client[r] = "failed" =>
           \/ Unsent(r)
           \/ pc[r] \in Concluded /\ (r \in ran => outcome[r] = "error")

ClientInv ==
    /\ ClientTypeOK
    /\ linked => link \in Links
    /\ \A r \in Requests : pc[r] = "done" => answer[r] # "none"
    /\ ReportsFinal

(* The page learns what became of every operation, or asks its user: nobody
   polls for ever unless a failing transaction left a receipt open. *)
Informed(r) == client[r] \notin {"waiting", "unknown"} \/ faults > 0
OperationsSettle == \A r \in Requests : []<>Informed(r)
=============================================================================
