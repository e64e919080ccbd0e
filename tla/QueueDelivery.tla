--------------------------- MODULE QueueDelivery ---------------------------
(***************************************************************************)
(* The delivery path of the Queue: QueueRepository (one row per item, at   *)
(* most one delivery claim per row) and QueueService (the single-flight    *)
(* dispatcher and the steer requests, serialised by CodexRuntimeGate),     *)
(* running against the Codex app-server.                                   *)
(*                                                                         *)
(* A worker is the dispatcher or one queue/steer request.  Each await of   *)
(* the code is a boundary between two actions, so the actions of users,    *)
(* of the app-server, crashes and failing transactions interleave there.   *)
(***************************************************************************)
EXTENDS StateFile, FiniteSets

CONSTANTS Items,        \* queue items, numbered in the order (created_at, id)
          Threads,      \* Codex threads (tasks)
          ThreadOf,     \* the thread each item is queued for
          Steerers,     \* the queue/steer requests users make
          Dispatcher,   \* the dispatchOnce loop
          Nobody,       \* the runtime gate is free
          MaxRetries,   \* bound on the claims given up by a user's retry
          MaxCrashes,   \* bound on the crashes of the agent
          MaxTurns      \* bound on the turns other clients start

ASSUME ItemsAssumption ==
    /\ Items \subseteq Nat \ {0}
    /\ ThreadOf \in [Items -> Threads]

ASSUME WorkersAssumption ==
    /\ Dispatcher \notin Steerers
    /\ Nobody \notin Steerers \cup {Dispatcher}

ASSUME BoundsAssumption ==
    /\ MaxRetries \in Nat
    /\ MaxCrashes \in Nat
    /\ MaxTurns \in Nat

VARIABLES
    started,    \* QueueService.#started: the agent is up
    pc,         \* where each worker is
    cur,        \* the item a worker read (0: none)
    seen,       \* the revision it read
    key,        \* clientUserMessageId of the worker's claim (0: none)
    gate,       \* holder of the codex-runtime coordination lock
    issued,     \* last clientUserMessageId drawn
    turn,       \* the app-server's state of each thread
    wire,       \* requests sent to the app-server and not yet handled
    accepted,   \* requests the app-server accepted
    refused,    \* requests it answered with a JSON-RPC error
    sent,       \* history: every request ever sent
    retired,    \* history: keys whose claim a user's retry deleted
    dismissed,  \* history: keys whose claim a user dismissed
    removed,    \* history: items whose removal was reported as done
    used,       \* history: item ids drawn
    crashes, turns

serviceVars == <<started, pc, cur, seen, key, gate, issued>>
serverVars  == <<turn, wire, accepted, refused, turns>>
historyVars == <<sent, retired, dismissed, removed, used, crashes>>
fileVars    == <<mem, disk, faults>>
vars        == <<fileVars, serviceVars, serverVars, historyVars>>

Workers == Steerers \cup {Dispatcher}

Op(w) == IF w = Dispatcher THEN "turn/start" ELSE "turn/steer"

Message == [item : Items, key : Nat, op : {"turn/start", "turn/steer"}]

-----------------------------------------------------------------------------
(***************************************************************************)
(* QueueRepository: a row of queue_items joined with its row of            *)
(* queue_delivery_claims (key 0: no claim row).                            *)
(***************************************************************************)
Status  == {"absent", "pending", "paused", "delivering", "completed",
            "indeterminate"}
Outcome == {"null", "completed", "indeterminate", "abandoned"}

Row == [status : Status, rev : Nat, key : Nat, outcome : Outcome]

NoRow  == [status |-> "absent", rev |-> 0, key |-> 0, outcome |-> "null"]
NewRow == [status |-> "pending", rev |-> 0, key |-> 0, outcome |-> "null"]

(* updateQueueStatus with the claim update of the same transaction: the status
   changes, the revision advances, the claim becomes (k, out). *)
updateQueueStatus(row, s, k, out) ==
    [status |-> s, rev |-> row.rev + 1, key |-> k, outcome |-> out]

(* The item nextPending returns: the globally oldest pending one. *)
IsNextPending(i) ==
    /\ mem[i].status = "pending"
    /\ \A j \in Items : mem[j].status = "pending" => i <= j

(* remove and #transitionWithoutClaim require a row without a claim. *)
Removable(i) == mem[i].status \in {"pending", "paused"} /\ mem[i].key = 0
Pausable(i)  == mem[i].status = "pending" /\ mem[i].key = 0

pauseRow(row) == updateQueueStatus(row, "paused", row.key, row.outcome)

(* Mutants: the claim checks only the revision; only that the row exists. *)
ClaimableInAnyStatus(w) == mem[cur[w]].rev = seen[w]

ClaimableUnchecked(w) == mem[cur[w]].status # "absent"

(* claim: the revision the worker read must still be current. *)
Claimable(w) ==
    LET row == mem[cur[w]]
    IN  /\ row.rev = seen[w]
        /\ row.status \in (IF w = Dispatcher THEN {"pending"}
                                             ELSE {"pending", "paused"})

(* Mutant: the claim row is not inserted. *)
claimRowWithoutClaim(row, k) ==
    updateQueueStatus(row, "delivering", row.key, row.outcome)

claimRow(row, k) == updateQueueStatus(row, "delivering", k, "null")

(* complete: the worker's own claim is open, or is already completed. *)
Completable(w) ==
    LET row == mem[cur[w]]
    IN  row.key = key[w] /\ row.outcome \in {"null", "completed"}

completeRow(row) ==
    IF row.outcome = "null"
    THEN updateQueueStatus(row, "completed", row.key, "completed")
    ELSE row

(* markIndeterminate: keeps a claim that is completed after all. *)
Markable(w) ==
    LET row == mem[cur[w]]
    IN  row.key = key[w]
        /\ row.outcome \in {"null", "indeterminate", "completed"}

(* Mutant: a delivery that may have happened is recorded as done. *)
markCompletedRow(row) ==
    updateQueueStatus(row, "completed", row.key, "completed")

markIndeterminateRow(row) ==
    IF row.outcome = "completed"
    THEN row
    ELSE updateQueueStatus(row, "indeterminate", row.key, "indeterminate")

(* Mutants: a restart queues the item again; a restart leaves it alone. *)
recoverRowByReplay(row) ==
    IF row.status = "delivering"
    THEN updateQueueStatus(row, "pending", 0, row.outcome)
    ELSE row

recoverRowNever(row) == row

(* recoverDelivering, for one row of the table. *)
recoverRow(row) ==
    IF row.status = "delivering"
    THEN updateQueueStatus(row, "indeterminate", row.key,
             IF row.outcome = "null" /\ row.key # 0 THEN "indeterminate"
                                                    ELSE row.outcome)
    ELSE row

Acknowledgeable(i) ==
    /\ mem[i].status = "indeterminate"
    /\ mem[i].key # 0 => mem[i].outcome = "indeterminate"

retryRow(row) == updateQueueStatus(row, "pending", 0, "null")

dismissRow(row) ==
    updateQueueStatus(row, "completed", row.key,
                      IF row.key # 0 THEN "abandoned" ELSE row.outcome)

-----------------------------------------------------------------------------
Init ==
    /\ mem = [i \in Items |-> NoRow] /\ disk = mem /\ faults = 0
    /\ started = FALSE
    /\ pc   = [w \in Workers |-> "idle"]
    /\ cur  = [w \in Workers |-> 0]
    /\ seen = [w \in Workers |-> 0]
    /\ key  = [w \in Workers |-> 0]
    /\ gate = Nobody /\ issued = 0
    /\ turn = [t \in Threads |-> "idle"] /\ turns = 0
    /\ wire = {} /\ accepted = {} /\ refused = {}
    /\ sent = {} /\ retired = {} /\ dismissed = {}
    /\ removed = {} /\ used = {} /\ crashes = 0

(***************************************************************************)
(* start: recoverDelivering runs before #started is set; if it throws the  *)
(* composition root closes and the process is down again.                  *)
(***************************************************************************)
Start(o) ==
    /\ ~started
    /\ started' = (o = "ok")
    /\ StartupTransaction([i \in Items |-> recoverRow(mem[i])], o)
    /\ UNCHANGED <<pc, cur, seen, key, gate, issued, serverVars, historyVars>>

(***************************************************************************)
(* The agent dies: every worker is lost and so is what only memory held.   *)
(* What was sent may still reach the app-server.                           *)
(***************************************************************************)
Crash ==
    /\ started /\ crashes < MaxCrashes
    /\ crashes' = crashes + 1
    /\ started' = FALSE
    /\ pc'   = [w \in Workers |-> IF w = Dispatcher \/ pc[w] = "idle"
                                   THEN "idle" ELSE "done"]
    /\ cur'  = [w \in Workers |-> 0]
    /\ seen' = [w \in Workers |-> 0]
    /\ key'  = [w \in Workers |-> 0]
    /\ gate' = Nobody
    /\ LoseMemory
    /\ UNCHANGED <<issued, serverVars, sent, retired, dismissed,
                   removed, used>>

-----------------------------------------------------------------------------
(***************************************************************************)
(* Users.  These requests do not pass the runtime gate.                    *)
(***************************************************************************)
UserFrame == UNCHANGED <<serviceVars, serverVars, crashes>>

(* queue/add: the checks before the insert change nothing when they fail.
   created_at is read before the transaction, so an item may be inserted
   after a younger one. *)
Add(i, o) ==
    /\ started /\ i \notin used
    /\ used' = used \cup {i}
    /\ Transaction([mem EXCEPT ![i] = NewRow], o)
    /\ UNCHANGED <<sent, retired, dismissed, removed>> /\ UserFrame

(* queue/remove *)
Remove(i, o) ==
    /\ started /\ Removable(i)
    /\ Transaction([mem EXCEPT ![i] = NoRow], o)
    /\ removed' = IF o = "ok" THEN removed \cup {i} ELSE removed
    /\ UNCHANGED <<sent, retired, dismissed, used>> /\ UserFrame

(* queue/indeterminate/acknowledge with disposition "retry" *)
AcknowledgeRetry(i, o) ==
    /\ started /\ Acknowledgeable(i)
    /\ Cardinality(retired) < MaxRetries
    /\ Transaction([mem EXCEPT ![i] = retryRow(mem[i])], o)
    /\ retired' = IF o = "aborted" THEN retired ELSE retired \cup {mem[i].key}
    /\ UNCHANGED <<sent, dismissed, removed, used>> /\ UserFrame

(* queue/indeterminate/acknowledge with disposition "dismiss" *)
AcknowledgeDismiss(i, o) ==
    /\ started /\ Acknowledgeable(i)
    /\ Transaction([mem EXCEPT ![i] = dismissRow(mem[i])], o)
    /\ dismissed' = IF o = "aborted" THEN dismissed
                                     ELSE dismissed \cup {mem[i].key}
    /\ UNCHANGED <<sent, retired, removed, used>> /\ UserFrame

-----------------------------------------------------------------------------
(***************************************************************************)
(* Workers                                                                 *)
(***************************************************************************)
Goto(w, l) == pc' = [pc EXCEPT ![w] = l]

(* The worker returns or throws: the lease handle and the gate are
   released, and #draining is cleared. *)
Finish(w) ==
    /\ pc'   = [pc EXCEPT ![w] = IF w = Dispatcher THEN "idle" ELSE "done"]
    /\ cur'  = [cur EXCEPT ![w] = 0]
    /\ seen' = [seen EXCEPT ![w] = 0]
    /\ key'  = [key EXCEPT ![w] = 0]
    /\ gate' = Nobody
    /\ UNCHANGED started

(* dispatchOnce, #dispatchNext: nextPending is read before the gate is
   requested, so what the dispatcher holds may be stale when it gets it. *)
DispatchNext ==
    /\ started /\ pc[Dispatcher] = "idle"
    /\ \E i \in Items :
          /\ IsNextPending(i)
          /\ cur'  = [cur EXCEPT ![Dispatcher] = i]
          /\ seen' = [seen EXCEPT ![Dispatcher] = mem[i].rev]
    /\ Goto(Dispatcher, "gate")
    /\ UNCHANGED <<started, key, gate, issued, fileVars, serverVars,
                   historyVars>>

EnterGate ==
    /\ pc[Dispatcher] = "gate" /\ gate = Nobody
    /\ gate' = Dispatcher
    /\ Goto(Dispatcher, "inspect")
    /\ UNCHANGED <<started, cur, seen, key, issued, fileVars, serverVars,
                   historyVars>>

(* #steer: the item is read inside the gate; a missing item is an error. *)
Steer(w, i) ==
    /\ started /\ w \in Steerers /\ pc[w] = "idle" /\ gate = Nobody
    /\ mem[i].status # "absent"
    /\ gate' = w
    /\ cur'  = [cur EXCEPT ![w] = i]
    /\ seen' = [seen EXCEPT ![w] = mem[i].rev]
    /\ Goto(w, "inspect")
    /\ UNCHANGED <<started, key, issued, fileVars, serverVars, historyVars>>

(* Mutant: a failed thread leaves the item pending instead of pausing it. *)
InspectWithoutPause ==
    /\ pc[Dispatcher] = "inspect"
    /\ IF turn[ThreadOf[cur[Dispatcher]]] = "idle"
       THEN /\ Goto(Dispatcher, "claim")
            /\ UNCHANGED <<started, cur, seen, key, gate, issued>>
       ELSE Finish(Dispatcher) /\ UNCHANGED issued
    /\ UNCHANGED <<fileVars, serverVars, historyVars>>

(* The checks of #dispatchPending before the claim.  A thread that became
   a side chat, or whose workspace changed, pauses the item, and so does a
   failed thread; an active thread, or an app-server that cannot be asked,
   leaves it pending for the next tick. *)
InspectForDispatch ==
    /\ pc[Dispatcher] = "inspect"
    /\ LET t == ThreadOf[cur[Dispatcher]]
       IN  \/ /\ turn[t] = "idle"
              /\ Goto(Dispatcher, "claim")
              /\ UNCHANGED <<started, cur, seen, key, gate, issued, faults>>
           \/ \* assertQueueAllowed or #assertWorkspaceUnchanged throws, or
              \* the thread has failed
              /\ Goto(Dispatcher, "pause")
              /\ UNCHANGED <<started, cur, seen, key, gate, issued, faults>>
           \/ /\ turn[t] \in {"running", "waiting-input"}
              /\ Finish(Dispatcher) /\ UNCHANGED <<issued, faults>>
           \/ \* acquire or synchronize throws
              /\ faults < MaxFaults /\ faults' = faults + 1
              /\ Finish(Dispatcher) /\ UNCHANGED issued
    /\ UNCHANGED <<mem, disk, serverVars, historyVars>>

Pause(o) ==
    /\ pc[Dispatcher] = "pause"
    /\ LET i == cur[Dispatcher]
       IN  \/ /\ Pausable(i)
              /\ Transaction([mem EXCEPT ![i] = pauseRow(mem[i])], o)
           \/ ~Pausable(i) /\ o = "ok" /\ NoTransaction
    /\ Finish(Dispatcher)
    /\ UNCHANGED <<issued, serverVars, historyVars>>

(* The checks of #steer before the claim: any of them may fail the request. *)
InspectForSteer(w) ==
    /\ w \in Steerers /\ pc[w] = "inspect"
    /\ \/ /\ turn[ThreadOf[cur[w]]] = "running"
          /\ Goto(w, "claim")
          /\ UNCHANGED <<started, cur, seen, key, gate, issued>>
       \/ Finish(w) /\ UNCHANGED issued
    /\ UNCHANGED <<fileVars, serverVars, historyVars>>

(* The claim commits before anything is sent; a conflict, or a claim that is
   not reported as committed, ends the worker. *)
Claim(w, o) ==
    /\ pc[w] = "claim"
    /\ IF Claimable(w)
       THEN /\ Transaction([mem EXCEPT ![cur[w]] =
                               claimRow(mem[cur[w]], issued + 1)], o)
            /\ issued' = issued + 1
            /\ IF o = "ok"
               THEN /\ Goto(w, "send")
                    /\ key'  = [key EXCEPT ![w] = issued + 1]
                    /\ seen' = [seen EXCEPT ![w] = 0]
                    /\ UNCHANGED <<started, cur, gate>>
               ELSE Finish(w)
       ELSE o = "ok" /\ NoTransaction /\ Finish(w) /\ UNCHANGED issued
    /\ UNCHANGED <<serverVars, historyVars>>

(* #deliver: the request crosses to the app-server. *)
Request(w) == [item |-> cur[w], key |-> key[w], op |-> Op(w)]

Send(w) ==
    /\ pc[w] = "send"
    /\ wire' = wire \cup {Request(w)}
    /\ sent' = sent \cup {Request(w)}
    /\ Goto(w, "await")
    /\ UNCHANGED <<fileVars, started, cur, seen, key, gate, issued, turn,
                   accepted, refused, turns, retired, dismissed,
                   removed, used, crashes>>

(* A turn id came back. *)
ReceiveTurnId(w) ==
    /\ pc[w] = "await" /\ Request(w) \in accepted
    /\ Goto(w, "complete")
    /\ UNCHANGED <<fileVars, started, cur, seen, key, gate, issued,
                   serverVars, historyVars>>

(* A JSON-RPC error came back. *)
ReceiveRefusal(w) ==
    /\ pc[w] = "await" /\ Request(w) \in refused
    /\ Goto(w, "mark")
    /\ UNCHANGED <<fileVars, started, cur, seen, key, gate, issued,
                   serverVars, historyVars>>

(* The connection is lost, or the response names no turn. *)
LoseResponse(w) ==
    /\ pc[w] = "await"
    /\ Goto(w, "mark")
    /\ UNCHANGED <<fileVars, started, cur, seen, key, gate, issued,
                   serverVars, historyVars>>

(* complete; any failure falls through to #markIndeterminate. *)
Complete(w, o) ==
    /\ pc[w] = "complete"
    /\ IF Completable(w)
       THEN /\ Transaction([mem EXCEPT ![cur[w]] =
                               completeRow(mem[cur[w]])], o)
            /\ IF o = "ok"
               THEN Finish(w) /\ UNCHANGED issued
               ELSE Goto(w, "mark")
                    /\ UNCHANGED <<started, cur, seen, key, gate, issued>>
       ELSE /\ o = "ok" /\ NoTransaction
            /\ Goto(w, "mark")
            /\ UNCHANGED <<started, cur, seen, key, gate, issued>>
    /\ UNCHANGED <<serverVars, historyVars>>

(* #markIndeterminate: a failure is answered with the row as it stands. *)
MarkIndeterminate(w, o) ==
    /\ pc[w] = "mark"
    /\ \/ /\ Markable(w)
          /\ Transaction([mem EXCEPT ![cur[w]] =
                             markIndeterminateRow(mem[cur[w]])], o)
       \/ ~Markable(w) /\ o = "ok" /\ NoTransaction
    /\ Finish(w)
    /\ UNCHANGED <<issued, serverVars, historyVars>>

-----------------------------------------------------------------------------
(***************************************************************************)
(* The app-server (external) and its other clients.                        *)
(***************************************************************************)
ServerFrame == UNCHANGED <<fileVars, serviceVars, historyVars>>

(* A turn/start makes the thread active; a turn/steer needs an active turn. *)
Accept(m) ==
    /\ m \in wire
    /\ m.op = "turn/steer" => turn[ThreadOf[m.item]] = "running"
    /\ wire' = wire \ {m}
    /\ accepted' = accepted \cup {m}
    /\ turn' = [turn EXCEPT ![ThreadOf[m.item]] =
                   IF m.op = "turn/start" THEN "running" ELSE @]
    /\ UNCHANGED <<refused, turns>> /\ ServerFrame

Refuse(m) ==
    /\ m \in wire
    /\ wire' = wire \ {m}
    /\ refused' = refused \cup {m}
    /\ UNCHANGED <<turn, accepted, turns>> /\ ServerFrame

(* The request is lost with its connection. *)
Drop(m) ==
    /\ m \in wire
    /\ ~\E w \in Workers : pc[w] = "await" /\ Request(w) = m
    /\ wire' = wire \ {m}
    /\ UNCHANGED <<turn, accepted, refused, turns>> /\ ServerFrame

EndTurn(t) ==
    /\ turn[t] = "running"
    /\ turn' = [turn EXCEPT ![t] = "idle"]
    /\ UNCHANGED <<wire, accepted, refused, turns>> /\ ServerFrame

FailTurn(t) ==
    /\ turn[t] = "running"
    /\ turn' = [turn EXCEPT ![t] = "failed"]
    /\ UNCHANGED <<wire, accepted, refused, turns>> /\ ServerFrame

(* The turn asks the user something, and the user answers. *)
AskUser(t) ==
    /\ turn[t] = "running"
    /\ turn' = [turn EXCEPT ![t] = "waiting-input"]
    /\ UNCHANGED <<wire, accepted, refused, turns>> /\ ServerFrame

AnswerUser(t) ==
    /\ turn[t] = "waiting-input"
    /\ turn' = [turn EXCEPT ![t] = "running"]
    /\ UNCHANGED <<wire, accepted, refused, turns>> /\ ServerFrame

(* Web, ce tui or a direct client starts a turn. *)
OtherTurn(t) ==
    /\ turns < MaxTurns /\ turn[t] \in {"idle", "failed"}
    /\ turns' = turns + 1
    /\ turn' = [turn EXCEPT ![t] = "running"]
    /\ UNCHANGED <<wire, accepted, refused>> /\ ServerFrame

-----------------------------------------------------------------------------
FileStep == /\ OtherCommit \/ ForeignCommit
            /\ UNCHANGED <<serviceVars, serverVars, historyVars>>

UserStep == \E i \in Items, o \in TxOutcome :
                \/ Add(i, o) \/ Remove(i, o)
                \/ AcknowledgeRetry(i, o) \/ AcknowledgeDismiss(i, o)

Deliver(w) == \/ Send(w) \/ ReceiveTurnId(w) \/ ReceiveRefusal(w)
              \/ LoseResponse(w)
              \/ \E o \in TxOutcome : Claim(w, o) \/ Complete(w, o)
                                     \/ MarkIndeterminate(w, o)

DispatcherStep == \/ DispatchNext \/ EnterGate \/ InspectForDispatch
                  \/ \E o \in TxOutcome : Pause(o)

SteerStep(w) == InspectForSteer(w) \/ \E i \in Items : Steer(w, i)

ServerStep == \/ \E m \in wire : Accept(m) \/ Refuse(m) \/ Drop(m)
              \/ \E t \in Threads : \/ EndTurn(t) \/ FailTurn(t)
                                    \/ AskUser(t) \/ AnswerUser(t)
                                    \/ OtherTurn(t)

Next == \/ \E o \in TxOutcome : Start(o)
        \/ Crash
        \/ FileStep
        \/ UserStep
        \/ DispatcherStep
        \/ \E w \in Workers : Deliver(w)
        \/ \E w \in Steerers : SteerStep(w)
        \/ ServerStep

Spec == Init /\ [][Next]_vars

(***************************************************************************)
(* Fairness.  The agent's own code keeps running: it is restarted, the     *)
(* one-second tick calls dispatchOnce and an awaited step returns.  The    *)
(* app-server ends its turns and answers a request or closes the           *)
(* connection.  Nothing is assumed of users and of other clients.          *)
(***************************************************************************)
Fairness ==
    /\ WF_vars(Start("ok"))
    /\ WF_vars(DispatcherStep)
    /\ \A w \in Workers : WF_vars(Deliver(w))
    /\ \A w \in Steerers : WF_vars(InspectForSteer(w))
    /\ \A t \in Threads : WF_vars(EndTurn(t))

FairSpec == Spec /\ Fairness

-----------------------------------------------------------------------------
(***************************************************************************)
(* Properties                                                              *)
(***************************************************************************)
Labels == {"idle", "gate", "inspect", "pause", "claim", "send", "await",
           "complete", "mark", "done"}

(* Every variable of the service, the state file and the app-server has its
   type. *)
TypeOK ==
    /\ mem \in [Items -> Row] /\ disk \in [Items -> Row]
    /\ faults \in 0 .. MaxFaults
    /\ started \in BOOLEAN
    /\ pc \in [Workers -> Labels]
    /\ cur \in [Workers -> Items \cup {0}]
    /\ seen \in [Workers -> Nat]
    /\ key \in [Workers -> Nat]
    /\ gate \in Workers \cup {Nobody}
    /\ issued \in Nat
    /\ turn \in [Threads -> {"idle", "running", "waiting-input", "failed"}]
    /\ wire \subseteq Message /\ accepted \subseteq Message
    /\ refused \subseteq Message /\ sent \subseteq Message
    /\ retired \subseteq Nat /\ dismissed \subseteq Nat
    /\ removed \subseteq Items /\ used \subseteq Items
    /\ crashes \in 0 .. MaxCrashes /\ turns \in 0 .. MaxTurns

(* At-most-once dispatch (queue-service.ts, class QueueService): of two
   requests sent for the same item, the earlier one belongs to a claim that a
   user gave up with an explicit retry, whatever crashes, lost responses,
   failing transactions and concurrent steers happened in between. *)
AtMostOnce ==
    \A m, n \in sent :
        m # n /\ m.item = n.item =>
            /\ m.key # n.key
            /\ m.key < n.key => m.key \in retired

(* "Every external delivery starts after claim()" (class QueueRepository), and
   the claim stays on disk until the user retries: no crash can forget that a
   request was sent. *)
ClaimOutlivesRequest ==
    \A m \in sent : m.key \in retired \/ disk[m.item].key = m.key

(* An item is shown or stored as completed only if the app-server accepted the
   request of its claim, or the user dismissed it: an error path never turns
   an unknown outcome into success. *)
CompletedMeansAccepted ==
    \A db \in {mem, disk}, i \in Items :
        db[i].status = "completed" =>
            \/ db[i].key \in dismissed
            \/ \E m \in accepted : m.item = i /\ m.key = db[i].key

(* While no step has failed, an item in state delivering is being delivered:
   the claim is settled by every path that leaves #deliver and by start(). *)
DeliveringHasOwner ==
    started /\ faults = 0 =>
        \A i \in Items : mem[i].status = "delivering" =>
            \E w \in Workers : cur[w] = i /\ key[w] = mem[i].key
                              /\ pc[w] \in {"send", "await", "complete", "mark"}

(* Once queue/remove reported success nothing is sent for the item, not even
   by a worker that had read the item before it was removed. *)
RemovedNeverSent ==
    [][\A m \in sent' \ sent : m.item \notin removed]_vars

(***************************************************************************)
(* The inductive invariant behind the safety properties.                   *)
(***************************************************************************)
(* What holds of the row of item i, in memory and on disk alike: only a
   delivery has a claim, requests that were sent stay recorded, completions
   are justified, and removed items do not come back. *)
RowInv(i, row) ==
    /\ row.status \in {"absent", "pending", "paused"} => row.key = 0
    /\ row.status # "absent" => i \in used
    /\ row.key <= issued
    /\ i \in removed => row.status = "absent"
    /\ \A m \in sent : m.item = i => m.key \in retired \/ m.key = row.key
    /\ row.status = "completed" =>
          \/ row.key \in dismissed
          \/ \E m \in accepted : m.item = i /\ m.key = row.key

DatabaseInv(db) == \A i \in Items : RowInv(i, db[i])

(* A worker that is on its way has an item. *)
ItemHeld ==
    \A w \in Workers : pc[w] \notin {"idle", "done"} => cur[w] \in Items

(* A worker past the gate holds it, so there is only one. *)
GateHeld ==
    \A w \in Workers : pc[w] \notin {"idle", "gate", "done"} => gate = w

(* While the agent is down there is no worker and no memory of its own. *)
DownIsIdle ==
    ~started => mem = disk /\ \A w \in Workers : pc[w] \in {"idle", "done"}

(* Identities are drawn from a counter; removed items are never drawn again. *)
KeysDrawn ==
    /\ removed \subseteq used
    /\ \A m \in sent : m.key # 0 /\ m.key <= issued

(* About to send, a worker has the newest identity, nothing was sent under it
   and its claim is open in memory and on disk. *)
SendReady ==
    \A w \in Workers : pc[w] = "send" =>
        /\ key[w] = issued /\ issued # 0
        /\ \A m \in sent : m.key # issued
        /\ mem[cur[w]].status = "delivering" /\ mem[cur[w]].key = issued
        /\ disk[cur[w]].status = "delivering" /\ disk[cur[w]].key = issued

(* A worker that has a claim knows its identity. *)
KeyHeld ==
    \A w \in Workers : pc[w] \in {"send", "await", "complete", "mark"} =>
                           key[w] # 0

(* A worker completes only what the app-server accepted. *)
CompleteReady ==
    \A w \in Workers : pc[w] = "complete" => Request(w) \in accepted

(* The strengthening of AtMostOnce, ClaimOutlivesRequest,
   CompletedMeansAccepted and RemovedNeverSent that every step of the service,
   its users, the app-server, crashes and failing transactions preserves. *)
DeliveryInv ==
    /\ TypeOK
    /\ DatabaseInv(mem) /\ DatabaseInv(disk)
    /\ ItemHeld /\ GateHeld /\ DownIsIdle
    /\ KeysDrawn /\ KeyHeld /\ SendReady /\ CompleteReady
    /\ AtMostOnce

(* architecture.zh-CN.md, 5.3: an indeterminate item blocks later dispatches
   of the same task until the user chooses retry or dismiss. *)
IndeterminateBlocksTask ==
    [][\A m \in sent' \ sent : m.op = "turn/start" =>
          ~\E i \in Items : /\ ThreadOf[i] = ThreadOf[m.item]
                            /\ mem[i].status = "indeterminate"]_vars

(* A pending item does not wait for ever: unless a turn waits for its user for
   ever, the dispatcher claims it, pauses it, or its user removes it. *)
NobodyWaits == \A t \in Threads : turn[t] # "waiting-input"
Dispatched(i) == mem[i].status # "pending"
PendingIsDispatched == <>[]NobodyWaits => \A i \in Items : []<>Dispatched(i)

(* A delivery that began is settled, also across a crash, unless a failing
   transaction left the claim open. *)
Settled(i) == mem[i].status # "delivering" \/ faults > 0
DeliveringSettles == \A i \in Items : []<>Settled(i)
=============================================================================
