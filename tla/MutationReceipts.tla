-------------------------- MODULE MutationReceipts --------------------------
(***************************************************************************)
(* Durable mutations: AgentMutationMiddleware.#runDurable/#executeDurable   *)
(* in front of the service handlers, MutationReceiptRepository below it.   *)
(*                                                                         *)
(* A request is one mutation envelope that reaches the router.  Requests   *)
(* may carry the same operation key, with the same input (a replay) or     *)
(* with another one.  Each await of the code separates two actions.        *)
(***************************************************************************)
EXTENDS StateFile

CONSTANTS Requests,     \* mutation envelopes
          Keys,         \* operation keys
          KeyOf,        \* the operation key of a request
          InputOf,      \* its method and canonical input (the fingerprint)
          None,         \* no request
          TTL,          \* DURABLE_RESULT_TTL_MS
          MaxNow,       \* bound on the clock
          MaxCrashes    \* bound on the crashes of the agent

ASSUME RequestsAssumption ==
    /\ KeyOf \in [Requests -> Keys]
    /\ None \notin Requests
    /\ \A r \in Requests : InputOf[r] # None

ASSUME ClockAssumption ==
    TTL \in Nat \ {0} /\ MaxNow \in Nat /\ MaxCrashes \in Nat

VARIABLES
    up,         \* recoverPending has run and the gateway accepts traffic
    pc,         \* where each request is
    inflight,   \* #inFlight: the request that runs for a key
    outcome,    \* what captureOutcome made of the request's handler
    answer,     \* what the router answered
    from,       \* history: whose execution the answer reports
    ran,        \* history: requests whose handler was called
    pruned,     \* history: requests whose completed receipt expired
    now, crashes

receiptVars == <<mem, disk, faults>>
middlewareVars == <<up, pc, inflight, outcome, answer, from>>
mutationVars == <<receiptVars, middlewareVars, ran, pruned, now, crashes>>

Inputs == {InputOf[r] : r \in Requests}

-----------------------------------------------------------------------------
(***************************************************************************)
(* MutationReceiptRepository.  `by` is history: the request that stored    *)
(* the receipt; `kind` stands for result_json.                             *)
(***************************************************************************)
Receipt == [status : {"absent", "pending", "completed", "indeterminate"},
            input  : Inputs \cup {None},
            by     : Requests \cup {None},
            kind   : {"none", "success", "error"},
            exp    : Nat]

NoReceipt == [status |-> "absent", input |-> None, by |-> None,
              kind |-> "none", exp |-> 0]

Expired(row) == row.status = "completed" /\ row.exp <= now

(* pruneExpired, which claim and status run first. *)
pruneExpired ==
    [k \in Keys |-> IF Expired(mem[k]) THEN NoReceipt ELSE mem[k]]

insertReceipt(r) == [status |-> "pending", input |-> InputOf[r], by |-> r,
                     kind |-> "none", exp |-> 0]

(* The WHERE clause of complete and markIndeterminate. *)
OwnPending(r) == mem[KeyOf[r]].status = "pending"
                 /\ mem[KeyOf[r]].input = InputOf[r]

(* Mutants: the status code is stored for the outcome; a stored outcome is
   always read back as a success. *)
completeReceiptUntyped(r) ==
    [mem EXCEPT ![KeyOf[r]] =
        [@ EXCEPT !.status = "completed", !.kind = "completed", !.exp = now + TTL]]

completeReceiptAsSuccess(r) ==
    [mem EXCEPT ![KeyOf[r]] =
        [@ EXCEPT !.status = "completed", !.kind = "success", !.exp = now + TTL]]

completeReceipt(r) ==
    [mem EXCEPT ![KeyOf[r]] =
        [@ EXCEPT !.status = "completed", !.kind = outcome[r],
                  !.exp = now + TTL]]

markReceipt(r) ==
    IF OwnPending(r)
    THEN [mem EXCEPT ![KeyOf[r]].status = "indeterminate"]
    ELSE mem

(* Mutants: a restart forgets the open claims, or leaves them open. *)
forgetPendingReceipts ==
    [k \in Keys |-> IF mem[k].status = "pending" THEN NoReceipt ELSE mem[k]]

keepPendingReceipts == mem

recoverPendingReceipts ==
    [k \in Keys |-> IF mem[k].status = "pending"
                    THEN [mem[k] EXCEPT !.status = "indeterminate"]
                    ELSE mem[k]]

-----------------------------------------------------------------------------
MutationInit ==
    /\ mem = [k \in Keys |-> NoReceipt] /\ disk = mem /\ faults = 0
    /\ up = FALSE
    /\ pc       = [r \in Requests |-> "idle"]
    /\ inflight = [k \in Keys |-> None]
    /\ outcome  = [r \in Requests |-> "none"]
    /\ answer   = [r \in Requests |-> "none"]
    /\ from     = [r \in Requests |-> None]
    /\ ran = {} /\ pruned = {} /\ now = 0 /\ crashes = 0

historyFrame == UNCHANGED <<ran, pruned, now, crashes>>

(* recoverPending, before the gateway listens. *)
Recover(o) ==
    /\ ~up
    /\ up' = (o = "ok")
    /\ StartupTransaction(recoverPendingReceipts, o)
    /\ UNCHANGED <<pc, inflight, outcome, answer, from>> /\ historyFrame

Crash ==
    /\ up /\ crashes < MaxCrashes
    /\ crashes' = crashes + 1
    /\ up' = FALSE
    /\ pc' = [r \in Requests |-> IF pc[r] \in {"idle", "done"} THEN pc[r]
                                                               ELSE "lost"]
    /\ inflight' = [k \in Keys |-> None]
    /\ LoseMemory
    /\ UNCHANGED <<outcome, answer, from, ran, pruned, now>>

Tick == /\ now < MaxNow /\ now' = now + 1
        /\ UNCHANGED <<receiptVars, middlewareVars, ran, pruned, crashes>>

-----------------------------------------------------------------------------
(***************************************************************************)
(* The middleware                                                          *)
(***************************************************************************)
Goto(r, l) == pc' = [pc EXCEPT ![r] = l]

(* Mutant: only the runner is answered. *)
SharingOnlyRunner(r) == {r}

(* The requests that share the promise of r. *)
Sharing(r) ==
    {r} \cup {q \in Requests : pc[q] = "joined" /\ KeyOf[q] = KeyOf[r]}

(* The promise of r settles: everyone who shares it is answered, and the
   finally handler removes the in-flight entry. *)
Settle(r, a, q) ==
    /\ pc' = [x \in Requests |-> IF x \in Sharing(r) THEN "done" ELSE pc[x]]
    /\ answer' = [x \in Requests |-> IF x \in Sharing(r) THEN a ELSE answer[x]]
    /\ from' = [x \in Requests |-> IF x \in Sharing(r) THEN q ELSE from[x]]
    /\ inflight' = [inflight EXCEPT ![KeyOf[r]] = None]
    /\ UNCHANGED <<up, outcome>>

(* #runDurable: another request runs for the same key. *)
Join(r) == inflight[KeyOf[r]] # None

(* run, #runDurable *)
Arrive(r) ==
    /\ up /\ pc[r] = "idle"
    /\ IF Join(r)
       THEN /\ IF InputOf[inflight[KeyOf[r]]] = InputOf[r]
               THEN Goto(r, "joined") /\ UNCHANGED answer
               ELSE Goto(r, "done") /\ answer' = [answer EXCEPT ![r] = "reused"]
            /\ UNCHANGED inflight
       ELSE /\ inflight' = [inflight EXCEPT ![KeyOf[r]] = r]
            /\ Goto(r, "claim") /\ UNCHANGED answer
    /\ UNCHANGED <<receiptVars, up, outcome, from>> /\ historyFrame

(* claim may return { kind: "execute" }. *)
Executable(row) == row.status = "absent"

(* Mutant: a claim that only reached memory counts. *)
ClaimNotAborted(o) == o # "aborted"

(* The await of claim returned; otherwise it threw and so does the request. *)
ClaimReturned(o) == o = "ok"

(* The completed receipts that pruneExpired deletes. *)
ExpiredRuns == {mem[k].by : k \in {k \in Keys : Expired(mem[k])}}

(* claim, and what #executeDurable makes of its answer. *)
Claim(r, o) ==
    LET row == pruneExpired[KeyOf[r]]
    IN  /\ pc[r] = "claim"
        /\ IF ~Executable(row) /\ row.input # InputOf[r]
           THEN o = "ok" /\ NoTransaction /\ Settle(r, "reused", None)
                /\ UNCHANGED pruned
           ELSE /\ Transaction(IF Executable(row)
                               THEN [pruneExpired EXCEPT ![KeyOf[r]] =
                                        insertReceipt(r)]
                               ELSE pruneExpired, o)
                /\ pruned' = IF o = "aborted" THEN pruned
                                              ELSE pruned \cup ExpiredRuns
                /\ \/ /\ ~ClaimReturned(o)
                      /\ Settle(r, "internal", None)
                   \/ /\ ClaimReturned(o) /\ Executable(row)
                      /\ Goto(r, "run")
                      /\ UNCHANGED <<up, inflight, outcome, answer, from>>
                   \/ /\ ClaimReturned(o) /\ row.status = "completed"
                      /\ Settle(r, row.kind, row.by)
                   \/ /\ ClaimReturned(o) /\ row.status = "pending"
                      /\ Settle(r, "pending", None)
                   \/ /\ ClaimReturned(o) /\ row.status = "indeterminate"
                      /\ Settle(r, "unknown", None)
        /\ UNCHANGED <<ran, now, crashes>>

(* The handler is called: from here on its effects may have happened. *)
Execute(r) ==
    /\ pc[r] = "run"
    /\ ran' = ran \cup {r}
    /\ Goto(r, "running")
    /\ UNCHANGED <<receiptVars, up, inflight, outcome, answer, from, pruned,
                   now, crashes>>

(* captureOutcome: a result, or an error the handler raised on purpose, is
   stored; any other error (INTERNAL_ERROR) leaves the outcome unknown. *)
Return(r, kind) ==
    /\ pc[r] = "running"
    /\ outcome' = [outcome EXCEPT ![r] = kind]
    /\ Goto(r, IF kind = "none" THEN "mark" ELSE "complete")
    /\ UNCHANGED <<receiptVars, up, inflight, answer, from>> /\ historyFrame

(* complete, else bestEffortIndeterminate *)
Complete(r, o) ==
    /\ pc[r] = "complete"
    /\ IF OwnPending(r)
       THEN Transaction(completeReceipt(r), o)
       ELSE o = "ok" /\ NoTransaction
    /\ IF OwnPending(r) /\ o = "ok"
       THEN Settle(r, outcome[r], r)
       ELSE Goto(r, "mark") /\ UNCHANGED <<up, inflight, outcome, answer, from>>
    /\ historyFrame

(* Mutant: an outcome that could not be stored is reported as a failure. *)
MarkIndeterminateAsFailure(r, o) ==
    /\ pc[r] = "mark"
    /\ Transaction(markReceipt(r), o)
    /\ Settle(r, "internal", None)
    /\ historyFrame

(* bestEffortIndeterminate: its failure is swallowed. *)
MarkIndeterminate(r, o) ==
    /\ pc[r] = "mark"
    /\ Transaction(markReceipt(r), o)
    /\ Settle(r, "unknown", None)
    /\ historyFrame

(* mutation/status: prunes, then reads; what it returns is the row. *)
Status(o) ==
    /\ up
    /\ Transaction(pruneExpired, o)
    /\ pruned' = IF o = "aborted" THEN pruned ELSE pruned \cup ExpiredRuns
    /\ UNCHANGED <<middlewareVars, ran, now, crashes>>

FileStep == /\ up /\ (OtherCommit \/ ForeignCommit)
            /\ UNCHANGED <<middlewareVars, ran, pruned, now, crashes>>

RequestStep(r) ==
    \/ Execute(r)
    \/ \E kind \in {"none", "success", "error"} : Return(r, kind)
    \/ \E o \in TxOutcome : \/ Claim(r, o) \/ Complete(r, o)
                            \/ MarkIndeterminate(r, o)

MutationNext ==
    \/ \E o \in TxOutcome : Recover(o) \/ Status(o)
    \/ Crash \/ Tick \/ FileStep
    \/ \E r \in Requests : Arrive(r) \/ RequestStep(r)

MutationSpec == MutationInit /\ [][MutationNext]_mutationVars

(***************************************************************************)
(* Fairness: the supervisor restarts the agent, and what a request awaits  *)
(* (the state file, its handler) returns.                                  *)
(***************************************************************************)
MutationFairness ==
    /\ WF_mutationVars(Recover("ok"))
    /\ \A r \in Requests : WF_mutationVars(RequestStep(r))

FairMutationSpec == MutationSpec /\ MutationFairness

-----------------------------------------------------------------------------
(***************************************************************************)
(* Properties                                                              *)
(***************************************************************************)
Labels == {"idle", "joined", "claim", "run", "running", "complete", "mark",
           "done", "lost"}
Answers == {"none", "success", "error", "reused", "pending", "unknown",
            "internal"}
Working == {"claim", "run", "running", "complete", "mark"}

(* Receipts, requests and histories have their types. *)
MutationTypeOK ==
    /\ mem \in [Keys -> Receipt] /\ disk \in [Keys -> Receipt]
    /\ faults \in 0 .. MaxFaults
    /\ up \in BOOLEAN
    /\ pc \in [Requests -> Labels]
    /\ inflight \in [Keys -> Requests \cup {None}]
    /\ outcome \in [Requests -> {"none", "success", "error"}]
    /\ answer \in [Requests -> Answers]
    /\ from \in [Requests -> Requests \cup {None}]
    /\ ran \subseteq Requests /\ pruned \subseteq Requests \cup {None}
    /\ now \in 0 .. MaxNow /\ crashes \in 0 .. MaxCrashes

(* "execute once" (architecture.zh-CN.md, 5.2): two requests with the same
   operation key both reach the handler only if the receipt of one of them was
   completed and has expired, whatever crashes and failing transactions
   happened. *)
ExecutedOnce ==
    \A r, q \in ran : r # q /\ KeyOf[r] = KeyOf[q] =>
                          r \in pruned \/ q \in pruned

(* A definite answer, first-hand, shared with a concurrent replay or read back
   from a receipt, reports the outcome of an execution that took place under
   the same key with the same input. *)
AnswersTruthful ==
    \A r \in Requests : answer[r] \in {"success", "error"} =>
        /\ from[r] \in ran
        /\ outcome[from[r]] = answer[r]
        /\ KeyOf[from[r]] = KeyOf[r] /\ InputOf[from[r]] = InputOf[r]

(* A request that was answered with a plain failure (its claim did not commit,
   its key is in use) did not reach the handler and never will. *)
RefusedNeverRan ==
    \A r \in ran : answer[r] \notin {"internal", "reused", "pending"}

(* The execution of a request has a receipt on disk until it is settled, so no
   crash can make the agent forget it. *)
RunningIsRecorded ==
    \A r \in Requests : pc[r] \in {"run", "running", "complete"} =>
        disk[KeyOf[r]].by = r /\ disk[KeyOf[r]].status = "pending"

(* While no transaction has failed a pending receipt belongs to a request that
   is being executed: a client that polls mutation/status is not told
   "pending" about a mutation nobody works on. *)
PendingHasRunner ==
    up /\ faults = 0 =>
        \A k \in Keys : mem[k].status = "pending" =>
            inflight[k] # None /\ pc[inflight[k]] \in Working

(***************************************************************************)
(* The inductive invariant behind these properties.  Its first part says   *)
(* what one copy of the receipts, the one in memory or the one on disk,    *)
(* knows of the requests.                                                  *)
(***************************************************************************)
Unclaimed == {"idle", "joined", "claim", "run"}
Concluded == {"mark", "done", "lost"}

(* A stored receipt is the receipt of a request with its key and input. *)
ReceiptOwned(db) ==
    \A k \in Keys : db[k].status # "absent" =>
        /\ db[k].by \in Requests /\ KeyOf[db[k].by] = k
        /\ db[k].input = InputOf[db[k].by]

(* A completed one holds the outcome of an execution that is over, and if that
   one was ever pruned it has expired. *)
CompletedIsFinal(db) ==
    \A k \in Keys : db[k].status = "completed" =>
        /\ db[k].by \in ran /\ pc[db[k].by] \in Concluded
        /\ db[k].kind \in {"success", "error"} /\ db[k].kind = outcome[db[k].by]
        /\ db[k].by \in pruned => db[k].exp <= now

(* An execution is on record until its completed receipt expires, as pending
   until its outcome is to be stored. *)
ExecutionRecorded(db) ==
    /\ \A r \in ran \ pruned : db[KeyOf[r]].status # "absent" /\ db[KeyOf[r]].by = r
    /\ \A r \in Requests : pc[r] \in {"run", "running", "complete"} =>
           db[KeyOf[r]].status = "pending" /\ db[KeyOf[r]].by = r

ReceiptsInv(db) == ReceiptOwned(db) /\ CompletedIsFinal(db) /\ ExecutionRecorded(db)

(* Both copies of a completed receipt expire at the same time. *)
SameExpiry ==
    \A k \in Keys :
        mem[k].status = "completed" /\ disk[k].status = "completed"
            /\ mem[k].by = disk[k].by => mem[k].exp = disk[k].exp

(* The in-flight entry of a key is the one request that works for it; requests
   that joined it have its input. *)
InFlight ==
    /\ \A k \in Keys : inflight[k] # None =>
           KeyOf[inflight[k]] = k /\ pc[inflight[k]] \in Working
    /\ \A r \in Requests : pc[r] \in Working => inflight[KeyOf[r]] = r
    /\ \A r \in Requests : pc[r] = "joined" =>
           inflight[KeyOf[r]] # None /\ InputOf[inflight[KeyOf[r]]] = InputOf[r]

(* A stopped agent has nothing under way and no memory of its own. *)
DownIsQuiet ==
    ~up => /\ mem = disk /\ inflight = [k \in Keys |-> None]
           /\ \A r \in Requests : pc[r] \in {"idle", "done", "lost"}

(* How far a request has got tells whether it was executed, has an outcome and
   was answered; only what is over is ever pruned. *)
Progressed ==
    \A r \in Requests :
        /\ pc[r] \in Unclaimed => r \notin ran
        /\ pc[r] \in {"running", "complete", "mark"} => r \in ran
        /\ pc[r] \in Unclaimed \cup {"running"} => outcome[r] = "none"
        /\ pc[r] = "complete" => outcome[r] \in {"success", "error"}
        /\ pc[r] # "done" => answer[r] = "none"
        /\ r \in pruned => r \in ran /\ pc[r] \in Concluded

(* A definite answer reports an execution whose outcome does not change. *)
AnswersFinal ==
    \A r \in Requests : answer[r] \in {"success", "error"} =>
        from[r] \in ran /\ pc[from[r]] \in Concluded

(* PendingHasRunner, with the runner that the receipt names. *)
PendingIsInFlight ==
    up /\ faults = 0 =>
        \A k \in Keys : mem[k].status = "pending" =>
            mem[k].by = inflight[k] /\ pc[inflight[k]] \in Working \ {"claim"}

(* Until a transaction fails, the file holds what memory holds. *)
InSync == faults = 0 => mem = disk

MutationInv ==
    /\ MutationTypeOK
    /\ ReceiptsInv(mem) /\ ReceiptsInv(disk) /\ SameExpiry
    /\ InFlight /\ DownIsQuiet /\ Progressed
    /\ AnswersTruthful /\ AnswersFinal /\ RefusedNeverRan
    /\ InSync /\ PendingIsInFlight

(* The middleware and its receipts implement DurableOperation: the execution
   of a key that counts is the one whose receipt has not expired (two of them
   would have no image), and an answer that says nothing of the outcome is
   unknown or a refusal. *)
Unforgotten(k) == {r \in ran \ pruned : KeyOf[r] = k}
Execution(k) == IF Unforgotten(k) = {} THEN None
                ELSE IF \E r \in Unforgotten(k) : Unforgotten(k) = {r}
                THEN CHOOSE r \in Unforgotten(k) : TRUE
                ELSE "several"
Told(r) == IF answer[r] \in {"none", "success", "error", "unknown"} THEN answer[r]
           ELSE "refused"
Operation == INSTANCE DurableOperation WITH
    by <- [k \in {KeyOf[r] : r \in Requests} |-> Execution(k)],
    result <- [k \in {KeyOf[r] : r \in Requests} |->
                 IF Execution(k) \in Requests THEN outcome[Execution(k)] ELSE "none"],
    told <- [r \in Requests |-> Told(r)]
ImplementsOperation == Operation!Spec

(* A pending receipt is settled, also across a crash, and every request that
   arrives is answered unless a crash takes it: time and again nothing is open. *)
Quiet == /\ \A k \in Keys : mem[k].status # "pending" \/ faults > 0
         /\ \A r \in Requests : pc[r] \notin Working \cup {"joined"}
RequestsAnswered == []<>Quiet
=============================================================================
