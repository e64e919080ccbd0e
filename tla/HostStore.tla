----------------------------- MODULE HostStore -----------------------------
(***************************************************************************)
(* The host state of the releases before the schema the Agent now uses:    *)
(* one database in one file (host/state-store.ts), which every transaction *)
(* reads again, changes and publishes under the state lock, and the queue  *)
(* kept in it (host/queue.ts).  A queued message is a row of queue_items   *)
(* that stays physically "done", so that an Agent of an older release that *)
(* is rolled back to ignores it; what can still be done with it is in      *)
(* queue_item_states, and what was sent in queue_consumption_claims.       *)
(*                                                                         *)
(* The state lock is modelled in StateLock: here a transaction is a step.  *)
(* Publishing it fails before or after the new file has its name.  The     *)
(* callers follow the protocol that the comments of queue.ts state.        *)
(***************************************************************************)
EXTENDS Naturals, FiniteSets

CONSTANTS Callers,    \* dispatchers and steerers of one Agent process
          Threads,    \* tasks that messages are queued for
          MaxItems,   \* bound on the messages ever queued
          MaxStops,   \* bound on the stops of an Agent of either release
          MaxFaults   \* bound on the transactions that fail

VARIABLES file,       \* the published database
          up,         \* "down", "old", "opened" (migrated) or "up"
          call,       \* where each caller is with which message
          added,      \* how many messages were ever queued
          sent,       \* ghost: how often each message was sent to Codex
          recorded,   \* ghost: the old release recorded a thread/start claim
          stops, faults

vars == <<file, up, call, added, sent, recorded, stops, faults>>

Absent == "none"
Ids == 1 .. MaxItems
Final == {"completed", "abandoned"}
Waiting == {"pending", "running", "paused"}
NoRow == [status |-> Absent, thread |-> Absent]
NoClaim == [op |-> Absent, thread |-> Absent, outcome |-> Absent]
Idle == [at |-> "idle", id |-> 0, op |-> Absent, prev |-> Absent]

----------------------------------------------------------------------------
(* What the database says.  rows is queue_items: the physical status and   *)
(* the task; states and claims are the tables an old release ignores;      *)
(* secrets are the replay rows with a one-time answer in them, starts the  *)
(* table of thread/start claims of one unreleased build and mutations the  *)
(* table that took its place.                                              *)

Database ==
  [kind : {"legacy", "newer"}, version : {4, 5}, tables : BOOLEAN,
   rows : [Ids -> {NoRow} \cup [status : {"done"} \cup Waiting, thread : Threads]],
   states : [Ids -> {Absent} \cup Waiting],
   claims : [Ids -> {NoClaim} \cup
               [op : {"turn/start", "turn/steer", "legacy"}, thread : Threads,
                outcome : {Absent, "indeterminate"} \cup Final]],
   secrets : BOOLEAN, starts : BOOLEAN, mutations : BOOLEAN]

Unresolved(db, i) == db.claims[i] # NoClaim /\ db.claims[i].outcome \notin Final

\* A row an old release left as its own: physically not done.
Raw(db) == {i \in Ids : db.rows[i] # NoRow /\ db.rows[i].status # "done"}

\* The messages of a task that can still be consumed.
Unconsumed(db, t) ==
  {i \in Ids : /\ db.rows[i] # NoRow /\ db.rows[i].status = "done"
               /\ db.rows[i].thread = t
               /\ db.claims[i] = NoClaim /\ db.states[i] \in Waiting}

MutEarliest(db, t) == Unconsumed(db, t)

earliestUnconsumedQueueItem(db, t) ==
  {i \in Unconsumed(db, t) : \A j \in Unconsumed(db, t) : i <= j}

hasUnresolvedConsumption(db, t) ==
  \E i \in Ids : /\ Unresolved(db, i) /\ db.claims[i].thread = t
                 /\ db.rows[i] # NoRow

\* The guard of every update of a logical state: the row is the new release's
\* and nothing has been claimed for it.
Unclaimed(db, i) ==
  db.rows[i] # NoRow /\ db.rows[i].status = "done" /\ db.claims[i] = NoClaim

\* The status a row is shown with.
parseRow(db, i) ==
  CASE Unresolved(db, i) /\ db.claims[i].outcome = Absent -> "delivering"
    [] Unresolved(db, i) /\ db.claims[i].outcome # Absent -> "indeterminate"
    [] Unclaimed(db, i) /\ db.states[i] \in Waiting -> db.states[i]
    [] OTHER -> "done"

----------------------------------------------------------------------------
(* Transactions.                                                           *)

MutLoads(db) == TRUE

\* HostStateStore.#reload refuses a file of another kind or version.
Loads(db) == db.kind = "legacy" /\ db.version = 4

\* transaction and #persist: the new database is published, or the caller gets
\* an error with or without the file having been replaced.
Publish(db, result) ==
  \/ result = "ok" /\ Loads(file) /\ file' = db /\ UNCHANGED faults
  \/ result = "error" /\ ~Loads(file) /\ UNCHANGED <<file, faults>>
  \/ /\ result = "error" /\ Loads(file) /\ faults < MaxFaults
     /\ faults' = faults + 1
     /\ file' \in {file, db}

\* An operation that throws is rolled back.
Throws(result) == result = "error" /\ UNCHANGED <<file, faults>>

SetState(db, i, s) == [db EXCEPT !.states[i] = s]

AllDone(db) ==
  [db EXCEPT !.rows = [i \in Ids |->
     IF db.rows[i] # NoRow /\ db.claims[i] # NoClaim
     THEN [db.rows[i] EXCEPT !.status = "done"] ELSE db.rows[i]]]

MutIndeterminate(db, i) == [db EXCEPT !.claims[i] = NoClaim, !.states[i] = "paused"]

\* What repairing a claim that has no final outcome leaves.
Indeterminate(db, i) ==
  AllDone([db EXCEPT !.claims[i].outcome = "indeterminate", !.states[i] = Absent])

----------------------------------------------------------------------------
(* Opening the store.                                                      *)

MutSchemaReady(db) == db.version = 4 /\ db.tables

schemaReady(db) == db.version = 4 /\ db.tables /\ Raw(db) = {} /\ ~db.starts

\* There are replay rows that hold, or may hold, a one-time answer.
sensitiveIdempotencyKeys(db) == db.secrets

legacyQueueConsumptionIdentity(db, i) ==
  [op |-> "legacy", thread |-> db.rows[i].thread, outcome |-> "indeterminate"]

\* The rows an old release created or touched cannot be proved unsent.
Quarantine(db, i) ==
  IF db.claims[i] = NoClaim THEN legacyQueueConsumptionIdentity(db, i)
  ELSE IF Unresolved(db, i) THEN [db.claims[i] EXCEPT !.outcome = "indeterminate"]
  ELSE db.claims[i]

Migrated(db) ==
  [db EXCEPT
     !.version = 4, !.tables = TRUE, !.secrets = FALSE,
     !.mutations = db.mutations \/ db.starts, !.starts = FALSE,
     !.states = [i \in Ids |-> IF i \in Raw(db) THEN Absent ELSE db.states[i]],
     !.claims = [i \in Ids |-> IF i \in Raw(db) THEN Quarantine(db, i) ELSE db.claims[i]],
     !.rows = [i \in Ids |-> IF i \in Raw(db)
                             THEN [db.rows[i] EXCEPT !.status = "done"] ELSE db.rows[i]]]

\* HostStateStore.open with #migrate; what fails leaves the Agent down, with
\* the file replaced or not.
Open ==
  /\ up = "down" /\ file.kind = "legacy"
  /\ \/ /\ schemaReady(file) /\ ~sensitiveIdempotencyKeys(file)
        /\ up' = "opened" /\ UNCHANGED <<file, faults>>
     \/ /\ ~(schemaReady(file) /\ ~sensitiveIdempotencyKeys(file))
        /\ up' = "opened" /\ file' = Migrated(file) /\ UNCHANGED faults
     \/ /\ ~(schemaReady(file) /\ ~sensitiveIdempotencyKeys(file))
        /\ faults < MaxFaults /\ faults' = faults + 1
        /\ up' = "down" /\ file' = Migrated(file)
  /\ UNCHANGED <<call, added, sent, recorded, stops>>

\* QueueRegistry.pauseInterruptedClaims, before anything is dispatched.
Interrupted(db) ==
  LET marked == [db EXCEPT
        !.claims = [i \in Ids |-> IF Unresolved(db, i)
                     THEN [db.claims[i] EXCEPT !.outcome = "indeterminate"]
                     ELSE db.claims[i]],
        !.states = [i \in Ids |->
                     CASE db.claims[i] # NoClaim -> Absent
                       [] db.states[i] = "running" /\ Unclaimed(db, i) -> "paused"
                       [] OTHER -> db.states[i]]]
  IN  AllDone(marked)

PauseInterruptedClaims ==
  /\ up = "opened"
  /\ \E result \in {"ok", "error"} :
       /\ Publish(Interrupted(file), result)
       /\ up' = IF result = "ok" THEN "up" ELSE "down"
  /\ UNCHANGED <<call, added, sent, recorded, stops>>

----------------------------------------------------------------------------
(* The queue.                                                              *)

Idling(c) == up = "up" /\ call[c].at = "idle"
At(c, where) == up = "up" /\ call[c].at = where
Goes(c, where) == call' = [call EXCEPT ![c] = IF where = "idle" THEN Idle ELSE [@ EXCEPT !.at = where]]

Add(t) ==
  /\ up = "up" /\ added < MaxItems
  /\ \E result \in {"ok", "error"} :
       Publish([file EXCEPT !.rows[added + 1] = [status |-> "done", thread |-> t],
                            !.states[added + 1] = "pending"], result)
  /\ added' = added + 1
  /\ UNCHANGED <<up, call, sent, recorded, stops>>

\* claimNext and claimForSteer reserve a message; when publishing fails the
\* reservation is taken back, whether or not the file has it.
Reserve(c, i, op) ==
  LET held == [at |-> "reserved", id |-> i, op |-> op, prev |-> file.states[i]]
  IN  \E result \in {"ok", "error"} :
        /\ Publish(SetState(file, i, "running"), result)
        /\ call' = [call EXCEPT ![c] =
             IF result = "ok" THEN held
             ELSE IF Loads(file) THEN [held EXCEPT !.at = "restoring"] ELSE Idle]
        /\ UNCHANGED <<up, added, sent, recorded, stops>>

ClaimNext(c, t) ==
  /\ Idling(c)
  /\ ~hasUnresolvedConsumption(file, t)
  /\ \E i \in earliestUnconsumedQueueItem(file, t) :
       file.states[i] = "pending" /\ Reserve(c, i, "turn/start")

ClaimForSteer(c, i) ==
  /\ Idling(c)
  /\ parseRow(file, i) \in {"pending", "paused"}
  /\ ~hasUnresolvedConsumption(file, file.rows[i].thread)
  /\ i \in earliestUnconsumedQueueItem(file, file.rows[i].thread)
  /\ Reserve(c, i, "turn/steer")

\* pause, restoreSteerClaim, and what the caller of a failed claim does.
GiveUp(c) ==
  /\ At(c, "reserved")
  /\ \E prev \in {call[c].prev, "paused"} :
       call' = [call EXCEPT ![c].at = "restoring", ![c].prev = prev]
  /\ UNCHANGED <<file, up, added, sent, recorded, stops, faults>>

Restored(db, i, s) ==
  IF db.states[i] = "running" /\ Unclaimed(db, i) THEN SetState(db, i, s) ELSE db

RestoreUnconsumedReservation(c) ==
  /\ At(c, "restoring")
  /\ \E result \in {"ok", "error"} :
       Publish(Restored(file, call[c].id, call[c].prev), result)
  /\ Goes(c, "idle")
  /\ UNCHANGED <<up, added, sent, recorded, stops>>

\* beginConsumption: the durable claim, before anything is sent.
BeginConsumption(c) ==
  LET i == call[c].id
      claim == [op |-> call[c].op, thread |-> file.rows[i].thread, outcome |-> Absent]
  IN
  /\ At(c, "reserved")
  /\ \E result \in {"ok", "error"} :
       /\ IF Loads(file) /\ parseRow(file, i) # "running"
          THEN Throws(result)
          ELSE Publish([file EXCEPT !.claims[i] = claim, !.states[i] = Absent], result)
       /\ Goes(c, IF result = "ok" THEN "claimed" ELSE "unsure")
  /\ UNCHANGED <<up, added, sent, recorded, stops>>

\* repairConsumptionIndeterminate, after a claim whose publication is unknown.
RepairConsumptionIndeterminate(c) ==
  LET i == call[c].id IN
  /\ At(c, "unsure")
  /\ \E result \in {"ok", "error"} :
       /\ Publish(IF Unresolved(file, i) THEN Indeterminate(file, i) ELSE file, result)
       /\ Goes(c, CASE result = "error" -> "unsure"
                    [] file.claims[i] = NoClaim -> "missing"
                    [] OTHER -> "idle")
  /\ UNCHANGED <<up, added, sent, recorded, stops>>

PauseMissingConsumptionReservation(c) ==
  LET i == call[c].id IN
  /\ At(c, "missing")
  /\ \E result \in {"ok", "error"} :
       /\ Publish(Restored(file, i, "paused"), result)
       /\ Goes(c, IF result = "error" THEN "missing"
                  ELSE IF file.claims[i] # NoClaim THEN "unsure" ELSE "idle")
  /\ UNCHANGED <<up, added, sent, recorded, stops>>

\* The request to Codex (external): it is sent once its claim is published.
Send(c) ==
  /\ At(c, "claimed")
  /\ sent' = [sent EXCEPT ![call[c].id] = @ + 1]
  /\ Goes(c, "sent")
  /\ UNCHANGED <<file, up, added, recorded, stops, faults>>

CompleteConsumption(c) ==
  LET i == call[c].id IN
  /\ At(c, "sent")
  /\ \E result \in {"ok", "error"} :
       /\ IF Loads(file) /\ (file.claims[i] = NoClaim \/ file.claims[i].outcome # Absent)
          THEN Throws(result)
          ELSE Publish([file EXCEPT !.claims[i].outcome = "completed"], result)
       /\ Goes(c, IF result = "ok" THEN "idle" ELSE "ensuring")
  /\ UNCHANGED <<up, added, sent, recorded, stops>>

\* ensureConsumptionIndeterminate, when no answer came or it was not recorded.
Ensured(db, i, op) ==
  IF db.claims[i] = NoClaim
  THEN [db EXCEPT !.claims[i] = [op |-> op, thread |-> db.rows[i].thread,
                                 outcome |-> "indeterminate"],
                  !.states[i] = Absent]
  ELSE IF Unresolved(db, i) THEN Indeterminate(db, i) ELSE db

EnsureConsumptionIndeterminate(c) ==
  /\ up = "up" /\ call[c].at \in {"sent", "ensuring"}
  /\ \E result \in {"ok", "error"} :
       /\ Publish(Ensured(file, call[c].id, call[c].op), result)
       /\ Goes(c, IF result = "ok" THEN "idle" ELSE "ensuring")
  /\ UNCHANGED <<up, added, sent, recorded, stops>>

\* markConsumptionIndeterminate, when the request was given up unsent.
MarkConsumptionIndeterminate(c) ==
  /\ At(c, "claimed")
  /\ Goes(c, "unsure")
  /\ UNCHANGED <<file, up, added, sent, recorded, stops, faults>>

\* remove, with the user's acknowledgement of an unknown outcome or without.
Removable(db, i) == parseRow(db, i) \in {"pending", "paused"}

Acknowledgeable(db, i) ==
  /\ db.claims[i] # NoClaim
  /\ db.claims[i].outcome = "indeterminate"
  /\ db.rows[i] # NoRow /\ db.rows[i].status = "done"

Remove(i) ==
  /\ up = "up"
  /\ \E result \in {"ok", "error"} :
       \/ /\ Removable(file, i)
          /\ Publish([file EXCEPT !.rows[i] = NoRow, !.states[i] = Absent], result)
       \/ /\ Acknowledgeable(file, i)
          /\ Publish([file EXCEPT !.rows[i] = NoRow, !.states[i] = Absent,
                                  !.claims[i].outcome = "abandoned"], result)
  /\ UNCHANGED <<up, call, added, sent, recorded, stops>>

PausePending(t) ==
  /\ up = "up"
  /\ \E result \in {"ok", "error"} :
       Publish([file EXCEPT !.states = [i \in Ids |->
                  IF i \in Unconsumed(file, t) /\ file.states[i] = "pending"
                  THEN "paused" ELSE file.states[i]]], result)
  /\ UNCHANGED <<up, call, added, sent, recorded, stops>>

----------------------------------------------------------------------------
(* Stops, and the older release, which knows only queue_items.             *)

Stop ==
  /\ up \in {"up", "old"} /\ stops < MaxStops
  /\ stops' = stops + 1
  /\ up' = "down"
  /\ call' = [c \in Callers |-> Idle]
  /\ UNCHANGED <<file, added, sent, recorded, faults>>

RollBack ==
  /\ up = "down" /\ file.kind = "legacy" /\ file.version = 4
  /\ up' = "old"
  /\ UNCHANGED <<file, call, added, sent, recorded, stops, faults>>

OldWrites(db) ==
  /\ up = "old" /\ file' = db
  /\ UNCHANGED <<up, call, stops, faults>>

OldAdds(t) ==
  /\ added < MaxItems
  /\ added' = added + 1
  /\ OldWrites([file EXCEPT !.rows[added + 1] = [status |-> "pending", thread |-> t]])
  /\ UNCHANGED <<sent, recorded>>

\* It sends a message it reserved, and records the end only afterwards.
OldMoves(i) ==
  /\ file.rows[i] # NoRow
  /\ \/ /\ file.rows[i].status = "pending"
        /\ OldWrites([file EXCEPT !.rows[i].status = "running"])
        /\ sent' = [sent EXCEPT ![i] = @ + 1]
     \/ /\ file.rows[i].status = "running"
        /\ \E s \in {"done", "paused"} : OldWrites([file EXCEPT !.rows[i].status = s])
        /\ UNCHANGED sent
  /\ UNCHANGED <<added, recorded>>

\* Replay rows with one-time answers, and the claims of an unreleased build,
\* which called its schema version 5.
OldRecords ==
  /\ ~recorded
  /\ recorded' = TRUE
  /\ OldWrites([file EXCEPT !.secrets = TRUE, !.starts = TRUE, !.version = 5])
  /\ UNCHANGED <<added, sent>>

\* The explicit migration to the schema of the present Agent.
Upgrade ==
  /\ up # "old" /\ file.kind = "legacy"
  /\ file' = [file EXCEPT !.kind = "newer"]
  /\ UNCHANGED <<up, call, added, sent, recorded, stops, faults>>

----------------------------------------------------------------------------
Empty ==
  [kind |-> "legacy", version |-> 4, tables |-> FALSE,
   rows |-> [i \in Ids |-> NoRow], states |-> [i \in Ids |-> Absent],
   claims |-> [i \in Ids |-> NoClaim],
   secrets |-> FALSE, starts |-> FALSE, mutations |-> FALSE]

Init ==
  /\ file = Empty
  /\ up = "down" /\ call = [c \in Callers |-> Idle]
  /\ added = 0 /\ sent = [i \in Ids |-> 0] /\ recorded = FALSE
  /\ stops = 0 /\ faults = 0

CallerNext(c) ==
  \/ \E t \in Threads : ClaimNext(c, t)
  \/ \E i \in Ids : ClaimForSteer(c, i)
  \/ GiveUp(c)
  \/ RestoreUnconsumedReservation(c)
  \/ BeginConsumption(c)
  \/ RepairConsumptionIndeterminate(c)
  \/ PauseMissingConsumptionReservation(c)
  \/ Send(c)
  \/ CompleteConsumption(c)
  \/ EnsureConsumptionIndeterminate(c)
  \/ MarkConsumptionIndeterminate(c)

Next ==
  \/ Open
  \/ PauseInterruptedClaims
  \/ \E t \in Threads : Add(t) \/ PausePending(t) \/ OldAdds(t)
  \/ \E i \in Ids : Remove(i) \/ OldMoves(i)
  \/ \E c \in Callers : CallerNext(c)
  \/ Stop
  \/ RollBack
  \/ OldRecords
  \/ Upgrade

Spec == Init /\ [][Next]_vars

----------------------------------------------------------------------------
(* Properties.                                                             *)

TypeOK ==
  /\ file \in Database
  /\ up \in {"down", "old", "opened", "up"}
  /\ call \in [Callers -> [at : {"idle", "reserved", "restoring", "claimed", "sent",
                                 "unsure", "missing", "ensuring"},
                           id : 0 .. MaxItems,
                           op : {Absent, "turn/start", "turn/steer"},
                           prev : {Absent, "pending", "paused"}]]
  /\ added \in 0 .. MaxItems
  /\ sent \in [Ids -> Nat]
  /\ recorded \in BOOLEAN

\* No queued message is sent twice, whoever queued it, however often the
\* release was rolled back and whatever transaction was reported as failed
\* although it was published (QueueRegistry.beginConsumption, #migrate).
SentOnce == \A i \in Ids : sent[i] <= 1

\* The messages of a task leave in the order they were queued, one at a time:
\* when one was sent by this release no earlier one still waits, and at most
\* one is reserved or has an outcome that is not final (claimNext,
\* claimForSteer, hasUnresolvedConsumption, earliestUnconsumedQueueItem).
OneInFlight ==
  \A t \in Threads :
    /\ Cardinality({i \in Ids :
         /\ file.rows[i] # NoRow /\ file.rows[i].thread = t
         /\ \/ file.states[i] = "running"
            \/ Unresolved(file, i) /\ file.claims[i].op # "legacy"}) <= 1
    /\ \A i, j \in Ids :
         (/\ i < j /\ i \in Unconsumed(file, t)
          /\ file.rows[j] # NoRow /\ file.rows[j].thread = t)
            => ~(file.claims[j] # NoClaim /\ file.claims[j].op # "legacy" /\ sent[j] > 0)

\* While this release works on the store nothing the older one left can be
\* taken for its own: no row is physically waiting, no replay row holds a
\* one-time answer, and a thread/start the old build claimed stays claimed
\* (HostStateStore.#migrate, on every upgrade and after every rollback).
OldStateQuarantined ==
  (up \in {"opened", "up"} /\ Loads(file)) =>
     /\ Raw(file) = {}
     /\ ~file.secrets
     /\ recorded => file.mutations

\* A database of the newer kind is never overwritten, also not by a store that
\* was opened before the migration (HostStateStore.#reload).
NewerIsKept == file.kind = "newer" => file' = file
=============================================================================
