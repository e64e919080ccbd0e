------------------------ MODULE MutationClientProofs ------------------------
(***************************************************************************)
(* Proofs about MutationReceipts and MutationClient, for every set of      *)
(* requests and operation keys, every retention time, every number of      *)
(* transports and every bound on crashes, failures and the clock.  First   *)
(* the Agent, whose requests may come at any time: the inductive           *)
(* invariant, what follows from it, and that the middleware with its       *)
(* receipts implements DurableOperation.  Then the page: the Agent behind  *)
(* the connections behaves as MutationReceipts says, and what the page     *)
(* tells its user is so.                                                   *)
(***************************************************************************)
EXTENDS MutationClient, TLAPS

USE RequestsAssumption, ClockAssumption, MaxFaultsAssumption

-----------------------------------------------------------------------------
(***************************************************************************)
(* The receipts                                                            *)
(***************************************************************************)
(* What a transaction of SqliteStateFile leaves in memory and on disk. *)
LEMMA TransactionCases ==
    ASSUME NEW new, NEW o \in TxOutcome, Transaction(new, o),
           faults \in 0 .. MaxFaults
    PROVE  /\ faults' \in 0 .. MaxFaults
           /\ o = "aborted" => mem' = mem
           /\ o # "aborted" => mem' = new
           /\ o \in {"ok", "unreported"} => disk' = new
           /\ o \notin {"ok", "unreported"} => disk' = disk
           /\ faults' = 0 => faults = 0 /\ o = "ok"
  BY DEF Transaction, TxOutcome

(* What the operators of MutationReceiptRepository make of the receipts. *)
LEMMA ReceiptOperators ==
    ASSUME mem \in [Keys -> Receipt], now \in Nat,
           outcome \in [Requests -> {"none", "success", "error"}],
           NEW r \in Requests
    PROVE  /\ NoReceipt \in Receipt
           /\ pruneExpired \in [Keys -> Receipt]
           /\ insertReceipt(r) \in Receipt
           /\ completeReceipt(r) \in [Keys -> Receipt]
           /\ markReceipt(r) \in [Keys -> Receipt]
           /\ recoverPendingReceipts \in [Keys -> Receipt]
<1>1. NoReceipt \in Receipt
  BY DEF NoReceipt, Receipt
<1>2. pruneExpired \in [Keys -> Receipt]
  BY <1>1 DEF pruneExpired
<1>3. insertReceipt(r) \in Receipt
  BY DEF insertReceipt, Receipt, Inputs
<1>4. completeReceipt(r) \in [Keys -> Receipt]
  <2>1. mem[KeyOf[r]] \in Receipt /\ now + TTL \in Nat
    OBVIOUS
  <2>2. [mem[KeyOf[r]] EXCEPT !.status = "completed", !.kind = outcome[r],
                              !.exp = now + TTL] \in Receipt
    BY <2>1 DEF Receipt
  <2>3. QED
    BY <2>2 DEF completeReceipt
<1>5. markReceipt(r) \in [Keys -> Receipt]
  BY DEF markReceipt, Receipt
<1>6. recoverPendingReceipts \in [Keys -> Receipt]
  BY DEF recoverPendingReceipts, Receipt
<1>7. QED
  BY <1>1, <1>2, <1>3, <1>4, <1>5, <1>6

-----------------------------------------------------------------------------
(***************************************************************************)
(* Type correctness                                                        *)
(***************************************************************************)
(* Answering everyone who shares a promise keeps the types. *)
LEMMA SettleType ==
    ASSUME MutationTypeOK, NEW r \in Requests, NEW a \in Answers,
           NEW q \in Requests \cup {None}, Settle(r, a, q)
    PROVE  /\ pc' \in [Requests -> Labels]
           /\ inflight' \in [Keys -> Requests \cup {None}]
           /\ answer' \in [Requests -> Answers]
           /\ from' \in [Requests -> Requests \cup {None}]
           /\ up' = up /\ outcome' = outcome
  BY DEF MutationTypeOK, Settle, Labels

(* Every step of the requests, the clock and the state file keeps every
   variable in its type. *)
LEMMA TypeStep == MutationInv /\ [MutationNext]_mutationVars => MutationTypeOK'
<1> SUFFICES ASSUME MutationInv, [MutationNext]_mutationVars
             PROVE  MutationTypeOK'
  OBVIOUS
<1>0. MutationTypeOK
  BY DEF MutationInv
<1>a. /\ mem \in [Keys -> Receipt] /\ disk \in [Keys -> Receipt]
      /\ now \in Nat /\ outcome \in [Requests -> {"none", "success", "error"}]
  BY <1>0 DEF MutationTypeOK
<1>1. ASSUME NEW o \in TxOutcome, Recover(o) PROVE MutationTypeOK'
  <2>1. recoverPendingReceipts \in [Keys -> Receipt]
    <3>1. \A row \in Receipt : [row EXCEPT !.status = "indeterminate"] \in Receipt
      BY DEF Receipt
    <3>2. QED
      BY <1>a, <3>1 DEF recoverPendingReceipts
  <2>2. up' \in BOOLEAN
    BY <1>1, Zenon DEF Recover
  <2>3. QED
    BY <1>0, <1>1, <2>1, <2>2 DEF MutationTypeOK, Recover, StartupTransaction, historyFrame
<1>2. ASSUME NEW o \in TxOutcome, Status(o) PROVE MutationTypeOK'
  <2>1. pruneExpired \in [Keys -> Receipt]
    BY <1>a DEF pruneExpired, NoReceipt, Receipt
  <2>2. /\ mem' \in [Keys -> Receipt] /\ disk' \in [Keys -> Receipt]
        /\ faults' \in 0 .. MaxFaults
    BY <1>0, <1>2, <2>1, TransactionCases DEF MutationTypeOK, Status
  <2>3. pruned' \subseteq Requests \cup {None}
    BY <1>0, <1>2 DEF MutationTypeOK, Status, ExpiredRuns, Receipt
  <2>4. QED
    BY <1>0, <1>2, <2>2, <2>3 DEF MutationTypeOK, Status, middlewareVars
<1>3. CASE Crash
  <2>1. pc' \in [Requests -> Labels] /\ up' \in BOOLEAN
    BY <1>0, <1>3 DEF MutationTypeOK, Crash, Labels
  <2>2. QED
    BY <1>0, <1>3, <2>1 DEF MutationTypeOK, Crash, LoseMemory
<1>4. CASE Tick
  BY <1>0, <1>4 DEF MutationTypeOK, Tick, receiptVars, middlewareVars
<1>5. CASE FileStep
  BY <1>0, <1>5 DEF MutationTypeOK, FileStep, OtherCommit, ForeignCommit, middlewareVars
<1>6. ASSUME NEW r \in Requests, Arrive(r) PROVE MutationTypeOK'
  BY <1>0, <1>6 DEF MutationTypeOK, Arrive, Goto, receiptVars, historyFrame,
                    Labels, Answers
<1>7. ASSUME NEW r \in Requests, Execute(r) PROVE MutationTypeOK'
  BY <1>0, <1>7 DEF MutationTypeOK, Execute, Goto, receiptVars, Labels
<1>8. ASSUME NEW r \in Requests, NEW kind \in {"none", "success", "error"},
             Return(r, kind)
      PROVE  MutationTypeOK'
  BY <1>0, <1>8 DEF MutationTypeOK, Return, Goto, receiptVars, historyFrame, Labels
<1>9. ASSUME NEW r \in Requests, NEW o \in TxOutcome, Claim(r, o)
      PROVE  MutationTypeOK'
  <2> DEFINE row == pruneExpired[KeyOf[r]]
             new == IF Executable(row)
                    THEN [pruneExpired EXCEPT ![KeyOf[r]] = insertReceipt(r)]
                    ELSE pruneExpired
  <2>1. pruneExpired \in [Keys -> Receipt] /\ insertReceipt(r) \in Receipt
    BY <1>a, ReceiptOperators
  <2>2. row \in Receipt /\ new \in [Keys -> Receipt]
    BY <2>1
  <2>3. NoTransaction \/ Transaction(new, o)
    BY <1>9 DEF Claim
  <2>4. /\ mem' \in [Keys -> Receipt] /\ disk' \in [Keys -> Receipt]
        /\ faults' \in 0 .. MaxFaults
    BY <1>0, <2>2, <2>3, TransactionCases DEF MutationTypeOK, NoTransaction
  <2>5. ran' = ran /\ now' = now /\ crashes' = crashes
    BY <1>9 DEF Claim
  <2>6. pruned' \subseteq Requests \cup {None}
    <3>1. ExpiredRuns \subseteq Requests \cup {None}
      BY <1>a DEF ExpiredRuns, Receipt
    <3>2. QED
      BY <1>0, <1>9, <3>1 DEF MutationTypeOK, Claim
  <2>7. \/ \E a \in Answers, q \in Requests \cup {None} : Settle(r, a, q)
        \/ Goto(r, "run") /\ UNCHANGED <<up, inflight, outcome, answer, from>>
    <3>1. row.kind \in Answers /\ row.by \in Requests \cup {None}
      BY <2>2 DEF Receipt, Answers
    <3>2. {"reused", "internal", "pending", "unknown"} \subseteq Answers
      BY DEF Answers
    <3>3. \/ Settle(r, "reused", None) \/ Settle(r, "internal", None)
          \/ Settle(r, row.kind, row.by) \/ Settle(r, "pending", None)
          \/ Settle(r, "unknown", None)
          \/ Goto(r, "run") /\ UNCHANGED <<up, inflight, outcome, answer, from>>
      BY <1>9, Zenon DEF Claim
    <3>4. QED
      BY <3>1, <3>2, <3>3, Zenon
  <2>8. CASE Goto(r, "run") /\ UNCHANGED <<up, inflight, outcome, answer, from>>
    BY <1>0, <2>4, <2>5, <2>6, <2>8 DEF MutationTypeOK, Goto, Labels
  <2>9. ASSUME NEW a \in Answers, NEW q \in Requests \cup {None}, Settle(r, a, q)
        PROVE  MutationTypeOK'
    <3>1. /\ pc' \in [Requests -> Labels]
          /\ inflight' \in [Keys -> Requests \cup {None}]
          /\ answer' \in [Requests -> Answers]
          /\ from' \in [Requests -> Requests \cup {None}]
          /\ up' = up /\ outcome' = outcome
      BY <1>0, <2>9, SettleType
    <3>2. QED
      BY <1>0, <2>4, <2>5, <2>6, <3>1 DEF MutationTypeOK
  <2>10. QED
    BY <2>7, <2>8, <2>9
<1>10. ASSUME NEW r \in Requests, NEW o \in TxOutcome, Complete(r, o)
       PROVE  MutationTypeOK'
  <2>1. completeReceipt(r) \in [Keys -> Receipt]
    BY <1>a, ReceiptOperators
  <2>2. NoTransaction \/ Transaction(completeReceipt(r), o)
    BY <1>10 DEF Complete
  <2>3. /\ mem' \in [Keys -> Receipt] /\ disk' \in [Keys -> Receipt]
        /\ faults' \in 0 .. MaxFaults
    BY <1>0, <2>1, <2>2, TransactionCases DEF MutationTypeOK, NoTransaction
  <2>4. CASE Settle(r, outcome[r], r)
    <3>1. outcome[r] \in Answers
      BY <1>a DEF Answers
    <3>2. /\ pc' \in [Requests -> Labels]
          /\ inflight' \in [Keys -> Requests \cup {None}]
          /\ answer' \in [Requests -> Answers]
          /\ from' \in [Requests -> Requests \cup {None}]
          /\ up' = up /\ outcome' = outcome
      BY <1>0, <2>4, <3>1, SettleType
    <3>3. QED
      BY <1>0, <1>10, <2>3, <3>2 DEF MutationTypeOK, Complete, historyFrame
  <2>5. CASE Goto(r, "mark") /\ UNCHANGED <<up, inflight, outcome, answer, from>>
    BY <1>0, <1>10, <2>3, <2>5 DEF MutationTypeOK, Complete, Goto, historyFrame, Labels
  <2>6. QED
    BY <1>10, <2>4, <2>5 DEF Complete
<1>11. ASSUME NEW r \in Requests, NEW o \in TxOutcome, MarkIndeterminate(r, o)
       PROVE  MutationTypeOK'
  <2>1. markReceipt(r) \in [Keys -> Receipt]
    BY <1>a, ReceiptOperators
  <2>2. /\ mem' \in [Keys -> Receipt] /\ disk' \in [Keys -> Receipt]
        /\ faults' \in 0 .. MaxFaults
    BY <1>0, <1>11, <2>1, TransactionCases DEF MutationTypeOK, MarkIndeterminate
  <2>3. "unknown" \in Answers
    BY DEF Answers
  <2>4. /\ pc' \in [Requests -> Labels]
        /\ inflight' \in [Keys -> Requests \cup {None}]
        /\ answer' \in [Requests -> Answers]
        /\ from' \in [Requests -> Requests \cup {None}]
        /\ up' = up /\ outcome' = outcome
    BY <1>0, <1>11, <2>3, SettleType DEF MarkIndeterminate
  <2>5. QED
    BY <1>0, <1>11, <2>2, <2>4 DEF MutationTypeOK, MarkIndeterminate, historyFrame
<1>12. CASE UNCHANGED mutationVars
  BY <1>0, <1>12 DEF MutationTypeOK, mutationVars, receiptVars, middlewareVars
<1>13. QED
  BY <1>1, <1>2, <1>3, <1>4, <1>5, <1>6, <1>7, <1>8, <1>9, <1>10, <1>11, <1>12
  DEF MutationNext, RequestStep

-----------------------------------------------------------------------------
(***************************************************************************)
(* The receipts in memory and on disk                                      *)
(***************************************************************************)
(* What a change of status, and what the storage of an outcome, leaves alone
   in a receipt. *)
LEMMA ReceiptFields ==
    ASSUME NEW row \in Receipt, NEW x, NEW t
    PROVE  LET marked == [row EXCEPT !.status = "indeterminate"]
               done   == [row EXCEPT !.status = "completed", !.kind = x, !.exp = t]
           IN  /\ marked.by = row.by /\ marked.input = row.input
               /\ marked.kind = row.kind /\ marked.exp = row.exp
               /\ marked.status = "indeterminate"
               /\ done.by = row.by /\ done.input = row.input
               /\ done.status = "completed" /\ done.kind = x /\ done.exp = t
  BY DEF Receipt

(* recoverPending turns the pending receipts into indeterminate ones. *)
LEMMA RecoveredRows ==
    ASSUME mem \in [Keys -> Receipt], NEW k \in Keys
    PROVE  LET new == recoverPendingReceipts[k]
           IN  /\ new.by = mem[k].by /\ new.input = mem[k].input
               /\ new.kind = mem[k].kind /\ new.exp = mem[k].exp
               /\ new.status = IF mem[k].status = "pending" THEN "indeterminate"
                                                            ELSE mem[k].status
<1>1. recoverPendingReceipts[k] =
          IF mem[k].status = "pending" THEN [mem[k] EXCEPT !.status = "indeterminate"]
                                       ELSE mem[k]
  BY DEF recoverPendingReceipts
<1>2. mem[k] \in Receipt
  OBVIOUS
<1>3. QED
  BY <1>1, <1>2, ReceiptFields

(* markIndeterminate turns the request's own pending receipt into one. *)
LEMMA MarkedRows ==
    ASSUME mem \in [Keys -> Receipt], NEW r \in Requests, NEW k \in Keys
    PROVE  LET new == markReceipt(r)[k]
           IN  /\ new.by = mem[k].by /\ new.input = mem[k].input
               /\ new.kind = mem[k].kind /\ new.exp = mem[k].exp
               /\ new.status = IF OwnPending(r) /\ k = KeyOf[r] THEN "indeterminate"
                                                                ELSE mem[k].status
<1>1. markReceipt(r)[k] =
          IF OwnPending(r) /\ k = KeyOf[r]
          THEN [mem[k] EXCEPT !.status = "indeterminate"] ELSE mem[k]
  BY DEF markReceipt
<1>2. mem[k] \in Receipt
  OBVIOUS
<1>3. QED
  BY <1>1, <1>2, ReceiptFields

(* complete stores the outcome in the receipt of the request's key. *)
LEMMA CompletedRows ==
    ASSUME mem \in [Keys -> Receipt], NEW r \in Requests, NEW k \in Keys
    PROVE  LET new == completeReceipt(r)[k]
           IN  /\ new.by = mem[k].by /\ new.input = mem[k].input
               /\ k # KeyOf[r] => new = mem[k]
               /\ k = KeyOf[r] => /\ new.status = "completed"
                                  /\ new.kind = outcome[r] /\ new.exp = now + TTL
<1>1. completeReceipt(r)[k] =
          IF k = KeyOf[r]
          THEN [mem[k] EXCEPT !.status = "completed", !.kind = outcome[r],
                              !.exp = now + TTL]
          ELSE mem[k]
  BY DEF completeReceipt
<1>2. mem[k] \in Receipt
  OBVIOUS
<1>3. QED
  BY <1>1, <1>2, ReceiptFields

(* Every step keeps what both copies of the receipts say of the requests. *)
LEMMA ReceiptsStep ==
    MutationInv /\ [MutationNext]_mutationVars => ReceiptsInv(mem)' /\ ReceiptsInv(disk)'
<1> SUFFICES ASSUME MutationInv, [MutationNext]_mutationVars
             PROVE  ReceiptsInv(mem)' /\ ReceiptsInv(disk)'
  OBVIOUS
<1> DEFINE Final(db) ==
             \A k \in Keys : db[k].status = "completed" =>
                 /\ db[k].by \in ran' /\ pc'[db[k].by] \in Concluded
                 /\ db[k].kind \in {"success", "error"}
                 /\ db[k].kind = outcome'[db[k].by]
                 /\ db[k].by \in pruned' => db[k].exp <= now'
           Executed(db) ==
             \A r \in ran' \ pruned' : db[KeyOf[r]].status # "absent" /\ db[KeyOf[r]].by = r
           Running(db, at) ==
             \A r \in Requests : at[r] \in {"run", "running", "complete"} =>
                 db[KeyOf[r]].status = "pending" /\ db[KeyOf[r]].by = r
           Stored(db) == ReceiptOwned(db) /\ Final(db) /\ Executed(db) /\ Running(db, pc)
           After(db) == ReceiptOwned(db) /\ Final(db) /\ Executed(db) /\ Running(db, pc')
           Quits == \A r \in Requests :
                        pc'[r] \in {"run", "running", "complete"} => pc'[r] = pc[r]
           Stays == \A r \in Requests : pc[r] \in Concluded => pc'[r] \in Concluded
<1>0. SUFFICES After(mem') /\ After(disk')
  BY DEF ReceiptsInv, ReceiptOwned, CompletedIsFinal, ExecutionRecorded
<1>a. /\ mem \in [Keys -> Receipt] /\ disk \in [Keys -> Receipt]
      /\ pc \in [Requests -> Labels] /\ now \in Nat
      /\ outcome \in [Requests -> {"none", "success", "error"}]
      /\ inflight \in [Keys -> Requests \cup {None}] /\ faults \in 0 .. MaxFaults
      /\ ran \subseteq Requests
  BY DEF MutationInv, MutationTypeOK
<1>b. /\ ReceiptOwned(mem) /\ CompletedIsFinal(mem) /\ ExecutionRecorded(mem)
      /\ ReceiptOwned(disk) /\ CompletedIsFinal(disk) /\ ExecutionRecorded(disk)
      /\ SameExpiry /\ InFlight /\ DownIsQuiet /\ Progressed
  BY DEF MutationInv, ReceiptsInv
<1>c. ASSUME UNCHANGED <<outcome, ran, pruned>>, now' \in Nat, now' >= now, Quits, Stays
      PROVE  After(mem) /\ After(disk)
  <2>1. \A k \in Keys : mem[k].exp \in Nat /\ disk[k].exp \in Nat
    BY <1>a DEF Receipt
  <2>2. QED
    BY <1>a, <1>b, <1>c, <2>1 DEF ReceiptOwned, CompletedIsFinal, ExecutionRecorded
<1>1. ASSUME NEW o \in TxOutcome, Recover(o) PROVE After(mem') /\ After(disk')
  <2> DEFINE new == recoverPendingReceipts
  <2>1. UNCHANGED <<outcome, ran, pruned, now, pc>> /\ ~up
    BY <1>1 DEF Recover, historyFrame
  <2>2. After(disk)
    BY <1>a, <1>c, <2>1
  <2>3. mem = disk /\ \A r \in Requests : pc[r] \in {"idle", "done", "lost"}
    BY <1>b, <2>1 DEF DownIsQuiet
  <2>4. After(new)
    <3>1. \A k \in Keys :
            /\ new[k].by = disk[k].by /\ new[k].input = disk[k].input
            /\ new[k].kind = disk[k].kind /\ new[k].exp = disk[k].exp
            /\ new[k].status = IF disk[k].status = "pending" THEN "indeterminate"
                                                             ELSE disk[k].status
      BY <1>a, <2>3, RecoveredRows
    <3>2. QED
      BY <1>a, <2>1, <2>2, <2>3, <3>1 DEF ReceiptOwned
  <2>5. (disk' = disk \/ disk' = new) /\ mem' = disk'
    BY <1>1 DEF Recover, StartupTransaction
  <2>6. QED
    BY <2>2, <2>4, <2>5
<1>d. ASSUME UNCHANGED <<ran, outcome, now>>, pruned' = pruned \cup ExpiredRuns, Stays
      PROVE  Stored(mem) /\ Stored(disk) /\ Stored(pruneExpired)
  <2>1. \A k \in Keys : mem[k].exp \in Nat /\ disk[k].exp \in Nat
    BY <1>a DEF Receipt
  <2>2. \A k \in Keys : mem[k].status = "completed" /\ mem[k].by \in ExpiredRuns =>
                            Expired(mem[k])
    BY <1>b DEF ReceiptOwned, ExpiredRuns, Expired
  <2>3. \A k \in Keys : disk[k].status = "completed" /\ disk[k].by \in ExpiredRuns =>
                            disk[k].exp <= now
    BY <1>b DEF ReceiptOwned, ExpiredRuns, Expired, SameExpiry
  <2>4. Stored(mem)
    BY <1>a, <1>b, <1>d, <2>2
    DEF ReceiptOwned, CompletedIsFinal, ExecutionRecorded, Expired
  <2>5. Stored(disk)
    BY <1>a, <1>b, <1>d, <2>3 DEF ReceiptOwned, CompletedIsFinal, ExecutionRecorded
  <2>6. Stored(pruneExpired)
    <3>1. \A k \in Keys : pruneExpired[k] = IF Expired(mem[k]) THEN NoReceipt ELSE mem[k]
      BY DEF pruneExpired
    <3>2. NoReceipt.status = "absent"
      BY DEF NoReceipt
    <3>3. \A r \in Requests : KeyOf[r] \in Keys
      OBVIOUS
    <3>4. ReceiptOwned(pruneExpired) /\ Final(pruneExpired)
      BY <2>4, <3>1, <3>2 DEF ReceiptOwned
    <3>5. \A r \in ran' \ pruned' : ~Expired(mem[KeyOf[r]])
      BY <1>a, <1>b, <1>d, <3>3 DEF ExpiredRuns, ExecutionRecorded
    <3>6. \A r \in Requests : pc[r] \in {"run", "running", "complete"} =>
                                  ~Expired(mem[KeyOf[r]])
      BY <2>4 DEF Expired
    <3>7. ran' \subseteq Requests
      BY <1>a, <1>d
    <3>8. QED
      BY <2>4, <3>1, <3>3, <3>4, <3>5, <3>6, <3>7
  <2>7. QED
    BY <2>4, <2>5, <2>6
<1>e. ASSUME NEW r \in Requests, pc[r] = "claim", NEW a, NEW q, Settle(r, a, q)
      PROVE  Quits /\ Stays
  BY <1>a, <1>e DEF Settle, Concluded
<1>2. ASSUME NEW o \in TxOutcome, Status(o) PROVE After(mem') /\ After(disk')
  <2>1. UNCHANGED <<ran, outcome, now, pc>> /\ Transaction(pruneExpired, o)
    BY <1>2 DEF Status, middlewareVars
  <2>2. CASE o = "aborted"
    <3>1. pruned' = pruned
      BY <1>2, <2>2 DEF Status
    <3>2. mem' = mem /\ disk' = disk
      BY <1>a, <2>1, <2>2, TransactionCases
    <3>3. QED
      BY <1>a, <1>c, <2>1, <3>1, <3>2
  <2>3. CASE o # "aborted"
    <3>1. pruned' = pruned \cup ExpiredRuns
      BY <1>2, <2>3 DEF Status
    <3>2. mem' = pruneExpired /\ (disk' = pruneExpired \/ disk' = disk)
      BY <1>a, <2>1, <2>3, TransactionCases
    <3>3. Stored(disk) /\ Stored(pruneExpired)
      BY <1>d, <2>1, <3>1
    <3>4. QED
      BY <2>1, <3>2, <3>3
  <2>4. QED
    BY <2>2, <2>3
<1>3. CASE Crash
  <2>1. /\ UNCHANGED <<outcome, ran, pruned, now>> /\ mem' = disk /\ disk' = disk
        /\ \A r \in Requests : pc'[r] = IF pc[r] \in {"idle", "done"} THEN pc[r] ELSE "lost"
    BY <1>3 DEF Crash, LoseMemory
  <2>2. QED
    BY <1>a, <1>c, <2>1 DEF Concluded
<1>4. CASE Tick
  BY <1>a, <1>c, <1>4 DEF Tick, receiptVars, middlewareVars
<1>5. CASE FileStep
  <2>1. UNCHANGED <<outcome, ran, pruned, now, pc>>
    BY <1>5 DEF FileStep, middlewareVars
  <2>2. After(mem) /\ After(disk)
    BY <1>a, <1>c, <2>1
  <2>3. (mem' = mem \/ mem' = disk) /\ (disk' = mem \/ disk' = disk)
    BY <1>5 DEF FileStep, OtherCommit, ForeignCommit
  <2>4. QED
    BY <2>2, <2>3
<1>6. ASSUME NEW r \in Requests, Arrive(r) PROVE After(mem') /\ After(disk')
  <2>1. /\ UNCHANGED <<outcome, ran, pruned, now, mem, disk>>
        /\ pc[r] = "idle"
        /\ \E l \in {"joined", "done", "claim"} : pc' = [pc EXCEPT ![r] = l]
    BY <1>6 DEF Arrive, Goto, historyFrame, receiptVars
  <2>2. QED
    BY <1>a, <1>c, <2>1 DEF Concluded
<1>7. ASSUME NEW r \in Requests, Execute(r) PROVE After(mem') /\ After(disk')
  <2>1. /\ UNCHANGED <<outcome, pruned, now, mem, disk>> /\ ran' = ran \cup {r}
        /\ pc[r] = "run" /\ pc' = [pc EXCEPT ![r] = "running"]
    BY <1>7 DEF Execute, Goto, receiptVars
  <2>2. QED
    BY <1>a, <1>b, <2>1
    DEF ReceiptOwned, CompletedIsFinal, ExecutionRecorded, Concluded
<1>8. ASSUME NEW r \in Requests, NEW kind \in {"none", "success", "error"},
             Return(r, kind)
      PROVE  After(mem') /\ After(disk')
  <2>1. /\ UNCHANGED <<ran, pruned, now, mem, disk>>
        /\ outcome' = [outcome EXCEPT ![r] = kind]
        /\ pc[r] = "running"
        /\ pc' = [pc EXCEPT ![r] = IF kind = "none" THEN "mark" ELSE "complete"]
    BY <1>8 DEF Return, Goto, receiptVars, historyFrame
  <2>2. QED
    BY <1>a, <1>b, <2>1
    DEF ReceiptOwned, CompletedIsFinal, ExecutionRecorded, Concluded
<1>9. ASSUME NEW r \in Requests, NEW o \in TxOutcome, Claim(r, o)
      PROVE  After(mem') /\ After(disk')
  <2> DEFINE row == pruneExpired[KeyOf[r]]
             inserted == [pruneExpired EXCEPT ![KeyOf[r]] = insertReceipt(r)]
             new == IF Executable(row) THEN inserted ELSE pruneExpired
  <2>1. pc[r] = "claim" /\ UNCHANGED <<ran, now>>
    BY <1>9 DEF Claim
  <2>2. CASE ~Executable(row) /\ row.input # InputOf[r]
    <3>1. NoTransaction /\ Settle(r, "reused", None) /\ UNCHANGED pruned
      BY <1>9, <2>2 DEF Claim
    <3>2. Quits /\ Stays /\ UNCHANGED <<outcome, mem, disk>>
      BY <1>e, <2>1, <3>1 DEF Settle, NoTransaction
    <3>3. QED
      BY <1>a, <1>c, <2>1, <3>1, <3>2
  <2>3. CASE ~(~Executable(row) /\ row.input # InputOf[r]) /\ o = "aborted"
    <3>1. Transaction(new, o) /\ pruned' = pruned /\ Settle(r, "internal", None)
      BY <1>9, <2>3 DEF Claim, ClaimReturned
    <3>2. mem' = mem /\ disk' = disk
      BY <1>a, <2>3, <3>1, TransactionCases
    <3>3. Quits /\ Stays /\ UNCHANGED outcome
      BY <1>e, <2>1, <3>1 DEF Settle
    <3>4. QED
      BY <1>a, <1>c, <2>1, <3>1, <3>2, <3>3
  <2>4. CASE ~(~Executable(row) /\ row.input # InputOf[r]) /\ o # "aborted"
    <3>1. Transaction(new, o) /\ pruned' = pruned \cup ExpiredRuns
      BY <1>9, <2>4 DEF Claim
    <3>2. mem' = new /\ (disk' = new \/ disk' = disk) /\ (o = "ok" => disk' = new)
      BY <1>a, <2>4, <3>1, TransactionCases
    <3>3. \/ \E a, q : Settle(r, a, q) /\ (o = "ok" => ~Executable(row))
          \/ /\ Goto(r, "run") /\ UNCHANGED <<up, inflight, outcome, answer, from>>
             /\ o = "ok" /\ Executable(row)
      <4>1. \/ o # "ok" /\ Settle(r, "internal", None)
            \/ /\ Goto(r, "run") /\ UNCHANGED <<up, inflight, outcome, answer, from>>
               /\ o = "ok" /\ Executable(row)
            \/ row.status = "completed" /\ Settle(r, row.kind, row.by)
            \/ row.status = "pending" /\ Settle(r, "pending", None)
            \/ row.status = "indeterminate" /\ Settle(r, "unknown", None)
        BY <1>9, <2>4 DEF Claim, ClaimReturned
      <4>2. QED
        BY <4>1, Zenon DEF Executable
    <3>4. Stays /\ UNCHANGED outcome
      <4>1. CASE \E a, q : Settle(r, a, q)
        <5>1. PICK a, q : Settle(r, a, q)
          BY <4>1
        <5>2. UNCHANGED outcome
          BY <5>1 DEF Settle
        <5>3. QED
          BY <1>e, <2>1, <5>1, <5>2
      <4>2. CASE Goto(r, "run") /\ UNCHANGED <<up, inflight, outcome, answer, from>>
        BY <1>a, <2>1, <4>2 DEF Goto, Concluded
      <4>3. QED
        BY <3>3, <4>1, <4>2
    <3>5. Stored(disk) /\ Stored(pruneExpired)
      BY <1>d, <2>1, <3>1, <3>4
    <3>6. \A q \in Requests : q # r /\ pc'[q] \in {"run", "running", "complete"} =>
                                  pc'[q] = pc[q] /\ KeyOf[q] # KeyOf[r]
      <4>1. \A q \in Requests : q # r /\ pc[q] \in {"run", "running", "complete"} =>
                                    KeyOf[q] # KeyOf[r]
        BY <1>b, <2>1 DEF InFlight, Working
      <4>2. \A q \in Requests : q # r /\ pc'[q] \in {"run", "running", "complete"} =>
                                    pc'[q] = pc[q]
        BY <1>a, <3>3 DEF Settle, Goto
      <4>3. QED
        BY <4>1, <4>2
    <3>7. ASSUME Executable(row) PROVE After(inserted)
      <4>1. /\ inserted[KeyOf[r]] = insertReceipt(r)
            /\ \A k \in Keys : k # KeyOf[r] => inserted[k] = pruneExpired[k]
        BY DEF pruneExpired
      <4>2. /\ insertReceipt(r).status = "pending" /\ insertReceipt(r).by = r
            /\ insertReceipt(r).input = InputOf[r]
        BY DEF insertReceipt
      <4>3. ReceiptOwned(inserted) /\ Final(inserted)
        BY <3>5, <4>1, <4>2 DEF ReceiptOwned
      <4>4. \A q \in ran' \ pruned' : KeyOf[q] # KeyOf[r]
        BY <3>5, <3>7 DEF Executable
      <4>5. \A q \in Requests : KeyOf[q] \in Keys
        OBVIOUS
      <4>6. ran' \subseteq Requests
        BY <1>a, <2>1
      <4>7. QED
        BY <3>5, <3>6, <4>1, <4>2, <4>3, <4>4, <4>5, <4>6
    <3>8. ASSUME \E a, q : Settle(r, a, q) PROVE After(disk) /\ After(pruneExpired)
      BY <1>e, <2>1, <3>5, <3>8
    <3>9. CASE Executable(row)
      <4>1. new = inserted /\ After(inserted)
        BY <3>7, <3>9
      <4>2. mem' = inserted /\ (disk' = inserted \/ (disk' = disk /\ \E a, q : Settle(r, a, q)))
        BY <3>2, <3>3, <4>1, Zenon
      <4> HIDE DEF After, inserted, new
      <4>3. QED
        BY <3>8, <4>1, <4>2
    <3>10. CASE ~Executable(row)
      <4>1. new = pruneExpired /\ \E a, q : Settle(r, a, q)
        BY <3>3, <3>10, Zenon
      <4>2. QED
        BY <3>2, <3>8, <4>1
    <3>11. QED
      BY <3>9, <3>10
  <2>5. QED
    BY <2>2, <2>3, <2>4
<1>f. ASSUME NEW r \in Requests, pc[r] \in {"complete", "mark"}, UNCHANGED <<outcome, ran, pruned, now>>,
             \/ \E a, q : Settle(r, a, q)
             \/ pc[r] = "complete" /\ Goto(r, "mark")
      PROVE  Quits /\ Stays /\ pc'[r] \in {"mark", "done"} /\ After(mem) /\ After(disk)
  <2>1. Quits /\ Stays /\ pc'[r] \in {"mark", "done"}
    BY <1>a, <1>f DEF Settle, Sharing, Goto, Concluded
  <2>2. QED
    BY <1>a, <1>c, <1>f, <2>1
<1>10. ASSUME NEW r \in Requests, NEW o \in TxOutcome, Complete(r, o)
       PROVE  After(mem') /\ After(disk')
  <2>1. /\ pc[r] = "complete" /\ UNCHANGED <<outcome, ran, pruned, now>>
        /\ \/ Settle(r, outcome[r], r)
           \/ Goto(r, "mark")
    BY <1>10 DEF Complete, historyFrame, Settle
  <2>2. /\ pc'[r] \in {"mark", "done"} /\ After(mem) /\ After(disk)
        /\ \A q \in Requests : q # r /\ pc'[q] \in {"run", "running", "complete"} =>
                                   pc'[q] = pc[q]
    BY <1>f, <2>1
  <2>3. /\ mem[KeyOf[r]].by = r /\ r \in ran /\ r \notin pruned
        /\ outcome[r] \in {"success", "error"} /\ KeyOf[r] \in Keys
    BY <1>a, <1>b, <2>1 DEF ExecutionRecorded, Progressed, Concluded
  <2>4. \A q \in Requests : pc'[q] \in {"run", "running", "complete"} => KeyOf[q] # KeyOf[r]
    BY <1>b, <2>1, <2>2 DEF InFlight, Working
  <2>5. After(completeReceipt(r))
    <3> DEFINE new == completeReceipt(r)
    <3>1. \A k \in Keys :
            /\ new[k].by = mem[k].by /\ new[k].input = mem[k].input
            /\ k # KeyOf[r] => new[k] = mem[k]
            /\ k = KeyOf[r] => /\ new[k].status = "completed"
                               /\ new[k].kind = outcome[r] /\ new[k].exp = now + TTL
      BY <1>a, CompletedRows
    <3>2. ReceiptOwned(new)
      BY <2>2, <2>3, <3>1, <1>b DEF ReceiptOwned, ExecutionRecorded
    <3>3. Final(new)
      BY <2>1, <2>2, <2>3, <3>1 DEF Concluded
    <3>4. Executed(new) /\ Running(new, pc')
      BY <1>a, <2>1, <2>2, <2>4, <3>1
    <3>5. QED
      BY <3>2, <3>3, <3>4
  <2>6. /\ mem' = mem \/ mem' = completeReceipt(r)
        /\ disk' = disk \/ disk' = completeReceipt(r)
    BY <1>a, <1>10, TransactionCases DEF Complete, NoTransaction
  <2>7. QED
    BY <2>2, <2>5, <2>6
<1>11. ASSUME NEW r \in Requests, NEW o \in TxOutcome, MarkIndeterminate(r, o)
       PROVE  After(mem') /\ After(disk')
  <2>1. /\ pc[r] = "mark" /\ UNCHANGED <<outcome, ran, pruned, now>>
        /\ Settle(r, "unknown", None)
    BY <1>11 DEF MarkIndeterminate, historyFrame, Settle
  <2>2. Quits /\ After(mem) /\ After(disk)
    BY <1>f, <2>1
  <2>3. \A q \in Requests : pc'[q] \in {"run", "running", "complete"} => KeyOf[q] # KeyOf[r]
    BY <1>b, <2>1, <2>2 DEF InFlight, Working
  <2>4. After(markReceipt(r))
    <3> DEFINE new == markReceipt(r)
    <3>1. \A k \in Keys :
            /\ new[k].by = mem[k].by /\ new[k].input = mem[k].input
            /\ new[k].kind = mem[k].kind /\ new[k].exp = mem[k].exp
            /\ new[k].status = IF OwnPending(r) /\ k = KeyOf[r] THEN "indeterminate"
                                                                ELSE mem[k].status
      BY <1>a, MarkedRows
    <3>2. ReceiptOwned(new)
      BY <2>2, <3>1 DEF ReceiptOwned, OwnPending
    <3>3. Final(new)
      BY <2>2, <3>1
    <3>4. Executed(new) /\ Running(new, pc')
      BY <1>a, <2>1, <2>2, <2>3, <3>1, SMTT(30)
    <3>5. QED
      BY <3>2, <3>3, <3>4
  <2>5. (mem' = mem \/ mem' = markReceipt(r)) /\ (disk' = disk \/ disk' = markReceipt(r))
    BY <1>a, <1>11, TransactionCases DEF MarkIndeterminate
  <2>6. QED
    BY <2>2, <2>4, <2>5
<1>12. CASE UNCHANGED mutationVars
  BY <1>a, <1>c, <1>12 DEF mutationVars, receiptVars, middlewareVars
<1>13. QED
  BY <1>1, <1>2, <1>3, <1>4, <1>5, <1>6, <1>7, <1>8, <1>9, <1>10, <1>11, <1>12
  DEF MutationNext, RequestStep

-----------------------------------------------------------------------------
(***************************************************************************)
(* What the transactions of a request do                                   *)
(***************************************************************************)
(* claim refuses another input, or its transaction fails, or it inserts the
   receipt, or it finds one that is completed, pending or indeterminate. *)
LEMMA ClaimCases ==
    ASSUME mem \in [Keys -> Receipt], faults \in 0 .. MaxFaults,
           NEW r \in Requests, NEW o \in TxOutcome, Claim(r, o)
    PROVE  LET row == pruneExpired[KeyOf[r]]
               new == IF Executable(row)
                      THEN [pruneExpired EXCEPT ![KeyOf[r]] = insertReceipt(r)]
                      ELSE pruneExpired
               found == /\ mem' = pruneExpired /\ disk' = pruneExpired
                        /\ faults' = faults /\ pruned' = pruned \cup ExpiredRuns
           IN  /\ pc[r] = "claim" /\ UNCHANGED <<up, outcome, ran, now, crashes>>
               /\ \/ /\ Settle(r, "reused", None) /\ row.status # "absent"
                     /\ UNCHANGED <<mem, disk, faults, pruned>>
                  \/ /\ Settle(r, "internal", None) /\ faults' # 0
                     /\ \/ mem' = mem /\ disk' = disk /\ pruned' = pruned
                        \/ /\ mem' = new /\ (disk' = new \/ disk' = disk)
                           /\ pruned' = pruned \cup ExpiredRuns
                  \/ /\ Goto(r, "run") /\ UNCHANGED <<inflight, answer, from>>
                     /\ row.status = "absent" /\ mem' = new /\ disk' = new
                     /\ faults' = faults /\ pruned' = pruned \cup ExpiredRuns
                  \/ /\ Settle(r, row.kind, row.by) /\ row.status = "completed"
                     /\ row.input = InputOf[r] /\ found
                  \/ Settle(r, "pending", None) /\ row.status = "pending" /\ found
                  \/ Settle(r, "unknown", None) /\ row.status = "indeterminate" /\ found
<1> DEFINE row == pruneExpired[KeyOf[r]]
           new == IF Executable(row)
                  THEN [pruneExpired EXCEPT ![KeyOf[r]] = insertReceipt(r)]
                  ELSE pruneExpired
           found == /\ mem' = pruneExpired /\ disk' = pruneExpired
                    /\ faults' = faults /\ pruned' = pruned \cup ExpiredRuns
           quit == /\ Settle(r, "internal", None) /\ faults' # 0
                   /\ \/ mem' = mem /\ disk' = disk /\ pruned' = pruned
                      \/ /\ mem' = new /\ (disk' = new \/ disk' = disk)
                         /\ pruned' = pruned \cup ExpiredRuns
<1>1. pc[r] = "claim" /\ UNCHANGED <<ran, now, crashes>>
  BY DEF Claim
<1>2. CASE ~Executable(row) /\ row.input # InputOf[r]
  <2>1. Settle(r, "reused", None) /\ UNCHANGED <<mem, disk, faults, pruned>>
    BY <1>2 DEF Claim, NoTransaction
  <2>2. row.status # "absent"
    BY <1>2 DEF Executable
  <2>3. QED
    BY <1>1, <2>1, <2>2 DEF Settle
<1>3. CASE ~(~Executable(row) /\ row.input # InputOf[r]) /\ o # "ok"
  <2>1. /\ Transaction(new, o) /\ Settle(r, "internal", None)
        /\ pruned' = IF o = "aborted" THEN pruned ELSE pruned \cup ExpiredRuns
    BY <1>3 DEF Claim, ClaimReturned
  <2>2. quit
    BY <1>3, <2>1, TransactionCases
  <2>3. UNCHANGED <<up, outcome>>
    BY <2>1 DEF Settle
  <2> HIDE DEF row, new
  <2>4. QED
    BY <1>1, <2>2, <2>3 DEF row, new
<1>4. CASE ~(~Executable(row) /\ row.input # InputOf[r]) /\ o = "ok"
  <2>1. /\ mem' = new /\ disk' = new /\ faults' = faults
        /\ pruned' = pruned \cup ExpiredRuns
    BY <1>4 DEF Claim, Transaction
  <2>2. \/ /\ Goto(r, "run") /\ UNCHANGED <<up, inflight, outcome, answer, from>>
           /\ Executable(row)
        \/ row.status = "completed" /\ Settle(r, row.kind, row.by)
        \/ row.status = "pending" /\ Settle(r, "pending", None)
        \/ row.status = "indeterminate" /\ Settle(r, "unknown", None)
    BY <1>4 DEF Claim, ClaimReturned
  <2>3. UNCHANGED <<up, outcome>>
    BY <2>2 DEF Settle
  <2>4. row.status # "absent" => row.input = InputOf[r] /\ found
    BY <1>4, <2>1 DEF Executable
  <2>5. Executable(row) <=> row.status = "absent"
    BY DEF Executable
  <2> HIDE DEF row, new, found
  <2>6. QED
    BY <1>1, <2>1, <2>2, <2>3, <2>4, <2>5 DEF row, new, found
<1>5. QED
  BY <1>2, <1>3, <1>4

(* complete finds the request's own pending receipt in both copies: its
   transaction stores the outcome, or fails and leaves the request to mark. *)
LEMMA CompleteCases ==
    ASSUME MutationInv, NEW r \in Requests, NEW o \in TxOutcome, Complete(r, o)
    PROVE  /\ pc[r] = "complete" /\ UNCHANGED <<up, outcome, ran, pruned, now, crashes>>
           /\ mem[KeyOf[r]].status = "pending" /\ disk[KeyOf[r]].status = "pending"
           /\ mem[KeyOf[r]].by = r
           /\ \/ /\ Settle(r, outcome[r], r) /\ faults' = faults
                 /\ mem' = completeReceipt(r) /\ disk' = completeReceipt(r)
              \/ /\ Goto(r, "mark") /\ UNCHANGED <<inflight, answer, from>>
                 /\ faults' # 0
                 /\ \/ mem' = mem /\ disk' = disk
                    \/ /\ mem' = completeReceipt(r)
                       /\ disk' = completeReceipt(r) \/ disk' = disk
<1>1. pc[r] = "complete" /\ UNCHANGED <<ran, pruned, now, crashes>>
  BY DEF Complete, historyFrame
<1>2. /\ mem[KeyOf[r]].status = "pending" /\ disk[KeyOf[r]].status = "pending"
      /\ mem[KeyOf[r]].by = r
  BY <1>1 DEF MutationInv, ReceiptsInv, ExecutionRecorded
<1>3. OwnPending(r)
  BY <1>2 DEF MutationInv, ReceiptsInv, ReceiptOwned, OwnPending
<1>4. /\ Transaction(completeReceipt(r), o)
      /\ o = "ok" => Settle(r, outcome[r], r)
      /\ o # "ok" => Goto(r, "mark") /\ UNCHANGED <<up, inflight, outcome, answer, from>>
  BY <1>3, Zenon DEF Complete
<1>5. UNCHANGED <<up, outcome>>
  BY <1>4 DEF Settle
<1>6. faults \in 0 .. MaxFaults
  BY DEF MutationInv, MutationTypeOK
<1>7. CASE o = "ok"
  BY <1>1, <1>2, <1>4, <1>5, <1>7 DEF Transaction
<1>8. CASE o # "ok"
  <2>1. /\ faults' # 0
        /\ \/ mem' = mem /\ disk' = disk
           \/ /\ mem' = completeReceipt(r)
              /\ disk' = completeReceipt(r) \/ disk' = disk
    BY <1>4, <1>6, <1>8, TransactionCases
  <2>2. QED
    BY <1>1, <1>2, <1>4, <1>5, <1>8, <2>1
<1>9. QED
  BY <1>7, <1>8

(* Every step keeps the expiry of both copies of a completed receipt the same,
   and both copies the same until a transaction fails. *)
LEMMA ExpiryStep ==
    MutationInv /\ [MutationNext]_mutationVars => SameExpiry' /\ InSync'
<1> SUFFICES ASSUME MutationInv, [MutationNext]_mutationVars
             PROVE  SameExpiry' /\ InSync'
  OBVIOUS
<1> DEFINE Same(a, b) ==
             \A k \in Keys :
                 a[k].status = "completed" /\ b[k].status = "completed"
                     /\ a[k].by = b[k].by => a[k].exp = b[k].exp
           InStep == faults' = 0 => mem' = disk'
<1>0. SUFFICES Same(mem', disk') /\ InStep
  BY DEF SameExpiry, InSync
<1>a. /\ mem \in [Keys -> Receipt] /\ disk \in [Keys -> Receipt]
      /\ faults \in 0 .. MaxFaults
  BY DEF MutationInv, MutationTypeOK
<1>b. Same(mem, disk) /\ (faults = 0 => mem = disk)
  BY DEF MutationInv, SameExpiry, InSync
<1>c. Same(pruneExpired, disk)
  <2>1. \A k \in Keys : pruneExpired[k] = IF Expired(mem[k]) THEN NoReceipt ELSE mem[k]
    BY DEF pruneExpired
  <2>2. NoReceipt.status = "absent"
    BY DEF NoReceipt
  <2>3. QED
    BY <1>b, <2>1, <2>2
<1>d. CASE UNCHANGED <<mem, disk, faults>>
  BY <1>b, <1>d
<1>e. CASE mem' = disk'
  BY <1>e
<1>1. ASSUME NEW o \in TxOutcome, Recover(o) PROVE Same(mem', disk') /\ InStep
  BY <1>1, <1>e DEF Recover, StartupTransaction
<1>2. ASSUME NEW o \in TxOutcome, Status(o) PROVE Same(mem', disk') /\ InStep
  <2>1. Transaction(pruneExpired, o)
    BY <1>2 DEF Status
  <2>2. /\ \/ mem' = mem /\ disk' = disk
           \/ mem' = pruneExpired /\ (disk' = pruneExpired \/ disk' = disk)
        /\ faults' = 0 => mem' = disk'
    BY <1>a, <2>1, TransactionCases
  <2>3. QED
    BY <1>b, <1>c, <2>2
<1>3. CASE Crash
  BY <1>3, <1>e DEF Crash, LoseMemory
<1>4. CASE Tick
  BY <1>4, <1>d DEF Tick, receiptVars
<1>5. CASE FileStep
  BY <1>5, <1>e DEF FileStep, OtherCommit, ForeignCommit
<1>6. ASSUME NEW r \in Requests, Arrive(r) PROVE Same(mem', disk') /\ InStep
  BY <1>6, <1>d DEF Arrive, receiptVars
<1>7. ASSUME NEW r \in Requests, Execute(r) PROVE Same(mem', disk') /\ InStep
  BY <1>7, <1>d DEF Execute, receiptVars
<1>8. ASSUME NEW r \in Requests, NEW kind \in {"none", "success", "error"},
             Return(r, kind)
      PROVE  Same(mem', disk') /\ InStep
  BY <1>8, <1>d DEF Return, receiptVars
<1>9. ASSUME NEW r \in Requests, NEW o \in TxOutcome, Claim(r, o)
      PROVE  Same(mem', disk') /\ InStep
  <2> DEFINE new == IF Executable(pruneExpired[KeyOf[r]])
                    THEN [pruneExpired EXCEPT ![KeyOf[r]] = insertReceipt(r)]
                    ELSE pruneExpired
  <2>1. \/ UNCHANGED <<mem, disk, faults>>
        \/ mem' = disk'
        \/ faults' # 0 /\ ((mem' = mem /\ disk' = disk) \/ (mem' = new /\ disk' = disk))
    BY <1>a, <1>9, ClaimCases
  <2>2. Same(new, disk)
    <3>1. \A k \in Keys : new[k] = pruneExpired[k] \/ new[k] = insertReceipt(r)
      BY DEF pruneExpired
    <3>2. insertReceipt(r).status = "pending"
      BY DEF insertReceipt
    <3>3. QED
      BY <1>c, <3>1, <3>2
  <2>3. QED
    BY <1>b, <1>d, <1>e, <2>1, <2>2
<1>10. ASSUME NEW r \in Requests, NEW o \in TxOutcome, Complete(r, o)
       PROVE  Same(mem', disk') /\ InStep
  <2>1. /\ disk[KeyOf[r]].status = "pending"
        /\ \/ mem' = disk'
           \/ faults' # 0 /\ mem' = mem /\ disk' = disk
           \/ faults' # 0 /\ mem' = completeReceipt(r) /\ disk' = disk
    BY <1>10, CompleteCases
  <2>2. \A k \in Keys : k # KeyOf[r] => completeReceipt(r)[k] = mem[k]
    BY <1>a, CompletedRows
  <2>3. Same(completeReceipt(r), disk)
    BY <1>b, <2>1, <2>2
  <2>4. QED
    BY <1>b, <1>e, <2>1, <2>3
<1>11. ASSUME NEW r \in Requests, NEW o \in TxOutcome, MarkIndeterminate(r, o)
       PROVE  Same(mem', disk') /\ InStep
  <2>1. Transaction(markReceipt(r), o)
    BY <1>11 DEF MarkIndeterminate
  <2>2. /\ \/ mem' = mem /\ disk' = disk
           \/ mem' = markReceipt(r) /\ (disk' = markReceipt(r) \/ disk' = disk)
        /\ faults' = 0 => mem' = disk'
    BY <1>a, <2>1, TransactionCases
  <2>3. Same(markReceipt(r), disk)
    <3>1. \A k \in Keys : /\ markReceipt(r)[k].by = mem[k].by
                          /\ markReceipt(r)[k].exp = mem[k].exp
                          /\ markReceipt(r)[k].status = "completed" =>
                                 mem[k].status = "completed"
      BY <1>a, MarkedRows
    <3>2. QED
      BY <1>b, <3>1
  <2>4. QED
    BY <1>b, <2>2, <2>3
<1>12. CASE UNCHANGED mutationVars
  BY <1>12, <1>d DEF mutationVars, receiptVars
<1>13. QED
  BY <1>1, <1>2, <1>3, <1>4, <1>5, <1>6, <1>7, <1>8, <1>9, <1>10, <1>11, <1>12
  DEF MutationNext, RequestStep

-----------------------------------------------------------------------------
(***************************************************************************)
(* The requests under way                                                  *)
(***************************************************************************)
(* A request that settles takes everyone who joined it with it; a request that
   goes on working keeps the in-flight entry. *)
LEMMA FlightMoves ==
    ASSUME MutationTypeOK, InFlight, NEW r \in Requests, pc[r] \in Working,
           \/ \E a, q : Settle(r, a, q)
           \/ \E l \in Working : Goto(r, l) /\ UNCHANGED inflight
    PROVE  /\ InFlight'
           /\ \A x \in Requests : pc'[x] = pc[x] \/ x = r \/
                                  (pc[x] = "joined" /\ pc'[x] = "done" /\ KeyOf[x] = KeyOf[r])
<1>a. /\ pc \in [Requests -> Labels] /\ inflight \in [Keys -> Requests \cup {None}]
      /\ inflight[KeyOf[r]] = r
  BY DEF MutationTypeOK, InFlight
<1>1. CASE \E a, q : Settle(r, a, q)
  <2>1. /\ pc' = [x \in Requests |-> IF x \in Sharing(r) THEN "done" ELSE pc[x]]
        /\ inflight' = [inflight EXCEPT ![KeyOf[r]] = None]
    BY <1>1 DEF Settle
  <2>2. \A x \in Requests : x \in Sharing(r) <=>
                x = r \/ (pc[x] = "joined" /\ KeyOf[x] = KeyOf[r])
    BY DEF Sharing
  <2>3. \A k \in Keys : inflight'[k] = IF k = KeyOf[r] THEN None ELSE inflight[k]
    BY <1>a, <2>1
  <2>4. \A x \in Requests : pc'[x] = IF x \in Sharing(r) THEN "done" ELSE pc[x]
    BY <2>1
  <2>5. \A k \in Keys : inflight'[k] # None =>
            KeyOf[inflight'[k]] = k /\ pc'[inflight'[k]] \in Working
    BY <1>a, <2>2, <2>3, <2>4 DEF InFlight
  <2>6. \A x \in Requests : pc'[x] \in Working => inflight'[KeyOf[x]] = x
    BY <1>a, <2>2, <2>3, <2>4 DEF InFlight, Working
  <2>7. \A x \in Requests : pc'[x] = "joined" =>
            inflight'[KeyOf[x]] # None /\ InputOf[inflight'[KeyOf[x]]] = InputOf[x]
    BY <1>a, <2>2, <2>3, <2>4 DEF InFlight
  <2>8. QED
    BY <2>2, <2>4, <2>5, <2>6, <2>7 DEF InFlight
<1>2. CASE \E l \in Working : Goto(r, l) /\ UNCHANGED inflight
  BY <1>a, <1>2 DEF InFlight, Goto, Working
<1>3. QED
  BY <1>1, <1>2

(* pruneExpired deletes what is over. *)
LEMMA ExpiredIsOver ==
    ASSUME ReceiptOwned(mem), CompletedIsFinal(mem)
    PROVE  \A x \in ExpiredRuns : x \in ran /\ pc[x] \in Concluded
  BY DEF ReceiptOwned, CompletedIsFinal, ExpiredRuns, Expired

(* Every step keeps the order in which a request is claimed, executed and
   answered, and lets one request work for a key. *)
LEMMA FlightStep ==
    MutationInv /\ [MutationNext]_mutationVars => InFlight' /\ DownIsQuiet' /\ Progressed'
<1> SUFFICES ASSUME MutationInv, [MutationNext]_mutationVars
             PROVE  InFlight' /\ DownIsQuiet' /\ Progressed'
  OBVIOUS
<1>a. /\ pc \in [Requests -> Labels] /\ inflight \in [Keys -> Requests \cup {None}]
      /\ outcome \in [Requests -> {"none", "success", "error"}]
      /\ answer \in [Requests -> Answers] /\ from \in [Requests -> Requests \cup {None}]
      /\ ran \subseteq Requests /\ mem \in [Keys -> Receipt] /\ faults \in 0 .. MaxFaults
  BY DEF MutationInv, MutationTypeOK
<1>b. /\ InFlight /\ DownIsQuiet /\ Progressed /\ MutationTypeOK
      /\ ReceiptOwned(mem) /\ CompletedIsFinal(mem)
  BY DEF MutationInv, ReceiptsInv
<1>c. ASSUME up, UNCHANGED up PROVE DownIsQuiet'
  BY <1>c DEF DownIsQuiet
<1>d. ASSUME NEW r \in Requests, pc[r] \in Working PROVE up
  BY <1>b, <1>d DEF DownIsQuiet, Working
<1>e. ASSUME UNCHANGED <<pc, ran, outcome, answer>>,
             pruned' = pruned \/ pruned' = pruned \cup ExpiredRuns
      PROVE  Progressed'
  BY <1>b, <1>e, ExpiredIsOver DEF Progressed
<1>f. ASSUME NEW r \in Requests, pc[r] \in {"claim", "complete", "mark"},
             \E a, q : Settle(r, a, q), UNCHANGED ran,
             pruned' = pruned \/ pruned' = pruned \cup ExpiredRuns
      PROVE  InFlight' /\ DownIsQuiet' /\ Progressed'
  <2>1. pc[r] \in Working
    BY <1>f DEF Working
  <2>2. InFlight' /\ DownIsQuiet'
    <3>1. InFlight'
      BY <1>b, <1>f, <2>1, FlightMoves
    <3>2. UNCHANGED up
      BY <1>f DEF Settle
    <3>3. QED
      BY <1>c, <1>d, <2>1, <3>1, <3>2
  <2>3. Progressed'
    <3>1. /\ UNCHANGED outcome
          /\ \A x \in Requests :
                /\ pc'[x] = IF x \in Sharing(r) THEN "done" ELSE pc[x]
                /\ x \notin Sharing(r) => answer'[x] = answer[x]
      BY <1>f DEF Settle
    <3>2. \A x \in pruned' : x \in Requests =>
              x \in pruned \/ (x \in ran /\ pc[x] \in Concluded)
      BY <1>b, <1>f, ExpiredIsOver
    <3>3. \A x \in Requests : x \in pruned' => x \in ran' /\ pc'[x] \in Concluded
      BY <1>b, <1>f, <3>1, <3>2 DEF Progressed, Concluded
    <3>4. QED
      BY <1>b, <1>f, <3>1, <3>3 DEF Progressed, Unclaimed
  <2>4. QED
    BY <2>2, <2>3
<1>1. ASSUME NEW o \in TxOutcome, Recover(o) PROVE InFlight' /\ DownIsQuiet' /\ Progressed'
  <2>1. UNCHANGED <<pc, inflight, outcome, answer, ran, pruned>> /\ ~up /\ mem' = disk'
    BY <1>1 DEF Recover, historyFrame, StartupTransaction
  <2>2. InFlight'
    BY <1>b, <2>1 DEF InFlight
  <2>3. DownIsQuiet'
    BY <1>b, <2>1 DEF DownIsQuiet
  <2>4. QED
    BY <1>e, <2>1, <2>2, <2>3
<1>2. ASSUME NEW o \in TxOutcome, Status(o) PROVE InFlight' /\ DownIsQuiet' /\ Progressed'
  <2>1. /\ UNCHANGED <<pc, inflight, outcome, answer, ran, up>> /\ up
        /\ pruned' = pruned \/ pruned' = pruned \cup ExpiredRuns
    BY <1>2 DEF Status, middlewareVars
  <2>2. InFlight'
    BY <1>b, <2>1 DEF InFlight
  <2>3. QED
    BY <1>c, <1>e, <2>1, <2>2
<1>3. CASE Crash
  <2>1. /\ UNCHANGED <<outcome, answer, ran, pruned>> /\ mem' = disk'
        /\ inflight' = [k \in Keys |-> None]
        /\ pc' = [r \in Requests |-> IF pc[r] \in {"idle", "done"} THEN pc[r] ELSE "lost"]
    BY <1>3 DEF Crash, LoseMemory
  <2>2. InFlight'
    BY <2>1 DEF InFlight, Working
  <2>3. DownIsQuiet'
    BY <2>1 DEF DownIsQuiet
  <2>4. Progressed'
    BY <1>b, <2>1 DEF Progressed, Unclaimed, Concluded
  <2>5. QED
    BY <2>2, <2>3, <2>4
<1>4. CASE Tick
  BY <1>b, <1>4 DEF Tick, receiptVars, middlewareVars, InFlight, DownIsQuiet, Progressed
<1>5. CASE FileStep
  <2>1. UNCHANGED <<pc, inflight, outcome, answer, ran, pruned, up>> /\ up
    BY <1>5 DEF FileStep, middlewareVars
  <2>2. InFlight'
    BY <1>b, <2>1 DEF InFlight
  <2>3. QED
    BY <1>c, <1>e, <2>1, <2>2
<1>6. ASSUME NEW r \in Requests, Arrive(r) PROVE InFlight' /\ DownIsQuiet' /\ Progressed'
  <2>1. UNCHANGED <<outcome, ran, pruned, up>> /\ up /\ pc[r] = "idle"
    BY <1>6 DEF Arrive, historyFrame
  <2>2. InFlight'
    <3>1. CASE Join(r)
      BY <1>a, <1>b, <1>6, <3>1 DEF Arrive, Join, Goto, InFlight, Working
    <3>2. CASE ~Join(r)
      <4>1. /\ inflight' = [inflight EXCEPT ![KeyOf[r]] = r]
            /\ pc' = [pc EXCEPT ![r] = "claim"] /\ inflight[KeyOf[r]] = None
        BY <1>6, <3>2 DEF Arrive, Join, Goto
      <4>2. /\ \A k \in Keys : inflight'[k] = IF k = KeyOf[r] THEN r ELSE inflight[k]
            /\ \A x \in Requests : pc'[x] = IF x = r THEN "claim" ELSE pc[x]
        BY <1>a, <4>1
      <4>3. QED
        BY <1>a, <1>b, <2>1, <4>1, <4>2 DEF InFlight, Working
    <3>3. QED
      BY <3>1, <3>2
  <2>3. Progressed'
    <3>1. \/ /\ pc' = [pc EXCEPT ![r] = "joined"] \/ pc' = [pc EXCEPT ![r] = "claim"]
             /\ UNCHANGED answer
          \/ pc' = [pc EXCEPT ![r] = "done"] /\ answer' = [answer EXCEPT ![r] = "reused"]
      BY <1>6 DEF Arrive, Goto
    <3>2. QED
      BY <1>a, <1>b, <2>1, <3>1 DEF Progressed, Unclaimed, Concluded
  <2>4. QED
    BY <1>c, <2>1, <2>2, <2>3
<1>7. ASSUME NEW r \in Requests, Execute(r) PROVE InFlight' /\ DownIsQuiet' /\ Progressed'
  <2>1. /\ UNCHANGED <<outcome, answer, pruned, up, inflight>> /\ ran' = ran \cup {r}
        /\ pc[r] = "run" /\ Goto(r, "running") /\ pc' = [pc EXCEPT ![r] = "running"]
    BY <1>7 DEF Execute, Goto
  <2>2. pc[r] \in Working /\ "running" \in Working
    BY <2>1 DEF Working
  <2>3. InFlight'
    BY <1>b, <2>1, <2>2, FlightMoves
  <2>4. Progressed'
    BY <1>a, <1>b, <2>1 DEF Progressed, Unclaimed, Concluded
  <2>5. QED
    BY <1>c, <1>d, <2>1, <2>2, <2>3, <2>4
<1>8. ASSUME NEW r \in Requests, NEW kind \in {"none", "success", "error"},
             Return(r, kind)
      PROVE  InFlight' /\ DownIsQuiet' /\ Progressed'
  <2> DEFINE l == IF kind = "none" THEN "mark" ELSE "complete"
  <2>1. /\ UNCHANGED <<answer, ran, pruned, up, inflight>>
        /\ outcome' = [outcome EXCEPT ![r] = kind]
        /\ pc[r] = "running" /\ Goto(r, l) /\ pc' = [pc EXCEPT ![r] = l]
    BY <1>8 DEF Return, Goto, historyFrame
  <2>2. pc[r] \in Working /\ l \in Working
    BY <2>1 DEF Working
  <2>3. InFlight'
    BY <1>b, <2>1, <2>2, FlightMoves
  <2>4. Progressed'
    BY <1>a, <1>b, <2>1 DEF Progressed, Unclaimed, Concluded
  <2>5. QED
    BY <1>c, <1>d, <2>1, <2>2, <2>3, <2>4
<1>9. ASSUME NEW r \in Requests, NEW o \in TxOutcome, Claim(r, o)
      PROVE  InFlight' /\ DownIsQuiet' /\ Progressed'
  <2>1. /\ pc[r] = "claim" /\ UNCHANGED <<up, outcome, ran>>
        /\ pruned' = pruned \/ pruned' = pruned \cup ExpiredRuns
        /\ \/ \E a, q : Settle(r, a, q)
           \/ Goto(r, "run") /\ UNCHANGED <<inflight, answer>>
    BY <1>a, <1>9, ClaimCases
  <2>2. CASE \E a, q : Settle(r, a, q)
    BY <1>f, <2>1, <2>2
  <2>3. CASE Goto(r, "run") /\ UNCHANGED <<inflight, answer>>
    <3>1. pc[r] \in Working /\ "run" \in Working
      BY <2>1 DEF Working
    <3>2. InFlight'
      BY <1>b, <2>3, <3>1, FlightMoves
    <3>3. \A x \in pruned' : x \in Requests =>
              x \in pruned \/ (x \in ran /\ pc[x] \in Concluded)
      BY <1>b, <2>1, ExpiredIsOver
    <3>4. Progressed'
      BY <1>a, <1>b, <2>1, <2>3, <3>3 DEF Goto, Progressed, Unclaimed, Concluded
    <3>5. QED
      BY <1>c, <1>d, <2>1, <3>1, <3>2, <3>4
  <2>4. QED
    BY <2>1, <2>2, <2>3
<1>10. ASSUME NEW r \in Requests, NEW o \in TxOutcome, Complete(r, o)
       PROVE  InFlight' /\ DownIsQuiet' /\ Progressed'
  <2>1. /\ pc[r] = "complete" /\ UNCHANGED <<up, outcome, ran, pruned>>
        /\ \/ Settle(r, outcome[r], r)
           \/ Goto(r, "mark") /\ UNCHANGED <<inflight, answer>>
    BY <1>10, CompleteCases
  <2>2. CASE Settle(r, outcome[r], r)
    BY <1>f, <2>1, <2>2
  <2>3. CASE Goto(r, "mark") /\ UNCHANGED <<inflight, answer>>
    <3>1. pc[r] \in Working /\ "mark" \in Working
      BY <2>1 DEF Working
    <3>2. InFlight'
      BY <1>b, <2>3, <3>1, FlightMoves
    <3>3. Progressed'
      BY <1>a, <1>b, <2>1, <2>3 DEF Goto, Progressed, Unclaimed, Concluded
    <3>4. QED
      BY <1>c, <1>d, <2>1, <3>1, <3>2, <3>3
  <2>4. QED
    BY <2>1, <2>2, <2>3
<1>11. ASSUME NEW r \in Requests, NEW o \in TxOutcome, MarkIndeterminate(r, o)
       PROVE  InFlight' /\ DownIsQuiet' /\ Progressed'
  BY <1>f, <1>11 DEF MarkIndeterminate, historyFrame
<1>12. CASE UNCHANGED mutationVars
  BY <1>b, <1>12
  DEF mutationVars, receiptVars, middlewareVars, InFlight, DownIsQuiet, Progressed
<1>13. QED
  BY <1>1, <1>2, <1>3, <1>4, <1>5, <1>6, <1>7, <1>8, <1>9, <1>10, <1>11, <1>12
  DEF MutationNext, RequestStep

-----------------------------------------------------------------------------
(***************************************************************************)
(* The answers                                                             *)
(***************************************************************************)
(* What settles a promise answers everyone who shares it truthfully: with the
   outcome of an execution of the same key and input, or with a refusal of
   requests none of which was executed. *)
LEMMA SettledTruthfully ==
    ASSUME MutationInv, NEW r \in Requests, pc[r] \in Working, NEW a, NEW q,
           Settle(r, a, q), UNCHANGED ran,
           a \in {"success", "error"} =>
               /\ q \in ran /\ outcome[q] = a /\ (q = r \/ pc[q] \in Concluded)
               /\ KeyOf[q] = KeyOf[r] /\ InputOf[q] = InputOf[r],
           a \in {"internal", "reused", "pending"} => r \notin ran
    PROVE  AnswersTruthful' /\ AnswersFinal' /\ RefusedNeverRan'
<1>a. /\ InFlight /\ Progressed /\ AnswersTruthful /\ AnswersFinal /\ RefusedNeverRan
      /\ ran \subseteq Requests
  BY DEF MutationInv, MutationTypeOK
<1>1. /\ UNCHANGED outcome
      /\ \A x \in Requests : /\ pc'[x] = IF x \in Sharing(r) THEN "done" ELSE pc[x]
                             /\ answer'[x] = IF x \in Sharing(r) THEN a ELSE answer[x]
                             /\ from'[x] = IF x \in Sharing(r) THEN q ELSE from[x]
  BY DEF Settle
<1>2. \A x \in Sharing(r) : /\ x \in Requests /\ KeyOf[x] = KeyOf[r]
                            /\ InputOf[x] = InputOf[r]
                            /\ x = r \/ x \notin ran
  BY <1>a DEF Sharing, InFlight, Progressed, Unclaimed
<1>3. r \in Sharing(r) /\ "done" \in Concluded
  BY DEF Sharing, Concluded
<1>4. AnswersTruthful'
  BY <1>a, <1>1, <1>2 DEF AnswersTruthful
<1>5. AnswersFinal'
  <2>1. \A x \in Requests : x = r \/ pc[x] \in Concluded => pc'[x] \in Concluded
    BY <1>1, <1>3
  <2>2. QED
    BY <1>a, <1>1, <2>1 DEF AnswersFinal
<1>6. RefusedNeverRan'
  BY <1>a, <1>1, <1>2 DEF RefusedNeverRan
<1>7. QED
  BY <1>4, <1>5, <1>6

(* Every answer is truthful and stays so. *)
LEMMA AnswersStep ==
    MutationInv /\ [MutationNext]_mutationVars =>
        AnswersTruthful' /\ AnswersFinal' /\ RefusedNeverRan'
<1> SUFFICES ASSUME MutationInv, [MutationNext]_mutationVars
             PROVE  AnswersTruthful' /\ AnswersFinal' /\ RefusedNeverRan'
  OBVIOUS
<1> DEFINE Goal == AnswersTruthful' /\ AnswersFinal' /\ RefusedNeverRan'
<1>a. /\ pc \in [Requests -> Labels]
      /\ outcome \in [Requests -> {"none", "success", "error"}]
      /\ answer \in [Requests -> Answers] /\ from \in [Requests -> Requests \cup {None}]
      /\ ran \subseteq Requests /\ mem \in [Keys -> Receipt] /\ faults \in 0 .. MaxFaults
  BY DEF MutationInv, MutationTypeOK
<1>b. /\ Progressed /\ AnswersTruthful /\ AnswersFinal /\ RefusedNeverRan
      /\ ReceiptOwned(mem) /\ CompletedIsFinal(mem)
  BY DEF MutationInv, ReceiptsInv
<1>c. ASSUME UNCHANGED <<outcome, answer, from, ran>>,
             \A x \in Requests : pc[x] \in Concluded => pc'[x] \in Concluded
      PROVE  Goal
  <2>1. AnswersTruthful' /\ RefusedNeverRan'
    BY <1>b, <1>c DEF AnswersTruthful, RefusedNeverRan
  <2>2. AnswersFinal'
    BY <1>a, <1>b, <1>c DEF AnswersFinal
  <2>3. QED
    BY <2>1, <2>2
<1>1. ASSUME NEW o \in TxOutcome, Recover(o) PROVE Goal
  BY <1>1, <1>c DEF Recover, historyFrame
<1>2. ASSUME NEW o \in TxOutcome, Status(o) PROVE Goal
  BY <1>2, <1>c DEF Status, middlewareVars
<1>3. CASE Crash
  BY <1>3, <1>c DEF Crash, Concluded
<1>4. CASE Tick
  BY <1>4, <1>c DEF Tick, middlewareVars
<1>5. CASE FileStep
  BY <1>5, <1>c DEF FileStep, middlewareVars
<1>6. ASSUME NEW r \in Requests, Arrive(r) PROVE Goal
  <2>1. /\ UNCHANGED <<outcome, from, ran>> /\ pc[r] = "idle"
        /\ \E l \in Labels : pc' = [pc EXCEPT ![r] = l]
        /\ UNCHANGED answer \/ answer' = [answer EXCEPT ![r] = "reused"]
    BY <1>6 DEF Arrive, Goto, historyFrame, Labels
  <2>2. r \notin ran /\ \A x \in Requests : pc[x] \in Concluded => pc'[x] \in Concluded
    BY <1>a, <1>b, <2>1 DEF Progressed, Unclaimed, Concluded
  <2>3. CASE UNCHANGED answer
    BY <1>c, <2>1, <2>2, <2>3
  <2>4. CASE answer' = [answer EXCEPT ![r] = "reused"]
    <3>1. \A x \in Requests : answer'[x] = IF x = r THEN "reused" ELSE answer[x]
      BY <1>a, <2>4
    <3>2. QED
      BY <1>a, <1>b, <2>1, <2>2, <3>1 DEF AnswersTruthful, AnswersFinal, RefusedNeverRan
  <2>5. QED
    BY <2>1, <2>3, <2>4
<1>7. ASSUME NEW r \in Requests, Execute(r) PROVE Goal
  <2>1. /\ UNCHANGED <<outcome, answer, from>> /\ ran' = ran \cup {r}
        /\ pc[r] = "run" /\ pc' = [pc EXCEPT ![r] = "running"]
    BY <1>7 DEF Execute, Goto
  <2>2. answer[r] = "none" /\ \A x \in Requests : pc[x] \in Concluded => pc'[x] \in Concluded
    BY <1>a, <1>b, <2>1 DEF Progressed, Concluded
  <2>3. QED
    BY <1>a, <1>b, <2>1, <2>2 DEF AnswersTruthful, AnswersFinal, RefusedNeverRan
<1>8. ASSUME NEW r \in Requests, NEW kind \in {"none", "success", "error"},
             Return(r, kind)
      PROVE  Goal
  <2>1. /\ UNCHANGED <<answer, from, ran>> /\ pc[r] = "running"
        /\ outcome' = [outcome EXCEPT ![r] = kind]
        /\ \E l \in Labels : pc' = [pc EXCEPT ![r] = l]
    BY <1>8 DEF Return, Goto, historyFrame, Labels
  <2>2. /\ \A x \in Requests : pc[x] \in Concluded => x # r /\ pc'[x] \in Concluded
        /\ \A x \in Requests : x # r => outcome'[x] = outcome[x]
    BY <1>a, <2>1 DEF Concluded
  <2>3. QED
    BY <1>a, <1>b, <2>1, <2>2 DEF AnswersTruthful, AnswersFinal, RefusedNeverRan
<1>9. ASSUME NEW r \in Requests, NEW o \in TxOutcome, Claim(r, o) PROVE Goal
  <2> DEFINE row == pruneExpired[KeyOf[r]]
  <2>1. /\ pc[r] = "claim" /\ UNCHANGED <<outcome, ran>>
        /\ \/ \E a \in {"reused", "internal", "pending", "unknown"} : Settle(r, a, None)
           \/ Goto(r, "run") /\ UNCHANGED <<answer, from>>
           \/ Settle(r, row.kind, row.by) /\ row.status = "completed" /\ row.input = InputOf[r]
    BY <1>a, <1>9, ClaimCases
  <2>2. pc[r] \in Working /\ r \notin ran
    BY <1>b, <2>1 DEF Working, Progressed, Unclaimed
  <2>3. ASSUME NEW a \in {"reused", "internal", "pending", "unknown"}, Settle(r, a, None)
        PROVE  Goal
    BY <2>1, <2>2, <2>3, SettledTruthfully
  <2>4. CASE Goto(r, "run") /\ UNCHANGED <<answer, from>>
    BY <1>a, <1>c, <2>1, <2>4 DEF Goto, Concluded
  <2>5. CASE Settle(r, row.kind, row.by) /\ row.status = "completed" /\ row.input = InputOf[r]
    <3>1. row = mem[KeyOf[r]]
      BY <2>5 DEF pruneExpired, NoReceipt
    <3>2. /\ row.by \in ran /\ pc[row.by] \in Concluded /\ outcome[row.by] = row.kind
          /\ row.kind \in {"success", "error"}
          /\ KeyOf[row.by] = KeyOf[r] /\ InputOf[row.by] = InputOf[r]
      BY <1>b, <2>5, <3>1 DEF ReceiptOwned, CompletedIsFinal
    <3> HIDE DEF row
    <3>3. QED
      BY <2>1, <2>2, <2>5, <3>2, SettledTruthfully
  <2>6. QED
    BY <2>1, <2>3, <2>4, <2>5
<1>10. ASSUME NEW r \in Requests, NEW o \in TxOutcome, Complete(r, o) PROVE Goal
  <2>1. /\ pc[r] = "complete" /\ UNCHANGED <<outcome, ran>>
        /\ \/ Settle(r, outcome[r], r)
           \/ Goto(r, "mark") /\ UNCHANGED <<answer, from>>
    BY <1>10, CompleteCases
  <2>2. pc[r] \in Working /\ r \in ran /\ outcome[r] \in {"success", "error"}
    BY <1>b, <2>1 DEF Working, Progressed
  <2>3. CASE Settle(r, outcome[r], r)
    BY <2>1, <2>2, <2>3, SettledTruthfully
  <2>4. CASE Goto(r, "mark") /\ UNCHANGED <<answer, from>>
    BY <1>a, <1>c, <2>1, <2>4 DEF Goto, Concluded
  <2>5. QED
    BY <2>1, <2>3, <2>4
<1>11. ASSUME NEW r \in Requests, NEW o \in TxOutcome, MarkIndeterminate(r, o) PROVE Goal
  <2>1. pc[r] \in Working /\ Settle(r, "unknown", None) /\ UNCHANGED ran
    BY <1>11 DEF MarkIndeterminate, historyFrame, Working
  <2>2. QED
    BY <2>1, SettledTruthfully
<1>12. CASE UNCHANGED mutationVars
  BY <1>12, <1>c DEF mutationVars, middlewareVars
<1>13. QED
  BY <1>1, <1>2, <1>3, <1>4, <1>5, <1>6, <1>7, <1>8, <1>9, <1>10, <1>11, <1>12
  DEF MutationNext, RequestStep

(* Until a transaction fails, every step leaves a pending receipt to the request
   that works on it. *)
LEMMA PendingStep == MutationInv /\ [MutationNext]_mutationVars => PendingIsInFlight'
<1> SUFFICES ASSUME MutationInv, [MutationNext]_mutationVars, up', faults' = 0,
                    NEW k \in Keys, mem'[k].status = "pending"
             PROVE  mem'[k].by = inflight'[k] /\ pc'[inflight'[k]] \in Working \ {"claim"}
  BY DEF PendingIsInFlight
<1> DEFINE Goal == mem'[k].by = inflight'[k] /\ pc'[inflight'[k]] \in Working \ {"claim"}
<1>a. /\ pc \in [Requests -> Labels] /\ inflight \in [Keys -> Requests \cup {None}]
      /\ mem \in [Keys -> Receipt] /\ faults \in 0 .. MaxFaults /\ MutationTypeOK
  BY DEF MutationInv, MutationTypeOK
<1>b. ReceiptOwned(mem) /\ InFlight /\ InSync /\ DownIsQuiet /\ PendingIsInFlight
  BY DEF MutationInv, ReceiptsInv
<1>c. ASSUME up, faults = 0, NEW j \in Keys, mem[j].status = "pending"
      PROVE  /\ inflight[j] \in Requests /\ mem[j].by = inflight[j]
             /\ KeyOf[inflight[j]] = j /\ mem[j].input = InputOf[inflight[j]]
             /\ pc[inflight[j]] \in Working \ {"claim"}
  BY <1>b, <1>c DEF ReceiptOwned, PendingIsInFlight
<1>d. ASSUME up, faults = 0, mem[k].status = "pending", mem'[k].by = mem[k].by,
             NEW r \in Requests, pc[r] \in Working, KeyOf[r] # k,
             \/ \E a, q : Settle(r, a, q)
             \/ \E l \in Working : Goto(r, l) /\ UNCHANGED inflight
      PROVE  Goal
  <2>1. /\ inflight[k] \in Requests /\ mem[k].by = inflight[k]
        /\ KeyOf[inflight[k]] = k /\ pc[inflight[k]] \in Working \ {"claim"}
    BY <1>c, <1>d
  <2>2. inflight'[k] = inflight[k]
    BY <1>a, <1>d DEF Settle
  <2>3. pc'[inflight[k]] = pc[inflight[k]]
    BY <1>a, <1>b, <1>d, <2>1, FlightMoves
  <2>4. QED
    BY <1>d, <2>1, <2>2, <2>3
<1>e. ASSUME up, faults = 0, UNCHANGED <<pc, inflight>>, mem[k].status = "pending",
             mem'[k].by = mem[k].by
      PROVE  Goal
  BY <1>c, <1>e
<1>f. ASSUME NEW r \in Requests, pc[r] \in Working PROVE up
  BY <1>b, <1>f DEF DownIsQuiet, Working
<1>g. \A j \in Keys : pruneExpired[j].status = "pending" => pruneExpired[j] = mem[j]
  BY DEF pruneExpired, NoReceipt
<1>1. ASSUME NEW o \in TxOutcome, Recover(o) PROVE Goal
  <2>1. o = "ok" /\ mem' = recoverPendingReceipts
    BY <1>1 DEF Recover, StartupTransaction
  <2>2. QED
    BY <1>a, <2>1, RecoveredRows
<1>2. ASSUME NEW o \in TxOutcome, Status(o) PROVE Goal
  <2>1. up /\ UNCHANGED <<pc, inflight>> /\ Transaction(pruneExpired, o)
    BY <1>2 DEF Status, middlewareVars
  <2>2. mem' = pruneExpired /\ faults = 0
    BY <1>a, <2>1, TransactionCases
  <2>3. QED
    BY <1>e, <1>g, <2>1, <2>2
<1>3. CASE Crash
  BY <1>3 DEF Crash
<1>4. CASE Tick
  BY <1>4, <1>e DEF Tick, receiptVars, middlewareVars
<1>5. CASE FileStep
  BY <1>b, <1>5 DEF FileStep, OtherCommit, ForeignCommit, InSync
<1>6. ASSUME NEW r \in Requests, Arrive(r) PROVE Goal
  <2>1. up /\ UNCHANGED <<mem, faults>> /\ pc[r] = "idle"
    BY <1>6 DEF Arrive, receiptVars
  <2>2. /\ inflight[k] \in Requests /\ mem[k].by = inflight[k]
        /\ pc[inflight[k]] \in Working \ {"claim"}
    BY <1>c, <2>1
  <2>3. inflight'[k] = inflight[k]
    BY <1>a, <1>6, <2>2 DEF Arrive, Join
  <2>4. pc'[inflight[k]] = pc[inflight[k]]
    BY <1>a, <1>6, <2>1, <2>2 DEF Arrive, Goto, Working
  <2>5. QED
    BY <2>1, <2>2, <2>3, <2>4
<1>h. ASSUME NEW r \in Requests, NEW l \in Working \ {"claim"}, pc[r] \in Working,
             Goto(r, l), UNCHANGED <<mem, faults, inflight>>
      PROVE  Goal
  <2>1. /\ inflight[k] \in Requests /\ mem[k].by = inflight[k]
        /\ pc[inflight[k]] \in Working \ {"claim"}
    BY <1>c, <1>f, <1>h
  <2>2. pc'[inflight[k]] \in {pc[inflight[k]], l}
    BY <1>a, <1>h, <2>1 DEF Goto
  <2>3. QED
    BY <1>h, <2>1, <2>2
<1>7. ASSUME NEW r \in Requests, Execute(r) PROVE Goal
  BY <1>7, <1>h DEF Execute, receiptVars, Working
<1>8. ASSUME NEW r \in Requests, NEW kind \in {"none", "success", "error"},
             Return(r, kind)
      PROVE  Goal
  BY <1>8, <1>h DEF Return, receiptVars, Working
<1>9. ASSUME NEW r \in Requests, NEW o \in TxOutcome, Claim(r, o) PROVE Goal
  <2> DEFINE row == pruneExpired[KeyOf[r]]
             new == IF Executable(row)
                    THEN [pruneExpired EXCEPT ![KeyOf[r]] = insertReceipt(r)]
                    ELSE pruneExpired
  <2>1. /\ pc[r] = "claim" /\ faults' = faults
        /\ \/ (\E a, q : Settle(r, a, q)) /\ (mem' = mem \/ mem' = pruneExpired)
           \/ Goto(r, "run") /\ UNCHANGED inflight /\ row.status = "absent" /\ mem' = new
    BY <1>a, <1>9, ClaimCases
  <2>2. up /\ pc[r] \in Working /\ faults = 0 /\ inflight[KeyOf[r]] = r /\ "run" \in Working
    BY <1>b, <1>f, <2>1 DEF Working, InFlight
  <2>3. mem[KeyOf[r]].status # "pending"
    BY <1>c, <2>1, <2>2
  <2>4. CASE (\E a, q : Settle(r, a, q)) /\ (mem' = mem \/ mem' = pruneExpired)
    <3>1. mem'[k] = mem[k] /\ KeyOf[r] # k
      BY <1>g, <2>3, <2>4
    <3>2. QED
      BY <1>d, <2>2, <2>4, <3>1
  <2>5. CASE Goto(r, "run") /\ UNCHANGED inflight /\ row.status = "absent" /\ mem' = new
    <3>1. mem' = [pruneExpired EXCEPT ![KeyOf[r]] = insertReceipt(r)]
      BY <2>5 DEF Executable
    <3>2. CASE k = KeyOf[r]
      <4>1. mem'[k].by = r
        BY <3>1, <3>2 DEF pruneExpired, insertReceipt
      <4>2. QED
        BY <1>a, <2>2, <2>5, <3>2, <4>1 DEF Goto
    <3>3. CASE k # KeyOf[r]
      <4>1. mem'[k] = mem[k]
        BY <1>g, <3>1, <3>3 DEF pruneExpired
      <4>2. QED
        BY <1>d, <2>2, <2>5, <3>3, <4>1
    <3>4. QED
      BY <3>2, <3>3
  <2>6. QED
    BY <2>1, <2>4, <2>5
<1>10. ASSUME NEW r \in Requests, NEW o \in TxOutcome, Complete(r, o) PROVE Goal
  <2>1. /\ pc[r] = "complete" /\ faults' = faults /\ mem' = completeReceipt(r)
        /\ \E a, q : Settle(r, a, q)
    BY <1>a, <1>10, CompleteCases
  <2>2. up /\ pc[r] \in Working /\ faults = 0
    BY <1>f, <2>1 DEF Working
  <2>3. k # KeyOf[r] /\ mem'[k] = mem[k]
    BY <1>a, <2>1, CompletedRows
  <2>4. QED
    BY <1>d, <2>1, <2>2, <2>3
<1>11. ASSUME NEW r \in Requests, NEW o \in TxOutcome, MarkIndeterminate(r, o) PROVE Goal
  <2>1. pc[r] = "mark" /\ Transaction(markReceipt(r), o) /\ \E a, q : Settle(r, a, q)
    BY <1>11 DEF MarkIndeterminate
  <2>2. faults = 0 /\ mem' = markReceipt(r) /\ up /\ pc[r] \in Working
    BY <1>a, <1>f, <2>1, TransactionCases DEF Working
  <2>3. /\ mem'[k].by = mem[k].by
        /\ mem'[k].status = IF OwnPending(r) /\ k = KeyOf[r] THEN "indeterminate"
                                                             ELSE mem[k].status
    BY <1>a, <2>2, MarkedRows
  <2>4. mem[k].status = "pending" /\ inflight[KeyOf[r]] = r
    BY <1>b, <2>2, <2>3 DEF InFlight
  <2>5. k # KeyOf[r]
    <3>1. SUFFICES ASSUME k = KeyOf[r] PROVE OwnPending(r)
      BY <2>3
    <3>2. QED
      BY <1>c, <2>2, <2>4, <3>1 DEF OwnPending
  <2>6. QED
    BY <1>d, <2>1, <2>2, <2>3, <2>4, <2>5
<1>12. CASE UNCHANGED mutationVars
  BY <1>12, <1>e DEF mutationVars, receiptVars, middlewareVars
<1>13. QED
  BY <1>1, <1>2, <1>3, <1>4, <1>5, <1>6, <1>7, <1>8, <1>9, <1>10, <1>11, <1>12
  DEF MutationNext, RequestStep

-----------------------------------------------------------------------------
(***************************************************************************)
(* The theorems                                                            *)
(***************************************************************************)
LEMMA InvInit == MutationInit => MutationInv
<1> SUFFICES ASSUME MutationInit PROVE MutationInv
  OBVIOUS
<1>1. MutationTypeOK
  <2>1. NoReceipt \in Receipt
    BY DEF NoReceipt, Receipt
  <2>2. mem \in [Keys -> Receipt] /\ disk \in [Keys -> Receipt] /\ up \in BOOLEAN
    BY <2>1 DEF MutationInit
  <2>3. QED
    BY <2>2 DEF MutationInit, MutationTypeOK, Labels, Answers
<1>2. \A k \in Keys : mem[k].status = "absent" /\ disk[k].status = "absent"
  BY DEF MutationInit, NoReceipt
<1>3. ReceiptsInv(mem) /\ ReceiptsInv(disk) /\ SameExpiry
  BY <1>2 DEF MutationInit, ReceiptsInv, ReceiptOwned, CompletedIsFinal,
              ExecutionRecorded, SameExpiry
<1>4. InFlight /\ DownIsQuiet /\ Progressed
  BY DEF MutationInit, InFlight, DownIsQuiet, Progressed, Working
<1>5. AnswersTruthful /\ AnswersFinal /\ RefusedNeverRan
  BY DEF MutationInit, AnswersTruthful, AnswersFinal, RefusedNeverRan
<1>6. InSync /\ PendingIsInFlight
  BY DEF MutationInit, InSync, PendingIsInFlight
<1>7. QED
  BY <1>1, <1>3, <1>4, <1>5, <1>6 DEF MutationInv

LEMMA InvStep == MutationInv /\ [MutationNext]_mutationVars => MutationInv'
  BY TypeStep, ReceiptsStep, ExpiryStep, FlightStep, AnswersStep, PendingStep
  DEF MutationInv

(* The invariant of the durable mutations holds in every behaviour: what memory
   and disk record of the requests, the in-flight entries and the answers agree,
   across failing transactions, crashes and restarts. *)
THEOREM MutationInvariant == MutationSpec => []MutationInv
  BY InvInit, InvStep, PTL DEF MutationSpec

(* Receipts, requests and histories keep their types. *)
THEOREM MutationTypeCorrect == MutationSpec => []MutationTypeOK
<1>1. MutationInv => MutationTypeOK
  BY DEF MutationInv
<1>2. QED
  BY <1>1, MutationInvariant, PTL

(* AgentMutationMiddleware calls the handler for at most one request of an
   operation key until the completed receipt expires: the receipt on disk can
   name only one of two executions. *)
THEOREM MutationsExecutedOnce == MutationSpec => []ExecutedOnce
<1>1. MutationInv => ExecutedOnce
  <2> SUFFICES ASSUME MutationInv, NEW r \in ran, NEW q \in ran, r # q,
                      KeyOf[r] = KeyOf[q], r \notin pruned, q \notin pruned
               PROVE  FALSE
    BY DEF ExecutedOnce
  <2>1. disk[KeyOf[r]].by = r /\ disk[KeyOf[q]].by = q
    BY DEF MutationInv, ReceiptsInv, ExecutionRecorded
  <2>2. QED
    BY <2>1
<1>2. QED
  BY <1>1, MutationInvariant, PTL

(* Every definite answer of #runDurable, first-hand, shared or replayed, reports
   the outcome of an execution with the same key and input. *)
THEOREM MutationAnswersTruthful == MutationSpec => []AnswersTruthful
<1>1. MutationInv => AnswersTruthful
  BY DEF MutationInv
<1>2. QED
  BY <1>1, MutationInvariant, PTL

(* A request that #runDurable answers with a plain failure was not executed and
   never will be. *)
THEOREM RefusedMutationsNeverRan == MutationSpec => []RefusedNeverRan
<1>1. MutationInv => RefusedNeverRan
  BY DEF MutationInv
<1>2. QED
  BY <1>1, MutationInvariant, PTL

(* From claim to complete the request's own receipt is pending on disk. *)
THEOREM RunningMutationsRecorded == MutationSpec => []RunningIsRecorded
<1>1. MutationInv => RunningIsRecorded
  BY DEF MutationInv, ReceiptsInv, ExecutionRecorded, RunningIsRecorded
<1>2. QED
  BY <1>1, MutationInvariant, PTL

(* Until a transaction fails, mutation/status reports "pending" only about a key
   whose in-flight request is at work. *)
THEOREM PendingMutationsHaveRunner == MutationSpec => []PendingHasRunner
<1>1. MutationInv => PendingHasRunner
  <2> SUFFICES ASSUME MutationInv, up, faults = 0, NEW k \in Keys,
                      mem[k].status = "pending"
               PROVE  inflight[k] # None /\ pc[inflight[k]] \in Working
    BY DEF PendingHasRunner
  <2>1. mem[k].by \in Requests
    BY DEF MutationInv, ReceiptsInv, ReceiptOwned
  <2>2. mem[k].by = inflight[k] /\ pc[inflight[k]] \in Working
    BY DEF MutationInv, PendingIsInFlight
  <2>3. QED
    BY <2>1, <2>2
<1>2. QED
  BY <1>1, MutationInvariant, PTL

-----------------------------------------------------------------------------
(***************************************************************************)
(* The refinement of DurableOperation                                      *)
(***************************************************************************)
(* Where the executions that count have different keys, the execution of a key
   is the one with that key, or there is none. *)
LEMMA OneExecution ==
    ASSUME NEW live \in SUBSET Requests, NEW k,
           \A r, q \in live : KeyOf[r] = KeyOf[q] => r = q
    PROVE  LET those == {r \in live : KeyOf[r] = k}
               one   == IF those = {} THEN None
                        ELSE IF \E r \in those : those = {r}
                        THEN CHOOSE r \in those : TRUE
                        ELSE "several"
           IN  /\ one = None \/ one \in live
               /\ \A r \in live : KeyOf[r] = k <=> one = r
<1> DEFINE those == {r \in live : KeyOf[r] = k}
           one == IF those = {} THEN None
                  ELSE IF \E r \in those : those = {r}
                  THEN CHOOSE r \in those : TRUE
                  ELSE "several"
<1>1. CASE those = {}
  BY <1>1
<1>2. CASE those # {}
  <2>1. PICK r : r \in those
    BY <1>2
  <2>2. those = {r}
    BY <2>1
  <2>3. one = CHOOSE q \in those : TRUE
    BY <2>2, Zenon
  <2>4. (CHOOSE q \in those : TRUE) \in those
    BY <2>1, Zenon
  <2>5. one = r
    BY <2>2, <2>3, <2>4, Zenon
  <2> HIDE DEF one
  <2>6. QED
    BY <2>1, <2>2, <2>5
<1>3. QED
  BY <1>1, <1>2

(* So it is in every state the invariant allows. *)
LEMMA ExecutionOfKey ==
    ASSUME MutationInv, NEW k
    PROVE  /\ Execution(k) = None \/ Execution(k) \in ran \ pruned
           /\ \A r \in ran \ pruned : KeyOf[r] = k <=> Execution(k) = r
<1>1. ran \ pruned \in SUBSET Requests
  BY DEF MutationInv, MutationTypeOK
<1>2. \A r, q \in ran \ pruned : KeyOf[r] = KeyOf[q] => r = q
  BY DEF MutationInv, ReceiptsInv, ExecutionRecorded
<1>3. QED
  BY <1>1, <1>2, OneExecution DEF Execution, Unforgotten

LEMMA ExecutionOfKeyNext ==
    ASSUME MutationInv', NEW k
    PROVE  /\ Execution(k)' = None \/ Execution(k)' \in ran' \ pruned'
           /\ \A r \in ran' \ pruned' : KeyOf[r] = k <=> Execution(k)' = r
<1>1. ran' \ pruned' \in SUBSET Requests
  BY DEF MutationInv, MutationTypeOK
<1>2. \A r, q \in ran' \ pruned' : KeyOf[r] = KeyOf[q] => r = q
  BY DEF MutationInv, ReceiptsInv, ExecutionRecorded
<1>3. QED
  BY <1>1, <1>2, OneExecution DEF Execution, Unforgotten

(* A step that leaves the executions, their outcomes and the answers alone is
   no step of the abstract operation. *)
LEMMA NothingHappens ==
    ASSUME UNCHANGED <<ran, pruned, outcome, answer>>
    PROVE  UNCHANGED Operation!vars
<1>1. \A k : Execution(k)' = Execution(k)
  BY DEF Execution, Unforgotten
<1>2. \A r : Told(r)' = Told(r)
  BY DEF Told
<1>3. QED
  BY <1>1, <1>2 DEF Operation!vars

(* Completed receipts expire and requests that share a promise are answered:
   the two halves of Settle. *)
LEMMA SettleRefined ==
    ASSUME MutationInv, MutationInv', UNCHANGED <<ran, outcome>>,
           pruned' = pruned \/ pruned' = pruned \cup ExpiredRuns,
           NEW R \in SUBSET Requests,
           NEW a \in {"success", "error", "unknown", "refused"},
           \A x \in Requests : Told(x)' = IF x \in R THEN a ELSE Told(x),
           \A x \in R : /\ answer[x] = "none"
                        /\ \/ a = "unknown" \/ (a = "refused" /\ x \notin ran)
                           \/ \E q \in ran \ pruned : KeyOf[q] = KeyOf[x] /\ outcome[q] = a
    PROVE  Operation!Settle
<1> DEFINE Used == {KeyOf[r] : r \in Requests}
           result(k) == IF Execution(k) \in Requests THEN outcome[Execution(k)] ELSE "none"
           F == {k \in Used : Execution(k) \in pruned' \ pruned}
           ans == [x \in R |-> a]
<1>a. /\ ran \subseteq Requests /\ outcome \in [Requests -> {"none", "success", "error"}]
      /\ None \notin Requests
  BY DEF MutationInv, MutationTypeOK
<1>1. \A k : /\ Execution(k) = None \/ Execution(k) \in ran \ pruned
             /\ \A r \in ran \ pruned : KeyOf[r] = k <=> Execution(k) = r
  BY ExecutionOfKey
<1>2. \A k : /\ Execution(k)' = None \/ Execution(k)' \in ran' \ pruned'
             /\ \A r \in ran' \ pruned' : KeyOf[r] = k <=> Execution(k)' = r
  BY ExecutionOfKeyNext
<1>3. \A k : Execution(k) # None => KeyOf[Execution(k)] = k
  BY <1>1
<1>4. \A k : Execution(k)' # None => KeyOf[Execution(k)'] = k
  BY <1>2
<1>5. \A k \in Used : Execution(k)' = IF k \in F THEN None ELSE Execution(k)
  BY <1>a, <1>1, <1>2, <1>3, <1>4
<1>6. \A k \in F : result(k) # "none"
  <2>1. ASSUME NEW q \in ExpiredRuns PROVE q \in ran /\ outcome[q] \in {"success", "error"}
    <3>1. PICK k \in Keys : q = mem[k].by /\ mem[k].status = "completed"
      BY <2>1 DEF ExpiredRuns, Expired
    <3>2. CompletedIsFinal(mem)
      BY DEF MutationInv, ReceiptsInv
    <3>3. QED
      BY <3>1, <3>2 DEF CompletedIsFinal
  <2>2. QED
    BY <1>a, <1>1, <2>1
<1>7. F \in SUBSET {k \in Used : result(k) # "none"}
  BY <1>6
<1>8. \A k \in Used : (IF Execution(k)' \in Requests THEN outcome'[Execution(k)'] ELSE "none")
                      = IF k \in F THEN "none" ELSE result(k)
  BY <1>a, <1>5
<1>9. /\ R \in SUBSET {x \in Requests : Told(x) = "none"}
      /\ ans \in [R -> {"success", "error", "unknown", "refused"}]
  BY DEF Told
<1>10. \A x \in R : ans[x] \in {"unknown"} \cup {result(KeyOf[x])}
                         \cup (IF Execution(KeyOf[x]) = x THEN {} ELSE {"refused"})
  BY <1>a, <1>1
<1> DEFINE by == [k \in Used |-> Execution(k)]
           res == [k \in Used |-> result(k)]
           told == [x \in Requests |-> Told(x)]
<1>11. /\ by' = [k \in Used |-> IF k \in F THEN None ELSE by[k]]
       /\ res' = [k \in Used |-> IF k \in F THEN "none" ELSE res[k]]
       /\ told' = [x \in Requests |-> IF x \in R THEN ans[x] ELSE told[x]]
  BY <1>5, <1>8
<1>12. /\ F \in SUBSET {k \in Used : res[k] # "none"}
       /\ R \in SUBSET {x \in Requests : told[x] = "none"}
       /\ \A x \in R : ans[x] \in {"unknown"} \cup {res[KeyOf[x]]}
                          \cup (IF by[KeyOf[x]] = x THEN {} ELSE {"refused"})
  BY <1>7, <1>9, <1>10
<1> HIDE DEF F, ans
<1>13. \E G \in SUBSET {k \in Used : res[k] # "none"} :
         /\ by' = [k \in Used |-> IF k \in G THEN None ELSE by[k]]
         /\ res' = [k \in Used |-> IF k \in G THEN "none" ELSE res[k]]
  <2> HIDE DEF by, res, Used
  <2>1. QED
    BY <1>11, <1>12
<1>14. \E Q \in SUBSET {x \in Requests : told[x] = "none"} :
         \E given \in [Q -> {"success", "error", "unknown", "refused"}] :
            /\ \A x \in Q : given[x] \in {"unknown"} \cup {res[KeyOf[x]]}
                                 \cup (IF by[KeyOf[x]] = x THEN {} ELSE {"refused"})
            /\ told' = [x \in Requests |-> IF x \in Q THEN given[x] ELSE told[x]]
  <2> HIDE DEF by, res, told
  <2>1. QED
    BY <1>9, <1>11, <1>12
<1>15. QED
  BY <1>13, <1>14, Zenon DEF Operation!Settle, Operation!UsedKeys, Operation!Answers

(* Receipts expire and nobody is answered. *)
LEMMA ExpiryRefined ==
    ASSUME MutationInv, MutationInv', UNCHANGED <<ran, outcome, answer>>,
           pruned' = pruned \/ pruned' = pruned \cup ExpiredRuns
    PROVE  Operation!Settle
<1>1. ASSUME NEW R \in SUBSET Requests, R = {}, NEW a, a = "unknown"
      PROVE  Operation!Settle
  <2>1. \A x \in Requests : Told(x)' = IF x \in R THEN a ELSE Told(x)
    BY <1>1 DEF Told
  <2>2. QED
    BY <1>1, <2>1, SettleRefined
<1>2. \E R \in SUBSET Requests : \E a : R = {} /\ a = "unknown"
  BY Zenon
<1>3. QED
  BY <1>1, <1>2, Zenon

(* A promise that settles answers requests that had no answer yet. *)
LEMMA PromiseRefined ==
    ASSUME MutationInv, MutationInv', UNCHANGED <<ran, outcome>>,
           pruned' = pruned \/ pruned' = pruned \cup ExpiredRuns,
           NEW r \in Requests, pc[r] \in Working, NEW a \in Answers \ {"none"}, NEW q,
           Settle(r, a, q),
           a \in {"success", "error"} =>
               \E x \in ran \ pruned : KeyOf[x] = KeyOf[r] /\ outcome[x] = a,
           a \in {"internal", "reused", "pending"} => r \notin ran
    PROVE  Operation!Settle
<1> DEFINE b == IF a \in {"success", "error", "unknown"} THEN a ELSE "refused"
<1>1. Sharing(r) \in SUBSET Requests
  BY DEF Sharing
<1>2. b \in {"success", "error", "unknown", "refused"}
  OBVIOUS
<1>3. \A x \in Requests : Told(x)' = IF x \in Sharing(r) THEN b ELSE Told(x)
  BY DEF Settle, Told
<1>4. \A x \in Sharing(r) : /\ KeyOf[x] = KeyOf[r] /\ answer[x] = "none"
                            /\ x = r \/ x \notin ran
  BY DEF MutationInv, Progressed, Sharing, Working, Unclaimed
<1>5. b = "refused" => a \in {"internal", "reused", "pending"}
  BY DEF Answers
<1>6. \A x \in Sharing(r) :
          /\ answer[x] = "none"
          /\ \/ b = "unknown" \/ (b = "refused" /\ x \notin ran)
             \/ \E y \in ran \ pruned : KeyOf[y] = KeyOf[x] /\ outcome[y] = b
  BY <1>4, <1>5
<1> HIDE DEF b
<1>7. QED
  BY <1>1, <1>2, <1>3, <1>6, SettleRefined

(* Every step of the middleware is a step of DurableOperation or none. *)
LEMMA OperationStep ==
    ASSUME MutationInv, MutationInv', [MutationNext]_mutationVars
    PROVE  [Operation!Next]_(Operation!vars)
<1> DEFINE Goal == [Operation!Next]_(Operation!vars)
<1>a. /\ pc \in [Requests -> Labels] /\ ran \subseteq Requests
      /\ outcome \in [Requests -> {"none", "success", "error"}]
      /\ answer \in [Requests -> Answers]
      /\ mem \in [Keys -> Receipt] /\ faults \in 0 .. MaxFaults
  BY DEF MutationInv, MutationTypeOK
<1>b. /\ Progressed /\ ReceiptOwned(mem) /\ CompletedIsFinal(mem) /\ ExecutionRecorded(mem)
  BY DEF MutationInv, ReceiptsInv
<1>c. ASSUME UNCHANGED <<ran, pruned, outcome, answer>> PROVE Goal
  BY <1>c, NothingHappens
<1>d. ASSUME Operation!Settle PROVE Goal
  BY <1>d DEF Operation!Next
<1>1. ASSUME NEW o \in TxOutcome, Recover(o) PROVE Goal
  BY <1>1, <1>c DEF Recover, historyFrame
<1>2. ASSUME NEW o \in TxOutcome, Status(o) PROVE Goal
  <2>1. /\ UNCHANGED <<ran, outcome, answer>>
        /\ pruned' = pruned \/ pruned' = pruned \cup ExpiredRuns
    BY <1>2 DEF Status, middlewareVars
  <2>2. QED
    BY <1>d, <2>1, ExpiryRefined
<1>3. CASE Crash
  BY <1>3, <1>c DEF Crash
<1>4. CASE Tick
  BY <1>4, <1>c DEF Tick, middlewareVars
<1>5. CASE FileStep
  BY <1>5, <1>c DEF FileStep, middlewareVars
<1>6. ASSUME NEW r \in Requests, Arrive(r) PROVE Goal
  <2>1. UNCHANGED <<ran, outcome, pruned>> /\ pc[r] = "idle"
    BY <1>6 DEF Arrive, historyFrame
  <2>2. r \notin ran /\ answer[r] = "none"
    BY <1>b, <2>1 DEF Progressed, Unclaimed
  <2>3. CASE UNCHANGED answer
    BY <1>c, <2>1, <2>3
  <2>4. CASE answer' = [answer EXCEPT ![r] = "reused"]
    <3>1. \A x \in Requests : Told(x)' = IF x \in {r} THEN "refused" ELSE Told(x)
      BY <1>a, <2>4 DEF Told
    <3>2. Operation!Settle
      BY <2>1, <2>2, <3>1, SettleRefined
    <3>3. QED
      BY <1>d, <3>2
  <2>5. QED
    BY <1>6, <2>3, <2>4 DEF Arrive
<1>7. ASSUME NEW r \in Requests, Execute(r) PROVE Goal
  <2>1. /\ UNCHANGED <<outcome, answer, pruned>> /\ ran' = ran \cup {r} /\ pc[r] = "run"
    BY <1>7 DEF Execute
  <2>2. r \notin ran /\ r \notin pruned /\ outcome[r] = "none" /\ answer[r] = "none"
    BY <1>b, <2>1 DEF Progressed, Unclaimed, Concluded
  <2>3. \A x \in ran \ pruned : KeyOf[x] # KeyOf[r]
    BY <1>b, <2>1, <2>2 DEF ExecutionRecorded
  <2>4. \A k : /\ Execution(k) = None \/ Execution(k) \in ran \ pruned
               /\ \A x \in ran \ pruned : KeyOf[x] = k <=> Execution(k) = x
    BY ExecutionOfKey
  <2>5. \A k : /\ Execution(k)' = None \/ Execution(k)' \in ran' \ pruned'
               /\ \A x \in ran' \ pruned' : KeyOf[x] = k <=> Execution(k)' = x
    BY ExecutionOfKeyNext
  <2>6. /\ Execution(KeyOf[r]) = None
        /\ \A k : Execution(k)' = IF k = KeyOf[r] THEN r ELSE Execution(k)
    BY <1>a, <2>1, <2>2, <2>3, <2>4, <2>5
  <2>7. Told(r) = "none" /\ \A x : Told(x)' = Told(x)
    BY <2>1, <2>2 DEF Told
  <2>8. Operation!Execute(r)
    BY <2>1, <2>2, <2>6, <2>7 DEF Operation!Execute
  <2>9. QED
    BY <2>8 DEF Operation!Next
<1>8. ASSUME NEW r \in Requests, NEW kind \in {"none", "success", "error"},
             Return(r, kind)
      PROVE  Goal
  <2>1. /\ UNCHANGED <<answer, ran, pruned>> /\ outcome' = [outcome EXCEPT ![r] = kind]
        /\ pc[r] = "running"
    BY <1>8 DEF Return, historyFrame
  <2>2. r \in ran \ pruned /\ outcome[r] = "none"
    BY <1>b, <2>1 DEF Progressed, Concluded
  <2>3. CASE kind = "none"
    <3>1. outcome' = outcome
      BY <1>a, <2>1, <2>2, <2>3
    <3>2. QED
      BY <1>c, <2>1, <3>1
  <2>4. CASE kind # "none"
    <3>1. \A k : Execution(k)' = Execution(k)
      BY <2>1 DEF Execution, Unforgotten
    <3>2. \A k : Execution(k) = r <=> KeyOf[r] = k
      BY <2>2, ExecutionOfKey
    <3>3. \A x : Told(x)' = Told(x)
      BY <2>1 DEF Told
    <3>4. \A k : (IF Execution(k)' \in Requests THEN outcome'[Execution(k)'] ELSE "none")
                 = IF k = KeyOf[r] THEN kind
                   ELSE IF Execution(k) \in Requests THEN outcome[Execution(k)] ELSE "none"
      BY <1>a, <2>1, <3>1, <3>2
    <3>5. Operation!Finish(KeyOf[r])
      BY <2>2, <2>4, <3>1, <3>2, <3>3, <3>4 DEF Operation!Finish
    <3>6. QED
      BY <3>5 DEF Operation!Next, Operation!UsedKeys
  <2>5. QED
    BY <2>3, <2>4
<1>9. ASSUME NEW r \in Requests, NEW o \in TxOutcome, Claim(r, o) PROVE Goal
  <2> DEFINE row == pruneExpired[KeyOf[r]]
  <2>1. /\ pc[r] = "claim" /\ UNCHANGED <<ran, outcome>>
        /\ pruned' = pruned \/ pruned' = pruned \cup ExpiredRuns
        /\ \/ \E a \in {"reused", "internal", "pending", "unknown"} : Settle(r, a, None)
           \/ Goto(r, "run") /\ UNCHANGED answer
           \/ Settle(r, row.kind, row.by) /\ row.status = "completed"
    BY <1>a, <1>9, ClaimCases
  <2>2. pc[r] \in Working /\ r \notin ran
    BY <1>b, <2>1 DEF Working, Progressed, Unclaimed
  <2>3. ASSUME NEW a \in {"reused", "internal", "pending", "unknown"}, Settle(r, a, None)
        PROVE  Goal
    <3>1. a \in Answers \ {"none"}
      BY DEF Answers
    <3>2. Operation!Settle
      BY <2>1, <2>2, <2>3, <3>1, PromiseRefined
    <3>3. QED
      BY <1>d, <3>2
  <2>4. CASE Goto(r, "run") /\ UNCHANGED answer
    BY <1>d, <2>1, <2>4, ExpiryRefined
  <2>5. CASE Settle(r, row.kind, row.by) /\ row.status = "completed"
    <3>1. row = mem[KeyOf[r]] /\ ~Expired(row)
      BY <2>5 DEF pruneExpired, NoReceipt
    <3>2. /\ row.by \in ran \ pruned /\ outcome[row.by] = row.kind
          /\ row.kind \in {"success", "error"} /\ KeyOf[row.by] = KeyOf[r]
      BY <1>b, <2>5, <3>1 DEF ReceiptOwned, CompletedIsFinal, Expired
    <3>3. row.kind \in Answers \ {"none"}
      BY <3>2 DEF Answers
    <3> HIDE DEF row
    <3>4. Operation!Settle
      BY <2>1, <2>2, <2>5, <3>2, <3>3, PromiseRefined
    <3>5. QED
      BY <1>d, <3>4
  <2>6. QED
    BY <2>1, <2>3, <2>4, <2>5
<1>10. ASSUME NEW r \in Requests, NEW o \in TxOutcome, Complete(r, o) PROVE Goal
  <2>1. /\ pc[r] = "complete" /\ UNCHANGED <<outcome, ran, pruned>>
        /\ \/ Settle(r, outcome[r], r)
           \/ Goto(r, "mark") /\ UNCHANGED answer
    BY <1>10, CompleteCases
  <2>2. pc[r] \in Working /\ r \in ran \ pruned /\ outcome[r] \in {"success", "error"}
    BY <1>b, <2>1 DEF Working, Progressed, Concluded
  <2>3. CASE Settle(r, outcome[r], r)
    <3>1. outcome[r] \in Answers \ {"none"}
      BY <2>2 DEF Answers
    <3>2. Operation!Settle
      BY <2>1, <2>2, <2>3, <3>1, PromiseRefined
    <3>3. QED
      BY <1>d, <3>2
  <2>4. CASE Goto(r, "mark") /\ UNCHANGED answer
    BY <1>c, <2>1, <2>4
  <2>5. QED
    BY <2>1, <2>3, <2>4
<1>11. ASSUME NEW r \in Requests, NEW o \in TxOutcome, MarkIndeterminate(r, o) PROVE Goal
  <2>1. /\ pc[r] \in Working /\ Settle(r, "unknown", None)
        /\ UNCHANGED <<ran, pruned, outcome>> /\ "unknown" \in Answers \ {"none"}
    BY <1>11 DEF MarkIndeterminate, historyFrame, Working, Settle, Answers
  <2>2. Operation!Settle
    BY <2>1, PromiseRefined
  <2>3. QED
    BY <1>d, <2>2
<1>12. CASE UNCHANGED mutationVars
  BY <1>12, <1>c DEF mutationVars, middlewareVars
<1>13. QED
  BY <1>1, <1>2, <1>3, <1>4, <1>5, <1>6, <1>7, <1>8, <1>9, <1>10, <1>11, <1>12
  DEF MutationNext, RequestStep

LEMMA OperationInit == MutationInit => Operation!Init
<1> SUFFICES ASSUME MutationInit PROVE Operation!Init
  OBVIOUS
<1>1. \A k : Execution(k) = None
  BY DEF MutationInit, Execution, Unforgotten
<1>2. \A r \in Requests : Told(r) = "none"
  BY DEF MutationInit, Told
<1>3. QED
  BY <1>1, <1>2 DEF Operation!Init, Operation!UsedKeys

(* The middleware with its receipts, its failing transactions, crashes and
   restarts implements DurableOperation: seen from outside, a key is executed
   once until its result is forgotten, and answers are results. *)
THEOREM MutationsRefine == MutationSpec => ImplementsOperation
<1>1. MutationInv /\ MutationInv' /\ [MutationNext]_mutationVars
          => [Operation!Next]_(Operation!vars)
  BY OperationStep
<1>2. QED
  BY <1>1, OperationInit, MutationInvariant, PTL
  DEF MutationSpec, ImplementsOperation, Operation!Spec

-----------------------------------------------------------------------------
(***************************************************************************)
(* The page                                                                *)
(***************************************************************************)
USE ClientAssumption

-----------------------------------------------------------------------------
(***************************************************************************)
(* The Agent                                                               *)
(***************************************************************************)
(* The head of a connection's queue is one of the operations. *)
LEMMA HeadQueued ==
    ASSUME ClientTypeOK, NEW e \in Links, queue[e] # <<>>
    PROVE  Head(queue[e]) \in Requests /\ Queued(Head(queue[e]))
<1>1. queue[e] \in Seq(Requests)
  BY DEF ClientTypeOK
<1>2. Head(queue[e]) = queue[e][1] /\ 1 \in 1 .. Len(queue[e])
  BY <1>1
<1>3. QED
  BY <1>1, <1>2 DEF Queued

(* Every step of the page, its port and the connections is, for the receipts,
   a step of the middleware or none. *)
LEMMA AgentSteps == ClientTypeOK /\ [Next]_vars => [MutationNext]_mutationVars
<1> SUFFICES ASSUME ClientTypeOK, [Next]_vars PROVE [MutationNext]_mutationVars
  OBVIOUS
<1>1. CASE AgentStep
  BY <1>1, Zenon DEF AgentStep, MutationNext
<1>2. CASE AgentCrash
  BY <1>2 DEF AgentCrash, MutationNext
<1>3. CASE LoseLink \/ Reconnect
  BY <1>3 DEF LoseLink, Reconnect
<1>4. ASSUME NEW r \in Requests, ClientStep(r) PROVE [MutationNext]_mutationVars
  <2>1. CASE Submit(r) \/ Timeout(r) \/ PollInVain(r)
    BY <2>1 DEF Submit, Timeout, PollInVain
  <2>2. ASSUME NEW o \in TxOutcome, Poll(r, o) PROVE [MutationNext]_mutationVars
    <3>1. Status(o)
      BY <2>2, Zenon DEF Poll, Status
    <3>2. QED
      BY <3>1, Zenon DEF MutationNext
  <2>3. QED
    BY <1>4, <2>1, <2>2 DEF ClientStep
<1>5. ASSUME NEW e \in Links, Dispatch(e) PROVE [MutationNext]_mutationVars
  <2>1. Head(queue[e]) \in Requests
    BY <1>5, HeadQueued DEF Dispatch
  <2>2. QED
    BY <1>5, <2>1, Zenon DEF Dispatch, MutationNext
<1>6. ASSUME NEW e \in Links, Respond(e) \/ CloseSession(e)
      PROVE  [MutationNext]_mutationVars
  BY <1>6 DEF Respond, CloseSession
<1>7. CASE UNCHANGED vars
  BY <1>7 DEF vars
<1>8. QED
  BY <1>1, <1>2, <1>3, <1>4, <1>5, <1>6, <1>7 DEF Next

(* What a request that settles, and what one that works, does to the others. *)
LEMMA PromiseMoves ==
    ASSUME MutationTypeOK, NEW r \in Requests, pc[r] \in Working, NEW x \in Requests,
           \/ \E a \in Answers \ {"none"} : \E q : Settle(r, a, q)
           \/ \E l \in Working : pc[r] # "mark" /\ Goto(r, l) /\ UNCHANGED answer
    PROVE  /\ pc[x] \in Concluded => pc'[x] \in Concluded
           /\ pc[x] = "idle" => pc'[x] = "idle"
           /\ pc'[x] = "done" => answer'[x] # "none" \/ (pc[x] = "done" /\ answer'[x] = answer[x])
<1>a. pc \in [Requests -> Labels] /\ answer \in [Requests -> Answers]
  BY DEF MutationTypeOK
<1>1. CASE \E a \in Answers \ {"none"} : \E q : Settle(r, a, q)
  <2>1. PICK a \in Answers \ {"none"} : \E q : Settle(r, a, q)
    BY <1>1
  <2>2. /\ pc'[x] = IF x \in Sharing(r) THEN "done" ELSE pc[x]
        /\ answer'[x] = IF x \in Sharing(r) THEN a ELSE answer[x]
    BY <2>1 DEF Settle
  <2>3. x \in Sharing(r) => pc[x] \in Working \cup {"joined"}
    BY DEF Sharing
  <2>4. QED
    BY <2>1, <2>2, <2>3 DEF Working, Concluded
<1>2. CASE \E l \in Working : pc[r] # "mark" /\ Goto(r, l) /\ UNCHANGED answer
  <2>1. pc'[x] = pc[x] \/ (x = r /\ pc'[x] \in Working)
    BY <1>a, <1>2 DEF Goto
  <2>2. QED
    BY <1>2, <2>1 DEF Working, Concluded
<1>3. QED
  BY <1>1, <1>2

(* A request that is over stays over, with its outcome; one that is not on its way
   does not reach the middleware; and every request that is done has an answer. *)
LEMMA RequestMoves ==
    ASSUME MutationInv, ClientTypeOK, [Next]_vars, NEW x \in Requests
    PROVE  /\ pc[x] \in Concluded => /\ pc'[x] \in Concluded
                                     /\ (x \in ran') = (x \in ran)
                                     /\ outcome'[x] = outcome[x]
           /\ Unsent(x) => pc'[x] = "idle"
           /\ (pc[x] = "done" => answer[x] # "none") =>
                  (pc'[x] = "done" => answer'[x] # "none")
<1> DEFINE Goal ==
           /\ pc[x] \in Concluded => /\ pc'[x] \in Concluded
                                     /\ (x \in ran') = (x \in ran)
                                     /\ outcome'[x] = outcome[x]
           /\ Unsent(x) => pc'[x] = "idle"
           /\ (pc[x] = "done" => answer[x] # "none") =>
                  (pc'[x] = "done" => answer'[x] # "none")
           Promise(r) ==
             \/ \E a \in Answers \ {"none"} : \E q : Settle(r, a, q)
             \/ \E l \in Working : pc[r] # "mark" /\ Goto(r, l) /\ UNCHANGED answer
<1>a. /\ MutationTypeOK /\ mem \in [Keys -> Receipt] /\ faults \in 0 .. MaxFaults
      /\ pc \in [Requests -> Labels] /\ answer \in [Requests -> Answers]
      /\ outcome \in [Requests -> {"none", "success", "error"}]
  BY DEF MutationInv, MutationTypeOK
<1>b. /\ CompletedIsFinal(mem) /\ Progressed
  BY DEF MutationInv, ReceiptsInv
<1>c. ASSUME UNCHANGED <<pc, answer, ran, outcome>> PROVE Goal
  BY <1>c DEF Unsent
<1>d. ASSUME NEW r \in Requests, pc[r] \in Working, Promise(r),
             ran' = ran \/ (ran' = ran \cup {r} /\ pc[r] = "run"),
             outcome' = outcome \/ \E kind : pc[r] = "running"
                                             /\ outcome' = [outcome EXCEPT ![r] = kind]
      PROVE  Goal
  <2>1. /\ pc[x] \in Concluded => pc'[x] \in Concluded
        /\ pc[x] = "idle" => pc'[x] = "idle"
        /\ pc'[x] = "done" => answer'[x] # "none" \/ (pc[x] = "done" /\ answer'[x] = answer[x])
    BY <1>a, <1>d, PromiseMoves
  <2>2. pc[x] \in Concluded => (x \in ran') = (x \in ran) /\ outcome'[x] = outcome[x]
    BY <1>a, <1>d DEF Concluded
  <2>3. QED
    BY <2>1, <2>2 DEF Unsent
<1>1. CASE AgentStep
  <2>1. ASSUME NEW o \in TxOutcome, Recover(o) PROVE Goal
    BY <1>c, <2>1 DEF Recover, historyFrame
  <2>2. CASE Tick \/ FileStep
    BY <1>c, <2>2 DEF Tick, FileStep, middlewareVars
  <2>3. ASSUME NEW r \in Requests, RequestStep(r) PROVE Goal
    <3>1. CASE Execute(r)
      <4>1. Promise(r) /\ pc[r] \in Working
        BY <3>1 DEF Execute, Working
      <4>2. QED
        BY <1>d, <3>1, <4>1 DEF Execute
    <3>2. ASSUME NEW kind \in {"none", "success", "error"}, Return(r, kind) PROVE Goal
      <4>1. Promise(r) /\ pc[r] \in Working
        BY <3>2 DEF Return, Working
      <4>2. QED
        BY <1>d, <3>2, <4>1 DEF Return, historyFrame
    <3>3. ASSUME NEW o \in TxOutcome, Claim(r, o) PROVE Goal
      <4> DEFINE row == pruneExpired[KeyOf[r]]
      <4>1. /\ pc[r] = "claim" /\ UNCHANGED <<ran, outcome>>
            /\ \/ \E a \in {"reused", "internal", "pending", "unknown"} : Settle(r, a, None)
               \/ Goto(r, "run") /\ UNCHANGED answer
               \/ Settle(r, row.kind, row.by) /\ row.status = "completed"
        BY <1>a, <3>3, ClaimCases
      <4>2. row.status = "completed" => row.kind \in {"success", "error"}
        <5>1. KeyOf[r] \in Keys /\ row = IF Expired(mem[KeyOf[r]]) THEN NoReceipt
                                                                  ELSE mem[KeyOf[r]]
          BY DEF pruneExpired
        <5>2. QED
          BY <1>b, <5>1 DEF CompletedIsFinal, NoReceipt
      <4> HIDE DEF row
      <4>3. Promise(r) /\ pc[r] \in Working
        BY <4>1, <4>2 DEF Answers, Working
      <4>4. QED
        BY <1>d, <4>1, <4>3
    <3>4. ASSUME NEW o \in TxOutcome, Complete(r, o) PROVE Goal
      <4>1. /\ pc[r] = "complete" /\ UNCHANGED <<outcome, ran>>
            /\ \/ Settle(r, outcome[r], r)
               \/ Goto(r, "mark") /\ UNCHANGED answer
        BY <3>4, CompleteCases
      <4>2. outcome[r] \in {"success", "error"}
        BY <1>b, <4>1 DEF Progressed
      <4>3. Promise(r) /\ pc[r] \in Working
        BY <4>1, <4>2 DEF Answers, Working
      <4>4. QED
        BY <1>d, <4>1, <4>3
    <3>5. ASSUME NEW o \in TxOutcome, MarkIndeterminate(r, o) PROVE Goal
      <4>1. /\ pc[r] = "mark" /\ Settle(r, "unknown", None) /\ UNCHANGED <<outcome, ran>>
        BY <3>5 DEF MarkIndeterminate, historyFrame, Settle
      <4>2. Promise(r) /\ pc[r] \in Working
        BY <4>1 DEF Answers, Working
      <4>3. QED
        BY <1>d, <4>1, <4>2
    <3>6. QED
      BY <2>3, <3>1, <3>2, <3>3, <3>4, <3>5 DEF RequestStep
  <2>4. QED
    BY <1>1, <2>1, <2>2, <2>3 DEF AgentStep
<1>2. CASE AgentCrash
  BY <1>2 DEF AgentCrash, Crash, Concluded, Unsent
<1>3. CASE LoseLink \/ Reconnect
  BY <1>3, <1>c DEF LoseLink, Reconnect, mutationVars, middlewareVars
<1>4. ASSUME NEW r \in Requests, ClientStep(r) PROVE Goal
  BY <1>4, <1>c DEF ClientStep, Submit, Timeout, PollInVain, Poll, mutationVars,
                    middlewareVars
<1>5. ASSUME NEW e \in Links, Dispatch(e) PROVE Goal
  <2>1. /\ Head(queue[e]) \in Requests /\ Queued(Head(queue[e]))
        /\ Arrive(Head(queue[e]))
    BY <1>5, HeadQueued DEF Dispatch
  <2>2. PICK r \in Requests : Queued(r) /\ Arrive(r)
    BY <2>1
  <2>3. /\ pc[r] = "idle" /\ UNCHANGED <<ran, outcome>>
        /\ \/ \E l \in {"joined", "claim"} : Goto(r, l) /\ UNCHANGED answer
           \/ Goto(r, "done") /\ answer' = [answer EXCEPT ![r] = "reused"]
    BY <2>2 DEF Arrive, historyFrame
  <2>4. QED
    BY <1>a, <2>2, <2>3 DEF Goto, Unsent, Concluded
<1>6. ASSUME NEW e \in Links, Respond(e) \/ CloseSession(e) PROVE Goal
  BY <1>6, <1>c DEF Respond, CloseSession, mutationVars, middlewareVars
<1>7. CASE UNCHANGED vars
  BY <1>7, <1>c DEF vars, mutationVars, middlewareVars
<1>8. QED
  BY <1>1, <1>2, <1>3, <1>4, <1>5, <1>6, <1>7 DEF Next
-----------------------------------------------------------------------------
(***************************************************************************)
(* The page                                                                *)
(***************************************************************************)
(* What the page makes of a receipt, of an answer and of an error. *)
LEMMA Reactions ==
    ASSUME NEW r \in Requests
    PROVE  /\ \A row \in Receipt : Verdict(r, row) \in ClientStates
           /\ \A a \in Answers \ {"none"} : Reaction(a) \in ClientStates
           /\ QueryFailure(r) \in ClientStates
<1>1. \A row \in Receipt : Verdict(r, row) \in ClientStates
  <2> TAKE row \in Receipt
  <2>1. row.status \in {"absent", "pending", "completed", "indeterminate"}
    BY DEF Receipt
  <2>2. QED
    BY <2>1 DEF Verdict, ClientStates
<1>2. \A a \in Answers \ {"none"} : Reaction(a) \in ClientStates
  BY DEF Reaction, Answers, ClientStates
<1>3. QueryFailure(r) \in ClientStates
  BY DEF QueryFailure, ClientStates
<1>4. QED
  BY <1>1, <1>2, <1>3

(* The page, the port and the connections keep their types. *)
LEMMA ClientTypeStep ==
    ASSUME MutationInv, MutationInv', ClientInv, [Next]_vars
    PROVE  ClientTypeOK' /\ (linked => link \in Links)'
<1> DEFINE Goal == ClientTypeOK' /\ (linked => link \in Links)'
<1>a. /\ client \in [Requests -> ClientStates]
      /\ link \in 0 .. MaxLinks /\ linked \in BOOLEAN /\ (linked => link \in Links)
      /\ session \in [Links -> BOOLEAN] /\ queue \in [Links -> Seq(Requests)]
  BY DEF ClientInv, ClientTypeOK, ClientStates
<1>b. /\ MutationTypeOK' /\ mem \in [Keys -> Receipt] /\ now \in Nat
      /\ answer \in [Requests -> Answers]
      /\ \A r \in Requests : pc[r] = "done" => answer[r] # "none"
  BY DEF MutationInv, MutationTypeOK, ClientInv
<1>c. ASSUME client' \in [Requests -> ClientStates],
             link' \in 0 .. MaxLinks, linked' \in BOOLEAN, linked' => link' \in Links,
             session' \in [Links -> BOOLEAN], queue' \in [Links -> Seq(Requests)]
      PROVE  Goal
  BY <1>b, <1>c DEF ClientTypeOK, ClientStates
<1>1. CASE UNCHANGED clientVars
  <2>1. UNCHANGED <<client, link, linked, session, queue>>
    BY <1>1 DEF clientVars
  <2>2. QED
    BY <1>a, <1>c, <2>1
<1>2. CASE AgentCrash
  <2>1. client' \in [Requests -> ClientStates]
    BY <1>a, <1>2 DEF AgentCrash, ClientStates
  <2>2. /\ linked' = FALSE /\ link' = link /\ session' \in [Links -> BOOLEAN]
        /\ queue' \in [Links -> Seq(Requests)]
    BY <1>2 DEF AgentCrash
  <2>3. QED
    BY <1>a, <1>c, <2>1, <2>2
<1>3. CASE LoseLink
  <2>1. client' \in [Requests -> ClientStates]
    <3>1. PICK gaveUp : client' = [r \in Requests |-> CASE r \in Waiting -> "unknown"
                                                      [] r \in gaveUp -> "manual"
                                                      [] OTHER -> client[r]]
      BY <1>3 DEF LoseLink
    <3>2. QED
      BY <1>a, <3>1 DEF ClientStates
  <2>2. linked' = FALSE /\ UNCHANGED <<link, session, queue>>
    BY <1>3 DEF LoseLink
  <2>3. QED
    BY <1>a, <1>c, <2>1, <2>2
<1>4. CASE Reconnect
  <2>1. client' \in [Requests -> ClientStates]
    BY <1>a, <1>4 DEF Reconnect, ClientStates
  <2>2. /\ linked' = TRUE /\ link' \in Links /\ link' \in 0 .. MaxLinks
        /\ session' \in [Links -> BOOLEAN] /\ queue' = queue
    BY <1>a, <1>4 DEF Reconnect, Links
  <2>3. QED
    BY <1>a, <1>c, <2>1, <2>2
<1>5. ASSUME NEW r \in Requests, ClientStep(r) PROVE Goal
  <2>1. CASE Submit(r)
    <3>1. client' \in [Requests -> ClientStates]
      BY <1>a, <2>1 DEF Submit, ClientGoto, ClientStates
    <3>2. queue' \in [Links -> Seq(Requests)]
      <4>1. linked => link \in Links /\ Append(queue[link], r) \in Seq(Requests)
        BY <1>a
      <4>2. QED
        BY <1>a, <2>1, <4>1 DEF Submit
    <3>3. UNCHANGED <<link, linked, session>>
      BY <2>1 DEF Submit
    <3>4. QED
      BY <1>a, <1>c, <3>1, <3>2, <3>3
  <2>2. CASE Timeout(r) \/ PollInVain(r)
    <3>1. client' \in [Requests -> ClientStates]
      BY <1>a, <2>2 DEF Timeout, PollInVain, ClientGoto, ClientStates
    <3>2. UNCHANGED <<link, linked, session, queue>>
      BY <2>2 DEF Timeout, PollInVain
    <3>3. QED
      BY <1>a, <1>c, <3>1, <3>2
  <2>3. ASSUME NEW o \in TxOutcome, Poll(r, o) PROVE Goal
    <3>1. pruneExpired[KeyOf[r]] \in Receipt
      BY <1>b DEF pruneExpired, NoReceipt, Receipt
    <3>2. PICK s \in ClientStates : client' = [client EXCEPT ![r] = s]
      BY <2>3, <3>1, Reactions DEF Poll, ClientGoto
    <3>3. client' \in [Requests -> ClientStates] /\ UNCHANGED <<link, linked, session, queue>>
      BY <1>a, <2>3, <3>2 DEF Poll
    <3>4. QED
      BY <1>a, <1>c, <3>3
  <2>4. QED
    BY <1>5, <2>1, <2>2, <2>3 DEF ClientStep
<1>6. ASSUME NEW e \in Links, Respond(e) PROVE Goal
  <2>1. queue[e] # <<>> /\ Head(queue[e]) \in Requests /\ pc[Head(queue[e])] = "done"
    BY <1>6, HeadQueued DEF Respond, ClientInv
  <2>2. Reaction(answer[Head(queue[e])]) \in ClientStates
    BY <1>b, <2>1, Reactions
  <2>3. client' \in [Requests -> ClientStates]
    BY <1>a, <1>6, <2>1, <2>2 DEF Respond
  <2>4. queue' \in [Links -> Seq(Requests)]
    BY <1>a, <1>6, <2>1 DEF Respond
  <2>5. UNCHANGED <<link, linked, session>>
    BY <1>6 DEF Respond
  <2>6. QED
    BY <1>a, <1>c, <2>3, <2>4, <2>5
<1>7. ASSUME NEW e \in Links, CloseSession(e) PROVE Goal
  <2>1. queue' \in [Links -> Seq(Requests)]
    <3>1. queue[e] # <<>> => <<Head(queue[e])>> \in Seq(Requests)
      BY HeadQueued DEF ClientInv
    <3>2. QED
      BY <1>a, <1>7, <3>1 DEF CloseSession
  <2>2. session' \in [Links -> BOOLEAN] /\ UNCHANGED <<client, link, linked>>
    BY <1>a, <1>7 DEF CloseSession
  <2>3. QED
    BY <1>a, <1>c, <2>1, <2>2
<1>8. QED
  BY <1>1, <1>2, <1>3, <1>4, <1>5, <1>6, <1>7 DEF Next, AgentStep, Dispatch, vars

(* Nothing gets into a queue but what is submitted. *)
LEMMA QueuedStep ==
    ASSUME ClientTypeOK, linked => link \in Links, [Next]_vars,
           NEW x \in Requests, ~Queued(x), ~(client[x] = "idle" /\ client'[x] = "waiting")
    PROVE  ~Queued(x)'
<1>a. queue \in [Links -> Seq(Requests)] /\ client \in [Requests -> ClientStates]
  BY DEF ClientTypeOK, ClientStates
<1>b. \A e \in Links : \A j \in 1 .. Len(queue[e]) : queue[e][j] # x
  BY DEF Queued
<1>c. ASSUME \A e \in Links : \A j \in 1 .. Len(queue'[e]) : queue'[e][j] # x
      PROVE  ~Queued(x)'
  BY <1>c DEF Queued
<1>1. CASE UNCHANGED queue
  BY <1>1, <1>b, <1>c
<1>2. CASE AgentCrash
  BY <1>2, <1>c DEF AgentCrash
<1>3. ASSUME NEW r \in Requests, Submit(r) PROVE ~Queued(x)'
  <2>1. CASE linked /\ r = x
    <3>1. client[x] = "idle" /\ client'[x] = "waiting"
      BY <1>a, <1>3, <2>1 DEF Submit, ClientGoto
    <3>2. QED
      BY <3>1
  <2>2. CASE linked /\ r # x
    <3>1. link \in Links /\ queue' = [queue EXCEPT ![link] = Append(@, r)]
      BY <1>3, <2>2 DEF Submit
    <3>2. \A j \in 1 .. Len(Append(queue[link], r)) : Append(queue[link], r)[j] # x
      BY <1>a, <1>b, <2>2, <3>1
    <3>3. QED
      BY <1>a, <1>b, <1>c, <3>1, <3>2
  <2>3. CASE ~linked
    BY <1>1, <1>3, <2>3 DEF Submit
  <2>4. QED
    BY <2>1, <2>2, <2>3
<1>4. ASSUME NEW e \in Links, Respond(e) PROVE ~Queued(x)'
  <2>1. queue[e] # <<>> /\ queue' = [queue EXCEPT ![e] = Tail(@)] /\ queue[e] \in Seq(Requests)
    BY <1>a, <1>4 DEF Respond
  <2>2. \A j \in 1 .. Len(Tail(queue[e])) :
            Tail(queue[e])[j] = queue[e][j + 1] /\ j + 1 \in 1 .. Len(queue[e])
    BY <2>1
  <2>3. QED
    BY <1>a, <1>b, <1>c, <2>1, <2>2
<1>5. ASSUME NEW e \in Links, CloseSession(e) PROVE ~Queued(x)'
  <2>1. queue' = [queue EXCEPT ![e] = IF @ # <<>> /\ pc[Head(@)] # "idle"
                                     THEN <<Head(@)>> ELSE <<>>]
    BY <1>5 DEF CloseSession
  <2>2. queue[e] # <<>> => Head(queue[e]) # x
    BY HeadQueued
  <2>3. QED
    BY <1>a, <1>b, <1>c, <2>1, <2>2
<1>6. QED
  BY <1>1, <1>2, <1>3, <1>4, <1>5
  DEF Next, vars, clientVars, AgentStep, LoseLink, Reconnect, ClientStep, Timeout, PollInVain,
      Poll, Dispatch

(* What the page reports for the first time is over, and so. *)
LEMMA Reported ==
    ASSUME MutationInv, MutationInv', ClientInv, [Next]_vars,
           NEW x \in Requests, client'[x] # client[x]
    PROVE  /\ client'[x] # "idle"
           /\ client'[x] = "resolved" =>
                  x \in ran /\ outcome[x] = "success" /\ pc[x] \in Concluded
           /\ client'[x] = "failed" /\ x \in Composers =>
                  \/ Unsent(x)
                  \/ pc[x] \in Concluded /\ (x \in ran => outcome[x] = "error")
<1> DEFINE Goal ==
           /\ client'[x] # "idle"
           /\ client'[x] = "resolved" =>
                  x \in ran /\ outcome[x] = "success" /\ pc[x] \in Concluded
           /\ client'[x] = "failed" /\ x \in Composers =>
                  \/ Unsent(x)
                  \/ pc[x] \in Concluded /\ (x \in ran => outcome[x] = "error")
<1>a. client \in [Requests -> ClientStates] /\ ClientTypeOK
  BY DEF ClientInv, ClientTypeOK, ClientStates
<1>b. /\ mem \in [Keys -> Receipt] /\ CompletedIsFinal(mem) /\ ReceiptOwned(mem)
      /\ AnswersTruthful /\ AnswersFinal /\ RefusedNeverRan
      /\ answer \in [Requests -> Answers]
      /\ \A r \in Requests : pc[r] = "done" => answer[r] # "none"
  BY DEF MutationInv, MutationTypeOK, ReceiptsInv, ClientInv
<1>1. CASE AgentCrash \/ LoseLink \/ Reconnect
  BY <1>1 DEF AgentCrash, LoseLink, Reconnect
<1>2. ASSUME NEW r \in Requests, Submit(r) \/ Timeout(r) \/ PollInVain(r) PROVE Goal
  <2>1. r = x
    BY <1>a, <1>2 DEF Submit, Timeout, PollInVain, ClientGoto
  <2>2. client[x] = "idle" => Unsent(x)
    BY DEF ClientInv, ReportsFinal
  <2>3. QED
    BY <1>a, <1>2, <2>1, <2>2 DEF Submit, Timeout, PollInVain, ClientGoto
<1>3. ASSUME NEW r \in Requests, NEW o \in TxOutcome, Poll(r, o) PROVE Goal
  <2> DEFINE row == pruneExpired[KeyOf[r]]
  <2>1. r = x /\ client'[x] = IF o = "ok" THEN Verdict(r, row) ELSE QueryFailure(r)
    BY <1>a, <1>3 DEF Poll, ClientGoto
  <2>2. row \in Receipt /\ row.status \in {"absent", "pending", "completed", "indeterminate"}
    <3>1. row \in Receipt
      BY <1>b DEF pruneExpired, NoReceipt, Receipt
    <3>2. QED
      BY <3>1 DEF Receipt
  <2>3. row.status = "completed" =>
            /\ row.by = x /\ x \in ran /\ pc[x] \in Concluded
            /\ row.kind \in {"success", "error"} /\ row.kind = outcome[x]
    <3>1. ASSUME row.status = "completed" PROVE row = mem[KeyOf[x]] /\ KeyOf[x] \in Keys
      BY <2>1, <3>1 DEF pruneExpired, NoReceipt
    <3>2. ASSUME row.status = "completed" PROVE row.by = x
      BY <1>b, <3>1, <3>2 DEF ReceiptOwned
    <3>3. QED
      BY <1>b, <3>1, <3>2 DEF CompletedIsFinal
  <2> HIDE DEF row
  <2>4. QED
    BY <2>1, <2>2, <2>3 DEF Verdict, QueryFailure
<1>4. ASSUME NEW e \in Links, Respond(e) PROVE Goal
  <2>1. /\ queue[e] # <<>> /\ Head(queue[e]) \in Requests /\ pc[Head(queue[e])] = "done"
    BY <1>a, <1>4, HeadQueued DEF Respond
  <2>2. /\ x = Head(queue[e]) /\ client'[x] = Reaction(answer[x])
    BY <1>a, <1>4, <2>1 DEF Respond
  <2>3. pc[x] = "done" /\ answer[x] \in Answers \ {"none"}
    BY <1>b, <2>1, <2>2
  <2>4. answer[x] \in {"success", "error"} => x \in ran /\ outcome[x] = answer[x]
    BY <1>b DEF AnswersTruthful, MutationInv, MutationTypeOK
  <2>5. answer[x] \in {"reused", "internal"} => x \notin ran
    BY <1>b DEF RefusedNeverRan
  <2>6. QED
    BY <2>2, <2>3, <2>4, <2>5 DEF Reaction, Answers, Concluded
<1>5. QED
  BY <1>1, <1>2, <1>3, <1>4
  DEF Next, vars, clientVars, AgentStep, ClientStep, Dispatch, CloseSession

-----------------------------------------------------------------------------
(***************************************************************************)
(* The invariant and what follows from it                                  *)
(***************************************************************************)
LEMMA ClientInit == Init => MutationInv /\ ClientInv
<1> SUFFICES ASSUME Init PROVE MutationInv /\ ClientInv
  OBVIOUS
<1>1. MutationInit /\ MutationInv
  BY InvInit DEF Init
<1>2. ClientTypeOK
  <2>1. MutationTypeOK
    BY <1>1 DEF MutationInv
  <2>2. client \in [Requests -> ClientStates] /\ link \in 0 .. MaxLinks
    BY DEF Init, ClientStates
  <2>3. linked \in BOOLEAN
    BY Zenon DEF Init
  <2>4. session \in [Links -> BOOLEAN] /\ queue \in [Links -> Seq(Requests)]
    BY DEF Init
  <2>5. QED
    BY <2>1, <2>2, <2>3, <2>4 DEF ClientTypeOK
<1>3. \A r \in Requests : pc[r] = "idle" /\ client[r] = "idle" /\ ~Queued(r)
  BY <1>1 DEF Init, MutationInit, Queued
<1>4. QED
  BY <1>1, <1>2, <1>3 DEF ClientInv, ReportsFinal, Unsent, Init

LEMMA ClientStepKeeps ==
    MutationInv /\ ClientInv /\ [Next]_vars => MutationInv' /\ ClientInv'
<1> SUFFICES ASSUME MutationInv, ClientInv, [Next]_vars PROVE MutationInv' /\ ClientInv'
  OBVIOUS
<1>1. MutationInv'
  BY AgentSteps, InvStep DEF ClientInv
<1>2. ClientTypeOK' /\ (linked => link \in Links)'
  BY <1>1, ClientTypeStep
<1>a. ClientTypeOK /\ (linked => link \in Links) /\ ReportsFinal
      /\ \A r \in Requests : pc[r] = "done" => answer[r] # "none"
  BY DEF ClientInv
<1>3. \A r \in Requests :
          /\ pc[r] \in Concluded => /\ pc'[r] \in Concluded
                                    /\ (r \in ran') = (r \in ran)
                                    /\ outcome'[r] = outcome[r]
          /\ Unsent(r) => pc'[r] = "idle"
          /\ pc'[r] = "done" => answer'[r] # "none"
  BY <1>a, RequestMoves
<1>4. \A r \in Requests : Unsent(r) /\ ~(client[r] = "idle" /\ client'[r] = "waiting")
          => Unsent(r)'
  BY <1>a, <1>3, QueuedStep DEF Unsent
<1>5. ASSUME NEW r \in Requests
      PROVE  /\ client'[r] = "idle" => Unsent(r)'
             /\ client'[r] = "resolved" =>
                    r \in ran' /\ outcome'[r] = "success" /\ pc'[r] \in Concluded
             /\ client'[r] = "failed" /\ r \in Composers =>
                    \/ Unsent(r)'
                    \/ pc'[r] \in Concluded /\ (r \in ran' => outcome'[r] = "error")
  <2>1. CASE client'[r] = client[r]
    BY <1>a, <1>3, <1>4, <2>1 DEF ReportsFinal
  <2>2. CASE client'[r] # client[r]
    <3>1. /\ client'[r] # "idle"
          /\ client'[r] = "resolved" =>
                 r \in ran /\ outcome[r] = "success" /\ pc[r] \in Concluded
          /\ client'[r] = "failed" /\ r \in Composers =>
                 \/ Unsent(r)
                 \/ pc[r] \in Concluded /\ (r \in ran => outcome[r] = "error")
      BY <1>1, <2>2, Reported
    <3>2. client'[r] = "failed" /\ Unsent(r) => Unsent(r)'
      BY <1>4
    <3>3. QED
      BY <1>3, <3>1, <3>2
  <2>3. QED
    BY <2>1, <2>2
<1>6. ReportsFinal'
  BY <1>5 DEF ReportsFinal
<1>7. QED
  BY <1>1, <1>2, <1>3, <1>6 DEF ClientInv

(* The inductive invariant of a page and its Agent. *)
THEOREM ClientInvariant == Spec => []ClientInv
<1>1. QED
  BY ClientInit, ClientStepKeeps, PTL DEF Spec

(* Behind connections that queue, drop and repeat, the receipts behave as they do
   for any other caller: everything proved of MutationReceipts holds here. *)
THEOREM ClientUsesReceipts == Spec => MutationSpec
<1>1. ClientInv /\ [Next]_vars => [MutationNext]_mutationVars
  BY AgentSteps DEF ClientInv
<1>2. Init => MutationInit
  BY DEF Init
<1>3. QED
  BY <1>1, <1>2, ClientInvariant, PTL DEF Spec, MutationSpec

(* durableMutation and the composer: an operation is reported as done only if its
   handler ran and succeeded, and a draft is handed back as failed only if the
   message was not accepted and never will be, over any sequence of timeouts,
   lost transports, status queries, failing transactions and crashes. *)
THEOREM PageReportsTruthful == Spec => []ReportsTruthful
<1>1. MutationInv /\ ClientInv => ReportsTruthful
  <2> SUFFICES ASSUME MutationInv, ClientInv PROVE ReportsTruthful
    OBVIOUS
  <2>1. ReportsFinal /\ Progressed
    BY DEF ClientInv, MutationInv
  <2>2. ResolvedMeansDone
    BY <2>1 DEF ReportsFinal, ResolvedMeansDone
  <2>3. ComposerFailureIsFinal
    <3>1. ASSUME NEW r \in Composers, client[r] = "failed"
          PROVE  /\ r \in ran => outcome[r] = "error"
                 /\ pc[r] = "idle" => ~Queued(r)
      BY <2>1, <3>1 DEF ReportsFinal, Progressed, Unclaimed, Unsent, Concluded
    <3>2. QED
      BY <3>1 DEF ComposerFailureIsFinal, Queued
  <2>4. QED
    BY <2>2, <2>3 DEF ReportsTruthful
<1>2. QED
  BY <1>1, ClientInvariant, ClientUsesReceipts, MutationInvariant, PTL
=============================================================================
